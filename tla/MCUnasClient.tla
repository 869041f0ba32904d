---------------------------- MODULE MCUnasClient ----------------------------
(* A small instance of UnasClient for TLC.                                  *)
EXTENDS UnasClient

CONSTANTS r1, w1
=============================================================================
