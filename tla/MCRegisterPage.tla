---------------------------- MODULE MCRegisterPage ----------------------------
(* A small instance of RegisterPage for TLC.                                 *)
EXTENDS RegisterPage, TLC

CONSTANTS inline1, url1, url2

Cards == Permutations({url1, url2})
=============================================================================
