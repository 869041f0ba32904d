---------------------------- MODULE MCRateLimit ----------------------------
(* A small instance of RateLimit for TLC.                                   *)
EXTENDS RateLimit, TLC

CONSTANTS scan, login, loop, t1, t2

MCOf == [t \in {loop, t1, t2} |-> IF t = loop THEN scan ELSE login]

Threads == Permutations({t1, t2})
=============================================================================
