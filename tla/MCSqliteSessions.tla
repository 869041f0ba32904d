-------------------------- MODULE MCSqliteSessions --------------------------
(* Small instances of SqliteSessions for TLC.                                *)
EXTENDS SqliteSessions

CONSTANTS b1, b2, s1, h1, p1, c1

\* Both bookings present the same card.
MCCard == [b \in Bookings |-> c1]
=============================================================================
