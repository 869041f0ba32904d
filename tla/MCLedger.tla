------------------------------ MODULE MCLedger ------------------------------
(* Small instances of LoyaltyLedger for TLC.                               *)
EXTENDS LoyaltyLedger, TLC

CONSTANTS k1, k2,      \* idempotency keys
          c1,          \* a customer
          h1, h2,      \* request slots
          p1, p2       \* server processes

\* k1 earns three points, k2 redeems two: k2 is covered only after k1.
EarnRedeem == [k \in Keys |-> IF k = k1 THEN 3 ELSE -2]
OneOwner   == [k \in Keys |-> c1]
OneProcess == [h \in Handlers |-> p1]
TwoProcesses == [h \in Handlers |-> IF h = h1 THEN p1 ELSE p2]
HasOne     == [c \in Customers |-> 1]
NoneYet    == [c \in Customers |-> NoAccount]

\* How often the same request is submitted.
Once  == [id \in Ids |-> 1]
Twice == [id \in Ids |-> 2]
\* Both bookings once, and the reversal of the earning.
EarnReversed == [id \in Ids |-> IF id = <<k2, "reversal">> THEN 0 ELSE 1]
\* The earn and its reversal twice, the redemption once.
RetriedEarn == [id \in Ids |-> IF id[1] = k1 THEN 2
                               ELSE IF IsReversal(id) THEN 0 ELSE 1]

\* The slots of one process are interchangeable.
Slots == Permutations({h1, h2})
=============================================================================
