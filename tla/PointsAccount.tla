--------------------------- MODULE PointsAccount ---------------------------
(***************************************************************************)
(* What the middleware promises about a customer's points, with none of    *)
(* the machinery: every earn, redemption and reversal is one indivisible   *)
(* addition to the balance the shop holds, and a redemption never takes    *)
(* the balance below zero.  The real system only has a call that replaces  *)
(* the balance by an absolute number, computed from a value read earlier;  *)
(* LoyaltyLedger shows which deployments make that look like an addition.  *)
(***************************************************************************)
EXTENDS Integers

CONSTANTS Customers,     \* the shop's customers
          Changes,       \* the balance changes clients may ask for
          OwnerOf,       \* OwnerOf[ch]: the customer ch is booked on
          AmountOf,      \* AmountOf[ch]: the points ch adds (negative: takes)
          Guarded        \* the changes that must not overdraw: redemptions

VARIABLES balance,       \* balance[c]: the points of customer c
          effects        \* effects[ch]: how often ch was added so far

accountVars == <<balance, effects>>

Init == /\ balance \in [Customers -> Int]
        /\ effects = [ch \in Changes |-> 0]

\* ch is added to its owner's balance, whatever that balance is by now.
Apply(ch) ==
    LET c == OwnerOf[ch]
    IN  /\ ch \in Guarded => balance[c] + AmountOf[ch] >= 0
        /\ balance' = [balance EXCEPT ![c] = @ + AmountOf[ch]]
        /\ effects' = [effects EXCEPT ![ch] = @ + 1]

Next == \E ch \in Changes : Apply(ch)

Spec == Init /\ [][Next]_accountVars
=============================================================================
