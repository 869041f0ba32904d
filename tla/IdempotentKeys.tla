--------------------------- MODULE IdempotentKeys ---------------------------
(***************************************************************************)
(* What the middleware promises about idempotency keys, with none of the   *)
(* machinery: however often a request is sent, it is recorded once, then   *)
(* changes the balance once, then is settled; and a booking is marked      *)
(* reversed when its reversal has gone all that way.  LoyaltyLedger shows  *)
(* in which deployment the unique column of the table and the statuses     *)
(* make that true, with any number of processes.                           *)
(***************************************************************************)
EXTENDS Integers

CONSTANTS Bookings,      \* earns and redemptions
          Reversals,     \* the reversals clients may ask for
          Undoes         \* Undoes[r]: the booking r reverses

Requests == Bookings \cup Reversals

VARIABLES status,        \* status[r]: what is known of request r
          effects        \* effects[r]: how often r changed the balance

keyVars == <<status, effects>>

Init == /\ status = [r \in Requests |-> "unknown"]
        /\ effects = [r \in Requests |-> 0]

\* What is to be done is written down first; what is reversed was settled, and
\* was not reversed before.
Record(r) == /\ status[r] = "unknown"
             /\ r \in Reversals => status[Undoes[r]] = "applied"
             /\ status' = [status EXCEPT ![r] = "pending"]
             /\ UNCHANGED effects

CarryOut(r) == /\ status[r] = "pending" /\ effects[r] = 0
               /\ effects' = [effects EXCEPT ![r] = 1]
               /\ UNCHANGED status

Settle(r) == /\ status[r] = "pending" /\ effects[r] = 1
             /\ status' = [status EXCEPT ![r] = "applied"]
             /\ UNCHANGED effects

Mark(r) == /\ r \in Reversals /\ status[r] = "applied"
           /\ status[Undoes[r]] = "applied"
           /\ status' = [status EXCEPT ![Undoes[r]] = "reversed"]
           /\ UNCHANGED effects

Next == \E r \in Requests : Record(r) \/ CarryOut(r) \/ Settle(r) \/ Mark(r)

Spec == Init /\ [][Next]_keyVars
=============================================================================
