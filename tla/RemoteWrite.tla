---------------------------- MODULE RemoteWrite ----------------------------
(***************************************************************************)
(* What a handler may rely on when it awaits a setCustomer call: whatever  *)
(* logins, refusals and retries go on underneath, the shop carries the     *)
(* write out once or not at all, and the result tells as much about it as  *)
(* LoyaltyLedger and Onboarding assume.                                    *)
(***************************************************************************)
EXTENDS Integers

CONSTANTS Writes,   \* the calls
          None      \* no result yet

VARIABLES result,   \* result[w]: what the awaiting handler got
          effects   \* effects[w]: how often the shop was changed by w

remoteVars == <<result, effects>>

Init == /\ result = [w \in Writes |-> None]
        /\ effects = [w \in Writes |-> 0]

\* After a timeout the shop may still be at it.
CarryOut(w) == /\ result[w] \in {None, "lost"} /\ effects[w] = 0
               /\ effects' = [effects EXCEPT ![w] = 1]
               /\ UNCHANGED result

\* "ok" is only said of a write that took effect, and a refusal only of one
\* that did not; an unreadable answer and a timeout say nothing.
Return(w, how) == /\ result[w] = None
                  /\ how = "ok" => effects[w] = 1
                  /\ how \in {"unauthorized", "forbidden"} => effects[w] = 0
                  /\ result' = [result EXCEPT ![w] = how]
                  /\ UNCHANGED effects

Results == {"ok", "error", "lost", "unauthorized", "forbidden"}

Next == \E w \in Writes : CarryOut(w) \/ \E how \in Results : Return(w, how)

Spec == Init /\ [][Next]_remoteVars
=============================================================================
