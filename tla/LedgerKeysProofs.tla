-------------------------- MODULE LedgerKeysProofs --------------------------
(***************************************************************************)
(* What holds of one idempotency key in LoyaltyLedger, for every set of    *)
(* customers, keys, handlers and processes, in two deployments: clients    *)
(* that never repeat a key (the register page), whatever fails; and        *)
(* clients that repeat keys at will while writes and commits succeed, in   *)
(* which case the ledger implements IdempotentKeys.                        *)
(* The actions are first sorted by what they do to one task, to one row    *)
(* and to the effects; the invariants are then kept by each sort.          *)
(***************************************************************************)
EXTENDS LoyaltyLedgerProofs, FiniteSetTheorems

Before == {"wait", "validate", "observe", "record"}
Sent   == {"put", "reply"}

\* The reversal of a booking; Original is its inverse.
Reversal(id) == <<id[1], "reversal">>

\* Reversal and Original undo each other.
LEMMA ReversalFacts ==
    ASSUME NEW id \in Ids
    PROVE  /\ Reversal(id) \in Ids /\ IsReversal(Reversal(id))
           /\ Original(Reversal(id)) = Original(id)
           /\ ~IsReversal(Original(id))
           /\ IF IsReversal(id) THEN Reversal(Original(id)) = id
                                ELSE Original(Reversal(id)) = id
  BY DEF Ids, Reversal, Original, IsReversal

-----------------------------------------------------------------------------
(* The sorts of steps.                                                     *)

\* Slot h stays with its request.
Stays(h) == task'[h].id = task[h].id /\ task'[h].seen = task[h].seen

\* Slot h is done; a write that timed out and is still under way stays.
Over(h) == IF task[h].reply = "late"
           THEN task'[h].at = "orphan" /\ Stays(h) /\ task'[h].reply = "late"
           ELSE task'[h] = IdleTask

\* No slot but h moves.
Alone(h) == \A g \in Handlers \ {h} : task'[g] = task[g]

\* Of the table, only the status of the row id changes.
SetTo(id, status) ==
    /\ rows'[id] # None /\ rows'[id].status = status
    /\ rows'[id].fresh = rows[id].fresh /\ rows'[id].after = rows[id].after
    /\ \A x \in Ids \ {id} : rows'[x] = rows[x]

Quiet == UNCHANGED <<rows, effects>>

Leaves(h) ==
    /\ task[h].at \notin {"idle", "orphan"}
    /\ task[h].at \in Sent =>
          task[h].reply \in {"lost", "late"} \/ "dbError" \in Environment
    /\ Over(h) /\ Quiet

Advances(h) ==
    /\ task[h].at \in Before /\ task'[h].at \in Before
    /\ Stays(h) /\ task'[h].reply = task[h].reply /\ Quiet

LooksUp(h) ==
    /\ task[h].at \in Before /\ task'[h].at = "observe"
    /\ ~AppliedBefore(task[h].id) /\ ~FreshPending(task[h].id)
    /\ task'[h].id = task[h].id /\ task'[h].seen = rows[task[h].id]
    /\ task'[h].reply = task[h].reply /\ Quiet

Replays(h) ==
    /\ task[h].at \in Before /\ task'[h].at = "mark"
    /\ IsReversal(task[h].id) /\ Has(task[h].id, "applied")
    /\ Stays(h) /\ task'[h].reply = task[h].reply /\ Quiet

Inserts(h) ==
    /\ task[h].at = "record" /\ task'[h].at = "put"
    /\ rows[task[h].id] = None
    /\ rows'[task[h].id] # None
    /\ rows'[task[h].id].status = "pending" /\ rows'[task[h].id].fresh
    /\ rows'[task[h].id].after = task[h].got + Delta(task[h].id)
    /\ \A x \in Ids \ {task[h].id} : rows'[x] = rows[x]
    /\ Stays(h) /\ task'[h].reply = task[h].reply /\ UNCHANGED effects

Renews(h) ==
    /\ task[h].at = "record" /\ task[h].seen # None
    /\ task'[h].at = "put" /\ Stays(h) /\ UNCHANGED effects

Writes(h) ==
    /\ task[h].at = "put" /\ task'[h].at = "reply" /\ Stays(h)
    /\ task'[h].reply \in {"ok", "error", "lost"}
    /\ task'[h].reply # "ok" => {"garbled", "lost"} \cap Environment # {}
    /\ task'[h].reply = "error" => "garbled" \in Environment
    /\ effects' = [effects EXCEPT ![task[h].id] = @ + 1] /\ UNCHANGED rows

Declines(h) ==
    /\ task[h].at = "put" /\ task'[h].at = "reply" /\ Stays(h)
    /\ task'[h].reply \in {"error", "lost", "late"}
    /\ {"reject", "lost", "late"} \cap Environment # {}
    /\ Quiet

Applies(h) ==
    /\ task[h].at = "reply" /\ task[h].reply = "ok"
    /\ SetTo(task[h].id, "applied") /\ UNCHANGED effects
    /\ IF IsReversal(task[h].id)
       THEN task'[h].at = "mark" /\ Stays(h) /\ task'[h].reply = "ok"
       ELSE task'[h] = IdleTask

Fails(h) ==
    /\ task[h].at = "reply" /\ task[h].reply = "error"
    /\ SetTo(task[h].id, "failed") /\ UNCHANGED effects
    /\ task'[h] = IdleTask

Marks(h) ==
    /\ task[h].at = "mark"
    /\ SetTo(Original(task[h].id), "reversed") /\ UNCHANGED effects
    /\ task'[h] = IdleTask

Sorted(h) ==
    \/ Leaves(h) \/ Advances(h) \/ LooksUp(h) \/ Replays(h) \/ Inserts(h)
    \/ Renews(h) \/ Writes(h) \/ Declines(h) \/ Applies(h) \/ Fails(h)
    \/ Marks(h)

Serves(h) ==
    /\ task[h].at \notin {"idle", "orphan"} /\ task[h].id \in Ids
    /\ Alone(h) /\ UNCHANGED <<worker, submitted>>
    /\ Sorted(h)

\* Committing a status through SetStatus changes that one row.
LEMMA SetStatusSets ==
    ASSUME TypeOK, NEW id \in Ids, rows[id] # None, NEW status \in Statuses,
           SetStatus(id, status)
    PROVE  SetTo(id, status)
  <1>1. rows[id] \in Row /\ rows \in [Ids -> Row \cup {None}]
    BY DEF TypeOK
  <1>2. rows' = [rows EXCEPT ![id] = [rows[id] EXCEPT !.status = status]]
    BY DEF SetStatus
  <1>3. [rows[id] EXCEPT !.status = status] \in Row
    BY <1>1 DEF Row
  <1>4. rows'[id] = [rows[id] EXCEPT !.status = status]
    BY <1>1, <1>2
  <1>5. /\ rows'[id].status = status /\ rows'[id].fresh = rows[id].fresh
        /\ rows'[id].after = rows[id].after
    BY <1>1, <1>4 DEF Row
  <1>6. \A x \in Ids \ {id} : rows'[x] = rows[x]
    BY <1>1, <1>2
  <1>7. QED
    BY <1>3, <1>4, <1>5, <1>6, ConstantFacts DEF SetTo

\* Answering is leaving, and touches no other slot.
LEMMA AnswerIsOver ==
    ASSUME Located, NEW h \in Handlers, Answer(h), task[h].at # "idle"
    PROVE  Over(h) /\ Alone(h)
  <1>1. task \in [Handlers -> Task] /\ task[h] \in Task
    BY DEF Located, TypeOK
  <1>2. task' = [task EXCEPT ![h] = IF task[h].reply = "late"
                                    THEN [task[h] EXCEPT !.at = "orphan"]
                                    ELSE IdleTask]
    BY DEF Answer
  <1>3. Alone(h)
    BY <1>1, <1>2 DEF Alone
  <1>4. task'[h] = IF task[h].reply = "late"
                   THEN [task[h] EXCEPT !.at = "orphan"] ELSE IdleTask
    BY <1>1, <1>2
  <1>5. CASE task[h].reply = "late"
    BY <1>1, <1>3, <1>4, <1>5 DEF Over, Stays, Task
  <1>6. CASE task[h].reply # "late"
    BY <1>3, <1>4, <1>6 DEF Over
  <1>7. QED
    BY <1>3, <1>5, <1>6

\* Every step of a request is of one of the sorts.
LEMMA ProceedSorted ==
    ASSUME Located, NEW h \in Handlers, Proceed(h)
    PROVE  Serves(h)
  <1> DEFINE id == task[h].id
  <1>1. task \in [Handlers -> Task] /\ task[h] \in Task /\ TaskLocated(task[h], rows)
    BY DEF Located, TypeOK, TasksLocated
  <1>2. task[h].at \notin {"idle", "orphan"} /\ UNCHANGED <<worker, submitted>>
    BY DEF Proceed, LockForRedeem, AlreadyReversed, RefuseOverdraw,
       ReplayApplied, RefuseInFlight, Lookup, ReadFails, Observe, Entering,
       InsertPending, DuplicateKey, UpdatePending, UnasApplies, UnasDeclines,
       FinishApplied, FinishFailed, FinishUncertain, MarkReversed,
       Unmarked, CommitFails
  <1>3. id \in Ids /\ Original(id) \in Ids
    BY <1>1, <1>2, ConstantFacts DEF TaskLocated
  <1>4. Answer(h) => Over(h) /\ Alone(h)
    BY <1>2, AnswerIsOver
  <1>5. ASSUME NEW t, task' = [task EXCEPT ![h] = t]
        PROVE  Alone(h) /\ task'[h] = t
    BY <1>1, <1>5 DEF Alone
  <1>6. CASE \/ AlreadyReversed(h) \/ RefuseOverdraw(h) \/ RefuseInFlight(h)
             \/ ReadFails(h) \/ DuplicateKey(h) \/ FinishUncertain(h)
             \/ Unmarked(h) \/ CommitFails(h)
    <2>1. Answer(h) /\ Quiet
      BY <1>6 DEF AlreadyReversed, RefuseOverdraw, RefuseInFlight, ReadFails,
         DuplicateKey, FinishUncertain, Unmarked, CommitFails, Quiet
    <2>2. task[h].at \in Sent =>
              task[h].reply \in {"lost", "late"} \/ "dbError" \in Environment
      BY <1>6 DEF AlreadyReversed, RefuseOverdraw, RefuseInFlight, ReadFails,
         DuplicateKey, FinishUncertain, Unmarked, CommitFails, Entering, Sent
    <2>3. QED
      BY <1>2, <1>3, <1>4, <2>1, <2>2 DEF Serves, Sorted, Leaves
  <1>7. CASE LockForRedeem(h)
    <2>1. /\ task' = [task EXCEPT ![h] = [task[h] EXCEPT !.at = "validate"]]
          /\ task[h].at = "wait" /\ Quiet
      BY <1>7 DEF LockForRedeem, Quiet
    <2>2. Alone(h) /\ task'[h] = [task[h] EXCEPT !.at = "validate"]
      BY <2>1, <1>5
    <2>3. Advances(h)
      BY <1>1, <2>1, <2>2 DEF Advances, Stays, Before, Task
    <2>4. QED
      BY <1>2, <1>3, <2>2, <2>3 DEF Serves, Sorted
  <1>8. CASE ReplayApplied(h)
    <2>1. /\ task[h].at \in {"wait", "validate"} /\ Has(id, "applied") /\ Quiet
      BY <1>8 DEF ReplayApplied, Entering, AppliedBefore, Quiet
    <2>2. CASE IsReversal(id)
      <3>1. task' = [task EXCEPT ![h] = [task[h] EXCEPT !.at = "mark"]]
        BY <1>8, <2>2 DEF ReplayApplied
      <3>2. Alone(h) /\ task'[h] = [task[h] EXCEPT !.at = "mark"]
        BY <3>1, <1>5
      <3>3. Replays(h)
        BY <1>1, <2>1, <2>2, <3>2 DEF Replays, Stays, Before, Task
      <3>4. QED
        BY <1>2, <1>3, <3>2, <3>3 DEF Serves, Sorted
    <2>3. CASE ~IsReversal(id)
      <3>1. Answer(h)
        BY <1>8, <2>3 DEF ReplayApplied
      <3>2. Leaves(h)
        BY <1>2, <1>4, <2>1, <3>1 DEF Leaves, Sent
      <3>3. QED
        BY <1>2, <1>3, <1>4, <3>1, <3>2 DEF Serves, Sorted
    <2>4. QED
      BY <2>2, <2>3
  <1>9. CASE Lookup(h)
    <2> DEFINE t == [task[h] EXCEPT !.at = "observe", !.seen = rows[id]]
    <2>1. /\ task' = [task EXCEPT ![h] = t] /\ Quiet
          /\ task[h].at \in {"wait", "validate"}
          /\ ~AppliedBefore(id) /\ ~FreshPending(id)
      BY <1>9 DEF Lookup, Entering, Quiet
    <2>2. Alone(h) /\ task'[h] = t
      BY <2>1, <1>5
    <2>3. LooksUp(h)
      BY <1>1, <2>1, <2>2 DEF LooksUp, Before, Task
    <2>4. QED
      BY <1>2, <1>3, <2>2, <2>3 DEF Serves, Sorted
  <1>10. CASE Observe(h)
    <2> DEFINE t == [task[h] EXCEPT !.at = "record",
                                    !.got = Balance(Customer(id))]
    <2>1. task' = [task EXCEPT ![h] = t] /\ Quiet /\ task[h].at = "observe"
      BY <1>10 DEF Observe, Quiet
    <2>2. Alone(h) /\ task'[h] = t
      BY <2>1, <1>5
    <2>3. Advances(h)
      BY <1>1, <2>1, <2>2 DEF Advances, Stays, Before, Task
    <2>4. QED
      BY <1>2, <1>3, <2>2, <2>3 DEF Serves, Sorted
  <1>11. CASE InsertPending(h)
    <2> DEFINE t == [task[h] EXCEPT !.at = "put"]
               r == [status |-> "pending", after |-> task[h].got + Delta(id),
                     fresh |-> TRUE]
    <2>1. /\ task' = [task EXCEPT ![h] = t] /\ UNCHANGED effects
          /\ task[h].at = "record" /\ rows[id] = None
          /\ rows' = [rows EXCEPT ![id] = r]
      BY <1>11 DEF InsertPending
    <2>2. Alone(h) /\ task'[h] = t
      BY <2>1, <1>5
    <2>3. task[h].got \in Int
      BY <1>1, <2>1 DEF TaskLocated, Task
    <2>4. r \in Row
      BY <1>3, <2>3, ConstantFacts DEF Row, Statuses
    <2>5. rows'[id] = r /\ \A x \in Ids \ {id} : rows'[x] = rows[x]
      BY <1>3, <2>1 DEF Located, TypeOK
    <2>6. /\ r # None /\ r.status = "pending" /\ r.fresh
          /\ r.after = task[h].got + Delta(id)
      BY <2>4, ConstantFacts
    <2>7. /\ task'[h].at = "put" /\ Stays(h)
          /\ task'[h].reply = task[h].reply
      BY <1>1, <2>2 DEF Stays, Task
    <2>8. Inserts(h)
      BY <2>1, <2>5, <2>6, <2>7 DEF Inserts
    <2>9. QED
      BY <1>2, <1>3, <2>2, <2>8 DEF Serves, Sorted
  <1>12. CASE UpdatePending(h)
    <2>1. /\ task' = [task EXCEPT ![h] = [task[h] EXCEPT !.at = "put"]]
          /\ task[h].at = "record" /\ task[h].seen # None /\ UNCHANGED effects
      BY <1>12 DEF UpdatePending
    <2>2. Alone(h) /\ task'[h] = [task[h] EXCEPT !.at = "put"]
      BY <2>1, <1>5
    <2>3. Renews(h)
      BY <1>1, <2>1, <2>2 DEF Renews, Stays, Task
    <2>4. QED
      BY <1>2, <1>3, <2>2, <2>3 DEF Serves, Sorted
  <1>13. ASSUME NEW reply \in Replies, UnasApplies(h, reply)
         PROVE  Alone(h) /\ Sorted(h)
    <2> DEFINE t == [task[h] EXCEPT !.at = "reply", !.reply = reply]
    <2>1. /\ task' = [task EXCEPT ![h] = t] /\ UNCHANGED rows
          /\ task[h].at = "put"
          /\ reply \in {"ok", "error", "lost"}
          /\ reply # "ok" => {"garbled", "lost"} \cap Environment # {}
          /\ reply = "error" => "garbled" \in Environment
          /\ effects' = [effects EXCEPT ![id] = @ + 1]
      BY <1>13 DEF UnasApplies, WriteBalance
    <2>2. Alone(h) /\ task'[h] = t
      BY <2>1, <1>5
    <2>3. task'[h].at = "reply" /\ Stays(h) /\ task'[h].reply = reply
      BY <1>1, <2>2 DEF Stays, Task
    <2>4. Writes(h)
      BY <2>1, <2>3 DEF Writes
    <2>5. QED
      BY <2>2, <2>4 DEF Serves, Sorted
  <1>14. ASSUME NEW reply \in Replies, UnasDeclines(h, reply)
         PROVE  Alone(h) /\ Sorted(h)
    <2> DEFINE t == [task[h] EXCEPT !.at = "reply", !.reply = reply]
    <2>1. /\ task' = [task EXCEPT ![h] = t] /\ Quiet
          /\ task[h].at = "put"
          /\ reply \in {"error", "lost", "late"}
          /\ {"reject", "lost", "late"} \cap Environment # {}
      BY <1>14 DEF UnasDeclines, Quiet
    <2>2. Alone(h) /\ task'[h] = t
      BY <2>1, <1>5
    <2>3. task'[h].at = "reply" /\ Stays(h) /\ task'[h].reply = reply
      BY <1>1, <2>2 DEF Stays, Task
    <2>4. Declines(h)
      BY <2>1, <2>3 DEF Declines
    <2>5. QED
      BY <2>2, <2>4 DEF Serves, Sorted
  <1>15. CASE FinishApplied(h)
    <2>1. /\ task[h].at = "reply" /\ task[h].reply = "ok" /\ UNCHANGED effects
          /\ SetStatus(id, "applied") /\ rows[id] # None
      BY <1>1, <1>15 DEF FinishApplied, TaskLocated
    <2>2. SetTo(id, "applied")
      BY <1>3, <2>1, SetStatusSets DEF Located, Statuses
    <2>3. CASE IsReversal(id)
      <3>1. task' = [task EXCEPT ![h] = [task[h] EXCEPT !.at = "mark"]]
        BY <1>15, <2>3 DEF FinishApplied
      <3>2. Alone(h) /\ task'[h] = [task[h] EXCEPT !.at = "mark"]
        BY <3>1, <1>5
      <3>3. task'[h].at = "mark" /\ Stays(h) /\ task'[h].reply = "ok"
        BY <1>1, <2>1, <3>2 DEF Stays, Task
      <3>4. QED
        BY <1>2, <1>3, <2>1, <2>2, <2>3, <3>2, <3>3 DEF Serves, Applies, Sorted
    <2>4. CASE ~IsReversal(id)
      <3>1. Over(h) /\ Alone(h)
        BY <1>4, <1>15, <2>4 DEF FinishApplied
      <3>2. task'[h] = IdleTask
        BY <2>1, <3>1 DEF Over
      <3>3. QED
        BY <1>2, <1>3, <2>1, <2>2, <2>4, <3>1, <3>2 DEF Serves, Applies, Sorted
    <2>5. QED
      BY <2>3, <2>4
  <1>16. CASE FinishFailed(h)
    <2>1. /\ task[h].at = "reply" /\ task[h].reply = "error"
          /\ UNCHANGED effects
          /\ SetStatus(id, "failed") /\ rows[id] # None /\ Answer(h)
      BY <1>1, <1>16 DEF FinishFailed, TaskLocated
    <2>2. SetTo(id, "failed")
      BY <1>3, <2>1, SetStatusSets DEF Located, Statuses
    <2>3. Alone(h) /\ task'[h] = IdleTask
      BY <1>4, <2>1 DEF Over
    <2>4. QED
      BY <1>2, <1>3, <2>1, <2>2, <2>3 DEF Serves, Fails, Sorted
  <1>17. CASE MarkReversed(h)
    <2>1. /\ task[h].at = "mark" /\ UNCHANGED effects /\ Answer(h)
          /\ SetStatus(Original(id), "reversed") /\ rows[Original(id)] # None
      BY <1>1, <1>17 DEF MarkReversed, TaskLocated
    <2>2. SetTo(Original(id), "reversed")
      BY <1>3, <2>1, SetStatusSets DEF Located, Statuses
    <2>3. task[h].reply # "late"
      BY <1>1, <2>1 DEF TaskLocated
    <2>4. Alone(h) /\ task'[h] = IdleTask
      BY <1>4, <2>1, <2>3 DEF Over
    <2>5. QED
      BY <1>2, <1>3, <2>1, <2>2, <2>4 DEF Serves, Marks, Sorted
  <1>18. QED
    BY <1>2, <1>3, <1>6, <1>7, <1>8, <1>9, <1>10, <1>11, <1>12, <1>13, <1>14,
       <1>15, <1>16, <1>17 DEF Proceed, Serves

-----------------------------------------------------------------------------
(* The steps around the requests, sorted likewise.                         *)

\* A write that timed out takes effect.
Lands(h) ==
    /\ task[h].at = "orphan" /\ task'[h] = IdleTask /\ Alone(h)
    /\ effects' = [effects EXCEPT ![task[h].id] = @ + 1]
    /\ UNCHANGED <<rows, worker, submitted>>

Arrives(h, id) ==
    /\ submitted[id] < Attempts[id] /\ ClientMaySubmit(id)
    /\ IsReversal(id) => Has(Original(id), "applied")
    /\ task[h].at = "idle" /\ Alone(h)
    /\ task'[h].at = "wait" /\ task'[h].id = id
    /\ task'[h].seen = None /\ task'[h].reply = None
    /\ submitted' = [submitted EXCEPT ![id] = @ + 1]
    /\ UNCHANGED <<rows, effects, worker>>

Ages(id) ==
    /\ rows[id] # None
    /\ \/ "slow" \in Environment
       \/ \A h \in Handlers : task[h].id = id => task[h].at \notin Sent
                                                \/ task[h].seen # None
    /\ rows'[id] # None /\ rows'[id].status = rows[id].status
    /\ ~rows'[id].fresh /\ rows'[id].after = rows[id].after
    /\ \A x \in Ids \ {id} : rows'[x] = rows[x]
    /\ UNCHANGED <<task, effects, worker, submitted>>

\* The row is in process i's batch.
Holds(i, id) == id \in worker[i].todo \/ id = worker[i].cur

\* The worker of process i fetches a batch, or it goes on with the one it
\* has, perhaps after a verdict on the current row.
Fetches(i) ==
    /\ StalePending # {} /\ UNCHANGED rows
    /\ \A id \in Ids : Holds(i, id)' => id \in StalePending

Judges(i) ==
    /\ worker[i].cur \in Ids /\ worker[i].got # None
    /\ \E status \in {"applied", "failed"} :
          status = Verdict(i) /\ SetTo(worker[i].cur, status)
    /\ \A id \in Ids : Holds(i, id)' => id \in worker[i].todo

Carries(i) ==
    /\ worker[i].cur # None /\ UNCHANGED rows
    /\ \A id \in Ids : Holds(i, id)' => Holds(i, id)

\* The current row is not also one of those to come.
InOrder(i) == worker[i].cur \notin worker[i].todo

Works(i) ==
    /\ Fetches(i) \/ Judges(i) \/ Carries(i)
    /\ InOrder(i) => InOrder(i)'
    /\ \A j \in Instances \ {i} : worker'[j] = worker[j]
    /\ UNCHANGED <<task, submitted, effects>>

Dies(i) ==
    /\ crashes < MaxCrashes
    /\ \A g \in Handlers :
          \/ task'[g] = task[g]
          \/ task'[g] = IdleTask
          \/ /\ task[g].at = "put" \/ task[g].reply = "late"
             /\ task'[g].at = "orphan" /\ Stays(g)
             /\ task'[g].reply = task[g].reply
    /\ worker'[i] = IdleWorker
    /\ \A j \in Instances \ {i} : worker'[j] = worker[j]
    /\ UNCHANGED <<rows, submitted, effects>>

Calm == UNCHANGED <<rows, task, worker, submitted, effects>>

\* Arrivals, the passing of time, crashes and the like are of those sorts.
LEMMA SurroundingSorted ==
    ASSUME Located
    PROVE  /\ \A h \in Handlers : LateWrite(h) => Lands(h)
           /\ \A h \in Handlers, id \in Ids : Submit(h, id) => Arrives(h, id)
           /\ \A id \in Ids : Age(id) => Ages(id)
           /\ \A i \in Instances : Crash(i) => Dies(i)
           /\ \A c \in Customers, d \in ExternalDeltas : External(c, d) => Calm
  <1>1. task \in [Handlers -> Task] /\ rows \in [Ids -> Row \cup {None}]
    BY DEF Located, TypeOK
  <1>2. ASSUME NEW h \in Handlers, LateWrite(h) PROVE Lands(h)
    BY <1>1, <1>2 DEF LateWrite, WriteBalance, Lands, Alone
  <1>3. ASSUME NEW h \in Handlers, NEW id \in Ids, Submit(h, id)
        PROVE  Arrives(h, id)
    <2> DEFINE t == [IdleTask EXCEPT !.at = "wait", !.id = id]
    <2>1. task'[h] = t /\ Alone(h)
      BY <1>1, <1>3 DEF Submit, Alone
    <2>2. t.at = "wait" /\ t.id = id /\ t.seen = None /\ t.reply = None
      BY DEF IdleTask
    <2>3. QED
      BY <1>3, <2>1, <2>2 DEF Submit, Arrives
  <1>4. ASSUME NEW id \in Ids, Age(id) PROVE Ages(id)
    <2> DEFINE r == [rows[id] EXCEPT !.fresh = FALSE]
    <2>1. rows[id] \in Row /\ r \in Row
      BY <1>1, <1>4 DEF Age, Row
    <2>2. rows'[id] = r /\ \A x \in Ids \ {id} : rows'[x] = rows[x]
      BY <1>1, <1>4 DEF Age
    <2>3. /\ r # None /\ r.status = rows[id].status /\ ~r.fresh
          /\ r.after = rows[id].after
      BY <2>1, ConstantFacts DEF Row
    <2>4. QED
      BY <1>4, <2>2, <2>3 DEF Age, Ages, Sent
  <1>5. ASSUME NEW i \in Instances, Crash(i) PROVE Dies(i)
    <2> DEFINE dead == {h \in Handlers : Home[h] = i /\ task[h].at # "orphan"}
    <2>1. PICK sent \in SUBSET {h \in dead : task[h].at = "put"} :
              task' = [h \in Handlers |->
                    IF h \notin dead THEN task[h]
                    ELSE IF h \in sent \/ task[h].reply = "late"
                         THEN [task[h] EXCEPT !.at = "orphan"]
                         ELSE IdleTask]
      BY <1>5 DEF Crash
    <2>2. ASSUME NEW g \in Handlers
          PROVE  \/ task'[g] = task[g]
                 \/ task'[g] = IdleTask
                 \/ /\ task[g].at = "put" \/ task[g].reply = "late"
                    /\ task'[g].at = "orphan" /\ Stays(g)
                    /\ task'[g].reply = task[g].reply
      <3>1. \/ task'[g] = task[g]
            \/ task'[g] = IdleTask
            \/ /\ task[g].at = "put" \/ task[g].reply = "late"
               /\ task'[g] = [task[g] EXCEPT !.at = "orphan"]
        BY <2>1
      <3>2. QED
        BY <1>1, <3>1 DEF Stays, Task
    <2>3. worker'[i] = IdleWorker /\ \A j \in Instances \ {i} : worker'[j] = worker[j]
      BY <1>5 DEF Crash, Located, TypeOK
    <2>4. QED
      BY <1>5, <2>2, <2>3 DEF Crash, Dies
  <1>6. ASSUME NEW c \in Customers, NEW d \in ExternalDeltas, External(c, d)
        PROVE  Calm
    BY <1>6 DEF External, Calm
  <1>7. QED
    BY <1>2, <1>3, <1>4, <1>5, <1>6

\* The worker goes on with rows of the batch, each of them once.
LEMMA ContinuationsOf ==
    ASSUME NEW todo \in SUBSET Ids, NEW snap, NEW table,
           NEW w \in Continuations(todo, snap, table)
    PROVE  /\ w.todo \subseteq todo
           /\ w.cur = None \/ w.cur \in todo
           /\ w.cur \notin w.todo
  <1>1. CASE todo = {}
    BY <1>1, ConstantFacts DEF Continuations, IdleWorker
  <1>2. CASE todo # {}
    <2>1. PICK id \in todo :
             w = [todo |-> todo \ {id}, cur |-> id, got |-> None,
                  snap |-> IF snap[id] = None
                           THEN [snap EXCEPT ![id] = table[id]] ELSE snap]
      BY <1>2 DEF Continuations
    <2>2. w.todo = todo \ {id} /\ w.cur = id
      BY <2>1
    <2>3. QED
      BY <2>2
  <1>3. QED
    BY <1>1, <1>2

\* So is every step of the worker.
LEMMA ReconcileSorted ==
    ASSUME Located, NEW i \in Instances, Reconcile(i)
    PROVE  Works(i)
  <1>1. /\ worker \in [Instances -> Reconciler]
        /\ worker[i] \in Reconciler /\ WorkerLocated(worker[i], rows)
    BY DEF Located, TypeOK, WorkersLocated
  <1>2. worker[i].todo \in SUBSET Ids /\ worker[i].cur \in Ids \cup {None}
    BY <1>1 DEF Reconciler
  <1>3. ASSUME NEW w, worker' = [worker EXCEPT ![i] = w]
        PROVE  worker'[i] = w /\ \A j \in Instances \ {i} : worker'[j] = worker[j]
    BY <1>1, <1>3
  <1>4. UNCHANGED <<task, submitted, effects>>
    BY DEF Reconcile, WorkerSelect, WorkerRead, WorkerSkip, WorkerVerdict,
       WorkerAborts
  <1>5. CASE WorkerSelect(i)
    <2>1. StalePending # {} /\ UNCHANGED rows
      BY <1>5 DEF WorkerSelect
    <2>2. PICK batch \in SUBSET StalePending :
             \E w \in Continuations(batch, [id \in Ids |->
                         IF id \in batch THEN rows[id] ELSE None], rows) :
                worker' = [worker EXCEPT ![i] = w]
      BY <1>5 DEF WorkerSelect
    <2> DEFINE snap == [id \in Ids |-> IF id \in batch THEN rows[id] ELSE None]
    <2>3. PICK w \in Continuations(batch, snap, rows) :
             worker' = [worker EXCEPT ![i] = w]
      BY <2>2
    <2>4. batch \in SUBSET Ids
      BY DEF StalePending
    <2>5. /\ w.todo \subseteq batch
          /\ w.cur = None \/ w.cur \in batch
          /\ w.cur \notin w.todo
      BY <2>4, ContinuationsOf
    <2>6. worker'[i] = w /\ \A j \in Instances \ {i} : worker'[j] = worker[j]
      BY <1>3, <2>3
    <2>7. Fetches(i)
      BY <2>1, <2>5, <2>6, ConstantFacts DEF Fetches, Holds
    <2>8. QED
      BY <1>4, <2>5, <2>6, <2>7 DEF Works, InOrder
  <1>6. CASE WorkerRead(i)
    <2> DEFINE w == [worker[i] EXCEPT !.got = account[Customer(worker[i].cur)]]
    <2>1. /\ worker' = [worker EXCEPT ![i] = w] /\ UNCHANGED rows
          /\ worker[i].cur # None
      BY <1>6 DEF WorkerRead
    <2>2. worker'[i] = w /\ \A j \in Instances \ {i} : worker'[j] = worker[j]
      BY <1>3, <2>1
    <2>3. worker'[i].todo = worker[i].todo /\ worker'[i].cur = worker[i].cur
      BY <1>1, <2>2 DEF Reconciler
    <2>4. Carries(i)
      BY <2>1, <2>3 DEF Carries, Holds
    <2>5. QED
      BY <1>4, <2>2, <2>3, <2>4 DEF Works, InOrder
  <1>7. CASE WorkerSkip(i)
    <2>1. UNCHANGED rows /\ worker[i].cur # None
      BY <1>7 DEF WorkerSkip
    <2>2. PICK w \in Continuations(worker[i].todo, worker[i].snap, rows) :
             worker' = [worker EXCEPT ![i] = w]
      BY <1>7 DEF WorkerSkip
    <2>3. /\ w.todo \subseteq worker[i].todo
          /\ w.cur = None \/ w.cur \in worker[i].todo
          /\ w.cur \notin w.todo
      BY <1>2, ContinuationsOf
    <2>4. worker'[i] = w /\ \A j \in Instances \ {i} : worker'[j] = worker[j]
      BY <1>3, <2>2
    <2>5. Carries(i)
      BY <2>1, <2>3, <2>4, ConstantFacts DEF Carries, Holds
    <2>6. QED
      BY <1>4, <2>3, <2>4, <2>5 DEF Works, InOrder
  <1>8. CASE WorkerVerdict(i)
    <2> DEFINE id == worker[i].cur
    <2>1. id \in Ids /\ rows[id] # None
      BY <1>1, <1>2, <1>8 DEF WorkerVerdict, WorkerLocated
    <2>2. PICK w \in Continuations(worker[i].todo, IdleWorker.snap, rows') :
             worker' = [worker EXCEPT ![i] = w]
      BY <1>8 DEF WorkerVerdict
    <2>3. /\ w.todo \subseteq worker[i].todo
          /\ w.cur = None \/ w.cur \in worker[i].todo
          /\ w.cur \notin w.todo
      BY <1>2, ContinuationsOf
    <2>4. worker'[i] = w /\ \A j \in Instances \ {i} : worker'[j] = worker[j]
      BY <1>3, <2>2
    <2>5. \A x \in Ids : Holds(i, x)' => x \in worker[i].todo
      BY <2>3, <2>4, ConstantFacts DEF Holds
    <2>6. CASE UNCHANGED rows
      <3>1. Carries(i)
        BY <2>1, <2>5, <2>6, ConstantFacts DEF Carries, Holds
      <3>2. QED
        BY <1>4, <2>3, <2>4, <3>1 DEF Works, InOrder
    <2>7. CASE rows' = [rows EXCEPT ![id].status = Verdict(i)]
      <3>1. Verdict(i) \in {"applied", "failed"}
        BY DEF Verdict
      <3>2. Verdict(i) \in Statuses
        BY <3>1 DEF Statuses
      <3>3. SetTo(id, Verdict(i))
        BY <2>1, <2>7, <3>2, SetStatusSets DEF SetStatus, Located
      <3>4. Judges(i)
        BY <1>8, <2>1, <2>5, <3>1, <3>3 DEF Judges, WorkerVerdict
      <3>5. QED
        BY <1>4, <2>3, <2>4, <3>4 DEF Works, InOrder
    <2>8. QED
      BY <1>8, <2>6, <2>7 DEF WorkerVerdict
  <1>9. CASE WorkerAborts(i)
    <2>1. /\ worker' = [worker EXCEPT ![i] = IdleWorker] /\ UNCHANGED rows
          /\ worker[i].cur # None
      BY <1>9 DEF WorkerAborts
    <2>2. worker'[i] = IdleWorker /\ \A j \in Instances \ {i} : worker'[j] = worker[j]
      BY <1>3, <2>1
    <2>3. IdleWorker.todo = {} /\ IdleWorker.cur = None
      BY DEF IdleWorker
    <2>4. Carries(i)
      BY <2>1, <2>2, <2>3, ConstantFacts DEF Carries, Holds
    <2>5. QED
      BY <1>4, <2>2, <2>3, <2>4 DEF Works, InOrder
  <1>10. QED
    BY <1>5, <1>6, <1>7, <1>8, <1>9 DEF Reconcile

\* So every step is of one of the sorts.
LEMMA NextSorted ==
    ASSUME Located, [Next]_vars
    PROVE  \/ \E h \in Handlers : Serves(h)
           \/ \E h \in Handlers : Lands(h)
           \/ \E h \in Handlers, id \in Ids : Arrives(h, id)
           \/ \E id \in Ids : Ages(id)
           \/ \E i \in Instances : Works(i)
           \/ \E i \in Instances : Dies(i)
           \/ Calm
  BY ProceedSorted, ReconcileSorted, SurroundingSorted DEF Next, Calm, vars

-----------------------------------------------------------------------------
(* How often a request is carried out, in every environment.               *)

\* A slot with this task may still change the balance for x.
Owes(t, x) ==
    /\ t.id = x
    /\ \/ t.at \in Before \cup {"put", "orphan"}
       \/ t.at = "reply" /\ t.reply = "late"

Owing(x) == {h \in Handlers : Owes(task[h], x)}

\* What has been done and what may still be was asked for.
AskedFor == \A x \in Ids :
    /\ IsFiniteSet(Owing(x))
    /\ effects[x] + Cardinality(Owing(x)) <= submitted[x]

\* A request in service changes the balance when it is done with owing that.
LEMMA ServiceOwes ==
    ASSUME Located, NEW h \in Handlers, Serves(h), NEW x \in Ids
    PROVE  \/ effects'[x] = effects[x] /\ (Owes(task'[h], x) => Owes(task[h], x))
           \/ /\ effects'[x] = effects[x] + 1
              /\ Owes(task[h], x) /\ ~Owes(task'[h], x)
  <1>1. /\ effects \in [Ids -> Nat] /\ task[h].id \in Ids
        /\ task[h].at \notin {"idle", "orphan"}
        /\ task[h].reply = "late" => task[h].at \in {"reply", "orphan"}
    BY DEF Located, TypeOK, Serves, TasksLocated, TaskLocated
  <1>2. IdleTask.at = "idle"
    BY DEF IdleTask
  <1>3. CASE Leaves(h)
    BY <1>1, <1>2, <1>3 DEF Leaves, Over, Quiet, Stays, Owes, Before
  <1>4. CASE Advances(h) \/ LooksUp(h) \/ Replays(h)
    BY <1>4 DEF Advances, LooksUp, Replays, Quiet, Stays, Owes, Before
  <1>5. CASE Inserts(h) \/ Renews(h)
    BY <1>5 DEF Inserts, Renews, Stays, Owes, Before
  <1>6. CASE Writes(h)
    <2>1. /\ task[h].at = "put" /\ task'[h].at = "reply"
          /\ task'[h].reply # "late"
          /\ effects' = [effects EXCEPT ![task[h].id] = @ + 1]
          /\ Stays(h)
      BY <1>6 DEF Writes
    <2>2. CASE x = task[h].id
      BY <1>1, <2>1, <2>2 DEF Owes, Stays, Before
    <2>3. CASE x # task[h].id
      BY <1>1, <2>1, <2>3 DEF Owes, Stays, Before
    <2>4. QED
      BY <2>2, <2>3
  <1>7. CASE Declines(h)
    BY <1>7 DEF Declines, Quiet, Stays, Owes, Before
  <1>8. CASE Applies(h) \/ Fails(h) \/ Marks(h)
    BY <1>2, <1>8 DEF Applies, Fails, Marks, Stays, Owes, Before
  <1>9. QED
    BY <1>3, <1>4, <1>5, <1>6, <1>7, <1>8 DEF Serves, Sorted

\* A step pays what one slot owes, takes on what a client asks for, or neither.
LEMMA OwingStep ==
    ASSUME Located, [Next]_vars, NEW x \in Ids
    PROVE  \/ /\ effects'[x] = effects[x] /\ submitted'[x] = submitted[x]
              /\ \A g \in Handlers : Owes(task'[g], x) => Owes(task[g], x)
           \/ \E h \in Handlers :
                 /\ effects'[x] = effects[x] + 1 /\ submitted'[x] = submitted[x]
                 /\ Owes(task[h], x) /\ ~Owes(task'[h], x)
                 /\ \A g \in Handlers \ {h} : task'[g] = task[g]
           \/ \E h \in Handlers :
                 /\ effects'[x] = effects[x]
                 /\ submitted'[x] = submitted[x] + 1
                 /\ \A g \in Handlers \ {h} : task'[g] = task[g]
  <1>1. /\ effects \in [Ids -> Nat] /\ submitted \in [Ids -> Nat]
        /\ IdleTask.at = "idle"
    BY DEF Located, TypeOK, IdleTask
  <1>2. CASE \E h \in Handlers : Serves(h)
    <2>1. PICK h \in Handlers : Serves(h)
      BY <1>2
    <2>2. UNCHANGED submitted /\ \A g \in Handlers \ {h} : task'[g] = task[g]
      BY <2>1 DEF Serves, Alone
    <2>3. QED
      BY <2>1, <2>2, ServiceOwes
  <1>3. CASE \E h \in Handlers : Lands(h)
    <2>1. PICK h \in Handlers : Lands(h)
      BY <1>3
    <2>2. /\ task[h].at = "orphan" /\ task'[h] = IdleTask
          /\ UNCHANGED submitted /\ \A g \in Handlers \ {h} : task'[g] = task[g]
          /\ effects' = [effects EXCEPT ![task[h].id] = @ + 1]
      BY <2>1 DEF Lands, Alone
    <2>3. ~Owes(task'[h], x)
      BY <1>1, <2>2 DEF Owes, Before
    <2>4. CASE x = task[h].id
      <3>1. Owes(task[h], x) /\ effects'[x] = effects[x] + 1
        BY <1>1, <2>2, <2>4 DEF Owes
      <3>2. QED
        BY <2>2, <2>3, <3>1
    <2>5. CASE x # task[h].id
      <3>1. effects'[x] = effects[x]
        BY <1>1, <2>2, <2>5
      <3>2. QED
        BY <2>2, <2>3, <3>1
    <2>6. QED
      BY <2>4, <2>5
  <1>4. CASE \E h \in Handlers, id \in Ids : Arrives(h, id)
    <2>1. PICK h \in Handlers, id \in Ids : Arrives(h, id)
      BY <1>4
    <2>2. /\ submitted' = [submitted EXCEPT ![id] = @ + 1] /\ UNCHANGED effects
          /\ task'[h].id = id /\ \A g \in Handlers \ {h} : task'[g] = task[g]
      BY <2>1 DEF Arrives, Alone
    <2>3. CASE x = id
      BY <1>1, <2>2, <2>3
    <2>4. CASE x # id
      BY <1>1, <2>2, <2>4 DEF Owes
    <2>5. QED
      BY <2>3, <2>4
  <1>5. CASE \E i \in Instances : Dies(i)
    <2>1. ASSUME NEW g \in Handlers, Owes(task'[g], x) PROVE Owes(task[g], x)
      <3>1. \/ task'[g] = task[g]
            \/ task'[g] = IdleTask
            \/ /\ task[g].at = "put" \/ task[g].reply = "late"
               /\ task'[g].at = "orphan" /\ Stays(g)
        BY <1>5 DEF Dies
      <3>2. task[g].reply = "late" => task[g].at \in {"reply", "orphan"}
        BY DEF Located, TasksLocated, TaskLocated
      <3>3. QED
        BY <1>1, <2>1, <3>1, <3>2 DEF Owes, Stays, Before
    <2>2. UNCHANGED <<submitted, effects>>
      BY <1>5 DEF Dies
    <2>3. QED
      BY <2>1, <2>2
  <1>6. CASE UNCHANGED <<task, submitted, effects>>
    BY <1>6
  <1>7. QED
    BY <1>2, <1>3, <1>4, <1>5, <1>6, NextSorted DEF Ages, Works, Calm

\* What is asked for and what is owed stay in step.
LEMMA NextAskedFor ==
    ASSUME Located, AskedFor, [Next]_vars
    PROVE  AskedFor'
  <1> SUFFICES ASSUME NEW x \in Ids
               PROVE  LET after == {g \in Handlers : Owes(task'[g], x)}
                      IN  /\ IsFiniteSet(after)
                          /\ effects'[x] + Cardinality(after) <= submitted'[x]
    BY DEF AskedFor, Owing, Owes
  <1> DEFINE before == Owing(x)
             after  == {g \in Handlers : Owes(task'[g], x)}
  <1>1. /\ IsFiniteSet(before) /\ Cardinality(before) \in Nat
        /\ effects[x] \in Nat /\ submitted[x] \in Nat
        /\ effects[x] + Cardinality(before) <= submitted[x]
    BY FS_CardinalityType DEF AskedFor, Located, TypeOK
  <1>2. CASE /\ effects'[x] = effects[x] /\ submitted'[x] = submitted[x]
             /\ \A g \in Handlers : Owes(task'[g], x) => Owes(task[g], x)
    <2>1. after \in SUBSET before
      BY <1>2 DEF Owing
    <2>2. /\ IsFiniteSet(after) /\ Cardinality(after) <= Cardinality(before)
          /\ Cardinality(after) \in Nat
      BY <1>1, <2>1, FS_Subset, FS_CardinalityType
    <2>3. QED
      BY <1>1, <1>2, <2>2
  <1>3. ASSUME NEW h \in Handlers, effects'[x] = effects[x] + 1,
               submitted'[x] = submitted[x],
               Owes(task[h], x), ~Owes(task'[h], x),
               \A g \in Handlers \ {h} : task'[g] = task[g]
        PROVE  /\ IsFiniteSet(after)
               /\ effects'[x] + Cardinality(after) <= submitted'[x]
    <2>1. h \in before /\ after = before \ {h}
      BY <1>3 DEF Owing
    <2>2. /\ IsFiniteSet(before \ {h})
          /\ Cardinality(before \ {h}) = Cardinality(before) - 1
      BY <1>1, <2>1, FS_RemoveElement
    <2>3. QED
      BY <1>1, <1>3, <2>1, <2>2
  <1>4. ASSUME NEW h \in Handlers, effects'[x] = effects[x],
               submitted'[x] = submitted[x] + 1,
               \A g \in Handlers \ {h} : task'[g] = task[g]
        PROVE  /\ IsFiniteSet(after)
               /\ effects'[x] + Cardinality(after) <= submitted'[x]
    <2>1. after \in SUBSET (before \cup {h})
      BY <1>4 DEF Owing
    <2>2. /\ IsFiniteSet(before \cup {h})
          /\ Cardinality(before \cup {h}) =
                IF h \in before THEN Cardinality(before)
                                ELSE Cardinality(before) + 1
      BY <1>1, FS_AddElement
    <2>3. /\ IsFiniteSet(after) /\ Cardinality(after) \in Nat
          /\ Cardinality(after) <= Cardinality(before \cup {h})
      BY <2>1, <2>2, FS_Subset, FS_CardinalityType
    <2>4. QED
      BY <1>1, <1>4, <2>2, <2>3
  <1>5. QED
    BY <1>2, <1>3, <1>4, OwingStep

\* Whatever fails, whatever is repeated and however many processes there are, a
\* request changes the balance at most as often as it was sent: no late answer,
\* no worker and no restart carries one submission out a second time.
THEOREM OncePerSubmissionAlways ==
    Spec => []OncePerSubmission
  <1>1. Init => AskedFor
    <2> SUFFICES ASSUME Init, NEW x \in Ids
                 PROVE  /\ IsFiniteSet(Owing(x))
                        /\ effects[x] + Cardinality(Owing(x)) <= submitted[x]
      BY DEF AskedFor
    <2>1. Owing(x) = {}
      BY DEF Init, IdleTask, Owing, Owes, Before
    <2>2. QED
      BY <2>1, FS_EmptySet DEF Init
  <1>2. Located /\ AskedFor /\ [Next]_vars => AskedFor'
    BY NextAskedFor
  <1>3. Located /\ AskedFor => OncePerSubmission
    <2> SUFFICES ASSUME Located, AskedFor, NEW x \in Ids
                 PROVE  effects[x] <= submitted[x]
      BY DEF OncePerSubmission
    <2>1. /\ effects[x] \in Nat /\ submitted[x] \in Nat
          /\ IsFiniteSet(Owing(x))
          /\ effects[x] + Cardinality(Owing(x)) <= submitted[x]
      BY DEF AskedFor, Located, TypeOK
    <2>2. QED
      BY <2>1, FS_CardinalityType
  <1>4. QED
    BY <1>1, <1>2, <1>3, AlwaysLocated, PTL DEF Spec

\* Clients send no request more often than the constant allows.
LEMMA SubmissionsBounded ==
    Spec => [](\A id \in Ids : submitted[id] <= Attempts[id])
  <1> DEFINE Bounded == \A id \in Ids : submitted[id] <= Attempts[id]
  <1>1. Init => Bounded
    BY LedgerAssumption DEF Init
  <1>2. Located /\ Bounded /\ [Next]_vars => Bounded'
    <2> SUFFICES ASSUME Located, Bounded, [Next]_vars, NEW x \in Ids
                 PROVE  submitted'[x] <= Attempts[x]
      OBVIOUS
    <2>1. submitted \in [Ids -> Nat] /\ Attempts[x] \in Nat
      BY LedgerAssumption DEF Located, TypeOK
    <2>2. ASSUME NEW h \in Handlers, NEW id \in Ids, Arrives(h, id)
          PROVE  submitted'[x] <= Attempts[x]
      BY <2>1, <2>2 DEF Arrives
    <2>3. QED
      BY <2>2, NextSorted DEF Serves, Lands, Ages, Works, Dies, Calm
  <1>3. QED
    BY <1>1, <1>2, AlwaysLocated, PTL DEF Spec

\* So the page, which sends every request once, books it at most once: whatever
\* else fails, also when a first write takes longer than a minute.
THEOREM UnrepeatedEffectAtMostOnce ==
    ASSUME \A id \in Ids : Attempts[id] <= 1
    PROVE  Spec => []EffectAtMostOnce
  <1>1. /\ Located /\ OncePerSubmission
        /\ \A id \in Ids : submitted[id] <= Attempts[id]
        => EffectAtMostOnce
    <2> SUFFICES ASSUME Located, NEW x \in Ids, effects[x] <= submitted[x],
                        submitted[x] <= Attempts[x]
                 PROVE  effects[x] <= 1
      BY DEF OncePerSubmission, EffectAtMostOnce
    <2>1. effects[x] \in Nat /\ submitted[x] \in Nat /\ Attempts[x] \in Nat
      BY LedgerAssumption DEF Located, TypeOK
    <2>2. QED
      BY <2>1
  <1>2. QED
    BY <1>1, OncePerSubmissionAlways, SubmissionsBounded, AlwaysLocated, PTL

-----------------------------------------------------------------------------
(* Where a task, a row and a batch come from.                              *)

\* No request found a row of its own key.
NoRetry == \A h \in Handlers : task[h].seen = None

\* A task that is busy was busy with the same request, or it has just arrived.
LEMMA TaskStep ==
    ASSUME Located, NoRetry, [Next]_vars, NEW g \in Handlers,
           task'[g].at # "idle"
    PROVE  \/ /\ task[g].at # "idle" /\ task'[g].id = task[g].id
              /\ task[g].at = "orphan" => task'[g].at = "orphan"
           \/ task'[g].id \in Ids /\ Arrives(g, task'[g].id)
  <1>1. ASSUME NEW h \in Handlers, Serves(h)
        PROVE  /\ task[g].at # "idle" /\ task'[g].id = task[g].id
               /\ task[g].at = "orphan" => task'[g].at = "orphan"
    <2>1. CASE g = h
      BY <1>1, <2>1 DEF Serves, Sorted, Leaves, Advances, LooksUp, Replays,
         Inserts, Renews, Writes, Declines, Applies, Fails, Marks, Over,
         Stays, NoRetry, IdleTask
    <2>2. CASE g # h
      BY <1>1, <2>2 DEF Serves, Alone
    <2>3. QED
      BY <2>1, <2>2
  <1>2. ASSUME NEW h \in Handlers, Lands(h) PROVE task'[g] = task[g]
    BY <1>2 DEF Lands, Alone, IdleTask
  <1>3. ASSUME NEW h \in Handlers, NEW id \in Ids, Arrives(h, id)
        PROVE  \/ task'[g] = task[g]
               \/ task'[g].id \in Ids /\ Arrives(g, task'[g].id)
    BY <1>3 DEF Arrives, Alone
  <1>4. ASSUME NEW i \in Instances, Dies(i)
        PROVE  /\ task[g].at # "idle" /\ task'[g].id = task[g].id
               /\ task[g].at = "orphan" => task'[g].at = "orphan"
    <2>1. task[g].reply = "late" => task[g].at # "idle"
      BY DEF Located, TasksLocated, TaskLocated
    <2>2. QED
      BY <1>4, <2>1 DEF Dies, IdleTask, Stays
  <1>5. CASE UNCHANGED task
    BY <1>5
  <1>6. QED
    BY <1>1, <1>2, <1>3, <1>4, <1>5, NextSorted DEF Ages, Works, Calm

\* A row is changed by the request of its key, by the reversal of it, by time,
\* or by a worker's verdict.
LEMMA RowStep ==
    ASSUME Located, NoRetry, [Next]_vars, NEW x \in Ids
    PROVE  \/ rows'[x] = rows[x]
           \/ \E h \in Handlers :
                 /\ Serves(h)
                 /\ \/ x = task[h].id /\ (Inserts(h) \/ Applies(h) \/ Fails(h))
                    \/ x = Original(task[h].id) /\ Marks(h)
           \/ Ages(x)
           \/ \E i \in Instances : Judges(i) /\ x = worker[i].cur
  <1>1. ASSUME NEW h \in Handlers, Serves(h)
        PROVE  \/ rows'[x] = rows[x]
               \/ x = task[h].id /\ (Inserts(h) \/ Applies(h) \/ Fails(h))
               \/ x = Original(task[h].id) /\ Marks(h)
    <2>1. CASE Inserts(h)
      BY <2>1 DEF Inserts
    <2>2. CASE Applies(h) \/ Fails(h)
      BY <2>2 DEF Applies, Fails, SetTo
    <2>3. CASE Marks(h)
      BY <2>3 DEF Marks, SetTo
    <2>4. CASE ~(Inserts(h) \/ Applies(h) \/ Fails(h) \/ Marks(h))
      BY <1>1, <2>4 DEF Serves, Sorted, Leaves, Advances, LooksUp, Replays,
         Renews, Writes, Declines, Quiet, NoRetry
    <2>5. QED
      BY <2>1, <2>2, <2>3, <2>4
  <1>2. ASSUME NEW id \in Ids, Ages(id) PROVE rows'[x] = rows[x] \/ Ages(x)
    BY <1>2 DEF Ages
  <1>3. ASSUME NEW i \in Instances, Works(i)
        PROVE  rows'[x] = rows[x] \/ (Judges(i) /\ x = worker[i].cur)
    BY <1>3 DEF Works, Fetches, Judges, Carries, SetTo
  <1>4. CASE UNCHANGED rows
    BY <1>4
  <1>5. QED
    BY <1>1, <1>2, <1>3, <1>4, NextSorted DEF Lands, Arrives, Dies, Calm

\* What a worker has in hand it had before, or it was pending and a minute old.
LEMMA BatchStep ==
    ASSUME Located, NoRetry, [Next]_vars, NEW i \in Instances, NEW x \in Ids,
           Holds(i, x)'
    PROVE  \/ Holds(i, x)
           \/ x \in StalePending /\ UNCHANGED <<rows, task, submitted, effects>>
  <1>1. ASSUME NEW j \in Instances, Works(j)
        PROVE  \/ Holds(i, x)
               \/ x \in StalePending /\ UNCHANGED <<rows, task, submitted, effects>>
    <2>1. CASE j # i
      <3>1. worker'[i] = worker[i]
        BY <1>1, <2>1 DEF Works
      <3>2. QED
        BY <3>1 DEF Holds
    <2>2. CASE j = i
      <3>1. Fetches(i) => x \in StalePending /\ UNCHANGED rows
        BY DEF Fetches
      <3>2. Judges(i) => x \in worker[i].todo
        BY DEF Judges
      <3>3. Carries(i) => Holds(i, x)
        BY DEF Carries
      <3>4. QED
        BY <1>1, <2>2, <3>1, <3>2, <3>3 DEF Works, Holds
    <2>3. QED
      BY <2>1, <2>2
  <1>2. ASSUME NEW j \in Instances, Dies(j) PROVE Holds(i, x)
    BY <1>2, ConstantFacts DEF Dies, Holds, IdleWorker
  <1>3. CASE UNCHANGED worker
    BY <1>3 DEF Holds
  <1>4. QED
    BY <1>1, <1>2, <1>3, NextSorted DEF Serves, Lands, Arrives, Ages, Calm

\* Submissions are only counted up.
LEMMA SubmittedStep ==
    ASSUME Located, [Next]_vars, NEW x \in Ids
    PROVE  /\ submitted[x] \in Nat /\ submitted'[x] \in Nat
           /\ submitted'[x] >= submitted[x]
           /\ \A g \in Handlers : Arrives(g, x) => submitted'[x] = submitted[x] + 1
           /\ submitted'[x] # submitted[x] => \E g \in Handlers : Arrives(g, x)
  <1>1. submitted \in [Ids -> Nat]
    BY DEF Located, TypeOK
  <1>2. ASSUME NEW h \in Handlers, NEW id \in Ids, Arrives(h, id)
        PROVE  submitted'[x] = IF x = id THEN submitted[x] + 1 ELSE submitted[x]
    BY <1>1, <1>2 DEF Arrives
  <1>3. CASE UNCHANGED submitted
    <2>1. ASSUME NEW g \in Handlers, Arrives(g, x) PROVE FALSE
      BY <1>1, <1>2, <1>3, <2>1
    <2>2. QED
      BY <1>1, <1>3, <2>1
  <1>4. CASE \E h \in Handlers, id \in Ids : Arrives(h, id)
    BY <1>1, <1>2, <1>4
  <1>5. QED
    BY <1>3, <1>4, NextSorted DEF Serves, Lands, Ages, Works, Dies, Calm

-----------------------------------------------------------------------------
(* Clients that never repeat a key, as the register page: whatever else    *)
(* fails, a request is the only one of its key.                            *)

Unrepeated ==
    /\ \A id \in Ids : Attempts[id] <= 1
    /\ "slow" \notin Environment

SubmittedOnce ==
    /\ \A h \in Handlers : task[h].at # "idle" => submitted[task[h].id] > 0
    /\ \A id \in Ids : rows[id] # None => submitted[id] > 0
    /\ \A g, h \in Handlers :
          task[g].at # "idle" /\ task[h].at # "idle" /\ task[g].id = task[h].id
             => g = h

\* Nobody but the request itself has inserted its row or changed it.
FirstOfItsKey == \A h \in Handlers :
    /\ task[h].seen = None
    /\ task[h].at \in Before => rows[task[h].id] = None
    /\ task[h].at \in Sent =>
          Has(task[h].id, "pending") /\ rows[task[h].id].fresh
    /\ task[h].at = "mark" => Has(task[h].id, "applied")

\* A reversal is asked for when the handler of the booking is gone.
AfterOriginal == \A g, h \in Handlers :
    /\ task[h].at # "idle" /\ IsReversal(task[h].id)
    /\ task[g].id = Original(task[h].id)
    => task[g].at \in {"idle", "orphan"}

\* The worker has in hand only what its handler has left.
LeftBehind == \A i \in Instances, id \in Ids : Holds(i, id) =>
    /\ rows[id] # None /\ ~rows[id].fresh
    /\ \A h \in Handlers : task[h].id = id => task[h].at \in {"idle", "orphan"}

SealedReversals == \A id \in Ids : ~IsReversal(id) /\ Has(id, "reversed") =>
    /\ Has(Reversal(id), "applied")
    /\ \A i \in Instances : ~Holds(i, Reversal(id))

NoEffectYet ==
    /\ \A id \in Ids : effects[id] <= 1 /\ (submitted[id] = 0 => effects[id] = 0)
    /\ \A h \in Handlers :
          \/ task[h].at \in Before \cup {"put", "orphan"}
          \/ task[h].at # "idle" /\ task[h].reply = "late"
          => effects[task[h].id] = 0

Keyed == /\ SubmittedOnce /\ FirstOfItsKey /\ AfterOriginal
         /\ LeftBehind /\ SealedReversals /\ NoEffectYet

\* Types, as far as the steps below need them.
LEMMA KeyedTypes ==
    ASSUME Located
    PROVE  /\ task \in [Handlers -> Task] /\ rows \in [Ids -> Row \cup {None}]
           /\ submitted \in [Ids -> Nat] /\ effects \in [Ids -> Nat]
           /\ \A h \in Handlers : task[h].at # "idle" => task[h].id \in Ids
  BY DEF Located, TypeOK, TasksLocated, TaskLocated

\* Nothing has happened yet.
LEMMA InitKeyed ==
    ASSUME Init PROVE Keyed
  <1>1. /\ \A h \in Handlers : task[h].at = "idle" /\ task[h].seen = None
        /\ \A id \in Ids : rows[id] = None /\ submitted[id] = 0 /\ effects[id] = 0
        /\ \A i \in Instances : worker[i].todo = {} /\ worker[i].cur = None
    BY DEF Init, IdleTask, IdleWorker
  <1>2. SubmittedOnce
    BY <1>1 DEF SubmittedOnce
  <1>3. FirstOfItsKey
    BY <1>1 DEF FirstOfItsKey, Before, Sent
  <1>4. AfterOriginal
    BY <1>1 DEF AfterOriginal
  <1>5. LeftBehind
    BY <1>1, ConstantFacts DEF LeftBehind, Holds
  <1>6. SealedReversals
    BY <1>1 DEF SealedReversals, Has
  <1>7. NoEffectYet
    BY <1>1, LedgerAssumption DEF NoEffectYet, Before, Init, IdleTask
  <1>8. QED
    BY <1>2, <1>3, <1>4, <1>5, <1>6, <1>7 DEF Keyed

\* A first submission finds no trace of its key.
LEMMA FirstSubmission ==
    ASSUME Unrepeated, Located, SubmittedOnce,
           NEW h \in Handlers, NEW id \in Ids, Arrives(h, id)
    PROVE  /\ submitted[id] = 0 /\ rows[id] = None
           /\ \A g \in Handlers : task[g].at # "idle" => task[g].id # id
  <1>1. submitted[id] < Attempts[id] /\ Attempts[id] <= 1
    BY DEF Arrives, Unrepeated
  <1>2. submitted[id] \in Nat /\ Attempts[id] \in Nat
    BY LedgerAssumption DEF Located, TypeOK
  <1>3. submitted[id] = 0
    BY <1>1, <1>2
  <1>4. QED
    BY <1>3 DEF SubmittedOnce

\* A second request of a key does not come about.
LEMMA NextSubmittedOnce ==
    ASSUME Unrepeated, Located, Keyed, [Next]_vars
    PROVE  SubmittedOnce'
  <1>1. NoRetry /\ SubmittedOnce
    BY DEF Keyed, FirstOfItsKey, NoRetry
  <1>2. ASSUME NEW h \in Handlers, task'[h].at # "idle"
        PROVE  submitted'[task'[h].id] > 0
    <2>1. CASE task[h].at # "idle" /\ task'[h].id = task[h].id
      <3>1. task[h].id \in Ids /\ submitted[task[h].id] > 0
        BY <1>1, <2>1, KeyedTypes DEF SubmittedOnce
      <3>2. QED
        BY <2>1, <3>1, SubmittedStep
    <2>2. CASE task'[h].id \in Ids /\ Arrives(h, task'[h].id)
      BY <2>2, SubmittedStep
    <2>3. QED
      BY <1>1, <1>2, <2>1, <2>2, TaskStep
  <1>3. ASSUME NEW id \in Ids, rows'[id] # None
        PROVE  submitted'[id] > 0
    <2>1. CASE rows[id] # None
      BY <1>1, <2>1, SubmittedStep DEF SubmittedOnce
    <2>2. CASE rows[id] = None
      <3>1. PICK h \in Handlers :
               /\ Serves(h)
               /\ \/ id = task[h].id /\ (Inserts(h) \/ Applies(h) \/ Fails(h))
                  \/ id = Original(task[h].id) /\ Marks(h)
        <4>1. ~Ages(id)
          BY <2>2 DEF Ages
        <4>2. ASSUME NEW i \in Instances, Judges(i), id = worker[i].cur
              PROVE  FALSE
          <5>1. WorkerLocated(worker[i], rows)
            BY DEF Located, WorkersLocated
          <5>2. QED
            BY <2>2, <4>2, <5>1, ConstantFacts DEF Judges, WorkerLocated
        <4>3. QED
          BY <1>1, <1>3, <2>2, <4>1, <4>2, RowStep
      <3>2. task[h].at # "idle" /\ TaskLocated(task[h], rows)
        BY <3>1 DEF Serves, Located, TasksLocated
      <3>3. ~Marks(h) \/ id = task[h].id
        BY <2>2, <3>1, <3>2 DEF Marks, TaskLocated
      <3>4. id = task[h].id
        BY <3>1, <3>3
      <3>5. submitted[id] > 0
        BY <1>1, <3>2, <3>4 DEF SubmittedOnce
      <3>6. QED
        BY <3>5, SubmittedStep
    <2>3. QED
      BY <2>1, <2>2
  <1>4. ASSUME NEW g \in Handlers, NEW h \in Handlers, task'[g].at # "idle",
               task'[h].at # "idle", task'[g].id = task'[h].id, g # h
        PROVE  FALSE
    <2>1. ASSUME NEW e \in Handlers, NEW f \in Handlers, e # f,
                 task'[e].at # "idle", task'[f].at # "idle",
                 task'[e].id = task'[f].id,
                 task'[e].id \in Ids, Arrives(e, task'[e].id)
          PROVE  FALSE
      <3>1. task'[f] = task[f]
        BY <2>1 DEF Arrives, Alone
      <3>2. QED
        BY <1>1, <2>1, <3>1, FirstSubmission
    <2>2. CASE /\ task[g].at # "idle" /\ task'[g].id = task[g].id
               /\ task[h].at # "idle" /\ task'[h].id = task[h].id
      BY <1>1, <1>4, <2>2 DEF SubmittedOnce
    <2>3. QED
      BY <1>1, <1>4, <2>1, <2>2, TaskStep
  <1>5. QED
    BY <1>2, <1>3, <1>4 DEF SubmittedOnce

\* What can happen to a task that is not served.
LEMMA Unserved ==
    ASSUME Located, [Next]_vars, NEW g \in Handlers, ~Serves(g)
    PROVE  \/ task'[g] = task[g]
           \/ task'[g] = IdleTask
           \/ /\ task[g].at = "put" \/ task[g].reply = "late"
              /\ task'[g].at = "orphan" /\ Stays(g)
              /\ task'[g].reply = task[g].reply
              /\ \E i \in Instances : Dies(i)
           \/ \E id \in Ids : Arrives(g, id)
  <1>1. ASSUME NEW h \in Handlers, Serves(h) PROVE task'[g] = task[g]
    BY <1>1 DEF Serves, Alone
  <1>2. ASSUME NEW h \in Handlers, Lands(h)
        PROVE  task'[g] = task[g] \/ task'[g] = IdleTask
    BY <1>2 DEF Lands, Alone
  <1>3. ASSUME NEW h \in Handlers, NEW id \in Ids, Arrives(h, id)
        PROVE  task'[g] = task[g] \/ Arrives(g, id)
    BY <1>3 DEF Arrives, Alone
  <1>4. ASSUME NEW i \in Instances, Dies(i)
        PROVE  \/ task'[g] = task[g]
               \/ task'[g] = IdleTask
               \/ /\ task[g].at = "put" \/ task[g].reply = "late"
                  /\ task'[g].at = "orphan" /\ Stays(g)
                  /\ task'[g].reply = task[g].reply
    BY <1>4 DEF Dies
  <1>5. QED
    BY <1>1, <1>2, <1>3, <1>4, NextSorted DEF Ages, Works, Calm

\* The row of a request in progress is changed by that request only.
LEMMA OwnRow ==
    ASSUME Unrepeated, Located, Keyed, [Next]_vars, NEW g \in Handlers,
           task[g].at \notin {"idle", "orphan"}, ~Serves(g)
    PROVE  /\ task[g].id \in Ids
           /\ \/ rows'[task[g].id] = rows[task[g].id]
              \/ Ages(task[g].id) /\ task[g].at = "mark"
  <1> DEFINE id == task[g].id
  <1>1. id \in Ids /\ NoRetry /\ task[g] \in Task
    BY KeyedTypes DEF Keyed, FirstOfItsKey, NoRetry
  <1>2. ASSUME NEW h \in Handlers, Serves(h),
               \/ id = task[h].id
               \/ id = Original(task[h].id) /\ Marks(h)
        PROVE  FALSE
    <2>1. task[h].at # "idle" /\ g # h
      BY <1>2 DEF Serves
    <2>2. task[h].id # id
      BY <2>1 DEF Keyed, SubmittedOnce
    <2>3. Marks(h) /\ id = Original(task[h].id)
      BY <1>2, <2>2
    <2>4. IsReversal(task[h].id)
      BY <2>3 DEF Marks, Located, TasksLocated, TaskLocated
    <2>5. QED
      BY <2>1, <2>3, <2>4 DEF Keyed, AfterOriginal
  <1>3. ASSUME NEW i \in Instances, Judges(i), id = worker[i].cur
        PROVE  FALSE
    BY <1>1, <1>3 DEF Keyed, LeftBehind, Holds
  <1>4. ASSUME Ages(id) PROVE task[g].at = "mark"
    <2>1. task[g].at \notin Before
      BY <1>4 DEF Ages, Keyed, FirstOfItsKey
    <2>2. task[g].at \notin Sent
      BY <1>1, <1>4 DEF Ages, Unrepeated, NoRetry
    <2>3. task[g].at \in Steps
      BY <1>1 DEF Task
    <2>4. QED
      BY <2>1, <2>2, <2>3 DEF Before, Sent, Steps
  <1>5. QED
    BY <1>1, <1>2, <1>3, <1>4, RowStep

\* The row of a request is where its handler has brought it.
LEMMA NextFirstOfItsKey ==
    ASSUME Unrepeated, Located, Keyed, [Next]_vars
    PROVE  FirstOfItsKey'
  <1> SUFFICES ASSUME NEW g \in Handlers
               PROVE  /\ task'[g].seen = None
                      /\ task'[g].at \in Before => rows'[task'[g].id] = None
                      /\ task'[g].at \in Sent =>
                            /\ rows'[task'[g].id] # None
                            /\ rows'[task'[g].id].status = "pending"
                            /\ rows'[task'[g].id].fresh
                      /\ task'[g].at = "mark" =>
                            /\ rows'[task'[g].id] # None
                            /\ rows'[task'[g].id].status = "applied"
    BY DEF FirstOfItsKey, Has
  <1> DEFINE id == task[g].id
  <1>1. /\ task[g].seen = None
        /\ task[g].at \in Before => rows[id] = None
        /\ task[g].at \in Sent => Has(id, "pending") /\ rows[id].fresh
        /\ task[g].at = "mark" => Has(id, "applied")
    BY DEF Keyed, FirstOfItsKey
  <1>2. IdleTask.at = "idle" /\ IdleTask.seen = None
    BY DEF IdleTask
  <1>3. CASE Serves(g)
    <2>1. task[g].at \notin {"idle", "orphan"} /\ id \in Ids
      BY <1>3 DEF Serves
    <2>2. CASE Leaves(g) \/ Fails(g) \/ Marks(g)
      BY <1>1, <1>2, <2>2
      DEF Leaves, Fails, Marks, Over, Stays, Before, Sent
    <2>3. CASE Advances(g) \/ LooksUp(g)
      BY <1>1, <2>3 DEF Advances, LooksUp, Stays, Quiet, Before, Sent
    <2>4. CASE Replays(g)
      BY <1>1, <2>4 DEF Replays, Stays, Quiet, Before, Sent, Has
    <2>5. CASE Inserts(g)
      BY <1>1, <2>5 DEF Inserts, Stays, Before, Sent, Has
    <2>6. CASE Writes(g) \/ Declines(g)
      BY <1>1, <2>6 DEF Writes, Declines, Quiet, Stays, Before, Sent, Has
    <2>7. CASE Applies(g)
      BY <1>1, <1>2, <2>7 DEF Applies, SetTo, Stays, Before, Sent, Has
    <2>8. QED
      BY <1>1, <1>3, <2>2, <2>3, <2>4, <2>5, <2>6, <2>7
      DEF Serves, Sorted, Renews
  <1>4. CASE ~Serves(g)
    <2>1. CASE task'[g] = task[g] /\ task[g].at \notin {"idle", "orphan"}
      <3>1. \/ rows'[id] = rows[id]
            \/ Ages(id) /\ task[g].at = "mark"
        BY <1>4, <2>1, OwnRow
      <3>2. QED
        BY <1>1, <2>1, <3>1 DEF Ages, Has, Before, Sent
    <2>2. CASE task'[g] = task[g] /\ task[g].at \in {"idle", "orphan"}
      BY <1>1, <2>2 DEF Before, Sent
    <2>3. CASE task'[g] = IdleTask
      BY <1>2, <2>3 DEF Before, Sent
    <2>4. CASE task'[g].at = "orphan" /\ Stays(g)
      BY <1>1, <2>4 DEF Stays, Before, Sent
    <2>5. ASSUME NEW x \in Ids, Arrives(g, x)
          PROVE  /\ task'[g].at = "wait" /\ task'[g].seen = None
                 /\ rows'[task'[g].id] = None
      <3>1. rows[x] = None
        BY <2>5, FirstSubmission DEF Keyed
      <3>2. QED
        BY <2>5, <3>1 DEF Arrives
    <2>6. QED
      BY <1>4, <2>1, <2>2, <2>3, <2>4, <2>5, Unserved DEF Sent, Before
  <1>5. QED
    BY <1>3, <1>4

\* The handler of the original cannot come back: its row is there.
LEMMA NextAfterOriginal ==
    ASSUME Unrepeated, Located, Keyed, [Next]_vars
    PROVE  AfterOriginal'
  <1> SUFFICES ASSUME NEW g \in Handlers, NEW h \in Handlers,
                      task'[h].at # "idle", IsReversal(task'[h].id),
                      task'[g].id = Original(task'[h].id),
                      task'[g].at \notin {"idle", "orphan"}
               PROVE  FALSE
    BY DEF AfterOriginal
  <1>1. NoRetry
    BY DEF Keyed, FirstOfItsKey, NoRetry
  <1>2. TaskLocated(task'[h], rows') /\ task'[h].id \in Ids
    BY NextLocated DEF Located, TasksLocated, TaskLocated
  <1>3. Original(task'[h].id) \in Ids /\ ~IsReversal(Original(task'[h].id))
    BY <1>2, ConstantFacts, ReversalFacts
  <1>4. g # h
    BY <1>3
  <1>5. CASE /\ task[g].at \notin {"idle", "orphan"} /\ task'[g].id = task[g].id
             /\ task[h].at # "idle" /\ task'[h].id = task[h].id
    BY <1>5 DEF Keyed, AfterOriginal
  <1>6. ASSUME task'[h].id \in Ids, Arrives(h, task'[h].id) PROVE FALSE
    <2>1. task'[g] = task[g] /\ Has(Original(task'[h].id), "applied")
      BY <1>4, <1>6 DEF Arrives, Alone
    <2>2. task[g] \in Task /\ task[g].at \in Steps
      BY DEF Located, TypeOK, Task
    <2>3. task[g].at \notin Before /\ task[g].at \notin Sent
      BY <2>1 DEF Keyed, FirstOfItsKey, Has
    <2>4. task[g].at = "mark"
      BY <2>1, <2>2, <2>3 DEF Steps, Before, Sent
    <2>5. QED
      BY <1>3, <2>1, <2>4 DEF Located, TasksLocated, TaskLocated
  <1>7. ASSUME task'[g].id \in Ids, Arrives(g, task'[g].id) PROVE FALSE
    <2>1. task'[h] = task[h] /\ rows[task'[g].id] = None
      BY <1>4, <1>7, FirstSubmission DEF Keyed, Arrives, Alone
    <2>2. QED
      BY <2>1 DEF Located, TasksLocated, TaskLocated
  <1>8. QED
    BY <1>1, <1>5, <1>6, <1>7, TaskStep

\* A minute that is over stays over, and a row stays a row.
LEMMA StaleStays ==
    ASSUME Located, NoRetry, [Next]_vars, NEW x \in Ids,
           rows[x] # None, ~rows[x].fresh
    PROVE  rows'[x] # None /\ ~rows'[x].fresh
  <1>1. rows'[x] # None
    BY RowsNeverVanish
  <1>2. ASSUME NEW h \in Handlers, Inserts(h), x = task[h].id PROVE FALSE
    BY <1>2 DEF Inserts
  <1>3. ASSUME NEW h \in Handlers,
               \/ x = task[h].id /\ (Applies(h) \/ Fails(h))
               \/ x = Original(task[h].id) /\ Marks(h)
        PROVE  rows'[x].fresh = rows[x].fresh
    BY <1>3 DEF Applies, Fails, Marks, SetTo
  <1>4. ASSUME NEW i \in Instances, Judges(i), x = worker[i].cur
        PROVE  rows'[x].fresh = rows[x].fresh
    BY <1>4 DEF Judges, SetTo
  <1>5. Ages(x) => ~rows'[x].fresh
    BY DEF Ages
  <1>6. QED
    BY <1>1, <1>2, <1>3, <1>4, <1>5, RowStep

\* A batch is fetched from rows without a handler, and none comes back.
LEMMA NextLeftBehind ==
    ASSUME Unrepeated, Located, Keyed, [Next]_vars
    PROVE  LeftBehind'
  <1> SUFFICES ASSUME NEW i \in Instances, NEW x \in Ids, Holds(i, x)'
               PROVE  /\ rows'[x] # None /\ ~rows'[x].fresh
                      /\ \A h \in Handlers :
                            task'[h].id = x => task'[h].at \in {"idle", "orphan"}
    BY DEF LeftBehind, Holds
  <1>1. NoRetry
    BY DEF Keyed, FirstOfItsKey, NoRetry
  <1>2. CASE Holds(i, x)
    <2>1. /\ rows[x] # None /\ ~rows[x].fresh
          /\ \A h \in Handlers :
                task[h].id = x => task[h].at \in {"idle", "orphan"}
      BY <1>2 DEF Keyed, LeftBehind
    <2>2. rows'[x] # None /\ ~rows'[x].fresh
      BY <1>1, <2>1, StaleStays
    <2>3. ASSUME NEW h \in Handlers, task'[h].id = x, task'[h].at # "idle"
          PROVE  task'[h].at = "orphan"
      <3>1. ASSUME task'[h].id \in Ids, Arrives(h, task'[h].id) PROVE FALSE
        BY <2>1, <2>3, <3>1, FirstSubmission DEF Keyed
      <3>2. QED
        BY <1>1, <2>1, <2>3, <3>1, TaskStep
    <2>4. QED
      BY <2>2, <2>3
  <1>3. CASE x \in StalePending /\ UNCHANGED <<rows, task>>
    <2>1. Has(x, "pending") /\ ~rows[x].fresh
      BY <1>3 DEF StalePending
    <2>2. ASSUME NEW h \in Handlers, task[h].id = x
          PROVE  task[h].at \in {"idle", "orphan"}
      <3>1. task[h].at \notin Before /\ task[h].at \notin Sent
            /\ task[h].at # "mark"
        BY <2>1, <2>2 DEF Keyed, FirstOfItsKey, Has
      <3>2. task[h].at \in Steps
        BY DEF Located, TypeOK, Task
      <3>3. QED
        BY <3>1, <3>2 DEF Steps, Before, Sent
    <2>3. QED
      BY <1>3, <2>1, <2>2 DEF Has
  <1>4. QED
    BY <1>1, <1>2, <1>3, BatchStep

\* An applied reversal that no worker has in hand stays applied.
LEMMA ReversalStands ==
    ASSUME Unrepeated, Located, Keyed, [Next]_vars, NEW x \in Ids,
           IsReversal(x), Has(x, "applied"), \A i \in Instances : ~Holds(i, x)
    PROVE  /\ Has(x, "applied")'
           /\ \A i \in Instances : ~Holds(i, x)'
  <1>1. NoRetry
    BY DEF Keyed, FirstOfItsKey, NoRetry
  <1>2. ASSUME NEW h \in Handlers, Serves(h), x = task[h].id,
               Inserts(h) \/ Applies(h) \/ Fails(h)
        PROVE  FALSE
    <2>1. Inserts(h) => rows[x] = None
      BY <1>2 DEF Inserts
    <2>2. Applies(h) \/ Fails(h) => Has(x, "pending")
      BY <1>2 DEF Applies, Fails, Sent, Keyed, FirstOfItsKey
    <2>3. QED
      BY <1>2, <2>1, <2>2 DEF Has
  <1>3. ASSUME NEW h \in Handlers, Serves(h), x = Original(task[h].id)
        PROVE  FALSE
    BY <1>3, ReversalFacts DEF Serves
  <1>4. ASSUME NEW i \in Instances, Judges(i), x = worker[i].cur PROVE FALSE
    BY <1>4 DEF Holds
  <1>5. rows'[x] = rows[x] \/ Ages(x)
    BY <1>1, <1>2, <1>3, <1>4, RowStep
  <1>6. Has(x, "applied")'
    BY <1>5 DEF Ages, Has
  <1>7. ASSUME NEW i \in Instances, Holds(i, x)' PROVE FALSE
    <2>1. x \notin StalePending
      BY DEF StalePending, Has
    <2>2. QED
      BY <1>1, <1>7, <2>1, BatchStep
  <1>8. QED
    BY <1>6, <1>7

\* The mark on a booking rests on a reversal nobody can judge again.
LEMMA NextSealedReversals ==
    ASSUME Unrepeated, Located, Keyed, [Next]_vars
    PROVE  SealedReversals'
  <1> SUFFICES ASSUME NEW x \in Ids, ~IsReversal(x), Has(x, "reversed")'
               PROVE  /\ Has(Reversal(x), "applied")'
                      /\ \A i \in Instances : ~Holds(i, Reversal(x))'
    BY DEF SealedReversals
  <1>1. Reversal(x) \in Ids /\ IsReversal(Reversal(x))
    BY ReversalFacts
  <1>2. NoRetry
    BY DEF Keyed, FirstOfItsKey, NoRetry
  <1>3. /\ Has(Reversal(x), "applied")
        /\ \A i \in Instances : ~Holds(i, Reversal(x))
    <2>1. CASE Has(x, "reversed")
      BY <2>1 DEF Keyed, SealedReversals
    <2>2. ASSUME NEW h \in Handlers, Serves(h), Marks(h), x = Original(task[h].id)
          PROVE  /\ Has(Reversal(x), "applied")
                 /\ \A i \in Instances : ~Holds(i, Reversal(x))
      <3>1. task[h].at = "mark" /\ task[h].id \in Ids
        BY <2>2 DEF Serves, Marks
      <3>2. IsReversal(task[h].id)
        BY <3>1 DEF Located, TasksLocated, TaskLocated
      <3>3. Reversal(x) = task[h].id
        BY <2>2, <3>1, <3>2, ReversalFacts
      <3>4. Has(task[h].id, "applied")
        BY <3>1 DEF Keyed, FirstOfItsKey
      <3>5. \A i \in Instances : ~Holds(i, task[h].id)
        BY <3>1 DEF Keyed, LeftBehind
      <3>6. QED
        BY <3>3, <3>4, <3>5
    <2>3. ASSUME NEW h \in Handlers, x = task[h].id,
                 Inserts(h) \/ Applies(h) \/ Fails(h)
          PROVE  FALSE
      BY <2>3 DEF Inserts, Applies, Fails, SetTo, Has
    <2>4. ASSUME NEW i \in Instances, Judges(i), x = worker[i].cur PROVE FALSE
      BY <2>4 DEF Judges, SetTo, Has
    <2>5. CASE rows'[x] = rows[x] \/ Ages(x)
      BY <2>1, <2>5 DEF Ages, Has
    <2>6. QED
      BY <1>2, <2>2, <2>3, <2>4, <2>5, RowStep
  <1>4. QED
    BY <1>1, <1>3, ReversalStands

\* A write has its effect once: when UNAS answers, or when it lands.
LEMMA NextNoEffectYet ==
    ASSUME Unrepeated, Located, Keyed, [Next]_vars
    PROVE  NoEffectYet'
  <1>1. effects \in [Ids -> Nat] /\ NoRetry
    BY DEF Located, TypeOK, Keyed, FirstOfItsKey, NoRetry
  <1>2. ASSUME NEW x \in Ids
        PROVE  \/ effects'[x] = effects[x]
               \/ \E h \in Handlers :
                     /\ (Serves(h) /\ Writes(h)) \/ Lands(h)
                     /\ x = task[h].id /\ effects'[x] = effects[x] + 1
    <2>1. ASSUME NEW h \in Handlers, Serves(h)
          PROVE  UNCHANGED effects \/ Writes(h)
      BY <1>1, <2>1 DEF Serves, Sorted, Leaves, Advances, LooksUp, Replays,
         Inserts, Renews, Declines, Applies, Fails, Marks, Quiet, NoRetry
    <2>2. ASSUME NEW h \in Handlers, Writes(h) \/ Lands(h)
          PROVE  \/ effects'[x] = effects[x]
                 \/ x = task[h].id /\ effects'[x] = effects[x] + 1
      BY <1>1, <2>2 DEF Writes, Lands
    <2>3. QED
      BY <2>1, <2>2, NextSorted DEF Arrives, Ages, Works, Dies, Calm
  <1>3. ASSUME NEW h \in Handlers, (Serves(h) /\ Writes(h)) \/ Lands(h)
        PROVE  /\ effects[task[h].id] = 0 /\ task[h].at # "idle"
               /\ task[h].id \in Ids /\ submitted[task[h].id] > 0
    <2>1. task[h].at \in {"put", "orphan"}
      BY <1>3 DEF Writes, Lands
    <2>2. QED
      BY <2>1, KeyedTypes DEF Keyed, NoEffectYet, SubmittedOnce
  <1>4. ASSUME NEW x \in Ids
        PROVE  effects'[x] <= 1 /\ (submitted'[x] = 0 => effects'[x] = 0)
    <2>1. effects[x] <= 1 /\ (submitted[x] = 0 => effects[x] = 0)
      BY DEF Keyed, NoEffectYet
    <2>2. submitted'[x] = 0 => submitted[x] = 0
      BY SubmittedStep
    <2>3. QED
      BY <1>1, <1>2, <1>3, <2>1, <2>2
  <1>5. ASSUME NEW g \in Handlers,
               \/ task'[g].at \in Before \cup {"put", "orphan"}
               \/ task'[g].at # "idle" /\ task'[g].reply = "late"
        PROVE  effects'[task'[g].id] = 0
    <2> DEFINE id == task[g].id
    <2>1. task[g].reply = "late" => task[g].at \in {"reply", "orphan"}
      BY DEF Located, TasksLocated, TaskLocated
    <2>2. IdleTask.at = "idle"
      BY DEF IdleTask
    <2>3. CASE Serves(g)
      <3>1. id \in Ids /\ task[g].at # "idle" /\ task'[g].at # "idle"
        BY <1>5, <2>3 DEF Serves, Before
      <3>2. /\ task'[g].id = id /\ effects'[id] = effects[id]
            /\ \/ task[g].at \in Before \cup {"put", "orphan"}
               \/ task[g].reply = "late"
        <4>1. CASE Leaves(g)
          BY <1>1, <1>5, <2>2, <3>1, <4>1 DEF Leaves, Over, Stays, Quiet
        <4>2. CASE Advances(g) \/ LooksUp(g) \/ Replays(g) \/ Inserts(g)
          BY <4>2 DEF Advances, LooksUp, Replays, Inserts, Stays, Quiet, Before
        <4>3. CASE Writes(g)
          BY <1>5, <4>3 DEF Writes, Before
        <4>4. CASE Declines(g)
          BY <4>4 DEF Declines, Stays, Quiet
        <4>5. CASE Applies(g) \/ Fails(g) \/ Marks(g)
          BY <1>5, <2>2, <3>1, <4>5 DEF Applies, Fails, Marks, Before
        <4>6. QED
          BY <1>1, <2>3, <4>1, <4>2, <4>3, <4>4, <4>5
          DEF Serves, Sorted, Renews, NoRetry
      <3>3. QED
        BY <3>1, <3>2 DEF Keyed, NoEffectYet
    <2>4. ASSUME ~Serves(g), task'[g].id = id, task[g].at # "idle",
                 \/ task[g].at \in Before \cup {"put", "orphan"}
                 \/ task[g].reply = "late",
                 ~Lands(g)
          PROVE  effects'[id] = 0
      <3>1. id \in Ids /\ effects[id] = 0
        BY <2>4, KeyedTypes DEF Keyed, NoEffectYet
      <3>2. ASSUME NEW h \in Handlers, (Serves(h) /\ Writes(h)) \/ Lands(h),
                   id = task[h].id
            PROVE  FALSE
        <4>1. h # g /\ task[h].at # "idle"
          BY <1>3, <2>4, <3>2
        <4>2. QED
          BY <2>4, <3>2, <4>1 DEF Keyed, SubmittedOnce
      <3>3. QED
        BY <1>2, <3>1, <3>2
    <2>5. Lands(g) => task'[g].at = "idle"
      BY <2>2 DEF Lands
    <2>6. CASE ~Serves(g) /\ task'[g] = task[g]
      BY <1>5, <2>4, <2>5, <2>6 DEF Before
    <2>7. CASE /\ ~Serves(g)
               /\ task[g].at = "put" \/ task[g].reply = "late"
               /\ task'[g].at = "orphan" /\ Stays(g)
      <3>1. ~Lands(g) /\ task[g].at # "idle" /\ task'[g].id = id
        BY <2>1, <2>5, <2>7 DEF Stays
      <3>2. QED
        BY <2>4, <2>7, <3>1
    <2>8. ASSUME NEW x \in Ids, Arrives(g, x) PROVE effects'[task'[g].id] = 0
      <3>1. submitted[x] = 0 /\ task'[g].id = x /\ UNCHANGED effects
        BY <2>8, FirstSubmission DEF Keyed, Arrives
      <3>2. QED
        BY <3>1 DEF Keyed, NoEffectYet
    <2>9. CASE task'[g] = IdleTask
      BY <1>5, <2>2, <2>9 DEF Before
    <2>10. QED
      BY <2>3, <2>6, <2>7, <2>8, <2>9, Unserved
  <1>6. QED
    BY <1>4, <1>5 DEF NoEffectYet

\* The invariant of unrepeated keys.
LEMMA AlwaysKeyed ==
    ASSUME Unrepeated
    PROVE  Spec => [](Located /\ Keyed)
  <1>1. Init => Keyed
    BY InitKeyed
  <1>2. Located /\ Keyed /\ [Next]_vars => Keyed'
    BY NextSubmittedOnce, NextFirstOfItsKey, NextAfterOriginal, NextLeftBehind,
       NextSealedReversals, NextNoEffectYet DEF Keyed
  <1>3. QED
    BY <1>1, <1>2, AlwaysLocated, PTL DEF Spec

\* A transaction marked reversed has a reversal that was applied, whatever
\* fails and however many processes there are, if no key is ever repeated.
THEOREM ReversedAlwaysHasReversal ==
    ASSUME Unrepeated
    PROVE  Spec => []ReversedHasReversal
  <1>1. Keyed => ReversedHasReversal
    BY DEF Keyed, SealedReversals, ReversedHasReversal, Reversal
  <1>2. QED
    BY <1>1, AlwaysKeyed, PTL

-----------------------------------------------------------------------------
(* With one worker, what it has in hand is pending until its verdict.      *)

OneWorker == \A i, j \in Instances : i = j

Unjudged == \A i \in Instances :
    /\ InOrder(i)
    /\ \A id \in Ids : Holds(i, id) => Has(id, "pending")

AppliedFirst == \A h \in Handlers :
    task[h].at # "idle" /\ IsReversal(task[h].id) => Settled(Original(task[h].id))

Judged == Located /\ Keyed /\ Unjudged /\ AppliedFirst

\* A verdict is given once.
LEMMA SettledStays ==
    ASSUME Unrepeated, Judged, [Next]_vars, NEW x \in Ids, Settled(x)
    PROVE  /\ rows'[x] # None
           /\ rows'[x].status = rows[x].status \/ rows'[x].status = "reversed"
  <1>1. Located /\ Keyed /\ NoRetry
    BY DEF Judged, Keyed, FirstOfItsKey, NoRetry
  <1>2. rows[x] # None /\ ~Has(x, "pending")
    BY DEF Settled, Has
  <1>3. ASSUME NEW h \in Handlers, x = task[h].id,
               Inserts(h) \/ Applies(h) \/ Fails(h)
        PROVE  FALSE
    <2>1. Inserts(h) => rows[x] = None
      BY <1>3 DEF Inserts
    <2>2. Applies(h) \/ Fails(h) => Has(x, "pending")
      BY <1>1, <1>3 DEF Applies, Fails, Sent, Keyed, FirstOfItsKey
    <2>3. QED
      BY <1>2, <1>3, <2>1, <2>2
  <1>4. ASSUME NEW h \in Handlers, x = Original(task[h].id), Marks(h)
        PROVE  rows'[x] # None /\ rows'[x].status = "reversed"
    BY <1>4 DEF Marks, SetTo
  <1>5. ASSUME NEW i \in Instances, Judges(i), x = worker[i].cur PROVE FALSE
    BY <1>2, <1>5 DEF Judged, Unjudged, Holds
  <1>6. CASE rows'[x] = rows[x] \/ Ages(x)
    BY <1>2, <1>6 DEF Ages
  <1>7. QED
    BY <1>1, <1>3, <1>4, <1>5, <1>6, RowStep

\* A row of the batch gets one verdict, its own.
LEMMA NextUnjudged ==
    ASSUME Unrepeated, OneWorker, Judged, [Next]_vars
    PROVE  Unjudged'
  <1> SUFFICES ASSUME NEW i \in Instances
               PROVE  /\ InOrder(i)'
                      /\ \A x \in Ids : Holds(i, x)' => Has(x, "pending")'
    BY DEF Unjudged
  <1>1. Located /\ Keyed /\ NoRetry /\ InOrder(i)
    BY DEF Judged, Keyed, FirstOfItsKey, NoRetry, Unjudged
  <1>2. \A j \in Instances : j = i
    BY DEF OneWorker
  <1>3. InOrder(i)'
    <2>1. ASSUME NEW j \in Instances, Works(j) PROVE InOrder(i)'
      <3>1. Works(i)
        BY <1>2, <2>1
      <3>2. QED
        BY <1>1, <3>1 DEF Works
    <2>2. ASSUME NEW j \in Instances, Dies(j) PROVE InOrder(i)'
      <3>1. worker'[i] = IdleWorker
        BY <1>2, <2>2 DEF Dies
      <3>2. QED
        BY <3>1 DEF InOrder, IdleWorker
    <2>3. CASE UNCHANGED worker
      BY <1>1, <2>3 DEF InOrder
    <2>4. QED
      BY <1>1, <2>1, <2>2, <2>3, NextSorted
      DEF Serves, Lands, Arrives, Ages, Calm
  <1>4. ASSUME NEW x \in Ids, Holds(i, x)' PROVE Has(x, "pending")'
    <2>1. CASE x \in StalePending /\ UNCHANGED rows
      BY <2>1 DEF StalePending, Has
    <2>2. CASE Holds(i, x)
      <3>1. Has(x, "pending")
        BY <2>2 DEF Judged, Unjudged
      <3>2. ASSUME NEW h \in Handlers, Serves(h), x = task[h].id PROVE FALSE
        BY <1>1, <2>2, <3>2 DEF Serves, Keyed, LeftBehind
      <3>3. ASSUME NEW h \in Handlers, Serves(h), Marks(h),
                   x = Original(task[h].id)
            PROVE  FALSE
        <4>1. task[h].at = "mark" /\ TaskLocated(task[h], rows)
          BY <1>1, <3>3 DEF Marks, Located, TasksLocated
        <4>2. IsReversal(task[h].id)
          BY <4>1 DEF TaskLocated
        <4>3. Settled(x)
          BY <3>3, <4>1, <4>2 DEF Judged, AppliedFirst
        <4>4. QED
          BY <3>1, <4>3 DEF Settled, Has
      <3>4. ASSUME NEW j \in Instances, Judges(j), x = worker[j].cur
            PROVE  FALSE
        <4>1. j = i
          BY <1>2
        <4>2. x \in worker[i].todo
          BY <1>4, <3>4, <4>1 DEF Judges
        <4>3. QED
          BY <1>1, <3>4, <4>1, <4>2 DEF InOrder
      <3>5. rows'[x] = rows[x] \/ Ages(x)
        BY <1>1, <3>2, <3>3, <3>4, RowStep
      <3>6. QED
        BY <3>1, <3>5 DEF Ages, Has
    <2>3. QED
      BY <1>1, <1>4, <2>1, <2>2, BatchStep
  <1>5. QED
    BY <1>3, <1>4

\* A reversal works on a booking that is settled, and stays so.
LEMMA NextAppliedFirst ==
    ASSUME Unrepeated, Judged, [Next]_vars
    PROVE  AppliedFirst'
  <1> SUFFICES ASSUME NEW h \in Handlers, task'[h].at # "idle",
                      IsReversal(task'[h].id)
               PROVE  /\ rows'[Original(task'[h].id)] # None
                      /\ rows'[Original(task'[h].id)].status
                            \in {"applied", "reversed"}
    BY DEF AppliedFirst, Settled, Has
  <1>1. Located /\ NoRetry
    BY DEF Judged, Keyed, FirstOfItsKey, NoRetry
  <1>2. CASE task[h].at # "idle" /\ task'[h].id = task[h].id
    <2>1. Original(task[h].id) \in Ids
      BY <1>1, <1>2, KeyedTypes, ConstantFacts
    <2>2. Settled(Original(task[h].id))
      BY <1>2 DEF Judged, AppliedFirst
    <2>3. QED
      BY <1>2, <2>1, <2>2, SettledStays DEF Settled, Has
  <1>3. CASE Arrives(h, task'[h].id)
    BY <1>3 DEF Arrives, Settled, Has
  <1>4. QED
    BY <1>1, <1>2, <1>3, TaskStep

\* The invariant with one worker.
LEMMA AlwaysJudged ==
    ASSUME Unrepeated, OneWorker
    PROVE  Spec => []Judged
  <1>1. Init => Unjudged /\ AppliedFirst
    <2> SUFFICES ASSUME Init PROVE Unjudged /\ AppliedFirst
      OBVIOUS
    <2>1. /\ \A h \in Handlers : task[h].at = "idle"
          /\ \A i \in Instances : worker[i].todo = {} /\ worker[i].cur = None
      BY DEF Init, IdleTask, IdleWorker
    <2>2. QED
      BY <2>1, ConstantFacts DEF Unjudged, AppliedFirst, InOrder, Holds
  <1>2. Judged /\ [Next]_vars => Unjudged' /\ AppliedFirst'
    BY NextUnjudged, NextAppliedFirst
  <1>3. Judged <=> Located /\ Keyed /\ Unjudged /\ AppliedFirst
    BY DEF Judged
  <1>4. QED
    BY <1>1, <1>2, <1>3, AlwaysKeyed, PTL DEF Spec

\* With one process and unrepeated keys, neither a late answer nor the worker
\* takes an applied transaction back; only its reversal marks it.
THEOREM AppliedStaysApplied ==
    ASSUME Unrepeated, OneWorker
    PROVE  Spec => AppliedIsFinal
  <1>1. Judged /\ [Next]_vars =>
           [\A id \in Ids : Has(id, "applied") =>
               rows'[id].status \in {"applied", "reversed"}]_vars
    BY SettledStays DEF Settled, Has
  <1>2. QED
    BY <1>1, AlwaysJudged, PTL DEF Spec, AppliedIsFinal

-----------------------------------------------------------------------------
(* Clients that repeat their keys at will, on any number of processes,     *)
(* while only reads of the balance fail: whoever inserts the row is the    *)
(* one who writes, and has written when the row is settled.                *)

Reliable == Environment \subseteq {"readError"} /\ MaxCrashes = 0

Straight == \A h \in Handlers :
    /\ task[h].at # "orphan" /\ task[h].seen = None
    /\ task[h].reply \in {None, "ok"}
    /\ task[h].at \in Sent => Has(task[h].id, "pending")
    /\ task[h].at = "mark" => Has(task[h].id, "applied")

SentOnce == \A g, h \in Handlers :
    task[g].at \in Sent /\ task[h].at \in Sent /\ task[g].id = task[h].id => g = h

\* A pending row is young, and its handler is at work.
InHand == \A id \in Ids :
    /\ ~Has(id, "failed")
    /\ Has(id, "pending") =>
          /\ rows[id].fresh
          /\ \E h \in Handlers : task[h].id = id /\ task[h].at \in Sent

NothingToDo == \A i \in Instances : worker[i].cur = None

\* Whoever asked for the reversal of a booking is done with the booking.
DoneWith ==
    /\ \A id \in Ids : Has(id, "reversed") =>
          ~IsReversal(id) /\ submitted[Reversal(id)] > 0
    /\ \A h \in Handlers : task[h].at # "idle" =>
          IF IsReversal(task[h].id)
          THEN submitted[task[h].id] > 0 /\ Settled(Original(task[h].id))
          ELSE submitted[Reversal(task[h].id)] = 0

Counted ==
    /\ \A id \in Ids : /\ rows[id] = None => effects[id] = 0
                       /\ Settled(id) => effects[id] = 1
    /\ \A h \in Handlers : /\ task[h].at = "put"   => effects[task[h].id] = 0
                           /\ task[h].at = "reply" => effects[task[h].id] = 1

Told == /\ Straight /\ SentOnce /\ InHand /\ NothingToDo /\ DoneWith
        /\ Counted

\* The sorts of service there are when nothing but a read fails.
Smooth(h) ==
    /\ Serves(h)
    /\ \/ Leaves(h) /\ task[h].at \notin Sent
       \/ Advances(h)
       \/ LooksUp(h) /\ rows[task[h].id] = None
       \/ Replays(h)
       \/ Inserts(h)
       \/ Writes(h) /\ task'[h].reply = "ok"
       \/ Applies(h)
       \/ Marks(h)

\* Without failures, a lookup that goes on has found no row.
LEMMA ServesSmoothly ==
    ASSUME Reliable, Located, Told, NEW h \in Handlers, Serves(h)
    PROVE  Smooth(h)
  <1> DEFINE id == task[h].id
  <1>1. /\ task[h].seen = None /\ task[h].reply \in {None, "ok"}
        /\ id \in Ids /\ task[h].at # "idle"
    BY DEF Told, Straight, Serves
  <1>2. \A trouble \in {"reject", "garbled", "lost", "late", "dbError"} :
            trouble \notin Environment
    BY DEF Reliable
  <1>3. CASE Leaves(h)
    <2>1. task[h].reply \notin {"lost", "late"}
      BY <1>1, LedgerAssumption
    <2>2. task[h].at \notin Sent
      BY <1>2, <1>3, <2>1 DEF Leaves
    <2>3. QED
      BY <1>3, <2>2 DEF Smooth
  <1>4. CASE LooksUp(h)
    <2>1. ~Has(id, "applied") /\ ~(Has(id, "pending") /\ rows[id].fresh)
      BY <1>4 DEF LooksUp, AppliedBefore, FreshPending
    <2>2. ~Has(id, "pending") /\ ~Has(id, "failed")
      BY <1>1, <2>1 DEF Told, InHand
    <2>3. ~Has(id, "reversed")
      <3>1. ASSUME Has(id, "reversed") PROVE FALSE
        <4>1. ~IsReversal(id) /\ submitted[Reversal(id)] > 0
          BY <1>1, <3>1 DEF Told, DoneWith
        <4>2. submitted[Reversal(id)] = 0
          BY <1>1, <4>1 DEF Told, DoneWith
        <4>3. QED
          BY <4>1, <4>2
      <3>2. QED
        BY <3>1
    <2>4. rows[id] \in Row \cup {None}
      BY <1>1 DEF Located, TypeOK
    <2>5. rows[id] # None => rows[id].status \in Statuses
      BY <2>4 DEF Row
    <2>6. rows[id] = None
      BY <2>1, <2>2, <2>3, <2>5 DEF Has, Statuses
    <2>7. QED
      BY <1>4, <2>6 DEF Smooth
  <1>5. CASE Writes(h)
    <2>1. task'[h].reply = "ok"
      BY <1>2, <1>5 DEF Writes
    <2>2. QED
      BY <1>5, <2>1 DEF Smooth
  <1>6. ~Declines(h)
    BY <1>2 DEF Declines
  <1>7. ~Fails(h)
    BY <1>1, LedgerAssumption DEF Fails
  <1>8. ~Renews(h)
    BY <1>1 DEF Renews
  <1>9. QED
    BY <1>3, <1>4, <1>5, <1>6, <1>7, <1>8 DEF Serves, Sorted, Smooth

\* Nothing lands late, nobody dies, and the worker has nothing to do.
LEMMA ReliableSteps ==
    ASSUME Reliable, Located, Told, [Next]_vars
    PROVE  \/ \E h \in Handlers : Smooth(h)
           \/ \E h \in Handlers, id \in Ids : Arrives(h, id)
           \/ \E id \in Ids : Ages(id) /\ ~Has(id, "pending")
           \/ Calm
  <1>1. ASSUME NEW h \in Handlers, Lands(h) PROVE FALSE
    BY <1>1 DEF Lands, Told, Straight
  <1>2. ASSUME NEW id \in Ids, Ages(id), Has(id, "pending") PROVE FALSE
    <2>1. PICK h \in Handlers : task[h].id = id /\ task[h].at \in Sent
      BY <1>2 DEF Told, InHand
    <2>2. task[h].seen = None /\ "slow" \notin Environment
      BY DEF Told, Straight, Reliable
    <2>3. QED
      BY <1>2, <2>1, <2>2 DEF Ages
  <1>3. ASSUME NEW i \in Instances, Works(i) PROVE FALSE
    <2>1. worker[i].cur = None
      BY DEF Told, NothingToDo
    <2>2. StalePending = {}
      BY DEF StalePending, Told, InHand
    <2>3. QED
      BY <1>3, <2>1, <2>2, ConstantFacts DEF Works, Fetches, Judges, Carries
  <1>4. ASSUME NEW i \in Instances, Dies(i) PROVE FALSE
    BY <1>4 DEF Dies, Reliable, Located, TypeOK
  <1>5. QED
    BY <1>1, <1>2, <1>3, <1>4, ServesSmoothly, NextSorted

\* No request goes on with a row it has found.
LEMMA ToldNoRetry == Told => NoRetry
  BY DEF Told, Straight, NoRetry

\* Of a row, only the request that inserted it or its reversal changes the
\* status.
LEMMA RowSmooth ==
    ASSUME Reliable, Located, Told, [Next]_vars, NEW x \in Ids
    PROVE  \/ rows'[x] = rows[x]
           \/ /\ rows'[x] # None /\ rows[x] # None
              /\ rows'[x].status = rows[x].status /\ ~Has(x, "pending")
           \/ \E h \in Handlers :
                 /\ Smooth(h)
                 /\ \/ x = task[h].id /\ (Inserts(h) \/ Applies(h))
                    \/ x = Original(task[h].id) /\ Marks(h)
  <1>1. ASSUME NEW i \in Instances, Judges(i) PROVE FALSE
    BY <1>1, ConstantFacts DEF Judges, Told, NothingToDo
  <1>2. ASSUME NEW h \in Handlers, Fails(h) PROVE FALSE
    BY <1>2, LedgerAssumption DEF Fails, Told, Straight
  <1>3. ASSUME Ages(x)
        PROVE  /\ rows'[x] # None /\ rows[x] # None
               /\ rows'[x].status = rows[x].status /\ ~Has(x, "pending")
    <2>1. ASSUME Has(x, "pending") PROVE FALSE
      <3>1. PICK h \in Handlers : task[h].id = x /\ task[h].at \in Sent
        BY <2>1 DEF Told, InHand
      <3>2. task[h].seen = None /\ "slow" \notin Environment
        BY DEF Told, Straight, Reliable
      <3>3. QED
        BY <1>3, <3>1, <3>2 DEF Ages
    <2>2. QED
      BY <1>3, <2>1 DEF Ages
  <1>4. QED
    BY <1>1, <1>2, <1>3, ToldNoRetry, ServesSmoothly, RowStep

\* Only the task that is served, or arrives, moves.
LEMMA TaskSmooth ==
    ASSUME Reliable, Located, Told, [Next]_vars, NEW g \in Handlers
    PROVE  \/ task'[g] = task[g]
           \/ Smooth(g)
           \/ \E id \in Ids : Arrives(g, id)
  <1>1. ASSUME NEW h \in Handlers, Smooth(h)
        PROVE  task'[g] = task[g] \/ Smooth(g)
    BY <1>1 DEF Smooth, Serves, Alone
  <1>2. ASSUME NEW h \in Handlers, NEW id \in Ids, Arrives(h, id)
        PROVE  task'[g] = task[g] \/ Arrives(g, id)
    BY <1>2 DEF Arrives, Alone
  <1>3. QED
    BY <1>1, <1>2, ReliableSteps DEF Ages, Calm

\* A write in progress was so before, or has just been recorded.
LEMMA SentStep ==
    ASSUME Reliable, Located, Told, [Next]_vars, NEW g \in Handlers,
           task'[g].at \in Sent
    PROVE  /\ task'[g].id = task[g].id /\ task[g].id \in Ids
           /\ \/ task'[g] = task[g]
              \/ Smooth(g) /\ Inserts(g)
              \/ Smooth(g) /\ Writes(g)
  <1>1. ~ \E id \in Ids : Arrives(g, id)
    BY DEF Arrives, Sent
  <1>2. CASE task'[g] = task[g]
    BY <1>2, KeyedTypes DEF Sent
  <1>3. CASE Smooth(g)
    <2>1. CASE Inserts(g) \/ Writes(g)
      BY <1>3, <2>1 DEF Inserts, Writes, Stays, Smooth, Serves
    <2>2. CASE ~(Inserts(g) \/ Writes(g))
      <3>1. task[g].reply # "late"
        BY LedgerAssumption DEF Told, Straight
      <3>2. task'[g].at \in Before \cup {"mark", "idle"}
        BY <1>3, <2>2, <3>1
        DEF Smooth, Leaves, Advances, LooksUp, Replays, Applies, Marks, Over,
            IdleTask, Before
      <3>3. QED
        BY <3>2 DEF Sent, Before
    <2>3. QED
      BY <2>1, <2>2
  <1>4. QED
    BY <1>1, <1>2, <1>3, TaskSmooth

\* A settled row stays settled.
LEMMA SettledStaysSettled ==
    ASSUME Reliable, Located, Told, [Next]_vars, NEW x \in Ids, Settled(x)
    PROVE  Settled(x)'
  <1>1. ASSUME NEW h \in Handlers, x = task[h].id, Inserts(h) PROVE FALSE
    BY <1>1 DEF Inserts, Settled, Has
  <1>2. ASSUME NEW h \in Handlers, x = task[h].id, Applies(h)
        PROVE  Settled(x)'
    BY <1>2 DEF Applies, SetTo, Settled, Has
  <1>3. ASSUME NEW h \in Handlers, x = Original(task[h].id), Marks(h)
        PROVE  Settled(x)'
    BY <1>3 DEF Marks, SetTo, Settled, Has
  <1>4. CASE \/ rows'[x] = rows[x]
             \/ rows'[x] # None /\ rows'[x].status = rows[x].status
    BY <1>4 DEF Settled, Has
  <1>5. QED
    BY <1>1, <1>2, <1>3, <1>4, RowSmooth

\* While a write is in progress, its row waits for its own handler.
LEMMA PendingStaysPending ==
    ASSUME Reliable, Located, Told, [Next]_vars, NEW g \in Handlers,
           task[g].at \in Sent, ~(Smooth(g) /\ Applies(g))
    PROVE  rows'[task[g].id] = rows[task[g].id]
  <1> DEFINE x == task[g].id
  <1>1. x \in Ids /\ Has(x, "pending")
    BY KeyedTypes DEF Sent, Told, Straight
  <1>2. ASSUME NEW h \in Handlers, x = task[h].id, Inserts(h) PROVE FALSE
    BY <1>1, <1>2 DEF Inserts, Has
  <1>3. ASSUME NEW h \in Handlers, x = task[h].id, Smooth(h), Applies(h)
        PROVE  FALSE
    <2>1. task[h].at \in Sent
      BY <1>3 DEF Applies, Sent
    <2>2. h = g
      BY <1>3, <2>1 DEF Told, SentOnce
    <2>3. QED
      BY <1>3, <2>2
  <1>4. ASSUME NEW h \in Handlers, x = Original(task[h].id), Marks(h)
        PROVE  FALSE
    <2>1. IsReversal(task[h].id) /\ task[h].at # "idle"
      BY <1>4 DEF Marks, Located, TasksLocated, TaskLocated
    <2>2. Settled(x)
      BY <1>4, <2>1 DEF Told, DoneWith
    <2>3. QED
      BY <1>1, <2>2 DEF Settled, Has
  <1>5. QED
    BY <1>1, <1>2, <1>3, <1>4, RowSmooth

\* A task passes through its steps without trouble.
LEMMA NextStraight ==
    ASSUME Reliable, Located, Told, [Next]_vars
    PROVE  Straight'
  <1> SUFFICES ASSUME NEW g \in Handlers
               PROVE  /\ task'[g].at # "orphan" /\ task'[g].seen = None
                      /\ task'[g].reply \in {None, "ok"}
                      /\ task'[g].at \in Sent =>
                            /\ rows'[task'[g].id] # None
                            /\ rows'[task'[g].id].status = "pending"
                      /\ task'[g].at = "mark" =>
                            /\ rows'[task'[g].id] # None
                            /\ rows'[task'[g].id].status = "applied"
    BY DEF Straight, Has
  <1> DEFINE id == task[g].id
  <1>1. /\ task[g].at # "orphan" /\ task[g].seen = None
        /\ task[g].reply \in {None, "ok"}
        /\ task[g].at \in Sent => Has(id, "pending")
        /\ task[g].at = "mark" => Has(id, "applied")
        /\ task[g].reply # "late"
    BY LedgerAssumption DEF Told, Straight
  <1>2. /\ IdleTask.at = "idle" /\ IdleTask.seen = None
        /\ IdleTask.reply = None
    BY DEF IdleTask
  <1>3. CASE Smooth(g)
    <2>1. CASE (Leaves(g) /\ task[g].at \notin Sent) \/ Marks(g)
      BY <1>1, <1>2, <2>1 DEF Leaves, Marks, Over, Sent
    <2>2. CASE Advances(g) \/ (LooksUp(g) /\ rows[id] = None)
      BY <1>1, <2>2 DEF Advances, LooksUp, Stays, Before, Sent
    <2>3. CASE Replays(g)
      BY <1>1, <2>3 DEF Replays, Stays, Quiet, Sent, Has
    <2>4. CASE Inserts(g)
      BY <1>1, <2>4 DEF Inserts, Stays, Sent
    <2>5. CASE Writes(g) /\ task'[g].reply = "ok"
      BY <1>1, <2>5 DEF Writes, Stays, Sent, Has
    <2>6. CASE Applies(g)
      BY <1>1, <1>2, <2>6 DEF Applies, SetTo, Stays, Sent
    <2>7. QED
      BY <1>3, <2>1, <2>2, <2>3, <2>4, <2>5, <2>6 DEF Smooth
  <1>4. CASE task'[g] = task[g] /\ ~Smooth(g)
    <2>1. CASE task[g].at \in Sent
      <3>1. rows'[id] = rows[id]
        BY <1>4, <2>1, PendingStaysPending
      <3>2. QED
        BY <1>1, <1>4, <2>1, <3>1 DEF Sent, Has
    <2>2. CASE task[g].at = "mark"
      <3>1. id \in Ids /\ Has(id, "applied") /\ IsReversal(id)
        BY <1>1, <2>2, KeyedTypes DEF Located, TasksLocated, TaskLocated
      <3>2. ASSUME NEW h \in Handlers, Smooth(h), id = Original(task[h].id)
            PROVE  FALSE
        BY <3>1, <3>2, ReversalFacts DEF Smooth, Serves
      <3>3. ASSUME NEW h \in Handlers, id = task[h].id, Inserts(h) \/ Applies(h)
            PROVE  rows'[id] # None /\ rows'[id].status = "applied"
        BY <3>1, <3>3 DEF Inserts, Applies, SetTo, Has
      <3>4. rows'[id] # None /\ rows'[id].status = "applied"
        BY <3>1, <3>2, <3>3, RowSmooth DEF Has
      <3>5. QED
        BY <1>1, <1>4, <2>2, <3>4 DEF Sent
    <2>3. CASE task[g].at \notin Sent /\ task[g].at # "mark"
      BY <1>1, <1>4, <2>3
    <2>4. QED
      BY <2>1, <2>2, <2>3
  <1>5. ASSUME NEW x \in Ids, Arrives(g, x)
        PROVE  /\ task'[g].at = "wait" /\ task'[g].seen = None
               /\ task'[g].reply = None
    BY <1>5 DEF Arrives
  <1>6. QED
    BY <1>3, <1>4, <1>5, TaskSmooth DEF Sent

\* Of one key, the request that inserted the row is the only one to write.
LEMMA NextSentOnce ==
    ASSUME Reliable, Located, Told, [Next]_vars
    PROVE  SentOnce'
  <1> SUFFICES ASSUME NEW g \in Handlers, NEW h \in Handlers, g # h,
                      task'[g].at \in Sent, task'[h].at \in Sent,
                      task'[g].id = task'[h].id
               PROVE  FALSE
    BY DEF SentOnce
  <1>1. task'[g].id = task[g].id /\ task'[h].id = task[h].id
    BY SentStep
  <1>2. ASSUME NEW e \in Handlers, NEW f \in Handlers, e # f,
               task'[f].at \in Sent, task[e].id = task[f].id,
               Smooth(e), Inserts(e)
        PROVE  FALSE
    <2>1. task'[f] = task[f] /\ rows[task[e].id] = None
      BY <1>2 DEF Smooth, Serves, Alone, Inserts
    <2>2. Has(task[f].id, "pending")
      BY <1>2, <2>1 DEF Told, Straight
    <2>3. QED
      BY <1>2, <2>1, <2>2 DEF Has
  <1>3. task[g].at \in Sent /\ task[h].at \in Sent
    BY <1>1, <1>2, SentStep DEF Writes, Sent
  <1>4. QED
    BY <1>1, <1>3 DEF Told, SentOnce

\* A pending row has its handler until it is applied.
LEMMA NextInHand ==
    ASSUME Reliable, Located, Told, [Next]_vars
    PROVE  InHand'
  <1> SUFFICES ASSUME NEW x \in Ids
               PROVE  /\ ~Has(x, "failed")'
                      /\ Has(x, "pending")' =>
                            /\ rows'[x].fresh
                            /\ \E h \in Handlers :
                                  task'[h].id = x /\ task'[h].at \in Sent
    BY DEF InHand, Has
  <1>1. /\ ~Has(x, "failed")
        /\ Has(x, "pending") =>
              /\ rows[x].fresh
              /\ \E h \in Handlers : task[h].id = x /\ task[h].at \in Sent
    BY DEF Told, InHand
  <1>2. ASSUME NEW h \in Handlers, Inserts(h), x = task[h].id
        PROVE  /\ ~Has(x, "failed")' /\ rows'[x].fresh
               /\ task'[h].id = x /\ task'[h].at \in Sent
    BY <1>2 DEF Inserts, Has, Stays, Sent
  <1>3. ASSUME NEW h \in Handlers,
               \/ x = task[h].id /\ Applies(h)
               \/ x = Original(task[h].id) /\ Marks(h)
        PROVE  ~Has(x, "failed")' /\ ~Has(x, "pending")'
    BY <1>3 DEF Applies, Marks, SetTo, Has
  <1>4. CASE /\ rows'[x] # None /\ rows[x] # None
             /\ rows'[x].status = rows[x].status /\ ~Has(x, "pending")
    BY <1>1, <1>4 DEF Has
  <1>5. CASE rows'[x] = rows[x]
    <2>1. ASSUME Has(x, "pending"), NEW h \in Handlers, task[h].id = x,
                 task[h].at \in Sent
          PROVE  task'[h].id = x /\ task'[h].at \in Sent
      <3>1. ~ \E id \in Ids : Arrives(h, id)
        BY <2>1 DEF Arrives, Sent
      <3>2. CASE Smooth(h)
        <4>1. ~Applies(h)
          BY <1>5, <2>1 DEF Applies, SetTo, Has
        <4>2. Writes(h)
          BY <2>1, <3>2, <4>1
          DEF Smooth, Advances, LooksUp, Replays, Inserts, Marks, Sent, Before
        <4>3. QED
          BY <2>1, <4>2 DEF Writes, Stays, Sent
      <3>3. QED
        BY <2>1, <3>1, <3>2, TaskSmooth
    <2>2. QED
      BY <1>1, <1>5, <2>1 DEF Has
  <1>6. QED
    BY <1>2, <1>3, <1>4, <1>5, RowSmooth

\* A reversal is not asked for while its booking is in progress, nor the
\* booking afterwards.
LEMMA NextDoneWith ==
    ASSUME Reliable, Located, Told, [Next]_vars
    PROVE  DoneWith'
  <1>1. "reuse" \notin Environment /\ NoRetry
    BY ToldNoRetry DEF Reliable
  <1>2. ASSUME NEW x \in Ids, Has(x, "reversed")'
        PROVE  ~IsReversal(x) /\ submitted'[Reversal(x)] > 0
    <2>1. Reversal(x) \in Ids
      BY ReversalFacts
    <2>2. ~IsReversal(x) /\ submitted[Reversal(x)] > 0
      <3>1. CASE Has(x, "reversed")
        BY <3>1 DEF Told, DoneWith
      <3>2. ASSUME NEW h \in Handlers, Smooth(h), Marks(h),
                   x = Original(task[h].id)
            PROVE  ~IsReversal(x) /\ submitted[Reversal(x)] > 0
        <4>1. task[h].id \in Ids /\ task[h].at = "mark"
          BY <3>2 DEF Smooth, Serves, Marks
        <4>2. IsReversal(task[h].id)
          BY <4>1 DEF Located, TasksLocated, TaskLocated
        <4>3. submitted[task[h].id] > 0
          BY <4>1, <4>2 DEF Told, DoneWith
        <4>4. QED
          BY <3>2, <4>1, <4>2, <4>3, ReversalFacts
      <3>3. ASSUME NEW h \in Handlers, x = task[h].id, Inserts(h) \/ Applies(h)
            PROVE  FALSE
        BY <1>2, <3>3 DEF Inserts, Applies, SetTo, Has
      <3>4. CASE \/ rows'[x] = rows[x]
                 \/ /\ rows'[x] # None /\ rows[x] # None
                    /\ rows'[x].status = rows[x].status
        BY <1>2, <3>1, <3>4 DEF Has
      <3>5. QED
        BY <3>2, <3>3, <3>4, RowSmooth
    <2>3. QED
      BY <2>1, <2>2, SubmittedStep
  <1>3. ASSUME NEW h \in Handlers, task'[h].at # "idle"
        PROVE  IF IsReversal(task'[h].id)
               THEN /\ submitted'[task'[h].id] > 0
                    /\ rows'[Original(task'[h].id)] # None
                    /\ rows'[Original(task'[h].id)].status
                          \in {"applied", "reversed"}
               ELSE submitted'[Reversal(task'[h].id)] = 0
    <2> DEFINE id == task'[h].id
    <2>1. CASE task[h].at # "idle" /\ task'[h].id = task[h].id
      <3>1. /\ task[h].id \in Ids /\ Original(task[h].id) \in Ids
            /\ Reversal(task[h].id) \in Ids
        BY <2>1, KeyedTypes, ConstantFacts, ReversalFacts
      <3>2. CASE IsReversal(task[h].id)
        <4>1. submitted[task[h].id] > 0 /\ Settled(Original(task[h].id))
          BY <2>1, <3>2 DEF Told, DoneWith
        <4>2. submitted'[task[h].id] > 0
          BY <3>1, <4>1, SubmittedStep
        <4>3. /\ rows'[Original(task[h].id)] # None
              /\ rows'[Original(task[h].id)].status \in {"applied", "reversed"}
          <5>1. rows'[Original(task[h].id)] # None
            BY <3>1, <4>1, RowsNeverVanish DEF Settled, Has
          <5>2. ASSUME NEW x \in Ids, Settled(x)'
                PROVE  rows'[x].status \in {"applied", "reversed"}
            BY <5>2 DEF Settled, Has
          <5>3. ASSUME NEW x \in Ids, Settled(x)
                PROVE  rows'[x].status \in {"applied", "reversed"}
            BY <5>2, <5>3, SettledStaysSettled
          <5>4. QED
            BY <3>1, <4>1, <5>1, <5>3
        <4>4. QED
          BY <2>1, <3>2, <4>2, <4>3
      <3>3. CASE ~IsReversal(task[h].id)
        <4> DEFINE r == Reversal(task[h].id)
        <4>1. submitted[r] = 0
          BY <2>1, <3>3 DEF Told, DoneWith
        <4>2. IsReversal(r) /\ Original(r) = task[h].id
          BY <3>1, <3>3, ReversalFacts
        <4>3. ASSUME NEW g \in Handlers, Arrives(g, r) PROVE FALSE
          <5>1. task[h].at = "orphan" \/ task[h].id # Original(r)
            BY <1>1, <4>2, <4>3 DEF Arrives, ClientMaySubmit
          <5>2. QED
            BY <4>2, <5>1 DEF Told, Straight
        <4>4. submitted'[r] = submitted[r]
          BY <3>1, <4>3, SubmittedStep
        <4>5. QED
          BY <2>1, <3>3, <4>1, <4>4
      <3>4. QED
        BY <3>2, <3>3
    <2>2. CASE id \in Ids /\ Arrives(h, id)
      <3>1. Reversal(id) \in Ids /\ IsReversal(Reversal(id))
        BY <2>2, ReversalFacts
      <3>2. CASE IsReversal(id)
        <4>1. submitted'[id] > 0
          BY <2>2, SubmittedStep
        <4>2. Has(Original(id), "applied") /\ UNCHANGED rows
          BY <2>2, <3>2 DEF Arrives
        <4>3. QED
          BY <3>2, <4>1, <4>2 DEF Has
      <3>3. CASE ~IsReversal(id)
        <4>1. submitted[Reversal(id)] = 0
          BY <1>1, <2>2, <3>3 DEF Arrives, ClientMaySubmit, Reversal
        <4>2. submitted'[Reversal(id)] = submitted[Reversal(id)]
          BY <2>2, <3>1, <3>3 DEF Arrives, Located, TypeOK
        <4>3. QED
          BY <3>3, <4>1, <4>2
      <3>4. QED
        BY <3>2, <3>3
    <2>3. QED
      BY <1>1, <1>3, <2>1, <2>2, TaskStep
  <1>4. QED
    BY <1>2, <1>3 DEF DoneWith, Settled, Has

\* The effect of a request is that of its one write.
LEMMA EffectStep ==
    ASSUME Reliable, Located, Told, [Next]_vars, NEW x \in Ids
    PROVE  \/ effects'[x] = effects[x]
           \/ \E h \in Handlers :
                 /\ Smooth(h) /\ Writes(h) /\ x = task[h].id
                 /\ effects'[x] = effects[x] + 1
  <1>1. effects \in [Ids -> Nat]
    BY DEF Located, TypeOK
  <1>2. ASSUME NEW h \in Handlers, Smooth(h), ~Writes(h)
        PROVE  UNCHANGED effects
    BY <1>2 DEF Smooth, Leaves, Advances, LooksUp, Replays, Inserts, Applies,
       Marks, Quiet
  <1>3. ASSUME NEW h \in Handlers, Smooth(h), Writes(h)
        PROVE  \/ effects'[x] = effects[x]
               \/ x = task[h].id /\ effects'[x] = effects[x] + 1
    BY <1>1, <1>3 DEF Writes
  <1>4. QED
    BY <1>2, <1>3, ReliableSteps DEF Arrives, Ages, Calm

\* A settled row has been written once.
LEMMA NextCounted ==
    ASSUME Reliable, Located, Told, [Next]_vars
    PROVE  Counted'
  <1>1. \A x \in Ids : effects[x] \in Nat
    BY DEF Located, TypeOK
  <1>2. ASSUME NEW h \in Handlers, Writes(h)
        PROVE  Has(task[h].id, "pending") /\ effects[task[h].id] = 0
    BY <1>2 DEF Writes, Sent, Told, Straight, Counted
  <1>3. ASSUME NEW x \in Ids, rows[x] = None \/ Settled(x)
        PROVE  effects'[x] = effects[x]
    BY <1>2, <1>3, EffectStep DEF Settled, Has
  <1>4. ASSUME NEW x \in Ids, rows'[x] = None PROVE effects'[x] = 0
    <2>1. rows[x] = None
      BY <1>4, RowsNeverVanish
    <2>2. QED
      BY <1>3, <2>1 DEF Told, Counted
  <1>5. ASSUME NEW x \in Ids, Settled(x)' PROVE effects'[x] = 1
    <2>1. CASE Settled(x)
      BY <1>3, <2>1 DEF Told, Counted
    <2>2. ASSUME NEW h \in Handlers, Smooth(h), Applies(h), x = task[h].id
          PROVE  effects'[x] = 1
      BY <2>2 DEF Applies, Told, Counted
    <2>3. ASSUME NEW h \in Handlers, Inserts(h), x = task[h].id PROVE FALSE
      BY <1>5, <2>3 DEF Inserts, Settled, Has
    <2>4. ASSUME NEW h \in Handlers, Marks(h), x = Original(task[h].id)
          PROVE  Settled(x)
      <3>1. IsReversal(task[h].id) /\ task[h].at # "idle"
        BY <2>4 DEF Marks, Located, TasksLocated, TaskLocated
      <3>2. QED
        BY <2>4, <3>1 DEF Told, DoneWith
    <2>5. CASE \/ rows'[x] = rows[x]
               \/ /\ rows'[x] # None /\ rows[x] # None
                  /\ rows'[x].status = rows[x].status
      BY <1>5, <2>1, <2>5 DEF Settled, Has
    <2>6. QED
      BY <2>1, <2>2, <2>3, <2>4, <2>5, RowSmooth
  <1>6. ASSUME NEW g \in Handlers, task'[g].at \in Sent
        PROVE  /\ task'[g].at = "put"   => effects'[task'[g].id] = 0
               /\ task'[g].at = "reply" => effects'[task'[g].id] = 1
    <2> DEFINE id == task[g].id
    <2>1. task'[g].id = id /\ id \in Ids
      BY <1>6, SentStep
    <2>2. CASE Smooth(g) /\ Inserts(g)
      <3>1. rows[id] = None /\ task'[g].at = "put"
        BY <2>2 DEF Inserts
      <3>2. effects'[id] = 0
        BY <1>3, <2>1, <3>1 DEF Told, Counted
      <3>3. QED
        BY <2>1, <3>1, <3>2
    <2>3. CASE Smooth(g) /\ Writes(g)
      <3>1. effects[id] = 0 /\ task'[g].at = "reply"
        BY <1>2, <2>3 DEF Writes
      <3>2. effects'[id] = 1
        BY <2>1, <2>3, <3>1 DEF Writes, Located, TypeOK
      <3>3. QED
        BY <2>1, <3>1, <3>2
    <2>4. CASE task'[g] = task[g]
      <3>1. ASSUME NEW h \in Handlers, Smooth(h), Writes(h), id = task[h].id
            PROVE  FALSE
        <4>1. task[h].at = "put" /\ task'[h].at = "reply"
          BY <3>1 DEF Writes
        <4>2. task[h].at \in Sent /\ task[g].at \in Sent
          BY <1>6, <2>4, <4>1 DEF Sent
        <4>3. g = h
          BY <3>1, <4>2 DEF Told, SentOnce
        <4>4. QED
          BY <2>4, <4>1, <4>3
      <3>2. effects'[id] = effects[id]
        BY <2>1, <3>1, EffectStep
      <3>3. QED
        BY <2>1, <2>4, <3>2 DEF Told, Counted
    <2>5. QED
      BY <1>6, <2>2, <2>3, <2>4, SentStep
  <1>7. QED
    BY <1>4, <1>5, <1>6 DEF Counted, Sent

\* The invariant of repeated keys without failures.
LEMMA AlwaysTold ==
    ASSUME Reliable
    PROVE  Spec => [](Located /\ Told)
  <1>1. Init => Told
    <2> SUFFICES ASSUME Init PROVE Told
      OBVIOUS
    <2>1. /\ \A h \in Handlers : /\ task[h].at = "idle" /\ task[h].seen = None
                                 /\ task[h].reply = None
          /\ \A id \in Ids : /\ rows[id] = None /\ submitted[id] = 0
                             /\ effects[id] = 0
          /\ \A i \in Instances : worker[i].cur = None
      BY DEF Init, IdleTask, IdleWorker
    <2>2. Straight /\ SentOnce
      BY <2>1 DEF Straight, SentOnce, Sent
    <2>3. InHand /\ NothingToDo
      BY <2>1 DEF InHand, NothingToDo, Has
    <2>4. DoneWith
      BY <2>1 DEF DoneWith, Has
    <2>5. Counted
      BY <2>1 DEF Counted, Settled, Has
    <2>6. QED
      BY <2>2, <2>3, <2>4, <2>5 DEF Told
  <1>2. Located /\ Told /\ [Next]_vars => Told'
    <2> SUFFICES ASSUME Located, Told, [Next]_vars PROVE Told'
      OBVIOUS
    <2>1. NothingToDo'
      BY ReliableSteps
      DEF Told, NothingToDo, Smooth, Serves, Arrives, Ages, Calm
    <2>2. QED
      BY <2>1, NextStraight, NextSentOnce, NextInHand, NextDoneWith,
         NextCounted DEF Told
  <1>3. QED
    BY <1>1, <1>2, AlwaysLocated, PTL DEF Spec

\* However often a key is sent, and to however many processes at once, it
\* changes the balance at most once, as long as writes and commits succeed:
\* the unique row decides who writes.
THEOREM RepeatedEffectAtMostOnce ==
    ASSUME Reliable
    PROVE  Spec => []EffectAtMostOnce
  <1>1. Located /\ Told => EffectAtMostOnce
    <2> SUFFICES ASSUME Located, Told, NEW x \in Ids PROVE effects[x] <= 1
      BY DEF EffectAtMostOnce
    <2>1. rows[x] # None => rows[x].status \in Statuses
      BY DEF Located, TypeOK, Row
    <2>2. CASE Has(x, "pending")
      <3>1. PICK h \in Handlers : task[h].id = x /\ task[h].at \in Sent
        BY <2>2 DEF Told, InHand
      <3>2. QED
        BY <3>1 DEF Sent, Told, Counted
    <2>3. CASE rows[x] = None \/ Settled(x)
      BY <2>3 DEF Told, Counted
    <2>4. ~Has(x, "failed")
      BY DEF Told, InHand
    <2>5. QED
      BY <2>1, <2>2, <2>3, <2>4 DEF Has, Settled, Statuses
  <1>2. QED
    BY <1>1, AlwaysTold, PTL

\* And when nobody works on a key, its row tells whether it changed the
\* balance.
THEOREM TableAlwaysTells ==
    ASSUME Reliable
    PROVE  Spec => []TableTellsEffects
  <1>1. Located /\ Told => TableTellsEffects
    <2> SUFFICES ASSUME Located, Told, NEW x \in Ids,
                        \A h \in Handlers : task[h].id # x
                 PROVE  effects[x] > 0 <=> Settled(x)
      BY DEF TableTellsEffects
    <2>1. rows[x] # None => rows[x].status \in Statuses
      BY DEF Located, TypeOK, Row
    <2>2. ~Has(x, "pending") /\ ~Has(x, "failed")
      BY DEF Told, InHand
    <2>3. rows[x] = None \/ Settled(x)
      BY <2>1, <2>2 DEF Has, Settled, Statuses
    <2>4. QED
      BY <2>3 DEF Told, Counted, Settled, Has
  <1>2. QED
    BY <1>1, AlwaysTold, PTL

-----------------------------------------------------------------------------
(* The refinement of IdempotentKeys, in the same deployment.               *)

\* A booking marked reversed has an applied reversal here too: it is only
\* marked by that reversal, and nobody judges the reversal again.
LEMMA NextReversedHasReversal ==
    ASSUME Reliable, Located, Told, ReversedHasReversal, [Next]_vars
    PROVE  ReversedHasReversal'
  <1> SUFFICES ASSUME NEW x \in Ids, ~IsReversal(x), Has(x, "reversed")'
               PROVE  Has(Reversal(x), "applied")'
    BY DEF ReversedHasReversal, Reversal
  <1> DEFINE r == Reversal(x)
  <1>1. r \in Ids /\ IsReversal(r)
    BY ReversalFacts
  <1>2. Has(r, "applied")
    <2>1. CASE Has(x, "reversed")
      BY <2>1 DEF ReversedHasReversal, Reversal
    <2>2. ASSUME NEW h \in Handlers, Smooth(h), Marks(h), x = Original(task[h].id)
          PROVE  Has(r, "applied")
      <3>1. task[h].at = "mark" /\ task[h].id \in Ids
        BY <2>2 DEF Smooth, Serves, Marks
      <3>2. IsReversal(task[h].id) /\ Has(task[h].id, "applied")
        BY <3>1 DEF Located, TasksLocated, TaskLocated, Told, Straight
      <3>3. QED
        BY <2>2, <3>1, <3>2, ReversalFacts
    <2>3. ASSUME NEW h \in Handlers, x = task[h].id, Inserts(h) \/ Applies(h)
          PROVE  FALSE
      BY <2>3 DEF Inserts, Applies, SetTo, Has
    <2>4. CASE \/ rows'[x] = rows[x]
               \/ /\ rows'[x] # None /\ rows[x] # None
                  /\ rows'[x].status = rows[x].status
      BY <2>1, <2>4 DEF Has
    <2>5. QED
      BY <2>2, <2>3, <2>4, RowSmooth
  <1>3. ASSUME NEW h \in Handlers, Smooth(h), r = task[h].id,
               Inserts(h) \/ Applies(h)
        PROVE  FALSE
    <2>1. Inserts(h) => rows[r] = None
      BY <1>3 DEF Inserts
    <2>2. Applies(h) => Has(r, "pending")
      BY <1>3 DEF Applies, Sent, Told, Straight
    <2>3. QED
      BY <1>2, <1>3, <2>1, <2>2 DEF Has
  <1>4. ASSUME NEW h \in Handlers, Smooth(h), r = Original(task[h].id)
        PROVE  FALSE
    BY <1>1, <1>4, ReversalFacts DEF Smooth, Serves
  <1>5. CASE \/ rows'[r] = rows[r]
             \/ /\ rows'[r] # None /\ rows[r] # None
                /\ rows'[r].status = rows[r].status
    BY <1>2, <1>5 DEF Has
  <1>6. QED
    BY <1>1, <1>3, <1>4, <1>5, RowSmooth

\* A transaction marked reversed has a reversal that was applied also when keys
\* are repeated at will, if writes and commits succeed.
THEOREM RepeatedReversedHasReversal ==
    ASSUME Reliable
    PROVE  Spec => []ReversedHasReversal
  <1>1. Init => ReversedHasReversal
    BY DEF Init, ReversedHasReversal, Has
  <1>2. /\ Located /\ Told /\ ReversedHasReversal /\ [Next]_vars
        => ReversedHasReversal'
    BY NextReversedHasReversal
  <1>3. QED
    BY <1>1, <1>2, AlwaysTold, PTL DEF Spec

\* And an applied transaction only ever becomes reversed: no repetition and no
\* worker, of any number of them, puts it back to pending or to failed.
THEOREM RepeatedAppliedStaysApplied ==
    ASSUME Reliable
    PROVE  Spec => AppliedIsFinal
  <1>1. ASSUME Located, Told, [Next]_vars, NEW x \in Ids, Has(x, "applied")
        PROVE  rows'[x].status \in {"applied", "reversed"}
    <2>1. ASSUME NEW h \in Handlers, x = task[h].id, Inserts(h) \/ Applies(h)
          PROVE  FALSE
      <3>1. Inserts(h) => rows[x] = None
        BY <2>1 DEF Inserts
      <3>2. Applies(h) => Has(x, "pending")
        BY <1>1, <2>1 DEF Applies, Sent, Told, Straight
      <3>3. QED
        BY <1>1, <2>1, <3>1, <3>2 DEF Has
    <2>2. ASSUME NEW h \in Handlers, x = Original(task[h].id), Marks(h)
          PROVE  rows'[x].status = "reversed"
      BY <2>2 DEF Marks, SetTo
    <2>3. QED
      BY <1>1, <2>1, <2>2, RowSmooth DEF Has
  <1>2. Located /\ Told /\ [Next]_vars
           => [\A id \in Ids : Has(id, "applied") =>
                  rows'[id].status \in {"applied", "reversed"}]_vars
    BY <1>1
  <1>3. QED
    BY <1>2, AlwaysTold, PTL DEF Spec, AppliedIsFinal

\* What a row says of its key after the step.
StatusAfter(id) == IF rows'[id] = None THEN "unknown" ELSE rows'[id].status

\* The keys and the statuses of the promise are those of the table.
LEMMA PromiseReads ==
    /\ Promise!Requests = Ids
    /\ \A id \in Ids : IsReversal(id) =>
          [x \in {y \in Ids : IsReversal(y)} |-> Original(x)][id] = Original(id)
    /\ \A id \in Ids : [x \in Ids |-> StatusOf(x)][id] = StatusOf(id)
  BY DEF Promise!Requests

\* The status of one key changes.
LEMMA OneStatusMoves ==
    ASSUME NEW id \in Ids, NEW s, StatusAfter(id) = s,
           \A x \in Ids \ {id} : rows'[x] = rows[x]
    PROVE  [x \in Ids |-> StatusAfter(x)]
              = [[x \in Ids |-> StatusOf(x)] EXCEPT ![id] = s]
  <1>1. \A x \in Ids \ {id} : StatusAfter(x) = StatusOf(x)
    BY DEF StatusAfter, StatusOf
  <1>2. QED
    BY <1>1

\* A request is recorded: its row was not there, and a reversal's booking has
\* been applied and not reversed since.
LEMMA InsertRecords ==
    ASSUME Reliable, Located, Told, ReversedHasReversal,
           NEW h \in Handlers, Smooth(h), Inserts(h)
    PROVE  Promise!Record(task[h].id)
  <1> DEFINE id == task[h].id
  <1>1. id \in Ids /\ Original(id) \in Ids /\ task[h].at # "idle"
    BY ConstantFacts DEF Smooth, Serves
  <1>2. StatusOf(id) = "unknown" /\ StatusAfter(id) = "pending"
    BY DEF Inserts, StatusOf, StatusAfter
  <1>3. ASSUME IsReversal(id) PROVE StatusOf(Original(id)) = "applied"
    <2>1. Settled(Original(id))
      BY <1>1, <1>3 DEF Told, DoneWith
    <2>2. ASSUME Has(Original(id), "reversed") PROVE FALSE
      <3>1. ~IsReversal(Original(id)) /\ Reversal(Original(id)) = id
        BY <1>1, <1>3, ReversalFacts
      <3>2. Has(id, "applied")
        BY <1>1, <2>2, <3>1 DEF ReversedHasReversal, Reversal
      <3>3. QED
        BY <3>2 DEF Inserts, Has
    <2>3. QED
      BY <2>1, <2>2 DEF Settled, Has, StatusOf
  <1>4. [x \in Ids |-> StatusAfter(x)]
           = [[x \in Ids |-> StatusOf(x)] EXCEPT ![id] = "pending"]
    BY <1>1, <1>2, OneStatusMoves DEF Inserts
  <1>5. UNCHANGED effects
    BY DEF Inserts
  <1>6. QED
    BY <1>1, <1>2, <1>3, <1>4, <1>5 DEF Promise!Record, StatusAfter, StatusOf

\* A write carries the request out, for the first time.
LEMMA WriteCarriesOut ==
    ASSUME Reliable, Located, Told, NEW h \in Handlers, Smooth(h), Writes(h)
    PROVE  Promise!CarryOut(task[h].id)
  <1> DEFINE id == task[h].id
  <1>1. id \in Ids /\ task[h].at = "put"
    BY DEF Smooth, Serves, Writes
  <1>2. Has(id, "pending") /\ effects[id] = 0
    BY <1>1 DEF Told, Straight, Counted, Sent
  <1>3. StatusOf(id) = "pending"
    BY <1>2 DEF Has, StatusOf
  <1>4. effects' = [effects EXCEPT ![id] = 1] /\ UNCHANGED rows
    BY <1>2 DEF Writes, Located, TypeOK
  <1>5. QED
    BY <1>1, <1>2, <1>3, <1>4 DEF Promise!CarryOut, StatusOf

\* The status "applied" settles a request that was carried out.
LEMMA ApplySettles ==
    ASSUME Reliable, Located, Told, NEW h \in Handlers, Smooth(h), Applies(h)
    PROVE  Promise!Settle(task[h].id)
  <1> DEFINE id == task[h].id
  <1>1. id \in Ids /\ task[h].at = "reply"
    BY DEF Smooth, Serves, Applies
  <1>2. Has(id, "pending") /\ effects[id] = 1
    BY <1>1 DEF Told, Straight, Counted, Sent
  <1>3. StatusOf(id) = "pending" /\ StatusAfter(id) = "applied"
    BY <1>2 DEF Has, StatusOf, StatusAfter, Applies, SetTo
  <1>4. [x \in Ids |-> StatusAfter(x)]
           = [[x \in Ids |-> StatusOf(x)] EXCEPT ![id] = "applied"]
    BY <1>1, <1>3, OneStatusMoves DEF Applies, SetTo
  <1>5. UNCHANGED effects
    BY DEF Applies
  <1>6. QED
    BY <1>1, <1>2, <1>3, <1>4, <1>5 DEF Promise!Settle, StatusAfter, StatusOf

\* The mark goes to the booking of an applied reversal, or is there already.
LEMMA MarkMarks ==
    ASSUME Reliable, Located, Told, NEW h \in Handlers, Smooth(h), Marks(h)
    PROVE  Promise!Mark(task[h].id) \/ UNCHANGED Promise!keyVars
  <1> DEFINE id == task[h].id
  <1>1. id \in Ids /\ Original(id) \in Ids /\ task[h].at = "mark"
    BY ConstantFacts DEF Smooth, Serves, Marks
  <1>2. IsReversal(id) /\ Has(id, "applied")
    BY <1>1 DEF Located, TasksLocated, TaskLocated, Told, Straight
  <1>3. Settled(Original(id))
    BY <1>1, <1>2 DEF Told, DoneWith
  <1>4. StatusOf(id) = "applied" /\ StatusAfter(Original(id)) = "reversed"
    BY <1>2 DEF Has, StatusOf, StatusAfter, Marks, SetTo
  <1>5. [x \in Ids |-> StatusAfter(x)]
           = [[x \in Ids |-> StatusOf(x)] EXCEPT ![Original(id)] = "reversed"]
    BY <1>1, <1>4, OneStatusMoves DEF Marks, SetTo
  <1>6. UNCHANGED effects
    BY DEF Marks
  <1>7. CASE StatusOf(Original(id)) = "applied"
    BY <1>1, <1>2, <1>4, <1>5, <1>6, <1>7
    DEF Promise!Mark, StatusAfter, StatusOf
  <1>8. CASE StatusOf(Original(id)) = "reversed"
    <2>1. [x \in Ids |-> StatusAfter(x)] = [x \in Ids |-> StatusOf(x)]
      BY <1>5, <1>8
    <2>2. QED
      BY <1>6, <2>1 DEF Promise!keyVars, StatusAfter, StatusOf
  <1>9. QED
    BY <1>3, <1>7, <1>8 DEF Settled, Has, StatusOf

\* Every step is one of the promise, or nothing to a client.
LEMMA NextKeepsPromise ==
    ASSUME Reliable, Located, Told, ReversedHasReversal, [Next]_vars
    PROVE  [Promise!Next]_(Promise!keyVars)
  <1>1. CASE UNCHANGED <<rows, effects>>
    BY <1>1 DEF Promise!keyVars, StatusOf
  <1>2. ASSUME NEW h \in Handlers, Smooth(h)
        PROVE  [Promise!Next]_(Promise!keyVars)
    <2>1. task[h].id \in Promise!Requests
      BY <1>2, PromiseReads DEF Smooth, Serves
    <2>2. CASE Inserts(h)
      BY <1>2, <2>1, <2>2, InsertRecords DEF Promise!Next
    <2>3. CASE Writes(h)
      BY <1>2, <2>1, <2>3, WriteCarriesOut DEF Promise!Next
    <2>4. CASE Applies(h)
      BY <1>2, <2>1, <2>4, ApplySettles DEF Promise!Next
    <2>5. CASE Marks(h)
      BY <1>2, <2>1, <2>5, MarkMarks DEF Promise!Next
    <2>6. CASE Leaves(h) \/ Advances(h) \/ LooksUp(h) \/ Replays(h)
      BY <1>1, <2>6 DEF Leaves, Advances, LooksUp, Replays, Quiet
    <2>7. QED
      BY <1>2, <2>2, <2>3, <2>4, <2>5, <2>6 DEF Smooth
  <1>3. ASSUME NEW id \in Ids, Ages(id)
        PROVE  [Promise!Next]_(Promise!keyVars)
    <2>1. \A x \in Ids : StatusAfter(x) = StatusOf(x)
      BY <1>3 DEF Ages, StatusAfter, StatusOf
    <2>2. [x \in Ids |-> StatusAfter(x)] = [x \in Ids |-> StatusOf(x)]
      BY <2>1
    <2>3. UNCHANGED effects
      BY <1>3 DEF Ages
    <2>4. QED
      BY <2>2, <2>3 DEF Promise!keyVars, StatusAfter, StatusOf
  <1>4. QED
    BY <1>1, <1>2, <1>3, ReliableSteps DEF Arrives, Calm

\* To its client a key is IdempotentKeys, however often and to however many
\* processes at once it is sent, as long as writes and commits succeed:
\* recorded before it is carried out, carried out once, settled once, and
\* marked reversed only by its settled reversal.
THEOREM KeysAreIdempotent ==
    ASSUME Reliable
    PROVE  Spec => KeysIdempotent
  <1>1. Init => Promise!Init
    <2> SUFFICES ASSUME Init PROVE Promise!Init
      OBVIOUS
    <2>1. \A x \in Ids : StatusOf(x) = "unknown"
      BY DEF Init, StatusOf
    <2>2. QED
      BY <2>1, PromiseReads DEF Init, Promise!Init
  <1>2. /\ Located /\ Told /\ ReversedHasReversal /\ [Next]_vars
        => [Promise!Next]_(Promise!keyVars)
    BY NextKeepsPromise
  <1>3. QED
    BY <1>1, <1>2, AlwaysTold, RepeatedReversedHasReversal, PTL
    DEF Spec, KeysIdempotent, Promise!Spec
=============================================================================
