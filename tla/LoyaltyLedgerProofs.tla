------------------------- MODULE LoyaltyLedgerProofs -------------------------
(***************************************************************************)
(* What holds of LoyaltyLedger for every set of customers, keys, handlers  *)
(* and processes.  The inductive invariant is TypeOK with TasksLocated and *)
(* WorkersLocated; LocksHeld and LocksInUse, that locks are held as long   *)
(* as they are needed and no longer, rest on it; SnapshotCurrent, the      *)
(* refinement of PointsAccount and OnlyReversalsOverdraw rest on all of    *)
(* them, and on the deployment being one process whose writes are neither  *)
(* late nor mixed with changes made elsewhere.                             *)
(***************************************************************************)
EXTENDS LoyaltyLedger, TLAPS

\* A request concerns a customer, its amount is a number, and the values that
\* stand for "nothing" are none of the things they stand in for.
LEMMA ConstantFacts ==
    /\ \A id \in Ids : /\ Customer(id) \in Customers
                       /\ Delta(id) \in Int
                       /\ Original(id) \in Ids
    /\ None \notin Ids /\ None \notin Handlers /\ None \notin Row
    /\ None \notin Int /\ None # NoAccount /\ NoAccount \notin Int
  <1>1. ASSUME NEW id \in Ids
        PROVE  /\ Customer(id) \in Customers
               /\ Delta(id) \in Int
               /\ Original(id) \in Ids
    <2>1. id[1] \in Keys
      BY DEF Ids
    <2>2. Points[id[1]] \in Int /\ -Points[id[1]] \in Int
      BY <2>1, LedgerAssumption
    <2>3. Delta(id) \in Int
      BY <2>2 DEF Delta
    <2>4. Customer(id) \in Customers
      BY <2>1, LedgerAssumption DEF Customer
    <2>5. Original(id) \in Ids
      BY <2>1 DEF Original, Ids
    <2>6. QED
      BY <2>3, <2>4, <2>5
  <1>2. QED
    BY <1>1, LedgerAssumption

\* The points read from UNAS are a number, also for a customer without any.
LEMMA BalanceIsInt ==
    ASSUME account \in [Customers -> Int \cup {NoAccount}], NEW c \in Customers
    PROVE  Balance(c) \in Int
  BY DEF Balance, Value

\* The values an idle slot and an idle worker are reset to have their type.
LEMMA IdleTypes == IdleTask \in Task /\ IdleWorker \in Reconciler
  BY DEF IdleTask, Task, Steps, IdleWorker, Reconciler

-----------------------------------------------------------------------------
(* Types and locations.                                                    *)

Located == TypeOK /\ TasksLocated /\ WorkersLocated

\* No step deletes a row.
RowsGrow ==
    /\ rows' \in [Ids -> Row \cup {None}]
    /\ \A id \in Ids : rows[id] # None => rows'[id] # None

\* A step that moves one task and keeps the rows there are leaves everything
\* located, if the task is.
LEMMA OneTaskMoves ==
    ASSUME Located, RowsGrow, NEW h \in Handlers, NEW t \in Task,
           task' = [task EXCEPT ![h] = t], TaskLocated(t, rows'),
           UNCHANGED worker
    PROVE  task' \in [Handlers -> Task] /\ TasksLocated' /\ WorkersLocated'
  <1>1. task' \in [Handlers -> Task]
    BY DEF Located, TypeOK
  <1>2. ASSUME NEW g \in Handlers PROVE TaskLocated(task'[g], rows')
    <2>1. CASE g = h
      BY <2>1 DEF Located, TypeOK
    <2>2. CASE g # h
      <3>1. task'[g] = task[g] /\ TaskLocated(task[g], rows)
        BY <2>2 DEF Located, TypeOK, TasksLocated
      <3>2. task[g].at # "idle" => task[g].id \in Ids /\ Original(task[g].id) \in Ids
        BY <3>1, ConstantFacts DEF TaskLocated
      <3>3. QED
        BY <3>1, <3>2 DEF TaskLocated, RowsGrow
    <2>3. QED
      BY <2>1, <2>2
  <1>3. ASSUME NEW i \in Instances PROVE WorkerLocated(worker'[i], rows')
    <2>1. WorkerLocated(worker[i], rows) /\ worker[i] \in Reconciler
      BY DEF Located, TypeOK, WorkersLocated
    <2>2. worker[i].todo \subseteq Ids /\ worker[i].cur \in Ids \cup {None}
      BY <2>1 DEF Reconciler
    <2>3. QED
      BY <2>1, <2>2 DEF WorkerLocated, RowsGrow
  <1>4. QED
    BY <1>1, <1>2, <1>3 DEF TasksLocated, WorkersLocated

\* The task of a request being answered: idle, or left behind in UNAS.
Answered(t) == IF t.reply = "late" THEN [t EXCEPT !.at = "orphan"] ELSE IdleTask

LEMMA AnsweredTypes ==
    ASSUME NEW t \in Task, NEW table,
           TaskLocated(t, table)
    PROVE  Answered(t) \in Task /\ TaskLocated(Answered(t), table)
  <1>1. CASE t.reply = "late"
    <2>1. t.at \in {"reply", "orphan"} /\ t.id \in Ids
      BY <1>1 DEF TaskLocated
    <2>2. Answered(t) = [t EXCEPT !.at = "orphan"]
      BY <1>1 DEF Answered
    <2>3. QED
      BY <2>1, <2>2 DEF Task, Steps, TaskLocated
  <1>2. CASE t.reply # "late"
    <2>1. Answered(t) = IdleTask
      BY <1>2 DEF Answered
    <2>2. TaskLocated(IdleTask, table)
      BY LedgerAssumption DEF TaskLocated, IdleTask
    <2>3. QED
      BY <2>1, <2>2, IdleTypes
  <1>3. QED
    BY <1>1, <1>2

\* A lock is taken or released by a task that knows its customer.
LEMMA SetLockType ==
    ASSUME TypeOK, NEW h \in Handlers, task[h].id \in Ids,
           NEW owner \in Handlers \cup {None}, SetLock(h, owner)
    PROVE  lock' \in [Instances -> [Customers -> Handlers \cup {None}]]
  <1>1. Home[h] \in Instances /\ Customer(task[h].id) \in Customers
    BY LedgerAssumption, ConstantFacts
  <1>2. QED
    BY <1>1 DEF TypeOK, SetLock

\* Answering a request keeps types and locations.
LEMMA AnswerMoves ==
    ASSUME Located, RowsGrow, NEW h \in Handlers, task[h].at # "idle",
           TaskLocated(task[h], rows'), Answer(h), UNCHANGED worker
    PROVE  /\ task' \in [Handlers -> Task] /\ TasksLocated' /\ WorkersLocated'
           /\ lock' \in [Instances -> [Customers -> Handlers \cup {None}]]
  <1>1. task[h] \in Task /\ task[h].id \in Ids
    BY DEF Located, TypeOK, TasksLocated, TaskLocated
  <1>2. task' = [task EXCEPT ![h] = Answered(task[h])]
    BY DEF Answer, Answered
  <1>3. Answered(task[h]) \in Task /\ TaskLocated(Answered(task[h]), rows')
    BY <1>1, AnsweredTypes
  <1>4. SetLock(h, None)
    BY DEF Answer
  <1>5. lock' \in [Instances -> [Customers -> Handlers \cup {None}]]
    BY <1>1, <1>4, SetLockType DEF Located
  <1>6. QED
    BY <1>2, <1>3, <1>5, OneTaskMoves

\* Steps that only answer, the table staying as it is.
LEMMA PlainAnswer ==
    ASSUME Located, NEW h \in Handlers, task[h].at # "idle", Answer(h),
           UNCHANGED <<rows, account, worker, submitted, effects, crashes,
                       externals>>
    PROVE  Located'
  <1>1. RowsGrow
    BY DEF Located, TypeOK, RowsGrow
  <1>2. TaskLocated(task[h], rows')
    BY DEF Located, TasksLocated
  <1>3. /\ task' \in [Handlers -> Task] /\ TasksLocated' /\ WorkersLocated'
        /\ lock' \in [Instances -> [Customers -> Handlers \cup {None}]]
    BY <1>1, <1>2, AnswerMoves
  <1>4. QED
    BY <1>3 DEF Located, TypeOK

\* Steps that move a task and nothing but its lock.
LEMMA PlainMove ==
    ASSUME Located, NEW h \in Handlers, task[h].at # "idle",
           NEW t \in Task, task' = [task EXCEPT ![h] = t],
           TaskLocated(t, rows), SetLock(h, h) \/ UNCHANGED lock,
           UNCHANGED <<rows, account, worker, submitted, effects, crashes,
                       externals>>
    PROVE  Located'
  <1>1. RowsGrow
    BY DEF Located, TypeOK, RowsGrow
  <1>2. task' \in [Handlers -> Task] /\ TasksLocated' /\ WorkersLocated'
    BY <1>1, OneTaskMoves
  <1>3. task[h].id \in Ids
    BY DEF Located, TasksLocated, TaskLocated
  <1>4. lock' \in [Instances -> [Customers -> Handlers \cup {None}]]
    BY <1>3, SetLockType DEF Located, TypeOK
  <1>5. QED
    BY <1>2, <1>4 DEF Located, TypeOK

\* The steps of a request up to its pending row.
LEMMA EarlySteps ==
    ASSUME Located, NEW h \in Handlers,
           \/ LockForRedeem(h) \/ AlreadyReversed(h) \/ RefuseOverdraw(h)
           \/ ReplayApplied(h) \/ RefuseInFlight(h) \/ Lookup(h)
           \/ ReadFails(h) \/ Observe(h) \/ DuplicateKey(h)
    PROVE  Located'
  <1>1. task[h] \in Task /\ TaskLocated(task[h], rows)
    BY DEF Located, TypeOK, TasksLocated
  <1>2. CASE LockForRedeem(h)
    <2>1. task[h].at # "idle" /\ SetLock(h, h)
      BY <1>2 DEF LockForRedeem
    <2>2. task' = [task EXCEPT ![h] = [task[h] EXCEPT !.at = "validate"]]
      BY <1>2 DEF LockForRedeem
    <2>3. /\ [task[h] EXCEPT !.at = "validate"] \in Task
          /\ TaskLocated([task[h] EXCEPT !.at = "validate"], rows)
      BY <1>1, <1>2 DEF LockForRedeem, Task, Steps, TaskLocated
    <2>4. QED
      BY <1>2, <2>1, <2>2, <2>3, PlainMove DEF LockForRedeem
  <1>3. CASE AlreadyReversed(h)
    BY <1>3, PlainAnswer DEF AlreadyReversed
  <1>4. CASE RefuseOverdraw(h)
    BY <1>4, PlainAnswer DEF RefuseOverdraw
  <1>5. CASE ReplayApplied(h)
    <2>1. task[h].at \in {"wait", "validate"}
      BY <1>5 DEF ReplayApplied, Entering
    <2>2. CASE IsReversal(task[h].id)
      <3>1. task' = [task EXCEPT ![h] = [task[h] EXCEPT !.at = "mark"]]
        BY <1>5, <2>2 DEF ReplayApplied
      <3>2. /\ [task[h] EXCEPT !.at = "mark"] \in Task
            /\ TaskLocated([task[h] EXCEPT !.at = "mark"], rows)
        BY <1>1, <2>1, <2>2 DEF Task, Steps, TaskLocated
      <3>3. QED
        BY <1>5, <2>1, <2>2, <3>1, <3>2, PlainMove DEF ReplayApplied
    <2>3. CASE ~IsReversal(task[h].id)
      BY <1>5, <2>1, <2>3, PlainAnswer DEF ReplayApplied
    <2>4. QED
      BY <2>2, <2>3
  <1>6. CASE RefuseInFlight(h)
    <2>1. task[h].at # "idle"
      BY <1>6 DEF RefuseInFlight, Entering
    <2>2. QED
      BY <1>6, <2>1, PlainAnswer DEF RefuseInFlight
  <1>7. CASE Lookup(h)
    <2>1. task[h].at \in {"wait", "validate"} /\ SetLock(h, h)
      BY <1>7 DEF Lookup, Entering
    <2>2. rows[task[h].id] \in Row \cup {None}
      BY <1>1, <2>1 DEF Located, TypeOK, TaskLocated
    <2>3. DEFINE t == [task[h] EXCEPT !.at = "observe", !.seen = rows[task[h].id]]
    <2>4. task' = [task EXCEPT ![h] = t]
      BY <1>7 DEF Lookup
    <2>5. t \in Task /\ TaskLocated(t, rows)
      BY <1>1, <2>1, <2>2 DEF Task, Steps, TaskLocated
    <2>6. QED
      BY <1>7, <2>1, <2>4, <2>5, PlainMove DEF Lookup
  <1>8. CASE ReadFails(h)
    BY <1>8, PlainAnswer DEF ReadFails
  <1>9. CASE Observe(h)
    <2>1. task[h].at = "observe" /\ Customer(task[h].id) \in Customers
      BY <1>1, <1>9, ConstantFacts DEF Observe, TaskLocated
    <2>2. Balance(Customer(task[h].id)) \in Int
      BY <2>1, BalanceIsInt DEF Located, TypeOK
    <2>3. DEFINE t == [task[h] EXCEPT !.at = "record",
                                      !.got = Balance(Customer(task[h].id))]
    <2>4. task' = [task EXCEPT ![h] = t]
      BY <1>9 DEF Observe
    <2>5. t \in Task /\ TaskLocated(t, rows)
      BY <1>1, <2>1, <2>2, ConstantFacts DEF Task, Steps, TaskLocated
    <2>6. QED
      BY <1>9, <2>1, <2>4, <2>5, PlainMove DEF Observe
  <1>10. CASE DuplicateKey(h)
    BY <1>10, PlainAnswer DEF DuplicateKey
  <1>11. QED
    BY <1>2, <1>3, <1>4, <1>5, <1>6, <1>7, <1>8, <1>9, <1>10

\* A row stays a row when its status is overwritten.
LEMMA SetStatusGrows ==
    ASSUME TypeOK, NEW id \in Ids, rows[id] # None, NEW status \in Statuses,
           SetStatus(id, status)
    PROVE  RowsGrow
  <1>1. rows[id] \in Row
    BY DEF TypeOK
  <1>2. [rows[id] EXCEPT !.status = status] \in Row
    BY <1>1 DEF Row
  <1>3. rows' = [rows EXCEPT ![id] = [rows[id] EXCEPT !.status = status]]
    BY DEF SetStatus
  <1>4. QED
    BY <1>2, <1>3, ConstantFacts DEF TypeOK, RowsGrow

\* So it does when a retry renews it.
LEMMA RenewedIsRow ==
    ASSUME NEW row \in Row, NEW seen \in Row, NEW after \in Int
    PROVE  Renewed(row, seen, after) \in Row
  BY DEF Renewed, Row, Statuses

\* The pending row is committed.
LEMMA RecordSteps ==
    ASSUME Located, NEW h \in Handlers, InsertPending(h) \/ UpdatePending(h)
    PROVE  Located'
  <1> DEFINE id == task[h].id
             t  == [task[h] EXCEPT !.at = "put"]
  <1>1. task[h] \in Task /\ TaskLocated(task[h], rows) /\ task[h].at = "record"
    BY DEF Located, TypeOK, TasksLocated, InsertPending, UpdatePending
  <1>2. id \in Ids /\ task[h].got \in Int /\ task[h].seen \in Row \cup {None}
        /\ Original(id) \in Ids
    BY <1>1, ConstantFacts DEF Task, TaskLocated
  <1>3. task[h].got + Delta(id) \in Int
    BY <1>2, ConstantFacts
  <1>4. RowsGrow /\ rows'[id] # None
    <2>1. CASE InsertPending(h)
      <3>1. [status |-> "pending", after |-> task[h].got + Delta(id),
             fresh |-> TRUE] \in Row
        BY <1>3 DEF Row, Statuses
      <3>2. QED
        BY <1>2, <2>1, <3>1, ConstantFacts
        DEF InsertPending, RowsGrow, Located, TypeOK
    <2>2. CASE UpdatePending(h)
      <3>1. task[h].seen \in Row
        BY <1>2, <2>2 DEF UpdatePending
      <3>2. rows' = [rows EXCEPT ![id] =
                        Renewed(rows[id], task[h].seen, task[h].got + Delta(id))]
        BY <2>2 DEF UpdatePending
      <3>3. rows[id] # None
        BY <2>2, <1>1 DEF UpdatePending, TaskLocated
      <3>4. rows[id] \in Row
        BY <3>3, <1>2 DEF Located, TypeOK
      <3>5. Renewed(rows[id], task[h].seen, task[h].got + Delta(id)) \in Row
        BY <3>1, <3>4, <1>3, RenewedIsRow
      <3>6. QED
        BY <1>2, <3>2, <3>5, ConstantFacts DEF RowsGrow, Located, TypeOK
    <2>3. QED
      BY <2>1, <2>2
  <1>5. task' = [task EXCEPT ![h] = t]
    BY DEF InsertPending, UpdatePending
  <1>6. t \in Task /\ TaskLocated(t, rows')
    BY <1>1, <1>2, <1>4 DEF Task, Steps, TaskLocated, RowsGrow
  <1>7. task' \in [Handlers -> Task] /\ TasksLocated' /\ WorkersLocated'
    BY <1>4, <1>5, <1>6, OneTaskMoves DEF InsertPending, UpdatePending
  <1>8. rows' \in [Ids -> Row \cup {None}]
    BY <1>4 DEF RowsGrow
  <1>9. QED
    BY <1>7, <1>8 DEF Located, TypeOK, InsertPending, UpdatePending

\* A write sent to UNAS is a number, so the balance stays one.
LEMMA WriteBalanceTypes ==
    ASSUME Located, NEW h \in Handlers, task[h].at \in {"put", "orphan"},
           WriteBalance(h)
    PROVE  /\ account' \in [Customers -> Int \cup {NoAccount}]
           /\ effects' \in [Ids -> Nat]
  <1>1. task[h].id \in Ids /\ task[h].got \in Int
    BY DEF Located, TypeOK, TasksLocated, TaskLocated, Task
  <1>2. Customer(task[h].id) \in Customers /\ task[h].got + Delta(task[h].id) \in Int
    BY <1>1, ConstantFacts
  <1>3. QED
    BY <1>1, <1>2 DEF Located, TypeOK, WriteBalance

\* What UNAS does with a write.
LEMMA UnasSteps ==
    ASSUME Located, NEW h \in Handlers,
           \/ \E reply \in Replies : UnasApplies(h, reply) \/ UnasDeclines(h, reply)
           \/ LateWrite(h)
    PROVE  Located'
  <1>1. task[h] \in Task /\ TaskLocated(task[h], rows)
    BY DEF Located, TypeOK, TasksLocated
  <1>2. ASSUME NEW reply \in Replies,
               UnasApplies(h, reply) \/ UnasDeclines(h, reply)
        PROVE  Located'
    <2> DEFINE t == [task[h] EXCEPT !.at = "reply", !.reply = reply]
    <2>1. task[h].at = "put"
      BY <1>2 DEF UnasApplies, UnasDeclines
    <2>2. task' = [task EXCEPT ![h] = t]
      BY <1>2 DEF UnasApplies, UnasDeclines
    <2>3. t \in Task /\ TaskLocated(t, rows)
      BY <1>1, <2>1 DEF Task, Steps, Replies, TaskLocated
    <2>4. CASE UnasApplies(h, reply)
      <3>1. RowsGrow /\ UNCHANGED rows
        BY <2>4 DEF UnasApplies, Located, TypeOK, RowsGrow
      <3>2. TaskLocated(t, rows')
        BY <2>3, <3>1 DEF TaskLocated
      <3>3. task' \in [Handlers -> Task] /\ TasksLocated' /\ WorkersLocated'
        BY <2>2, <2>3, <2>4, <3>1, <3>2, OneTaskMoves DEF UnasApplies
      <3>4. /\ account' \in [Customers -> Int \cup {NoAccount}]
            /\ effects' \in [Ids -> Nat]
        BY <2>1, <2>4, WriteBalanceTypes DEF UnasApplies
      <3>5. QED
        BY <2>4, <3>3, <3>4 DEF UnasApplies, Located, TypeOK
    <2>5. CASE UnasDeclines(h, reply)
      BY <2>1, <2>2, <2>3, <2>5, PlainMove DEF UnasDeclines
    <2>6. QED
      BY <1>2, <2>4, <2>5
  <1>3. CASE LateWrite(h)
    <2>1. RowsGrow /\ UNCHANGED rows
      BY <1>3 DEF LateWrite, Located, TypeOK, RowsGrow
    <2>2. TaskLocated(IdleTask, rows')
      BY LedgerAssumption DEF TaskLocated, IdleTask
    <2>3. IdleTask \in Task /\ task' = [task EXCEPT ![h] = IdleTask]
          /\ UNCHANGED worker
      BY <1>3, IdleTypes DEF LateWrite
    <2>4. task' \in [Handlers -> Task] /\ TasksLocated' /\ WorkersLocated'
      BY <2>1, <2>2, <2>3, OneTaskMoves
    <2>5. /\ account' \in [Customers -> Int \cup {NoAccount}]
          /\ effects' \in [Ids -> Nat]
      BY <1>3, WriteBalanceTypes DEF LateWrite
    <2>6. QED
      BY <1>3, <2>4, <2>5 DEF LateWrite, Located, TypeOK
  <1>4. QED
    BY <1>2, <1>3

\* What the handler does with the answer.
LEMMA FinishSteps ==
    ASSUME Located, NEW h \in Handlers,
           \/ FinishApplied(h) \/ FinishFailed(h) \/ FinishUncertain(h)
           \/ MarkReversed(h) \/ Unmarked(h) \/ CommitFails(h)
    PROVE  Located'
  <1> DEFINE id == task[h].id
  <1>1. /\ task[h] \in Task /\ TaskLocated(task[h], rows)
        /\ task[h].at # "idle" /\ id \in Ids
    BY DEF Located, TypeOK, TasksLocated, TaskLocated, FinishApplied,
           FinishFailed, FinishUncertain, MarkReversed, Unmarked, CommitFails
  <1>2. Original(id) \in Ids
    BY <1>1, ConstantFacts
  <1>3. ASSUME RowsGrow PROVE TaskLocated(task[h], rows')
    BY <1>1, <1>2, <1>3 DEF TaskLocated, RowsGrow
  <1>4. ASSUME RowsGrow, Answer(h),
               UNCHANGED <<account, worker, submitted, effects, crashes,
                           externals>>
        PROVE  Located'
    <2>1. /\ task' \in [Handlers -> Task] /\ TasksLocated' /\ WorkersLocated'
          /\ lock' \in [Instances -> [Customers -> Handlers \cup {None}]]
      BY <1>1, <1>3, <1>4, AnswerMoves
    <2>2. rows' \in [Ids -> Row \cup {None}]
      BY <1>4 DEF RowsGrow
    <2>3. QED
      BY <1>4, <2>1, <2>2 DEF Located, TypeOK
  <1>5. CASE FinishApplied(h)
    <2>1. RowsGrow
      BY <1>1, <1>5, SetStatusGrows
      DEF FinishApplied, TaskLocated, Statuses, Located
    <2>2. CASE IsReversal(id)
      <3> DEFINE t == [task[h] EXCEPT !.at = "mark"]
      <3>1. task' = [task EXCEPT ![h] = t] /\ task[h].reply = "ok"
        BY <1>5, <2>2 DEF FinishApplied
      <3>2. t \in Task /\ TaskLocated(t, rows')
        BY <1>1, <1>3, <2>1, <2>2, <3>1 DEF Task, Steps, TaskLocated
      <3>3. task' \in [Handlers -> Task] /\ TasksLocated' /\ WorkersLocated'
        BY <1>5, <2>1, <3>1, <3>2, OneTaskMoves DEF FinishApplied
      <3>4. rows' \in [Ids -> Row \cup {None}]
        BY <2>1 DEF RowsGrow
      <3>5. QED
        BY <1>5, <2>2, <3>3, <3>4 DEF FinishApplied, Located, TypeOK
    <2>3. CASE ~IsReversal(id)
      BY <1>4, <1>5, <2>1, <2>3 DEF FinishApplied
    <2>4. QED
      BY <2>2, <2>3
  <1>6. CASE FinishFailed(h)
    <2>1. RowsGrow
      BY <1>1, <1>6, SetStatusGrows
      DEF FinishFailed, TaskLocated, Statuses, Located
    <2>2. QED
      BY <1>4, <1>6, <2>1 DEF FinishFailed
  <1>7. CASE FinishUncertain(h)
    BY <1>1, <1>7, PlainAnswer DEF FinishUncertain
  <1>8. CASE MarkReversed(h)
    <2>1. RowsGrow
      BY <1>1, <1>2, <1>8, SetStatusGrows
      DEF MarkReversed, TaskLocated, Statuses, Located
    <2>2. QED
      BY <1>4, <1>8, <2>1 DEF MarkReversed
  <1>9. CASE Unmarked(h) \/ CommitFails(h)
    BY <1>1, <1>9, PlainAnswer DEF Unmarked, CommitFails
  <1>10. QED
    BY <1>5, <1>6, <1>7, <1>8, <1>9

\* A request arrives, time passes, the process dies, the balance is changed
\* elsewhere.
LEMMA SurroundingSteps ==
    ASSUME Located,
           \/ \E h \in Handlers, id \in Ids : Submit(h, id)
           \/ \E id \in Ids : Age(id)
           \/ \E i \in Instances : Crash(i)
           \/ \E c \in Customers, d \in ExternalDeltas : External(c, d)
    PROVE  Located'
  <1>1. ASSUME NEW h \in Handlers, NEW id \in Ids, Submit(h, id)
        PROVE  Located'
    <2> DEFINE t == [IdleTask EXCEPT !.at = "wait", !.id = id]
    <2>1. task' = [task EXCEPT ![h] = t] /\ UNCHANGED rows
      BY <1>1 DEF Submit
    <2>2. RowsGrow
      BY <2>1 DEF Located, TypeOK, RowsGrow
    <2>3. IsReversal(id) => rows[Original(id)] # None
      BY <1>1 DEF Submit, Has
    <2>4. t \in Task /\ TaskLocated(t, rows')
      BY <2>1, <2>3, IdleTypes, LedgerAssumption
      DEF Task, Steps, IdleTask, TaskLocated
    <2>5. task' \in [Handlers -> Task] /\ TasksLocated' /\ WorkersLocated'
      BY <1>1, <2>1, <2>2, <2>4, OneTaskMoves DEF Submit
    <2>6. submitted' \in [Ids -> Nat]
      <3>1. submitted' = [submitted EXCEPT ![id] = submitted[id] + 1]
        BY <1>1 DEF Submit
      <3>2. submitted \in [Ids -> Nat] /\ submitted[id] + 1 \in Nat
        BY DEF Located, TypeOK
      <3>3. QED
        BY <3>1, <3>2
    <2>7. QED
      BY <1>1, <2>5, <2>6 DEF Submit, Located, TypeOK
  <1>2. ASSUME NEW id \in Ids, Age(id) PROVE Located'
    <2>1. rows[id] \in Row /\ [rows[id] EXCEPT !.fresh = FALSE] \in Row
      BY <1>2 DEF Age, Located, TypeOK, Row
    <2>2. rows' = [rows EXCEPT ![id] = [rows[id] EXCEPT !.fresh = FALSE]]
      BY <1>2 DEF Age
    <2>3. RowsGrow
      BY <2>1, <2>2, ConstantFacts DEF Located, TypeOK, RowsGrow
    <2>4. ASSUME NEW g \in Handlers PROVE TaskLocated(task[g], rows')
      <3>1. TaskLocated(task[g], rows)
        BY DEF Located, TasksLocated
      <3>2. task[g].at # "idle" =>
                task[g].id \in Ids /\ Original(task[g].id) \in Ids
        BY <3>1, ConstantFacts DEF TaskLocated
      <3>3. QED
        BY <3>1, <3>2, <2>3 DEF TaskLocated, RowsGrow
    <2>5. ASSUME NEW i \in Instances PROVE WorkerLocated(worker[i], rows')
      <3>1. WorkerLocated(worker[i], rows) /\ worker[i] \in Reconciler
        BY DEF Located, TypeOK, WorkersLocated
      <3>2. QED
        BY <3>1, <2>3 DEF WorkerLocated, RowsGrow, Reconciler
    <2>6. rows' \in [Ids -> Row \cup {None}]
      BY <2>3 DEF RowsGrow
    <2>7. QED
      BY <1>2, <2>4, <2>5, <2>6
      DEF Age, Located, TypeOK, TasksLocated, WorkersLocated
  <1>3. ASSUME NEW i \in Instances, Crash(i) PROVE Located'
    <2> DEFINE dead == {h \in Handlers : Home[h] = i /\ task[h].at # "orphan"}
    <2>1. PICK sent \in SUBSET {h \in dead : task[h].at = "put"} :
              task' = [h \in Handlers |->
                    IF h \notin dead THEN task[h]
                    ELSE IF h \in sent \/ task[h].reply = "late"
                         THEN [task[h] EXCEPT !.at = "orphan"]
                         ELSE IdleTask]
      BY <1>3 DEF Crash
    <2>2. ASSUME NEW g \in Handlers
          PROVE  task'[g] \in Task /\ TaskLocated(task'[g], rows)
      <3>1. task[g] \in Task /\ TaskLocated(task[g], rows)
        BY DEF Located, TypeOK, TasksLocated
      <3>2. CASE task'[g] = task[g]
        BY <3>1, <3>2
      <3>3. CASE /\ task'[g] = [task[g] EXCEPT !.at = "orphan"]
                 /\ g \in sent \/ task[g].reply = "late"
        <4>1. task[g].at \in {"put", "reply", "orphan"}
          BY <3>1, <3>3 DEF TaskLocated
        <4>2. QED
          BY <3>1, <3>3, <4>1 DEF Task, Steps, TaskLocated
      <3>4. CASE task'[g] = IdleTask
        BY <3>4, IdleTypes, LedgerAssumption DEF IdleTask, TaskLocated
      <3>5. QED
        BY <2>1, <3>2, <3>3, <3>4
    <2>3. task' \in [Handlers -> Task]
      BY <2>1, <2>2
    <2>4. WorkerLocated(IdleWorker, rows)
      BY DEF WorkerLocated, IdleWorker
    <2>5. worker' = [worker EXCEPT ![i] = IdleWorker] /\ UNCHANGED rows
      BY <1>3 DEF Crash
    <2>6. WorkersLocated' /\ worker' \in [Instances -> Reconciler]
      BY <2>4, <2>5, IdleTypes DEF WorkersLocated, Located, TypeOK
    <2>7. lock' \in [Instances -> [Customers -> Handlers \cup {None}]]
      BY <1>3 DEF Crash, Located, TypeOK
    <2>8. crashes' \in Nat
      BY <1>3 DEF Crash, Located, TypeOK
    <2>9. TasksLocated'
      BY <2>2, <2>5 DEF TasksLocated
    <2>10. QED
      BY <1>3, <2>3, <2>6, <2>7, <2>8, <2>9 DEF Crash, Located, TypeOK
  <1>4. ASSUME NEW c \in Customers, NEW d \in ExternalDeltas, External(c, d)
        PROVE  Located'
    <2>1. Value(account[c]) + d \in Int
      BY LedgerAssumption DEF Value, Located, TypeOK
    <2>2. account' = [account EXCEPT ![c] = Value(account[c]) + d]
      BY <1>4 DEF External
    <2>3. account' \in [Customers -> Int \cup {NoAccount}]
      BY <2>1, <2>2 DEF Located, TypeOK
    <2>4. TasksLocated' /\ WorkersLocated' /\ externals' \in Nat
      BY <1>4 DEF External, Located, TypeOK, TasksLocated, WorkersLocated
    <2>5. QED
      BY <1>4, <2>3, <2>4 DEF External, Located, TypeOK
  <1>5. QED
    BY <1>1, <1>2, <1>3, <1>4

\* The worker goes on with a row that exists and that it has loaded.
LEMMA ContinuationsLocated ==
    ASSUME NEW todo \in SUBSET Ids, NEW snap \in [Ids -> Row \cup {None}],
           NEW table \in [Ids -> Row \cup {None}],
           \A id \in todo : table[id] # None,
           NEW w \in Continuations(todo, snap, table)
    PROVE  w \in Reconciler /\ WorkerLocated(w, table)
  <1>1. CASE todo = {}
    <2>1. w = IdleWorker
      BY <1>1 DEF Continuations
    <2>2. WorkerLocated(IdleWorker, table)
      BY DEF WorkerLocated, IdleWorker
    <2>3. QED
      BY <2>1, <2>2, IdleTypes
  <1>2. CASE todo # {}
    <2>1. PICK id \in todo :
             w = [todo |-> todo \ {id}, cur |-> id, got |-> None,
                  snap |-> IF snap[id] = None
                           THEN [snap EXCEPT ![id] = table[id]] ELSE snap]
      BY <1>2 DEF Continuations
    <2>2. w.snap \in [Ids -> Row \cup {None}] /\ w.snap[id] # None
      BY <2>1
    <2>3. w.todo = todo \ {id} /\ w.cur = id /\ w.got = None
      BY <2>1
    <2>4. w \in Reconciler
      BY <2>1, <2>2 DEF Reconciler
    <2>5. WorkerLocated(w, table)
      BY <2>2, <2>3 DEF WorkerLocated
    <2>6. QED
      BY <2>4, <2>5
  <1>3. QED
    BY <1>1, <1>2

\* A step of one worker that keeps the rows there are.
LEMMA OneWorkerMoves ==
    ASSUME Located, RowsGrow, NEW i \in Instances, NEW w \in Reconciler,
           WorkerLocated(w, rows'), worker' = [worker EXCEPT ![i] = w],
           UNCHANGED <<account, task, lock, submitted, effects, crashes,
                       externals>>
    PROVE  Located'
  <1>1. ASSUME NEW g \in Handlers PROVE TaskLocated(task[g], rows')
    <2>1. TaskLocated(task[g], rows)
      BY DEF Located, TasksLocated
    <2>2. task[g].at # "idle" =>
              task[g].id \in Ids /\ Original(task[g].id) \in Ids
      BY <2>1, ConstantFacts DEF TaskLocated
    <2>3. QED
      BY <2>1, <2>2 DEF TaskLocated, RowsGrow
  <1>2. ASSUME NEW j \in Instances
        PROVE  WorkerLocated(worker'[j], rows') /\ worker'[j] \in Reconciler
    <2>1. WorkerLocated(worker[j], rows) /\ worker[j] \in Reconciler
      BY DEF Located, TypeOK, WorkersLocated
    <2>2. WorkerLocated(worker[j], rows')
      BY <2>1 DEF WorkerLocated, RowsGrow, Reconciler
    <2>3. CASE j = i
      BY <2>3 DEF Located, TypeOK
    <2>4. CASE j # i
      BY <2>1, <2>2, <2>4 DEF Located, TypeOK
    <2>5. QED
      BY <2>3, <2>4
  <1>3. worker' \in [Instances -> Reconciler]
    BY <1>2 DEF Located, TypeOK
  <1>4. TasksLocated' /\ WorkersLocated'
    BY <1>1, <1>2 DEF TasksLocated, WorkersLocated
  <1>5. rows' \in [Ids -> Row \cup {None}]
    BY DEF RowsGrow
  <1>6. QED
    BY <1>3, <1>4, <1>5 DEF Located, TypeOK

LEMMA WorkerSteps ==
    ASSUME Located, NEW i \in Instances, Reconcile(i)
    PROVE  Located'
  <1> DEFINE v == worker[i]
  <1>1. v \in Reconciler /\ WorkerLocated(v, rows)
    BY DEF Located, TypeOK, WorkersLocated
  <1>2. rows \in [Ids -> Row \cup {None}]
    BY DEF Located, TypeOK
  <1>3. UNCHANGED rows => RowsGrow
    BY <1>2 DEF RowsGrow
  <1>4. ASSUME UNCHANGED <<rows, account, task, lock, submitted, effects,
                           crashes, externals>>,
               NEW w \in Reconciler, WorkerLocated(w, rows),
               worker' = [worker EXCEPT ![i] = w]
        PROVE  Located'
    <2>1. WorkerLocated(w, rows')
      BY <1>4 DEF WorkerLocated
    <2>2. QED
      BY <1>3, <1>4, <2>1, OneWorkerMoves
  <1>5. CASE WorkerSelect(i)
    <2>1. PICK batch \in SUBSET StalePending :
             \E w \in Continuations(batch, [id \in Ids |->
                         IF id \in batch THEN rows[id] ELSE None], rows) :
                worker' = [worker EXCEPT ![i] = w]
      BY <1>5 DEF WorkerSelect
    <2> DEFINE snap == [id \in Ids |-> IF id \in batch THEN rows[id] ELSE None]
    <2>2. snap \in [Ids -> Row \cup {None}]
      BY <1>2
    <2>3. batch \in SUBSET Ids /\ \A id \in batch : rows[id] # None
      BY DEF StalePending, Has
    <2>4. PICK w \in Continuations(batch, snap, rows) :
             worker' = [worker EXCEPT ![i] = w]
      BY <2>1
    <2>5. w \in Reconciler /\ WorkerLocated(w, rows)
      BY <1>2, <2>2, <2>3, ContinuationsLocated
    <2>6. QED
      BY <1>4, <1>5, <2>4, <2>5 DEF WorkerSelect
  <1>6. CASE WorkerRead(i)
    <2> DEFINE w == [v EXCEPT !.got = account[Customer(v.cur)]]
    <2>1. v.cur \in Ids
      BY <1>1, <1>6 DEF WorkerRead, Reconciler
    <2>2. account[Customer(v.cur)] \in Int
      BY <1>6, <2>1, ConstantFacts DEF WorkerRead, Located, TypeOK
    <2>3. worker' = [worker EXCEPT ![i] = w]
      BY <1>6 DEF WorkerRead
    <2>4. w \in Reconciler /\ WorkerLocated(w, rows)
      BY <1>1, <2>2 DEF Reconciler, WorkerLocated
    <2>5. QED
      BY <1>4, <1>6, <2>3, <2>4 DEF WorkerRead
  <1>7. CASE WorkerSkip(i)
    <2>1. PICK w \in Continuations(v.todo, v.snap, rows) :
             worker' = [worker EXCEPT ![i] = w]
      BY <1>7 DEF WorkerSkip
    <2>2. /\ v.todo \in SUBSET Ids /\ v.snap \in [Ids -> Row \cup {None}]
          /\ \A id \in v.todo : rows[id] # None
      BY <1>1 DEF Reconciler, WorkerLocated
    <2>3. w \in Reconciler /\ WorkerLocated(w, rows)
      BY <1>2, <2>2, ContinuationsLocated
    <2>4. QED
      BY <1>4, <1>7, <2>1, <2>3 DEF WorkerSkip
  <1>8. CASE WorkerVerdict(i)
    <2>1. v.cur \in Ids /\ rows[v.cur] # None
      BY <1>1, <1>8 DEF WorkerVerdict, Reconciler, WorkerLocated
    <2>2. RowsGrow
      <3>1. CASE UNCHANGED rows
        BY <1>3, <3>1
      <3>2. CASE rows' = [rows EXCEPT ![v.cur].status = Verdict(i)]
        <4>1. Verdict(i) \in Statuses
          BY DEF Verdict, Statuses
        <4>2. SetStatus(v.cur, Verdict(i))
          BY <3>2 DEF SetStatus
        <4>3. QED
          BY <2>1, <4>1, <4>2, SetStatusGrows DEF Located
      <3>3. QED
        BY <1>8, <3>1, <3>2 DEF WorkerVerdict
    <2>3. PICK w \in Continuations(v.todo, IdleWorker.snap, rows') :
             worker' = [worker EXCEPT ![i] = w]
      BY <1>8 DEF WorkerVerdict
    <2>4. IdleWorker.snap \in [Ids -> Row \cup {None}]
      BY DEF IdleWorker
    <2>5. v.todo \in SUBSET Ids /\ \A id \in v.todo : rows'[id] # None
      BY <1>1, <2>2 DEF Reconciler, WorkerLocated, RowsGrow
    <2>6. rows' \in [Ids -> Row \cup {None}]
      BY <2>2 DEF RowsGrow
    <2>7. w \in Reconciler /\ WorkerLocated(w, rows')
      BY <2>4, <2>5, <2>6, ContinuationsLocated
    <2>8. QED
      BY <1>8, <2>2, <2>3, <2>7, OneWorkerMoves DEF WorkerVerdict
  <1>9. CASE WorkerAborts(i)
    <2>1. WorkerLocated(IdleWorker, rows)
      BY DEF WorkerLocated, IdleWorker
    <2>2. QED
      BY <1>4, <1>9, <2>1, IdleTypes DEF WorkerAborts
  <1>10. QED
    BY <1>5, <1>6, <1>7, <1>8, <1>9 DEF Reconcile

LEMMA InitLocated == Init => Located
  <1> SUFFICES ASSUME Init PROVE Located
    OBVIOUS
  <1>1. TypeOK
    BY IdleTypes, LedgerAssumption DEF Init, TypeOK
  <1>2. TaskLocated(IdleTask, rows) /\ WorkerLocated(IdleWorker, rows)
    BY LedgerAssumption DEF TaskLocated, WorkerLocated, IdleTask, IdleWorker
  <1>3. QED
    BY <1>1, <1>2 DEF Located, TasksLocated, WorkersLocated, Init

LEMMA NextLocated == Located /\ [Next]_vars => Located'
  <1> SUFFICES ASSUME Located, [Next]_vars PROVE Located'
    OBVIOUS
  <1>1. ASSUME NEW h \in Handlers, Proceed(h) PROVE Located'
    BY <1>1, EarlySteps, RecordSteps, UnasSteps, FinishSteps DEF Proceed
  <1>2. ASSUME NEW h \in Handlers, LateWrite(h) PROVE Located'
    BY <1>2, UnasSteps
  <1>3. ASSUME NEW i \in Instances, Reconcile(i) PROVE Located'
    BY <1>3, WorkerSteps
  <1>4. CASE \/ \E h \in Handlers, id \in Ids : Submit(h, id)
             \/ \E id \in Ids : Age(id)
             \/ \E i \in Instances : Crash(i)
             \/ \E c \in Customers, d \in ExternalDeltas : External(c, d)
    BY <1>4, SurroundingSteps
  <1>5. CASE UNCHANGED vars
    BY <1>5 DEF vars, Located, TypeOK, TasksLocated, WorkersLocated
  <1>6. QED
    BY <1>1, <1>2, <1>3, <1>4, <1>5 DEF Next

THEOREM AlwaysLocated == Spec => []Located
  <1>1. QED
    BY InitLocated, NextLocated, PTL DEF Spec

\* Every variable keeps its type, whatever the deployment and whatever goes
\* wrong around it.
THEOREM TypeCorrect == Spec => []TypeOK
  <1>1. Located => TypeOK
    BY DEF Located
  <1>2. QED
    BY <1>1, AlwaysLocated, PTL

-----------------------------------------------------------------------------
(* Rows and effects.                                                       *)

\* Balances and effects change by a task's write only, which ends its
\* sending, or from outside.
WriteStep(h) ==
    /\ task[h].at \in {"put", "orphan"} /\ task'[h].at \in {"reply", "idle"}
    /\ WriteBalance(h)
    /\ UNCHANGED <<rows, lock>>

LEMMA OnlyWritesTouchUnas ==
    ASSUME Located, [Next]_vars
    PROVE  \/ UNCHANGED <<account, effects>>
           \/ \E h \in Handlers : WriteStep(h)
           \/ \E c \in Customers, d \in ExternalDeltas : External(c, d)
  <1>1. ASSUME NEW h \in Handlers, Proceed(h),
               ~ \E reply \in Replies : UnasApplies(h, reply)
        PROVE  UNCHANGED <<account, effects>>
    BY <1>1 DEF Proceed, LockForRedeem, AlreadyReversed, RefuseOverdraw,
       ReplayApplied, RefuseInFlight, Lookup, ReadFails, Observe,
       InsertPending, DuplicateKey, UpdatePending, UnasDeclines,
       FinishApplied, FinishFailed, FinishUncertain, MarkReversed,
       Unmarked, CommitFails
  <1>2. ASSUME NEW i \in Instances, Reconcile(i) \/ Crash(i)
        PROVE  UNCHANGED <<account, effects>>
    BY <1>2 DEF Reconcile, WorkerSelect, WorkerRead, WorkerSkip,
       WorkerVerdict, WorkerAborts, Crash
  <1>3. ASSUME NEW h \in Handlers, NEW id \in Ids, Submit(h, id)
        PROVE  UNCHANGED <<account, effects>>
    BY <1>3 DEF Submit
  <1>4. ASSUME NEW id \in Ids, Age(id) PROVE UNCHANGED <<account, effects>>
    BY <1>4 DEF Age
  <1>5. CASE UNCHANGED vars
    BY <1>5 DEF vars
  <1>6. ASSUME NEW h \in Handlers, LateWrite(h) PROVE WriteStep(h)
    BY <1>6 DEF LateWrite, WriteStep, IdleTask, Located, TypeOK
  <1>7. ASSUME NEW h \in Handlers, NEW reply \in Replies, UnasApplies(h, reply)
        PROVE  WriteStep(h)
    BY <1>7 DEF UnasApplies, WriteStep, Located, TypeOK, Task
  <1>8. ASSUME NEW h \in Handlers, Proceed(h)
        PROVE  UNCHANGED <<account, effects>> \/ WriteStep(h)
    BY <1>1, <1>7, <1>8
  <1>9. QED
    BY <1>2, <1>3, <1>4, <1>5, <1>6, <1>8 DEF Next

\* No action deletes a row.
LEMMA RowsNeverVanish ==
    ASSUME Located, [Next]_vars, NEW id \in Ids, rows[id] # None
    PROVE  rows'[id] # None
  <1>1. rows \in [Ids -> Row \cup {None}] /\ rows' \in [Ids -> Row \cup {None}]
    BY NextLocated DEF Located, TypeOK
  <1>2. rows[id] \in Row
    BY <1>1
  <1>3. ASSUME NEW status \in Statuses, NEW j \in Ids, SetStatus(j, status)
        PROVE  rows'[id] # None
    <2>1. CASE j = id
      BY <1>1, <1>2, <1>3, <2>1, SetStatusGrows DEF RowsGrow, Located
    <2>2. CASE j # id
      BY <1>1, <1>3, <2>2 DEF SetStatus
    <2>3. QED
      BY <2>1, <2>2
  <1>4. ASSUME NEW h \in Handlers, Proceed(h) PROVE rows'[id] # None
    <2>1. /\ task[h].at # "idle" => task[h].id \in Ids
          /\ Original(task[h].id) \in Ids \/ task[h].at = "idle"
      BY ConstantFacts DEF Located, TasksLocated, TaskLocated
    <2>2. CASE FinishApplied(h) \/ FinishFailed(h)
      BY <1>3, <2>1, <2>2 DEF FinishApplied, FinishFailed, Statuses
    <2>3. CASE MarkReversed(h)
      BY <1>3, <2>1, <2>3 DEF MarkReversed, Statuses
    <2>4. CASE InsertPending(h)
      <3>1. rows' = [rows EXCEPT ![task[h].id] = rows'[task[h].id]]
            /\ rows[task[h].id] = None
        BY <1>1, <2>1, <2>4 DEF InsertPending
      <3>2. QED
        BY <1>1, <3>1
    <2>5. CASE UpdatePending(h)
      <3>1. task[h].id # id \/ rows'[id] =
               Renewed(rows[id], task[h].seen, task[h].got + Delta(id))
        BY <1>1, <2>5 DEF UpdatePending
      <3>2. /\ task[h] \in Task /\ task[h].got # None /\ task[h].seen # None
            /\ task[h].id \in Ids
        BY <2>1, <2>5
        DEF UpdatePending, Located, TypeOK, TasksLocated, TaskLocated
      <3>3. task[h].seen \in Row /\ task[h].got + Delta(id) \in Int
        BY <3>2, ConstantFacts DEF Task
      <3>4. Renewed(rows[id], task[h].seen, task[h].got + Delta(id)) \in Row
        BY <1>2, <3>3, RenewedIsRow
      <3>5. CASE task[h].id = id
        BY <3>1, <3>4, <3>5, ConstantFacts
      <3>6. CASE task[h].id # id
        BY <1>1, <2>5, <3>2, <3>6 DEF UpdatePending
      <3>7. QED
        BY <3>5, <3>6
    <2>6. CASE UNCHANGED rows
      BY <2>6
    <2>7. QED
      BY <1>4, <2>2, <2>3, <2>4, <2>5, <2>6 DEF Proceed, LockForRedeem,
         AlreadyReversed, RefuseOverdraw, ReplayApplied, RefuseInFlight,
         Lookup, ReadFails, Observe, DuplicateKey, UnasApplies, UnasDeclines,
         FinishUncertain, Unmarked, CommitFails
  <1>5. ASSUME NEW i \in Instances, Reconcile(i) PROVE rows'[id] # None
    <2>1. CASE WorkerVerdict(i) /\ ~UNCHANGED rows
      <3>1. worker[i].cur \in Ids
        BY <2>1 DEF WorkerVerdict, Located, TypeOK, Reconciler
      <3>2. SetStatus(worker[i].cur, Verdict(i))
        BY <2>1 DEF WorkerVerdict, SetStatus
      <3>3. Verdict(i) \in Statuses
        BY DEF Verdict, Statuses
      <3>4. QED
        BY <1>3, <3>1, <3>2, <3>3
    <2>2. CASE UNCHANGED rows
      BY <2>2
    <2>3. QED
      BY <1>5, <2>1, <2>2 DEF Reconcile, WorkerSelect, WorkerRead, WorkerSkip,
         WorkerAborts
  <1>6. ASSUME NEW j \in Ids, Age(j) PROVE rows'[id] # None
    <2>1. rows[j] \in Row /\ [rows[j] EXCEPT !.fresh = FALSE] \in Row
      BY <1>1, <1>6 DEF Age, Row
    <2>2. rows' = [rows EXCEPT ![j] = [rows[j] EXCEPT !.fresh = FALSE]]
      BY <1>6 DEF Age
    <2>3. QED
      BY <1>1, <2>1, <2>2, ConstantFacts
  <1>7. ASSUME NEW h \in Handlers, LateWrite(h) \/ \E j \in Ids : Submit(h, j)
        PROVE  UNCHANGED rows
    BY <1>7 DEF LateWrite, Submit
  <1>8. ASSUME NEW i \in Instances, Crash(i) PROVE UNCHANGED rows
    BY <1>8 DEF Crash
  <1>9. ASSUME NEW c \in Customers, NEW d \in ExternalDeltas, External(c, d)
        PROVE  UNCHANGED rows
    BY <1>9 DEF External
  <1>10. CASE UNCHANGED vars
    BY <1>10 DEF vars
  <1>11. QED
    BY <1>4, <1>5, <1>6, <1>7, <1>8, <1>9, <1>10 DEF Next

\* A balance never changes on behalf of a request without a row, in every
\* deployment and environment: also across a crash between the write and the
\* commit that follows it, and for a write that lands after its timeout.
THEOREM IntentAlwaysRecorded == Spec => []IntentRecorded
  <1>1. Init => IntentRecorded
    BY DEF Init, IntentRecorded
  <1>2. Located /\ IntentRecorded /\ [Next]_vars => IntentRecorded'
    <2> SUFFICES ASSUME Located, IntentRecorded, [Next]_vars,
                        NEW id \in Ids, effects'[id] > 0
                 PROVE  rows'[id] # None
      BY DEF IntentRecorded
    <2>1. CASE effects[id] > 0
      BY <2>1, RowsNeverVanish DEF IntentRecorded
    <2>2. CASE ~(effects[id] > 0)
      <3>1. PICK h \in Handlers : WriteStep(h)
        BY <2>2, OnlyWritesTouchUnas DEF External
      <3>2. task[h].id = id
        BY <2>2, <3>1 DEF WriteStep, WriteBalance, Located, TypeOK
      <3>3. rows[id] # None
        BY <3>1, <3>2 DEF WriteStep, Located, TasksLocated, TaskLocated
      <3>4. QED
        BY <3>3, RowsNeverVanish
    <2>3. QED
      BY <2>1, <2>2
  <1>3. QED
    BY <1>1, <1>2, AlwaysLocated, PTL DEF Spec

-----------------------------------------------------------------------------
(* Locks.                                                                  *)

\* A task that may touch its lock: it holds it, or it finds it free.
MayLock(h) == \/ task[h].at \in Critical
              \/ task[h].at = "wait" /\ LockFree(h)

\* What the step of one task does to locks: leave "async with lock", enter it
\* or stay in it, have nothing to do with it.
Unlocks(h) == MayLock(h) /\ SetLock(h, None) /\ task'[h].at \notin Critical
TakesLock(h) ==
    /\ MayLock(h) /\ SetLock(h, h)
    /\ task'[h].at \in Critical /\ task'[h].id = task[h].id
KeepsLock(h) ==
    /\ UNCHANGED lock /\ task[h].at \in Critical
    /\ task'[h].at \in Critical /\ task'[h].id = task[h].id
NeedsNoLock(h) ==
    /\ UNCHANGED lock
    /\ task[h].at \notin Critical /\ task'[h].at \notin Critical
LockStep(h) ==
    /\ \A g \in Handlers \ {h} : task'[g] = task[g]
    /\ Unlocks(h) \/ TakesLock(h) \/ KeepsLock(h) \/ NeedsNoLock(h)

\* Answering ends the critical section.
LEMMA AnswerUnlocks ==
    ASSUME Located, NEW h \in Handlers, MayLock(h), Answer(h)
    PROVE  LockStep(h)
  <1>1. SetLock(h, None) /\ \A g \in Handlers \ {h} : task'[g] = task[g]
    BY DEF Answer, Located, TypeOK
  <1>2. task'[h].at \in {"orphan", "idle"}
    BY DEF Answer, IdleTask, Located, TypeOK, Task
  <1>3. task'[h].at \notin Critical
    BY <1>2 DEF Critical
  <1>4. QED
    BY <1>1, <1>3 DEF LockStep, Unlocks

\* Every step of a task treats the lock in one of the four ways.
LEMMA TaskSteps ==
    ASSUME Located, NEW h \in Handlers,
           Proceed(h) \/ LateWrite(h) \/ \E id \in Ids : Submit(h, id)
    PROVE  LockStep(h)
  <1>1. task[h] \in Task /\ task \in [Handlers -> Task] /\ DOMAIN task = Handlers
    BY DEF Located, TypeOK
  <1>2. ASSUME Entering(h) PROVE MayLock(h)
    BY <1>2 DEF Entering, MayLock, Critical
  <1>3. CASE LockForRedeem(h)
    <2>1. MayLock(h) /\ SetLock(h, h)
      BY <1>3 DEF LockForRedeem, MayLock
    <2>2. /\ task'[h].id = task[h].id /\ task'[h].at \in Critical
          /\ \A g \in Handlers \ {h} : task'[g] = task[g]
      BY <1>1, <1>3 DEF LockForRedeem, Task, Critical
    <2>3. QED
      BY <2>1, <2>2 DEF LockStep, TakesLock
  <1>4. CASE Lookup(h)
    <2>1. MayLock(h) /\ SetLock(h, h)
      BY <1>2, <1>4 DEF Lookup
    <2>2. /\ task'[h].id = task[h].id /\ task'[h].at \in Critical
          /\ \A g \in Handlers \ {h} : task'[g] = task[g]
      BY <1>1, <1>4 DEF Lookup, Task, Critical
    <2>3. QED
      BY <2>1, <2>2 DEF LockStep, TakesLock
  <1>5. CASE ReplayApplied(h) /\ IsReversal(task[h].id)
    <2>1. MayLock(h) /\ SetLock(h, h)
      BY <1>2, <1>5 DEF ReplayApplied
    <2>2. /\ task'[h].id = task[h].id /\ task'[h].at \in Critical
          /\ \A g \in Handlers \ {h} : task'[g] = task[g]
      BY <1>1, <1>5 DEF ReplayApplied, Task, Critical
    <2>3. QED
      BY <2>1, <2>2 DEF LockStep, TakesLock
  <1>6. CASE \/ AlreadyReversed(h) \/ RefuseOverdraw(h)
             \/ ReplayApplied(h) /\ ~IsReversal(task[h].id)
             \/ RefuseInFlight(h) \/ ReadFails(h) \/ DuplicateKey(h)
             \/ FinishFailed(h) \/ FinishUncertain(h) \/ MarkReversed(h)
             \/ Unmarked(h) \/ CommitFails(h)
             \/ FinishApplied(h) /\ ~IsReversal(task[h].id)
    <2>1. MayLock(h) /\ Answer(h)
      BY <1>2, <1>6 DEF AlreadyReversed, RefuseOverdraw, ReplayApplied,
         RefuseInFlight, ReadFails, DuplicateKey, FinishFailed,
         FinishUncertain, MarkReversed, Unmarked, CommitFails, FinishApplied,
         MayLock, Critical
    <2>2. QED
      BY <2>1, AnswerUnlocks
  <1>7. CASE \/ Observe(h) \/ InsertPending(h) \/ UpdatePending(h)
             \/ \E reply \in Replies :
                   UnasApplies(h, reply) \/ UnasDeclines(h, reply)
             \/ FinishApplied(h) /\ IsReversal(task[h].id)
    <2>1. task[h].at \in Critical /\ UNCHANGED lock
      BY <1>7 DEF Observe, InsertPending, UpdatePending, UnasApplies,
         UnasDeclines, FinishApplied, Critical
    <2>2. /\ task'[h].id = task[h].id /\ task'[h].at \in Critical
          /\ \A g \in Handlers \ {h} : task'[g] = task[g]
      BY <1>1, <1>7 DEF Observe, InsertPending, UpdatePending, UnasApplies,
         UnasDeclines, FinishApplied, Task, Critical
    <2>3. QED
      BY <2>1, <2>2 DEF LockStep, KeepsLock
  <1>8. CASE LateWrite(h)
    BY <1>1, <1>8 DEF LateWrite, IdleTask, Critical, LockStep, NeedsNoLock
  <1>9. ASSUME NEW id \in Ids, Submit(h, id) PROVE LockStep(h)
    BY <1>1, <1>9 DEF Submit, IdleTask, Critical, LockStep, NeedsNoLock
  <1>10. QED
    BY <1>3, <1>4, <1>5, <1>6, <1>7, <1>8, <1>9 DEF Proceed

\* The lock a task may touch is its own or free; a task that is not the one
\* moving has another, or none.
LEMMA LockIsOwn ==
    ASSUME Located, LocksHeld, NEW h \in Handlers, MayLock(h)
    PROVE  /\ task[h].id \in Ids /\ Customer(task[h].id) \in Customers
           /\ Home[h] \in Instances
           /\ lock[Home[h]][Customer(task[h].id)] \in {h, None}
  <1>1. task[h].id \in Ids
    BY DEF MayLock, Critical, Located, TasksLocated, TaskLocated
  <1>2. Customer(task[h].id) \in Customers /\ Home[h] \in Instances
    BY <1>1, LedgerAssumption, ConstantFacts
  <1>3. lock[Home[h]][Customer(task[h].id)] \in {h, None}
    BY DEF MayLock, LocksHeld, LockFree, LockOf
  <1>4. QED
    BY <1>1, <1>2, <1>3

\* A crash frees the locks of its process, and ends the tasks that had them.
LEMMA CrashFrees ==
    ASSUME Located, NEW i \in Instances, Crash(i)
    PROVE  /\ \A c \in Customers : lock'[i][c] = None
           /\ \A j \in Instances \ {i} : lock'[j] = lock[j]
           /\ \A g \in Handlers :
                 \/ task'[g] = task[g] /\ (Home[g] = i => task[g].at = "orphan")
                 \/ Home[g] = i /\ task'[g].at \notin Critical
  <1>1. lock \in [Instances -> [Customers -> Handlers \cup {None}]]
    BY DEF Located, TypeOK
  <1>2. ASSUME NEW g \in Handlers
        PROVE  \/ task'[g] = task[g] /\ (Home[g] = i => task[g].at = "orphan")
               \/ Home[g] = i /\ task'[g].at \notin Critical
    <2>1. task[g] \in Task
      BY DEF Located, TypeOK
    <2>2. \/ task'[g] = task[g] /\ (Home[g] # i \/ task[g].at = "orphan")
          \/ Home[g] = i /\ task'[g].at \in {"orphan", "idle"}
      BY <2>1 DEF Crash, Task, IdleTask
    <2>3. QED
      BY <2>2 DEF Critical
  <1>3. /\ \A c \in Customers : lock'[i][c] = None
        /\ \A j \in Instances \ {i} : lock'[j] = lock[j]
    BY <1>1 DEF Crash
  <1>4. QED
    BY <1>2, <1>3

\* Every task between "async with lock" and its answer holds the lock.
LEMMA NextLocksHeld ==
    ASSUME Located, LocksHeld, [Next]_vars
    PROVE  LocksHeld'
  <1>1. lock \in [Instances -> [Customers -> Handlers \cup {None}]]
    BY DEF Located, TypeOK
  <1>2. ASSUME NEW h \in Handlers, LockStep(h) PROVE LocksHeld'
    <2> SUFFICES ASSUME NEW g \in Handlers, task'[g].at \in Critical
                 PROVE  lock'[Home[g]][Customer(task'[g].id)] = g
      BY DEF LocksHeld, LockOf
    <2>1. CASE g = h
      <3>1. CASE TakesLock(h)
        BY <1>1, <2>1, <3>1, LockIsOwn DEF TakesLock, SetLock
      <3>2. CASE KeepsLock(h)
        BY <2>1, <3>2 DEF KeepsLock, LocksHeld, LockOf
      <3>3. QED
        BY <1>2, <2>1, <3>1, <3>2 DEF LockStep, Unlocks, NeedsNoLock
    <2>2. CASE g # h
      <3>1. /\ task'[g] = task[g] /\ task[g].at \in Critical
            /\ lock[Home[g]][Customer(task[g].id)] = g
        BY <1>2, <2>2 DEF LockStep, LocksHeld, LockOf
      <3>2. Home[g] \in Instances /\ Customer(task[g].id) \in Customers
        BY <3>1, LockIsOwn DEF MayLock
      <3>3. CASE UNCHANGED lock
        BY <3>1, <3>3
      <3>4. CASE Unlocks(h) \/ TakesLock(h)
        <4>1. MayLock(h) /\ (SetLock(h, None) \/ SetLock(h, h))
          BY <3>4 DEF Unlocks, TakesLock
        <4>2. ~(Home[g] = Home[h] /\ Customer(task[g].id) = Customer(task[h].id))
          BY <2>2, <3>1, <4>1, LockIsOwn, ConstantFacts
        <4>3. lock'[Home[g]][Customer(task[g].id)]
                 = lock[Home[g]][Customer(task[g].id)]
          BY <1>1, <3>2, <4>1, <4>2, LockIsOwn DEF SetLock
        <4>4. QED
          BY <3>1, <4>3
      <3>5. QED
        BY <1>2, <3>3, <3>4 DEF LockStep, KeepsLock, NeedsNoLock
    <2>3. QED
      BY <2>1, <2>2
  <1>3. ASSUME NEW i \in Instances, Crash(i) PROVE LocksHeld'
    <2> SUFFICES ASSUME NEW g \in Handlers, task'[g].at \in Critical
                 PROVE  lock'[Home[g]][Customer(task'[g].id)] = g
      BY DEF LocksHeld, LockOf
    <2>1. task'[g] = task[g] /\ (Home[g] = i => task[g].at = "orphan")
      BY <1>3, CrashFrees
    <2>2. Home[g] # i /\ Home[g] \in Instances
      BY <2>1, LedgerAssumption DEF Critical
    <2>3. QED
      BY <1>3, <2>1, <2>2, CrashFrees DEF LocksHeld, LockOf
  <1>4. CASE UNCHANGED <<task, lock>>
    BY <1>4 DEF LocksHeld, LockOf
  <1>5. QED
    BY <1>2, <1>3, <1>4, TaskSteps DEF Next, vars, Age, Reconcile,
       WorkerSelect, WorkerRead, WorkerSkip, WorkerVerdict, WorkerAborts,
       External

THEOREM LocksAlwaysHeld == Spec => []LocksHeld
  <1>1. Init => LocksHeld
    BY DEF Init, LocksHeld, IdleTask, Critical
  <1>2. Located /\ LocksHeld /\ [Next]_vars => LocksHeld'
    BY NextLocksHeld
  <1>3. QED
    BY <1>1, <1>2, AlwaysLocated, PTL DEF Spec

\* A lock that is taken has its holder inside "async with lock".
LEMMA NextLocksInUse ==
    ASSUME Located, LocksHeld, LocksInUse, [Next]_vars
    PROVE  LocksInUse'
  <1> SUFFICES ASSUME NEW i \in Instances, NEW c \in Customers,
                      lock'[i][c] # None
               PROVE  /\ Home[lock'[i][c]] = i
                      /\ task'[lock'[i][c]].at \in Critical
                      /\ Customer(task'[lock'[i][c]].id) = c
    BY DEF LocksInUse
  <1>1. lock \in [Instances -> [Customers -> Handlers \cup {None}]]
    BY DEF Located, TypeOK
  <1>2. ASSUME lock'[i][c] = lock[i][c]
        PROVE  /\ lock[i][c] \in Handlers /\ Home[lock[i][c]] = i
               /\ task[lock[i][c]].at \in Critical
               /\ Customer(task[lock[i][c]].id) = c
    BY <1>1, <1>2 DEF LocksInUse
  <1>3. ASSUME NEW h \in Handlers, LockStep(h)
        PROVE  /\ Home[lock'[i][c]] = i
               /\ task'[lock'[i][c]].at \in Critical
               /\ Customer(task'[lock'[i][c]].id) = c
    <2>1. CASE (KeepsLock(h) \/ NeedsNoLock(h)) /\ lock[i][c] = h
      BY <1>2, <2>1 DEF KeepsLock, NeedsNoLock
    <2>2. CASE (KeepsLock(h) \/ NeedsNoLock(h)) /\ lock[i][c] # h
      <3>1. lock'[i][c] = lock[i][c]
        BY <2>2 DEF KeepsLock, NeedsNoLock
      <3>2. task'[lock[i][c]] = task[lock[i][c]]
        BY <1>2, <1>3, <2>2, <3>1 DEF LockStep
      <3>3. QED
        BY <1>2, <3>1, <3>2
    <2>3. CASE Unlocks(h) \/ TakesLock(h)
      <3>1. MayLock(h) /\ (SetLock(h, None) \/ SetLock(h, h))
        BY <2>3 DEF Unlocks, TakesLock
      <3>2. CASE i = Home[h] /\ c = Customer(task[h].id)
        <4>1. lock'[i][c] = None \/ (lock'[i][c] = h /\ TakesLock(h))
          BY <1>1, <2>3, <3>2 DEF Unlocks, TakesLock, SetLock
        <4>2. QED
          BY <3>2, <4>1 DEF TakesLock
      <3>3. CASE ~(i = Home[h] /\ c = Customer(task[h].id))
        <4>1. lock'[i][c] = lock[i][c]
          BY <1>1, <3>1, <3>3, LockIsOwn DEF SetLock
        <4>2. lock[i][c] # h
          <5>1. CASE task[h].at \in Critical
            BY <1>2, <3>3, <4>1
          <5>2. CASE task[h].at \notin Critical
            BY <1>2, <4>1, <5>2
          <5>3. QED
            BY <5>1, <5>2
        <4>3. task'[lock[i][c]] = task[lock[i][c]]
          BY <1>2, <1>3, <4>1, <4>2 DEF LockStep
        <4>4. QED
          BY <1>2, <4>1, <4>3
      <3>4. QED
        BY <3>2, <3>3
    <2>4. QED
      BY <1>3, <2>1, <2>2, <2>3 DEF LockStep
  <1>4. ASSUME NEW j \in Instances, Crash(j)
        PROVE  /\ Home[lock'[i][c]] = i
               /\ task'[lock'[i][c]].at \in Critical
               /\ Customer(task'[lock'[i][c]].id) = c
    <2>1. i # j /\ lock'[i][c] = lock[i][c]
      BY <1>4, CrashFrees
    <2>2. task'[lock[i][c]] = task[lock[i][c]]
      BY <1>2, <1>4, <2>1, CrashFrees
    <2>3. QED
      BY <1>2, <2>1, <2>2
  <1>5. CASE UNCHANGED <<task, lock>>
    BY <1>2, <1>5
  <1>6. QED
    BY <1>3, <1>4, <1>5, TaskSteps DEF Next, vars, Age, Reconcile,
       WorkerSelect, WorkerRead, WorkerSkip, WorkerVerdict, WorkerAborts,
       External

\* No lock stays taken without a task inside "async with lock", in any
\* deployment, whichever call fails and whichever process dies: nobody is
\* locked out by a request that is over.
THEOREM LocksAlwaysInUse == Spec => []LocksInUse
  <1>1. Init => LocksInUse
    BY DEF Init, LocksInUse
  <1>2. Located /\ LocksHeld /\ LocksInUse /\ [Next]_vars => LocksInUse'
    BY NextLocksInUse
  <1>3. QED
    BY <1>1, <1>2, AlwaysLocated, LocksAlwaysHeld, PTL DEF Spec

-----------------------------------------------------------------------------
(* One process, nobody else writing balances.                              *)

\* The deployment the code is meant for: all requests in one process, writes
\* that have taken effect by the time they time out, and no other source of
\* balance changes.
SoleWriter ==
    /\ \A g, h \in Handlers : Home[g] = Home[h]
    /\ "late" \notin Environment
    /\ MaxExternal = 0

NoOrphans == \A h \in Handlers : task[h].at # "orphan" /\ task[h].reply # "late"

LEMMA AnswerLeavesNoOrphan ==
    ASSUME TypeOK, NoOrphans, NEW h \in Handlers, Answer(h)
    PROVE  NoOrphans'
  <1>1. task \in [Handlers -> Task] /\ task[h].reply # "late"
    BY DEF TypeOK, NoOrphans
  <1>2. task' = [task EXCEPT ![h] = IdleTask]
    BY <1>1 DEF Answer
  <1>3. IdleTask.at = "idle" /\ IdleTask.reply # "late"
    BY LedgerAssumption DEF IdleTask
  <1>4. QED
    BY <1>1, <1>2, <1>3 DEF NoOrphans

LEMMA NextNoOrphans ==
    ASSUME SoleWriter, Located, NoOrphans, [Next]_vars
    PROVE  NoOrphans'
  <1>1. task \in [Handlers -> Task]
    BY DEF Located, TypeOK
  <1>2. ASSUME NEW h \in Handlers, Proceed(h) PROVE NoOrphans'
    <2>1. CASE Answer(h)
      BY <2>1, AnswerLeavesNoOrphan DEF Located
    <2>2. ASSUME task'[h].at \in Critical, task'[h].reply # "late",
                 \A g \in Handlers \ {h} : task'[g] = task[g]
          PROVE  NoOrphans'
      BY <2>2 DEF NoOrphans, Critical
    <2>3. task[h] \in Task /\ DOMAIN task = Handlers /\ task[h].reply # "late"
      BY <1>1 DEF NoOrphans
    <2>4. CASE LockForRedeem(h)
      BY <1>1, <2>2, <2>3, <2>4 DEF LockForRedeem, Critical, Task
    <2>5. CASE ReplayApplied(h) /\ ~Answer(h)
      BY <1>1, <2>2, <2>3, <2>5 DEF ReplayApplied, Critical, Task
    <2>6. CASE Lookup(h)
      BY <1>1, <2>2, <2>3, <2>6 DEF Lookup, Critical, Task
    <2>7. CASE Observe(h)
      BY <1>1, <2>2, <2>3, <2>7 DEF Observe, Critical, Task
    <2>8. CASE InsertPending(h)
      BY <1>1, <2>2, <2>3, <2>8 DEF InsertPending, Critical, Task
    <2>9. CASE UpdatePending(h)
      BY <1>1, <2>2, <2>3, <2>9 DEF UpdatePending, Critical, Task
    <2>10. ASSUME NEW reply \in Replies,
                  UnasApplies(h, reply) \/ UnasDeclines(h, reply)
           PROVE  NoOrphans'
      <3>1. reply # "late"
        BY <2>10 DEF UnasApplies, UnasDeclines, SoleWriter
      <3>2. QED
        BY <1>1, <2>2, <2>3, <2>10, <3>1
        DEF UnasApplies, UnasDeclines, Critical, Task
    <2>11. CASE FinishApplied(h) /\ ~Answer(h)
      BY <1>1, <2>2, <2>3, <2>11 DEF FinishApplied, Critical, Task
    <2>12. QED
      BY <1>2, <2>1, <2>4, <2>5, <2>6, <2>7, <2>8, <2>9, <2>10, <2>11
      DEF Proceed, AlreadyReversed, RefuseOverdraw, RefuseInFlight, ReadFails,
          DuplicateKey, FinishFailed, FinishUncertain, MarkReversed,
          Unmarked, CommitFails
  <1>3. ASSUME NEW h \in Handlers, LateWrite(h) PROVE NoOrphans'
    BY <1>3 DEF LateWrite, NoOrphans
  <1>4. ASSUME NEW h \in Handlers, NEW id \in Ids, Submit(h, id)
        PROVE  NoOrphans'
    BY <1>1, <1>4, LedgerAssumption DEF Submit, IdleTask, NoOrphans, Task
  <1>5. ASSUME NEW i \in Instances, Crash(i) PROVE NoOrphans'
    <2>1. PICK sent : /\ sent # {} => "late" \in Environment
                      /\ task' = [h \in Handlers |->
                            IF h \notin {g \in Handlers :
                                   Home[g] = i /\ task[g].at # "orphan"}
                            THEN task[h]
                            ELSE IF h \in sent \/ task[h].reply = "late"
                                 THEN [task[h] EXCEPT !.at = "orphan"]
                                 ELSE IdleTask]
      BY <1>5 DEF Crash
    <2>2. sent = {}
      BY <2>1 DEF SoleWriter
    <2>3. \A h \in Handlers : task'[h] = task[h] \/ task'[h] = IdleTask
      BY <2>1, <2>2 DEF NoOrphans
    <2>4. QED
      BY <2>3, LedgerAssumption DEF NoOrphans, IdleTask
  <1>6. CASE UNCHANGED task
    BY <1>6 DEF NoOrphans
  <1>7. QED
    BY <1>2, <1>3, <1>4, <1>5, <1>6 DEF Next, vars, Age, Reconcile,
       WorkerSelect, WorkerRead, WorkerSkip, WorkerVerdict, WorkerAborts,
       External

\* All that is known of a state in that deployment.
Sole == Located /\ LocksHeld /\ NoOrphans /\ SnapshotCurrent /\ RedeemCovered

\* While a task is inside "async with lock", only its own write moves the
\* balance of its customer.
LEMMA BalanceStands ==
    ASSUME SoleWriter, Located, LocksHeld, NoOrphans, [Next]_vars,
           NEW g \in Handlers, task[g].at \in Critical, ~WriteStep(g)
    PROVE  /\ account'[Customer(task[g].id)] = account[Customer(task[g].id)]
           /\ Value(account'[Customer(task[g].id)])
                 = Balance(Customer(task[g].id))
  <1> DEFINE c == Customer(task[g].id)
  <1>1. task[g].id \in Ids /\ c \in Customers
    BY ConstantFacts DEF Critical, Located, TasksLocated, TaskLocated
  <1>2. account'[c] = account[c]
    <2>1. CASE UNCHANGED account
      BY <2>1
    <2>2. ASSUME NEW h \in Handlers, WriteStep(h) PROVE account'[c] = account[c]
      <3>1. h # g /\ task[h].at \in Critical /\ task[h].id \in Ids
        BY <2>2 DEF WriteStep, NoOrphans, Critical, Located, TasksLocated,
           TaskLocated
      <3>2. LockOf(h) = h /\ LockOf(g) = g
        BY <3>1 DEF LocksHeld
      <3>3. Home[h] = Home[g]
        BY DEF SoleWriter
      <3>4. Customer(task[h].id) # c
        BY <3>1, <3>2, <3>3 DEF LockOf
      <3>5. account \in [Customers -> Int \cup {NoAccount}]
        BY DEF Located, TypeOK
      <3>6. QED
        BY <1>1, <2>2, <3>4, <3>5 DEF WriteStep, WriteBalance
    <2>3. ASSUME NEW d \in Customers, NEW e \in ExternalDeltas, External(d, e)
          PROVE  FALSE
      BY <2>3 DEF External, SoleWriter, Located, TypeOK
    <2>4. QED
      BY <2>1, <2>2, <2>3, OnlyWritesTouchUnas
  <1>3. QED
    BY <1>2 DEF Balance

\* Where a task that waits to write, or to look the balance up, comes from.
LEMMA ComesFrom ==
    ASSUME Located, [Next]_vars, NEW g \in Handlers,
           task'[g].at \in {"observe", "record", "put"}
    PROVE  \/ /\ task'[g].id = task[g].id
              /\ task'[g].got = task[g].got
              /\ task[g].at \in Critical
              /\ \/ task'[g].at = "observe" /\ task[g].at = "observe"
                 \/ task'[g].at # "observe" /\ task[g].at \in {"record", "put"}
           \/ Observe(g)
           \/ Lookup(g)
  <1>1. task \in [Handlers -> Task]
    BY DEF Located, TypeOK
  <1>2. ASSUME NEW h \in Handlers, Answer(h)
        PROVE  task'[g] = task[g]
    <2>1. task'[h].at \in {"idle", "orphan"}
      BY <1>1, <1>2 DEF Answer, IdleTask, Task
    <2>2. h # g
      BY <2>1
    <2>3. QED
      BY <1>1, <1>2, <2>2 DEF Answer
  <1>3. CASE task'[g] = task[g]
    BY <1>3 DEF Critical
  <1>4. ASSUME NEW h \in Handlers, Proceed(h) PROVE task'[g] = task[g] \/ h = g
    BY <1>1, <1>2, <1>4 DEF Proceed, LockForRedeem, AlreadyReversed,
       RefuseOverdraw, ReplayApplied, RefuseInFlight, Lookup, ReadFails,
       Observe, InsertPending, DuplicateKey, UpdatePending, UnasApplies,
       UnasDeclines, FinishApplied, FinishFailed, FinishUncertain,
       MarkReversed, Unmarked, CommitFails
  <1>5. CASE Proceed(g) /\ ~Observe(g) /\ ~Lookup(g) /\ task'[g] # task[g]
    <2>1. CASE InsertPending(g) \/ UpdatePending(g)
      BY <1>1, <2>1 DEF InsertPending, UpdatePending, Task, Critical
    <2>2. CASE ~(InsertPending(g) \/ UpdatePending(g))
      <3>1. task'[g].at \in {"validate", "mark", "reply"}
        BY <1>1, <1>2, <1>5, <2>2 DEF Proceed, LockForRedeem, AlreadyReversed,
           RefuseOverdraw, ReplayApplied, RefuseInFlight, ReadFails,
           DuplicateKey, UnasApplies, UnasDeclines, FinishApplied,
           FinishFailed, FinishUncertain, MarkReversed,
           Unmarked, CommitFails, Task
      <3>2. QED
        BY <3>1
    <2>3. QED
      BY <2>1, <2>2
  <1>6. ASSUME NEW h \in Handlers, LateWrite(h) \/ \E id \in Ids : Submit(h, id)
        PROVE  task'[g] = task[g]
    <2>1. /\ task'[h].at \in {"idle", "wait"}
          /\ \A f \in Handlers \ {h} : task'[f] = task[f]
      <3>1. CASE LateWrite(h)
        BY <1>1, <3>1 DEF LateWrite, IdleTask
      <3>2. ASSUME NEW id \in Ids, Submit(h, id)
            PROVE  /\ task'[h].at \in {"idle", "wait"}
                   /\ \A f \in Handlers \ {h} : task'[f] = task[f]
        BY <1>1, <3>2 DEF Submit, IdleTask
      <3>3. QED
        BY <1>6, <3>1, <3>2
    <2>2. QED
      BY <2>1
  <1>7. ASSUME NEW i \in Instances, Crash(i) PROVE task'[g] = task[g]
    BY <1>1, <1>7 DEF Crash, IdleTask, Task
  <1>8. CASE UNCHANGED task
    BY <1>8, <1>3
  <1>9. QED
    BY <1>3, <1>4, <1>5, <1>6, <1>7, <1>8 DEF Next, vars, Age, Reconcile,
       WorkerSelect, WorkerRead, WorkerSkip, WorkerVerdict, WorkerAborts,
       External

\* From the read of the balance to the write of a task, the balance stands.
LEMMA NextSnapshotCurrent ==
    ASSUME SoleWriter, Sole, [Next]_vars
    PROVE  SnapshotCurrent'
  <1> SUFFICES ASSUME NEW g \in Handlers, task'[g].at \in {"record", "put"}
               PROVE  task'[g].got = Value(account'[Customer(task'[g].id)])
    BY DEF SnapshotCurrent, Balance
  <1>1. task \in [Handlers -> Task]
    BY DEF Sole, Located, TypeOK
  <1>2. CASE Observe(g)
    <2>1. /\ task'[g].id = task[g].id /\ UNCHANGED account
          /\ task'[g].got = Balance(Customer(task[g].id))
      BY <1>1, <1>2 DEF Observe, Task
    <2>2. QED
      BY <2>1 DEF Balance
  <1>3. CASE Lookup(g)
    <2>1. task'[g].at = "observe"
      BY <1>1, <1>3 DEF Lookup, Task
    <2>2. QED
      BY <2>1
  <1>4. CASE /\ task'[g].id = task[g].id /\ task'[g].got = task[g].got
             /\ task[g].at \in {"record", "put"}
    <2>1. ~WriteStep(g)
      BY <1>1 DEF WriteStep
    <2>2. Value(account'[Customer(task[g].id)]) = Balance(Customer(task[g].id))
      BY <1>4, <2>1, BalanceStands DEF Sole, Critical
    <2>3. QED
      BY <1>4, <2>2 DEF Sole, SnapshotCurrent
  <1>5. QED
    BY <1>2, <1>3, <1>4, ComesFrom DEF Sole

\* A redemption that was covered when it was validated still is when it writes.
LEMMA NextRedeemCovered ==
    ASSUME SoleWriter, Sole, [Next]_vars
    PROVE  RedeemCovered'
  <1> SUFFICES ASSUME NEW g \in Handlers, task'[g].at # "idle",
                      IsRedeem(task'[g].id)
               PROVE  /\ task'[g].at = "observe" =>
                            Value(account'[Customer(task'[g].id)])
                               + Delta(task'[g].id) >= 0
                      /\ task'[g].at \in {"record", "put"} =>
                            task'[g].got + Delta(task'[g].id) >= 0
    BY DEF RedeemCovered, Covered, Balance
  <1>1. task \in [Handlers -> Task]
    BY DEF Sole, Located, TypeOK
  <1>2. CASE Observe(g)
    <2>1. /\ task'[g].id = task[g].id /\ task'[g].at = "record"
          /\ task[g].at = "observe"
          /\ task'[g].got = Balance(Customer(task[g].id))
      BY <1>1, <1>2 DEF Observe, Task
    <2>2. Covered(task[g].id)
      BY <2>1 DEF Sole, RedeemCovered
    <2>3. QED
      BY <2>1, <2>2 DEF Covered
  <1>3. CASE Lookup(g)
    <2>1. /\ task'[g].id = task[g].id /\ task'[g].at = "observe"
          /\ UNCHANGED account
      BY <1>1, <1>3 DEF Lookup, Task
    <2>2. Covered(task[g].id)
      BY <1>3, <2>1 DEF Lookup, Entering
    <2>3. QED
      BY <2>1, <2>2 DEF Covered, Balance
  <1>4. CASE /\ task'[g].id = task[g].id /\ task'[g].got = task[g].got
             /\ task[g].at \in Critical
             /\ \/ task'[g].at = "observe" /\ task[g].at = "observe"
                \/ task'[g].at # "observe" /\ task[g].at \in {"record", "put"}
    <2>1. task[g].at # "idle"
      BY <1>4 DEF Critical
    <2>2. CASE task'[g].at # "observe"
      BY <1>4, <2>1, <2>2 DEF Sole, RedeemCovered
    <2>3. CASE task'[g].at = "observe"
      <3>1. ~WriteStep(g)
        BY <1>4, <2>3 DEF WriteStep, Sole, NoOrphans
      <3>2. Value(account'[Customer(task[g].id)])
               = Balance(Customer(task[g].id))
        BY <1>4, <3>1, BalanceStands DEF Sole
      <3>3. Covered(task[g].id)
        BY <1>4, <2>1, <2>3 DEF Sole, RedeemCovered
      <3>4. QED
        BY <1>4, <2>3, <3>2, <3>3 DEF Covered
    <2>4. QED
      BY <2>2, <2>3
  <1>5. CASE task'[g].at \notin {"observe", "record", "put"}
    BY <1>5
  <1>6. QED
    BY <1>2, <1>3, <1>4, <1>5, ComesFrom DEF Sole

LEMMA SoleAlways ==
    ASSUME SoleWriter
    PROVE  Spec => []Sole
  <1>1. Init => NoOrphans /\ SnapshotCurrent /\ RedeemCovered
    <2> SUFFICES ASSUME Init
                 PROVE  NoOrphans /\ SnapshotCurrent /\ RedeemCovered
      OBVIOUS
    <2>1. \A h \in Handlers : task[h].at = "idle" /\ task[h].reply # "late"
      BY LedgerAssumption DEF Init, IdleTask
    <2>2. QED
      BY <2>1 DEF NoOrphans, SnapshotCurrent, RedeemCovered
  <1>2. Sole /\ [Next]_vars => NoOrphans' /\ SnapshotCurrent' /\ RedeemCovered'
    BY NextNoOrphans, NextSnapshotCurrent, NextRedeemCovered DEF Sole
  <1>3. Spec => [](Located /\ LocksHeld)
    BY AlwaysLocated, LocksAlwaysHeld, PTL
  <1>4. Sole <=> /\ Located /\ LocksHeld
                 /\ NoOrphans /\ SnapshotCurrent /\ RedeemCovered
    BY DEF Sole
  <1>5. QED
    BY <1>1, <1>2, <1>3, <1>4, PTL DEF Spec

\* No update is lost in that deployment: the balance a handler computed with
\* is the balance its absolute write replaces, however requests, retries,
\* crashes and failing calls interleave.
THEOREM SnapshotAlwaysCurrent ==
    ASSUME SoleWriter
    PROVE  Spec => []SnapshotCurrent
  <1>1. Sole => SnapshotCurrent
    BY DEF Sole
  <1>2. QED
    BY <1>1, SoleAlways, PTL

-----------------------------------------------------------------------------
(* Refinement.                                                             *)

\* A write is an addition, and a redemption's one does not overdraw.
LEMMA WriteAdds ==
    ASSUME SoleWriter, Sole, NEW h \in Handlers, WriteStep(h)
    PROVE  Account!Apply(task[h].id)
  <1> DEFINE id == task[h].id
             c == Customer(task[h].id)
  <1>1. task[h].at = "put" /\ id \in Ids /\ c \in Customers
    BY ConstantFacts DEF WriteStep, Sole, NoOrphans, Located, TasksLocated,
       TaskLocated
  <1>2. task[h].got = Balance(c)
    BY <1>1 DEF Sole, SnapshotCurrent
  <1>3. IsRedeem(id) => Balance(c) + Delta(id) >= 0
    BY <1>1, <1>2 DEF Sole, RedeemCovered
  <1>4. /\ account \in [Customers -> Int \cup {NoAccount}]
        /\ effects \in [Ids -> Nat]
    BY DEF Sole, Located, TypeOK
  <1>5. /\ account' = [account EXCEPT ![c] = Balance(c) + Delta(id)]
        /\ effects' = [effects EXCEPT ![id] = effects[id] + 1]
    BY <1>2 DEF WriteStep, WriteBalance
  <1>6. Balance(c) + Delta(id) \in Int
    BY <1>1, <1>4, BalanceIsInt, ConstantFacts
  <1>7. [d \in Customers |-> Value(account'[d])]
           = [[d \in Customers |-> Balance(d)] EXCEPT
                 ![c] = Balance(c) + Delta(id)]
    <2>1. Value(Balance(c) + Delta(id)) = Balance(c) + Delta(id)
      BY <1>6, LedgerAssumption DEF Value
    <2>2. \A d \in Customers \ {c} : Value(account'[d]) = Balance(d)
      BY <1>4, <1>5 DEF Balance
    <2>3. Value(account'[c]) = Balance(c) + Delta(id)
      BY <1>1, <1>4, <1>5, <2>1
    <2>4. QED
      BY <2>2, <2>3
  <1>8. QED
    BY <1>1, <1>3, <1>5, <1>7 DEF Account!Apply, Balance

\* Reading a balance and later overwriting it is, in that deployment, an
\* indivisible addition, and redemptions never overdraw.
THEOREM Refinement ==
    ASSUME SoleWriter
    PROVE  Spec => AtomicAdditions
  <1>1. Init => Account!Init
    <2> SUFFICES ASSUME Init PROVE Account!Init
      OBVIOUS
    <2>1. \A c \in Customers : Balance(c) \in Int
      BY LedgerAssumption, BalanceIsInt DEF Init
    <2>2. QED
      BY <2>1 DEF Init, Account!Init
  <1>2. Sole /\ [Next]_vars => [Account!Next]_(Account!accountVars)
    <2> SUFFICES ASSUME Sole, [Next]_vars
                 PROVE  [Account!Next]_(Account!accountVars)
      OBVIOUS
    <2>1. CASE UNCHANGED <<account, effects>>
      BY <2>1 DEF Account!accountVars, Balance
    <2>2. ASSUME NEW h \in Handlers, WriteStep(h)
          PROVE  Account!Next
      <3>1. task[h].id \in Ids
        BY <2>2 DEF WriteStep, Sole, NoOrphans, Located, TasksLocated,
           TaskLocated
      <3>2. QED
        BY <2>2, <3>1, WriteAdds DEF Account!Next
    <2>3. ASSUME NEW c \in Customers, NEW d \in ExternalDeltas, External(c, d)
          PROVE  FALSE
      BY <2>3 DEF External, SoleWriter, Sole, Located, TypeOK
    <2>4. QED
      BY <2>1, <2>2, <2>3, OnlyWritesTouchUnas DEF Sole
  <1>3. QED
    BY <1>1, <1>2, SoleAlways, PTL DEF Spec, AtomicAdditions, Account!Spec

-----------------------------------------------------------------------------
(* Which balances may fall below zero.                                     *)

\* What a write does to the balance of a customer, and which balances it is not
\* about.
LEMMA WriteMovesBalance ==
    ASSUME SoleWriter, Sole, NEW h \in Handlers, WriteStep(h),
           NEW c \in Customers
    PROVE  /\ task[h].at = "put" /\ task[h].id \in Ids
           /\ effects' = [effects EXCEPT ![task[h].id] = @ + 1]
           /\ Value(account'[c]) = IF c = Customer(task[h].id)
                                   THEN Balance(c) + Delta(task[h].id)
                                   ELSE Balance(c)
  <1> DEFINE id == task[h].id
  <1>1. task[h].at = "put" /\ id \in Ids
    BY DEF WriteStep, Sole, NoOrphans, Located, TasksLocated, TaskLocated
  <1>2. Account!Apply(id)
    BY WriteAdds
  <1>3. effects' = [effects EXCEPT ![id] = @ + 1]
    BY <1>2 DEF Account!Apply
  <1>4. [d \in Customers |-> Value(account'[d])]
           = [[d \in Customers |-> Balance(d)] EXCEPT
                 ![Customer(id)] = Balance(Customer(id)) + Delta(id)]
    BY <1>1, <1>2, ConstantFacts DEF Account!Apply, Balance
  <1>5. [d \in Customers |-> Value(account'[d])][c]
           = IF c = Customer(id) THEN Balance(c) + Delta(id) ELSE Balance(c)
    BY <1>4
  <1>6. QED
    BY <1>1, <1>3, <1>5

\* A write that makes a balance negative is the one of a reversal.
LEMMA NextOverdraw ==
    ASSUME SoleWriter, Sole, OnlyReversalsOverdraw, [Next]_vars
    PROVE  OnlyReversalsOverdraw'
  <1> SUFFICES ASSUME NEW c \in Customers,
                      Value(InitialAccount[c]) >= 0,
                      \A id \in Ids : /\ Customer(id) = c /\ Delta(id) < 0
                                      /\ ~IsRedeem(id)
                                      => effects'[id] = 0
               PROVE  Value(account'[c]) >= 0
    BY DEF OnlyReversalsOverdraw, Balance
  <1>1. effects \in [Ids -> Nat] /\ Balance(c) \in Int
    BY BalanceIsInt DEF Sole, Located, TypeOK
  <1>2. CASE UNCHANGED <<account, effects>>
    BY <1>2 DEF OnlyReversalsOverdraw, Balance
  <1>3. ASSUME NEW h \in Handlers, WriteStep(h) PROVE Value(account'[c]) >= 0
    <2> DEFINE id == task[h].id
    <2>1. /\ task[h].at = "put" /\ id \in Ids
          /\ effects' = [effects EXCEPT ![id] = @ + 1]
          /\ Value(account'[c]) = IF c = Customer(id)
                                  THEN Balance(c) + Delta(id) ELSE Balance(c)
      BY <1>3, WriteMovesBalance
    <2>2. \A x \in Ids : effects'[x] = 0 => effects[x] = 0 /\ x # id
      BY <1>1, <2>1
    <2>3. Balance(c) >= 0
      BY <2>2 DEF OnlyReversalsOverdraw
    <2>4. CASE c # Customer(id)
      BY <2>1, <2>3, <2>4
    <2>5. CASE c = Customer(id) /\ Delta(id) >= 0
      BY <1>1, <2>1, <2>3, <2>5, ConstantFacts
    <2>6. CASE c = Customer(id) /\ ~(Delta(id) >= 0)
      <3>1. Delta(id) < 0
        BY <2>1, <2>6, ConstantFacts
      <3>2. IsRedeem(id)
        BY <2>1, <2>2, <2>6, <3>1
      <3>3. task[h].got + Delta(id) >= 0 /\ task[h].got = Balance(c)
        BY <2>1, <2>6, <3>2 DEF Sole, RedeemCovered, SnapshotCurrent
      <3>4. QED
        BY <2>1, <2>6, <3>3
    <2>7. QED
      BY <2>4, <2>5, <2>6
  <1>4. ASSUME NEW d \in Customers, NEW e \in ExternalDeltas, External(d, e)
        PROVE  FALSE
    BY <1>4 DEF External, SoleWriter, Sole, Located, TypeOK
  <1>5. QED
    BY <1>2, <1>3, <1>4, OnlyWritesTouchUnas DEF Sole

\* In that deployment a balance that started at zero or above is below it only
\* after the reversal of an earn (or an amount below zero booked as an earn).
THEOREM RedemptionsNeverOverdraw ==
    ASSUME SoleWriter
    PROVE  Spec => []OnlyReversalsOverdraw
  <1>1. Init => OnlyReversalsOverdraw
    BY DEF Init, OnlyReversalsOverdraw, Balance
  <1>2. Sole /\ OnlyReversalsOverdraw /\ [Next]_vars => OnlyReversalsOverdraw'
    BY NextOverdraw
  <1>3. QED
    BY <1>1, <1>2, SoleAlways, PTL DEF Spec
=============================================================================
