------------------------ MODULE LedgerVerdictProofs ------------------------
(***************************************************************************)
(* Whether the status of a transaction is the truth about the balance, for *)
(* every set of customers, keys, handlers and processes, in a deployment   *)
(* where it can be: all requests in one process, nobody else writing       *)
(* balances, keys not repeated, and errors of UNAS that mean what they     *)
(* say.  Reads, writes, commits and the process itself may fail; any       *)
(* number of workers compares balances.                                    *)
(***************************************************************************)
EXTENDS LedgerKeysProofs

Observable == SoleWriter /\ Unrepeated /\ "garbled" \notin Environment

-----------------------------------------------------------------------------
(* The inductive invariant.                                                *)

Start(id) == Value(InitialAccount[Customer(id)])

\* The balance of a customer with one effective request tells which it was.
Level == \A id \in Ids : OnlyEffect(id) =>
    Balance(Customer(id))
        = IF effects[id] = 0 THEN Start(id) ELSE Start(id) + Delta(id)

\* What the row expects is the balance after its own change.
Recorded == \A id \in Ids : rows[id] # None /\ OnlyEffect(id) =>
    rows[id].after = Start(id) + Delta(id)

\* A worker's copy of a row expects what the row expects.
Batched == \A i \in Instances, id \in Ids : worker[i].snap[id] # None =>
    rows[id] # None /\ worker[i].snap[id].after = rows[id].after

\* A balance the worker has read is still the balance.
ReadOff == \A i \in Instances, id \in Ids :
    worker[i].cur = id /\ worker[i].got # None /\ OnlyEffect(id) =>
        worker[i].got = Balance(Customer(id))

\* Success and errors mean what they say.
Replied == \A h \in Handlers : task[h].at = "reply" =>
    /\ task[h].reply = "ok"    => effects[task[h].id] > 0
    /\ task[h].reply = "error" => effects[task[h].id] = 0

\* A reversal is at work on a booking that did change the balance.
Grounded == \A h \in Handlers :
    /\ task[h].at # "idle" /\ IsReversal(task[h].id)
    /\ OnlyEffect(Original(task[h].id)) /\ Delta(Original(task[h].id)) # 0
    => effects[Original(task[h].id)] > 0

Base == Sole /\ Keyed
Truthful == /\ Base
        /\ Level /\ Recorded /\ Batched /\ ReadOff /\ Replied /\ Grounded
        /\ VerdictTrue

-----------------------------------------------------------------------------
(* What a step does to balances, effects, rows and workers.                *)

\* The types the steps below compute with.
LEMMA BaseTypes ==
    ASSUME Base
    PROVE  /\ Located /\ NoRetry
           /\ effects \in [Ids -> Nat]
           /\ account \in [Customers -> Int \cup {NoAccount}]
           /\ \A id \in Ids : /\ Customer(id) \in Customers /\ Delta(id) \in Int
                              /\ Balance(Customer(id)) \in Int
                              /\ Start(id) \in Int
  <1>1. Located /\ NoRetry
    BY DEF Base, Sole, Keyed, FirstOfItsKey, NoRetry
  <1>2. /\ effects \in [Ids -> Nat]
        /\ account \in [Customers -> Int \cup {NoAccount}]
    BY <1>1 DEF Located, TypeOK
  <1>3. ASSUME NEW id \in Ids
        PROVE  /\ Customer(id) \in Customers /\ Delta(id) \in Int
               /\ Balance(Customer(id)) \in Int
               /\ Start(id) \in Int
    <2>1. Customer(id) \in Customers /\ Delta(id) \in Int
      BY ConstantFacts
    <2>2. Start(id) \in Int
      BY <2>1, LedgerAssumption DEF Start, Value
    <2>3. QED
      BY <1>2, <2>1, <2>2, BalanceIsInt
  <1>4. QED
    BY <1>1, <1>2, <1>3

\* Effects are never undone; those of one request change when it writes.
LEMMA EffectsGrow ==
    ASSUME Observable, Base, [Next]_vars, NEW x \in Ids
    PROVE  /\ effects[x] \in Nat /\ effects'[x] \in Nat
           /\ effects'[x] >= effects[x]
           /\ \/ effects'[x] = effects[x]
              \/ \E h \in Handlers : /\ WriteStep(h) /\ task[h].at = "put"
                                     /\ task[h].id = x
                                     /\ effects'[x] = effects[x] + 1
  <1>1. effects \in [Ids -> Nat] /\ Located
    BY BaseTypes
  <1>2. ASSUME NEW h \in Handlers, WriteStep(h)
        PROVE  /\ task[h].at = "put"
               /\ effects'[x] = IF x = task[h].id THEN effects[x] + 1
                                                  ELSE effects[x]
    <2>1. task[h].at = "put"
      BY <1>2 DEF WriteStep, Base, Sole, NoOrphans
    <2>2. effects' = [effects EXCEPT ![task[h].id] = @ + 1]
      BY <1>2 DEF WriteStep, WriteBalance
    <2>3. QED
      BY <1>1, <2>1, <2>2
  <1>3. ASSUME NEW c \in Customers, NEW d \in ExternalDeltas, External(c, d)
        PROVE  UNCHANGED effects
    BY <1>3 DEF External
  <1>4. QED
    BY <1>1, <1>2, <1>3, OnlyWritesTouchUnas

\* A request that is now the only one to have had an effect was so before.
LEMMA OnlyEffectWas ==
    ASSUME Observable, Base, [Next]_vars, NEW x \in Ids, OnlyEffect(x)'
    PROVE  OnlyEffect(x)
  <1>1. \A y \in Ids : /\ effects[y] \in Nat /\ effects'[y] \in Nat
                       /\ effects'[y] >= effects[y]
    BY EffectsGrow
  <1>2. QED
    BY <1>1 DEF OnlyEffect

\* While a request is the only one to have changed the balance of its customer,
\* the balance moves with its own write only.
LEMMA BalanceStep ==
    ASSUME Observable, Base, [Next]_vars, NEW x \in Ids, OnlyEffect(x)'
    PROVE  \/ /\ effects'[x] = effects[x]
              /\ Value(account'[Customer(x)]) = Balance(Customer(x))
           \/ \E h \in Handlers :
                 /\ task[h].at = "put" /\ task[h].id = x
                 /\ effects[x] = 0 /\ effects'[x] = 1
                 /\ Value(account'[Customer(x)])
                       = Balance(Customer(x)) + Delta(x)
  <1>1. Sole /\ Located /\ SoleWriter /\ Customer(x) \in Customers
    BY BaseTypes DEF Base, Observable
  <1>2. CASE UNCHANGED <<account, effects>>
    BY <1>2 DEF Balance
  <1>3. ASSUME NEW h \in Handlers, WriteStep(h)
        PROVE  \/ /\ effects'[x] = effects[x]
                  /\ Value(account'[Customer(x)]) = Balance(Customer(x))
               \/ /\ task[h].at = "put" /\ task[h].id = x
                  /\ effects[x] = 0 /\ effects'[x] = 1
                  /\ Value(account'[Customer(x)])
                        = Balance(Customer(x)) + Delta(x)
    <2> DEFINE id == task[h].id
    <2>1. /\ task[h].at = "put" /\ id \in Ids
          /\ effects' = [effects EXCEPT ![id] = @ + 1]
          /\ Value(account'[Customer(x)]) =
                IF Customer(x) = Customer(id)
                THEN Balance(Customer(x)) + Delta(id)
                ELSE Balance(Customer(x))
      BY <1>1, <1>3, WriteMovesBalance
    <2>2. effects[id] = 0
      BY <2>1 DEF Base, Keyed, NoEffectYet
    <2>3. /\ effects'[id] = 1
          /\ \A y \in Ids \ {id} : effects'[y] = effects[y]
      BY <2>1, <2>2, BaseTypes
    <2>4. CASE Customer(x) = Customer(id)
      <3>1. id = x
        BY <2>1, <2>3, <2>4 DEF OnlyEffect
      <3>2. QED
        BY <2>1, <2>2, <2>3, <3>1
    <2>5. CASE Customer(x) # Customer(id)
      BY <2>1, <2>3, <2>5
    <2>6. QED
      BY <2>4, <2>5
  <1>4. ASSUME NEW c \in Customers, NEW d \in ExternalDeltas, External(c, d)
        PROVE  FALSE
    BY <1>1, <1>4 DEF External, SoleWriter, Located, TypeOK
  <1>5. QED
    BY <1>1, <1>2, <1>3, <1>4, OnlyWritesTouchUnas

\* The balance a row expects is written once, when the row is inserted.
LEMMA AfterStays ==
    ASSUME Located, NoRetry, [Next]_vars, NEW x \in Ids, rows[x] # None
    PROVE  rows'[x] # None /\ rows'[x].after = rows[x].after
  <1>1. rows'[x] # None
    BY RowsNeverVanish
  <1>2. ASSUME NEW h \in Handlers, Inserts(h), x = task[h].id PROVE FALSE
    BY <1>2 DEF Inserts
  <1>3. ASSUME NEW h \in Handlers,
               \/ x = task[h].id /\ (Applies(h) \/ Fails(h))
               \/ x = Original(task[h].id) /\ Marks(h)
        PROVE  rows'[x].after = rows[x].after
    BY <1>3 DEF Applies, Fails, Marks, SetTo
  <1>4. ASSUME NEW i \in Instances, Judges(i), x = worker[i].cur
        PROVE  rows'[x].after = rows[x].after
    BY <1>4 DEF Judges, SetTo
  <1>5. Ages(x) => rows'[x].after = rows[x].after
    BY DEF Ages
  <1>6. QED
    BY <1>1, <1>2, <1>3, <1>4, <1>5, RowStep

\* What the worker of a process has loaded and read, next to what it had.
Copies(i) == \A x \in Ids : worker'[i].snap[x] # None =>
    \/ worker'[i].snap[x] = worker[i].snap[x]
    \/ worker'[i].snap[x] = rows'[x]

Reads(i) == worker'[i].got # None =>
    \/ worker'[i].cur = worker[i].cur /\ worker'[i].got = worker[i].got
    \/ /\ UNCHANGED account
       /\ account[Customer(worker'[i].cur)] # NoAccount
       /\ worker'[i].got = account[Customer(worker'[i].cur)]

\* Going on to another row forgets the balance and copies at most that row.
LEMMA ContinuationsCopy ==
    ASSUME NEW todo \in SUBSET Ids, NEW snap \in [Ids -> Row \cup {None}],
           NEW table, NEW w \in Continuations(todo, snap, table)
    PROVE  /\ w.got = None
           /\ \A x \in Ids : w.snap[x] # None =>
                 w.snap[x] = snap[x] \/ w.snap[x] = table[x]
  <1>1. CASE todo = {}
    BY <1>1 DEF Continuations, IdleWorker
  <1>2. CASE todo # {}
    <2>1. PICK id \in todo :
             w = [todo |-> todo \ {id}, cur |-> id, got |-> None,
                  snap |-> IF snap[id] = None
                           THEN [snap EXCEPT ![id] = table[id]] ELSE snap]
      BY <1>2 DEF Continuations
    <2>2. /\ w.got = None
          /\ w.snap = IF snap[id] = None
                      THEN [snap EXCEPT ![id] = table[id]] ELSE snap
      BY <2>1
    <2>3. QED
      BY <2>2
  <1>3. QED
    BY <1>1, <1>2

\* Each step of a worker copies rows and balances as they are, and no other
\* worker moves.
LEMMA WorkerLooks ==
    ASSUME Located, NEW i \in Instances, Reconcile(i)
    PROVE  /\ Copies(i) /\ Reads(i) /\ UNCHANGED account
           /\ \A j \in Instances \ {i} : worker'[j] = worker[j]
  <1>1. /\ worker \in [Instances -> Reconciler]
        /\ rows \in [Ids -> Row \cup {None}]
    BY DEF Located, TypeOK
  <1>2. /\ worker[i] \in Reconciler /\ worker[i].todo \in SUBSET Ids
        /\ worker[i].snap \in [Ids -> Row \cup {None}]
    BY <1>1 DEF Reconciler
  <1>3. IdleWorker.got = None /\ IdleWorker.snap = [x \in Ids |-> None]
        /\ IdleWorker.snap \in [Ids -> Row \cup {None}]
    BY DEF IdleWorker
  <1>4. ASSUME NEW w, worker' = [worker EXCEPT ![i] = w]
        PROVE  worker'[i] = w /\ \A j \in Instances \ {i} : worker'[j] = worker[j]
    BY <1>1, <1>4
  <1>5. CASE WorkerSelect(i)
    <2>1. PICK batch \in SUBSET StalePending :
             \E w \in Continuations(batch, [id \in Ids |->
                         IF id \in batch THEN rows[id] ELSE None], rows) :
                worker' = [worker EXCEPT ![i] = w]
      BY <1>5 DEF WorkerSelect
    <2> DEFINE snap == [id \in Ids |-> IF id \in batch THEN rows[id] ELSE None]
    <2>2. PICK w \in Continuations(batch, snap, rows) :
             worker' = [worker EXCEPT ![i] = w]
      BY <2>1
    <2>3. batch \in SUBSET Ids /\ snap \in [Ids -> Row \cup {None}]
      BY <1>1 DEF StalePending
    <2>4. /\ w.got = None
          /\ \A x \in Ids : w.snap[x] # None =>
                w.snap[x] = snap[x] \/ w.snap[x] = rows[x]
      BY <2>2, <2>3, ContinuationsCopy
    <2>5. \A x \in Ids : w.snap[x] # None => w.snap[x] = rows[x]
      BY <2>4
    <2>6. UNCHANGED <<rows, account>>
      BY <1>5 DEF WorkerSelect
    <2>7. QED
      BY <1>4, <2>2, <2>4, <2>5, <2>6 DEF Copies, Reads
  <1>6. CASE WorkerRead(i)
    <2> DEFINE w == [worker[i] EXCEPT !.got = account[Customer(worker[i].cur)]]
    <2>1. worker' = [worker EXCEPT ![i] = w] /\ UNCHANGED account
          /\ account[Customer(worker[i].cur)] # NoAccount
      BY <1>6 DEF WorkerRead
    <2>2. worker'[i] = w /\ \A j \in Instances \ {i} : worker'[j] = worker[j]
      BY <1>4, <2>1
    <2>3. /\ worker'[i].cur = worker[i].cur
          /\ worker'[i].snap = worker[i].snap
          /\ worker'[i].got = account[Customer(worker[i].cur)]
      BY <1>2, <2>2 DEF Reconciler
    <2>4. QED
      BY <2>1, <2>2, <2>3 DEF Copies, Reads
  <1>7. CASE WorkerSkip(i)
    <2>1. PICK w \in Continuations(worker[i].todo, worker[i].snap, rows) :
             worker' = [worker EXCEPT ![i] = w]
      BY <1>7 DEF WorkerSkip
    <2>2. /\ w.got = None
          /\ \A x \in Ids : w.snap[x] # None =>
                w.snap[x] = worker[i].snap[x] \/ w.snap[x] = rows[x]
      BY <1>2, <2>1, ContinuationsCopy
    <2>3. UNCHANGED <<rows, account>>
      BY <1>7 DEF WorkerSkip
    <2>4. QED
      BY <1>4, <2>1, <2>2, <2>3 DEF Copies, Reads
  <1>8. CASE WorkerVerdict(i)
    <2>1. PICK w \in Continuations(worker[i].todo, IdleWorker.snap, rows') :
             worker' = [worker EXCEPT ![i] = w]
      BY <1>8 DEF WorkerVerdict
    <2>2. /\ w.got = None
          /\ \A x \in Ids : w.snap[x] # None =>
                w.snap[x] = IdleWorker.snap[x] \/ w.snap[x] = rows'[x]
      BY <1>2, <1>3, <2>1, ContinuationsCopy
    <2>3. \A x \in Ids : IdleWorker.snap[x] = None
      BY <1>3
    <2>4. UNCHANGED account
      BY <1>8 DEF WorkerVerdict
    <2>5. QED
      BY <1>4, <2>1, <2>2, <2>3, <2>4 DEF Copies, Reads
  <1>9. CASE WorkerAborts(i)
    <2>1. worker' = [worker EXCEPT ![i] = IdleWorker] /\ UNCHANGED account
      BY <1>9 DEF WorkerAborts
    <2>2. QED
      BY <1>3, <1>4, <2>1 DEF Copies, Reads
  <1>10. QED
    BY <1>5, <1>6, <1>7, <1>8, <1>9 DEF Reconcile

\* A worker looks something up, is gone with its process, or stands still.
LEMMA WorkerStep ==
    ASSUME Located, [Next]_vars, NEW i \in Instances
    PROVE  \/ Copies(i) /\ Reads(i) /\ UNCHANGED account
           \/ worker'[i] = IdleWorker
           \/ worker'[i] = worker[i]
  <1>1. ASSUME NEW j \in Instances, Reconcile(j)
        PROVE  \/ Copies(i) /\ Reads(i) /\ UNCHANGED account
               \/ worker'[i] = worker[i]
    BY <1>1, WorkerLooks
  <1>2. ASSUME NEW j \in Instances, Crash(j)
        PROVE  worker'[i] = IdleWorker \/ worker'[i] = worker[i]
    BY <1>2 DEF Crash, Located, TypeOK
  <1>3. CASE UNCHANGED worker
    BY <1>3
  <1>4. ASSUME NEW h \in Handlers, Proceed(h) PROVE UNCHANGED worker
    BY <1>4, ProceedSorted DEF Serves
  <1>5. QED
    BY <1>1, <1>2, <1>3, <1>4 DEF Next, vars, LateWrite, Submit, Age, External

-----------------------------------------------------------------------------
(* The invariant is kept.                                                  *)

\* Only the one effective request moves the balance of its customer.
LEMMA NextLevel ==
    ASSUME Observable, Base, Level, [Next]_vars
    PROVE  Level'
  <1> SUFFICES ASSUME NEW x \in Ids, OnlyEffect(x)'
               PROVE  Value(account'[Customer(x)])
                         = IF effects'[x] = 0 THEN Start(x)
                           ELSE Start(x) + Delta(x)
    BY DEF Level, Balance, Start
  <1>1. OnlyEffect(x)
    BY OnlyEffectWas
  <1>2. Balance(Customer(x))
           = IF effects[x] = 0 THEN Start(x) ELSE Start(x) + Delta(x)
    BY <1>1 DEF Level
  <1>3. QED
    BY <1>2, BalanceStep

\* The balance a new row expects was read under the lock before any effect.
LEMMA NextRecorded ==
    ASSUME Observable, Base, Level, Recorded, [Next]_vars
    PROVE  Recorded'
  <1> SUFFICES ASSUME NEW x \in Ids, rows'[x] # None, OnlyEffect(x)'
               PROVE  rows'[x].after = Start(x) + Delta(x)
    BY DEF Recorded, Start
  <1>1. OnlyEffect(x) /\ Located /\ NoRetry
    BY OnlyEffectWas, BaseTypes
  <1>2. CASE rows[x] # None
    BY <1>1, <1>2, AfterStays DEF Recorded
  <1>3. CASE rows[x] = None
    <2>1. ASSUME NEW h \in Handlers, Serves(h), Inserts(h), x = task[h].id
          PROVE  rows'[x].after = Start(x) + Delta(x)
      <3>1. /\ task[h].at = "record"
            /\ rows'[x].after = task[h].got + Delta(x)
        BY <2>1 DEF Inserts
      <3>2. task[h].got = Balance(Customer(x))
        BY <2>1, <3>1 DEF Base, Sole, SnapshotCurrent
      <3>3. effects[x] = 0
        BY <2>1, <3>1 DEF Base, Keyed, NoEffectYet, Before
      <3>4. Balance(Customer(x)) = Start(x)
        BY <1>1, <3>3 DEF Level
      <3>5. QED
        BY <3>1, <3>2, <3>4
    <2>2. ASSUME NEW h \in Handlers, Serves(h),
                 \/ x = task[h].id /\ (Applies(h) \/ Fails(h))
                 \/ x = Original(task[h].id) /\ Marks(h)
          PROVE  FALSE
      <3>1. TaskLocated(task[h], rows)
        BY <1>1 DEF Located, TasksLocated
      <3>2. rows[x] # None
        BY <2>2, <3>1 DEF TaskLocated, Applies, Fails, Marks
      <3>3. QED
        BY <1>3, <3>2
    <2>3. ~Ages(x)
      BY <1>3 DEF Ages
    <2>4. ASSUME NEW i \in Instances, Judges(i), x = worker[i].cur PROVE FALSE
      <3>1. WorkerLocated(worker[i], rows)
        BY <1>1 DEF Located, WorkersLocated
      <3>2. QED
        BY <1>3, <2>4, <3>1, ConstantFacts DEF WorkerLocated
    <2>5. QED
      BY <1>1, <1>3, <2>1, <2>2, <2>3, <2>4, RowStep
  <1>4. QED
    BY <1>2, <1>3

\* A worker copies the expected balance, which never changes.
LEMMA NextBatched ==
    ASSUME Observable, Base, Batched, [Next]_vars
    PROVE  Batched'
  <1> SUFFICES ASSUME NEW i \in Instances, NEW x \in Ids,
                      worker'[i].snap[x] # None
               PROVE  rows'[x] # None /\ worker'[i].snap[x].after = rows'[x].after
    BY DEF Batched
  <1>1. Located /\ NoRetry
    BY BaseTypes
  <1>2. ASSUME worker'[i].snap[x] = worker[i].snap[x]
        PROVE  rows'[x] # None /\ worker'[i].snap[x].after = rows'[x].after
    <2>1. rows[x] # None /\ worker[i].snap[x].after = rows[x].after
      BY <1>2 DEF Batched
    <2>2. QED
      BY <1>1, <1>2, <2>1, AfterStays
  <1>3. CASE Copies(i)
    BY <1>2, <1>3 DEF Copies
  <1>4. CASE worker'[i] = IdleWorker
    BY <1>4 DEF IdleWorker
  <1>5. CASE worker'[i] = worker[i]
    BY <1>2, <1>5
  <1>6. QED
    BY <1>1, <1>3, <1>4, <1>5, WorkerStep

\* While a worker compares a row its request does not write.
LEMMA NextReadOff ==
    ASSUME Observable, Base, ReadOff, [Next]_vars
    PROVE  ReadOff'
  <1> SUFFICES ASSUME NEW i \in Instances, NEW x \in Ids,
                      worker'[i].cur = x, worker'[i].got # None, OnlyEffect(x)'
               PROVE  worker'[i].got = Value(account'[Customer(x)])
    BY DEF ReadOff, Balance
  <1>1. Located /\ OnlyEffect(x)
    BY BaseTypes, OnlyEffectWas
  <1>2. CASE worker'[i].cur = worker[i].cur /\ worker'[i].got = worker[i].got
    <2>1. worker[i].got = Balance(Customer(x))
      BY <1>1, <1>2 DEF ReadOff
    <2>2. ASSUME NEW h \in Handlers, task[h].at = "put", task[h].id = x
          PROVE  FALSE
      BY <1>2, <2>2 DEF Base, Keyed, LeftBehind, Holds
    <2>3. Value(account'[Customer(x)]) = Balance(Customer(x))
      BY <2>2, BalanceStep
    <2>4. QED
      BY <1>2, <2>1, <2>3
  <1>3. CASE /\ UNCHANGED account /\ account[Customer(x)] # NoAccount
             /\ worker'[i].got = account[Customer(x)]
    BY <1>3 DEF Value
  <1>4. CASE worker'[i] = IdleWorker
    BY <1>4 DEF IdleWorker
  <1>5. QED
    BY <1>1, <1>2, <1>3, <1>4, WorkerStep DEF Reads

\* An answer is given with the write or without it, and nobody else writes for
\* the same request.
LEMMA NextReplied ==
    ASSUME Observable, Base, Replied, [Next]_vars
    PROVE  Replied'
  <1> SUFFICES ASSUME NEW g \in Handlers, task'[g].at = "reply"
               PROVE  /\ task'[g].reply = "ok"    => effects'[task'[g].id] > 0
                      /\ task'[g].reply = "error" => effects'[task'[g].id] = 0
    BY DEF Replied
  <1> DEFINE id == task[g].id
  <1>1. Located /\ effects \in [Ids -> Nat] /\ NoRetry
    BY BaseTypes
  <1>2. CASE Serves(g) /\ Writes(g)
    <2>1. /\ task'[g].id = id /\ task'[g].reply # "error" /\ id \in Ids
          /\ effects' = [effects EXCEPT ![id] = @ + 1]
      BY <1>2 DEF Serves, Writes, Stays, Observable
    <2>2. effects'[id] > 0
      BY <1>1, <2>1
    <2>3. QED
      BY <2>1, <2>2
  <1>3. CASE Serves(g) /\ Declines(g)
    <2>1. /\ task'[g].id = id /\ task'[g].reply # "ok" /\ UNCHANGED effects
          /\ task[g].at = "put"
      BY <1>3 DEF Declines, Stays, Quiet
    <2>2. effects[id] = 0
      BY <2>1 DEF Base, Keyed, NoEffectYet
    <2>3. QED
      BY <2>1, <2>2
  <1>4. CASE Serves(g) /\ ~Writes(g) /\ ~Declines(g)
    BY <1>1, <1>4 DEF Serves, Sorted, Leaves, Advances, LooksUp, Replays,
       Inserts, Renews, Applies, Fails, Marks, Over, IdleTask, NoRetry, Before
  <1>5. CASE task'[g] = task[g]
    <2>1. id \in Ids
      BY <1>1, <1>5, KeyedTypes
    <2>2. ASSUME NEW h \in Handlers, task[h].at = "put", task[h].id = id
          PROVE  FALSE
      BY <1>5, <2>2 DEF Base, Keyed, SubmittedOnce
    <2>3. effects'[id] = effects[id]
      BY <2>1, <2>2, EffectsGrow
    <2>4. QED
      BY <1>5, <2>3 DEF Replied
  <1>6. CASE \/ task'[g] = IdleTask
             \/ task'[g].at = "orphan"
             \/ \E x \in Ids : Arrives(g, x)
    BY <1>6 DEF IdleTask, Arrives
  <1>7. QED
    BY <1>1, <1>2, <1>3, <1>4, <1>5, <1>6, Unserved

\* A reversal is accepted of an applied booking only, and effects stay.
LEMMA NextGrounded ==
    ASSUME Observable, Base, Grounded, VerdictTrue, [Next]_vars
    PROVE  Grounded'
  <1> SUFFICES ASSUME NEW g \in Handlers, NEW x \in Ids, task'[g].at # "idle",
                      IsReversal(task'[g].id), x = Original(task'[g].id),
                      OnlyEffect(x)', Delta(x) # 0
               PROVE  effects'[x] > 0
    <2>1. ASSUME NEW g \in Handlers, task'[g].at # "idle"
          PROVE  Original(task'[g].id) \in Ids
      BY <2>1, BaseTypes, NextLocated, ConstantFacts
      DEF Located, TasksLocated, TaskLocated
    <2>2. QED
      BY <2>1 DEF Grounded, OnlyEffect, Delta, Customer
  <1>1. OnlyEffect(x) /\ Located /\ NoRetry
    BY BaseTypes, OnlyEffectWas
  <1>2. effects[x] > 0
    <2>1. CASE task[g].at # "idle" /\ task'[g].id = task[g].id
      BY <1>1, <2>1 DEF Grounded
    <2>2. CASE Arrives(g, task'[g].id)
      <3>1. Has(x, "applied")
        BY <2>2 DEF Arrives
      <3>2. QED
        BY <1>1, <3>1 DEF VerdictTrue, Settled
    <2>3. QED
      BY <1>1, <2>1, <2>2, TaskStep
  <1>3. QED
    BY <1>2, EffectsGrow

\* What a row says is true, and stays true: effects come with "applied", and
\* with no other verdict.
LEMMA NextVerdictTrue ==
    ASSUME Observable, Truthful, [Next]_vars
    PROVE  VerdictTrue'
  <1> SUFFICES ASSUME NEW x \in Ids, OnlyEffect(x)', Delta(x) # 0
               PROVE  /\ Settled(x)' => effects'[x] > 0
                      /\ Has(x, "failed")' => effects'[x] = 0
    BY DEF VerdictTrue
  <1>1. Base /\ Located /\ NoRetry /\ OnlyEffect(x)
    BY OnlyEffectWas, BaseTypes DEF Truthful
  <1>2. /\ Settled(x) => effects[x] > 0
        /\ Has(x, "failed") => effects[x] = 0
    BY <1>1 DEF Truthful, VerdictTrue
  <1>3. /\ effects[x] \in Nat /\ effects'[x] \in Nat
        /\ effects'[x] >= effects[x]
    BY <1>1, EffectsGrow
  <1>4. ASSUME Has(x, "failed") PROVE effects'[x] = effects[x]
    <2>1. ASSUME NEW h \in Handlers, task[h].at = "put", task[h].id = x
          PROVE  FALSE
      BY <1>4, <2>1 DEF Truthful, Base, Keyed, FirstOfItsKey, Sent, Has
    <2>2. QED
      BY <1>1, <2>1, EffectsGrow
  <1>5. CASE \/ rows'[x] = rows[x]
             \/ /\ rows'[x] # None /\ rows[x] # None
                /\ rows'[x].status = rows[x].status
    <2>1. (Settled(x)' => Settled(x)) /\ (Has(x, "failed")' => Has(x, "failed"))
      BY <1>5 DEF Settled, Has
    <2>2. QED
      BY <1>2, <1>3, <1>4, <2>1
  <1>6. ASSUME NEW h \in Handlers, Inserts(h), x = task[h].id
        PROVE  ~Settled(x)' /\ ~Has(x, "failed")'
    BY <1>6 DEF Inserts, Settled, Has
  <1>7. ASSUME NEW h \in Handlers, Applies(h), x = task[h].id
        PROVE  effects'[x] > 0 /\ ~Has(x, "failed")'
    <2>1. effects[x] > 0
      BY <1>7 DEF Applies, Truthful, Replied
    <2>2. QED
      BY <1>3, <1>7, <2>1 DEF Applies, SetTo, Has
  <1>8. ASSUME NEW h \in Handlers, Fails(h), x = task[h].id
        PROVE  effects'[x] = 0 /\ ~Settled(x)'
    <2>1. effects[x] = 0 /\ UNCHANGED effects
      BY <1>8 DEF Fails, Truthful, Replied
    <2>2. QED
      BY <1>8, <2>1 DEF Fails, SetTo, Settled, Has
  <1>9. ASSUME NEW h \in Handlers, Marks(h), x = Original(task[h].id)
        PROVE  effects'[x] > 0 /\ ~Has(x, "failed")'
    <2>1. task[h].at = "mark" /\ IsReversal(task[h].id)
      BY <1>1, <1>9 DEF Marks, Located, TasksLocated, TaskLocated
    <2>2. effects[x] > 0
      BY <1>1, <1>9, <2>1 DEF Truthful, Grounded
    <2>3. QED
      BY <1>3, <1>9, <2>2 DEF Marks, SetTo, Has
  <1>10. ASSUME NEW i \in Instances, Judges(i), x = worker[i].cur
         PROVE  /\ Settled(x)' => effects'[x] > 0
                /\ Has(x, "failed")' => effects'[x] = 0
    <2>1. rows[x] # None /\ worker[i].snap[x] # None /\ worker[i].got # None
      BY <1>1, <1>10, ConstantFacts
      DEF Judges, Located, WorkersLocated, WorkerLocated
    <2>2. worker[i].snap[x].after = Start(x) + Delta(x)
      BY <1>1, <2>1 DEF Truthful, Batched, Recorded
    <2>3. worker[i].got
             = IF effects[x] = 0 THEN Start(x) ELSE Start(x) + Delta(x)
      BY <1>1, <1>10, <2>1 DEF Truthful, ReadOff, Level
    <2>4. Start(x) \in Int /\ Delta(x) \in Int
      BY <1>1, BaseTypes
    <2>5. Verdict(i) = IF effects[x] = 0 THEN "failed" ELSE "applied"
      BY <1>10, <2>2, <2>3, <2>4 DEF Verdict
    <2>6. rows'[x] # None /\ rows'[x].status = Verdict(i)
      BY <1>10 DEF Judges, SetTo
    <2>7. effects'[x] = effects[x]
      <3>1. ASSUME NEW h \in Handlers, task[h].at = "put", task[h].id = x
            PROVE  FALSE
        BY <1>10, <3>1 DEF Truthful, Base, Keyed, LeftBehind, Holds
      <3>2. QED
        BY <1>1, <3>1, EffectsGrow
    <2>8. QED
      BY <1>3, <2>5, <2>6, <2>7 DEF Settled, Has
  <1>11. QED
    BY <1>1, <1>5, <1>6, <1>7, <1>8, <1>9, <1>10, RowStep DEF Ages

\* Nothing has happened yet.
LEMMA InitTruthful ==
    ASSUME Init
    PROVE  /\ Level /\ Recorded /\ Batched /\ ReadOff /\ Replied /\ Grounded
           /\ VerdictTrue
  <1>1. /\ \A h \in Handlers : task[h].at = "idle"
        /\ \A id \in Ids : rows[id] = None /\ effects[id] = 0
        /\ \A i \in Instances : worker[i].cur = None
        /\ \A i \in Instances, id \in Ids : worker[i].snap[id] = None
        /\ account = InitialAccount
    BY DEF Init, IdleTask, IdleWorker
  <1>2. Level /\ Recorded
    BY <1>1 DEF Level, Recorded, Balance, Start
  <1>3. Batched /\ ReadOff
    BY <1>1, ConstantFacts DEF Batched, ReadOff
  <1>4. Replied /\ Grounded /\ VerdictTrue
    BY <1>1 DEF Replied, Grounded, VerdictTrue, Settled, Has
  <1>5. QED
    BY <1>2, <1>3, <1>4

\* In that deployment no transaction is called applied that did not change the
\* balance, and none failed that did, as long as no other request has changed
\* the balance of its customer; also when the answer of UNAS, the commit or the
\* process was lost and the worker has only the balance to go by.
THEOREM VerdictAlwaysTrue ==
    ASSUME Observable
    PROVE  Spec => []VerdictTrue
  <1>1. Spec => []Base
    <2>1. SoleWriter /\ Unrepeated
      BY DEF Observable
    <2>2. Base <=> Sole /\ Located /\ Keyed
      BY DEF Base, Sole
    <2>3. QED
      BY <2>1, <2>2, SoleAlways, AlwaysKeyed, PTL
  <1>2. Init => /\ Level /\ Recorded /\ Batched /\ ReadOff /\ Replied
                /\ Grounded /\ VerdictTrue
    BY InitTruthful
  <1>3. Truthful /\ [Next]_vars =>
           /\ Level' /\ Recorded' /\ Batched' /\ ReadOff' /\ Replied'
           /\ Grounded' /\ VerdictTrue'
    BY NextLevel, NextRecorded, NextBatched, NextReadOff, NextReplied,
       NextGrounded, NextVerdictTrue DEF Truthful
  <1>4. Truthful <=> /\ Base
                     /\ Level /\ Recorded /\ Batched /\ ReadOff /\ Replied
                     /\ Grounded /\ VerdictTrue
    BY DEF Truthful
  <1>5. QED
    BY <1>1, <1>2, <1>3, <1>4, PTL DEF Spec
=============================================================================
