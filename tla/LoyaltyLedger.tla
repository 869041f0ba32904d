--------------------------- MODULE LoyaltyLedger ---------------------------
(***************************************************************************)
(* The points ledger of the middleware: the earn, redeem and reverse       *)
(* handlers of loyalty/service.py, the per-customer locks of               *)
(* concurrency.py, the loyalty_transactions table, the balance the UNAS    *)
(* shop holds, and the worker that reconciles pending transactions         *)
(* (worker.py).  UNAS has no "add points" call: a handler reads the        *)
(* balance and later writes an absolute one.                               *)
(*                                                                         *)
(* An action is what runs between two awaits, or between two points where  *)
(* a crash or another process can be seen.  Tables are those of a database *)
(* that, like Postgres in READ COMMITTED, does not block readers.          *)
(***************************************************************************)
EXTENDS Integers, FiniteSets

CONSTANTS
    Customers,      \* registered loyalty customers
    Keys,           \* idempotency keys chosen by clients, one per request body
    CustomerOf,     \* CustomerOf[k]: the customer the request of k names
    Points,         \* Points[k]: points_delta, negative for a redemption
    Redemptions,    \* the keys of /redeem requests; the others are /earn
    Handlers,       \* request slots of the server processes
    Instances,      \* server processes (uvicorn workers, containers, CLIs)
    Home,           \* Home[h]: the process slot h belongs to
    InitialAccount, \* what UNAS holds before the first request
    Attempts,       \* Attempts[id]: bound on submissions of one request
    BatchLimit,     \* LIMIT of the worker's query (20 in the code)
    MaxCrashes,     \* bound on process crashes
    MaxExternal,    \* bound on balance changes made outside the middleware
    ExternalDeltas, \* the sizes of those changes
    Environment,    \* which kinds of trouble may occur, see Troubles
    None,           \* no row, no request, no lock holder, no answer
    NoAccount       \* UNAS reports no PointsAccount/Balance for the customer

\* What may go wrong around the middleware.
Troubles == {
    "readError",    \* getCustomer fails for good, or finds no such customer
    "reject",       \* setCustomer answers an error and changed nothing
    "garbled",      \* it answers an error or unreadable XML, but did change
    "lost",         \* timeout, broken connection, 502/503/504
    "late",         \* a timed-out write takes effect later
    "slow",         \* a first write takes more than PENDING_FRESH_SECONDS
    "dbError",      \* a commit fails
    "reuse" }       \* a client resubmits a key after asking for its reversal

\* The values of the idempotency_key column: the client's key for an earn or
\* a redemption, and a key derived from the transaction for its reversal.
Ids == Keys \X {"op", "reversal"}

Original(id)   == <<id[1], "op">>
IsReversal(id) == id[2] = "reversal"
IsRedeem(id)   == ~IsReversal(id) /\ id[1] \in Redemptions
Customer(id)   == CustomerOf[id[1]]
Delta(id)      == IF IsReversal(id) THEN -Points[id[1]] ELSE Points[id[1]]

Statuses == {"pending", "applied", "failed", "reversed"}

\* balance_before is only ever echoed to the client, and created_at only
\* compared with PENDING_FRESH_SECONDS: fresh is the result of that test.
Row == [status : Statuses, after : Int, fresh : BOOLEAN]

Steps == {"idle", "wait", "validate", "observe", "record", "put", "reply",
          "mark", "orphan"}

ASSUME LedgerAssumption ==
    /\ CustomerOf \in [Keys -> Customers]
    /\ Points \in [Keys -> Int]
    /\ Redemptions \subseteq Keys
    /\ Home \in [Handlers -> Instances]
    /\ InitialAccount \in [Customers -> Int \cup {NoAccount}]
    /\ Attempts \in [Ids -> Nat]
    /\ BatchLimit \in Nat \ {0}
    /\ MaxCrashes \in Nat /\ MaxExternal \in Nat
    /\ ExternalDeltas \subseteq Int
    /\ Environment \subseteq Troubles
    /\ NoAccount \notin Int
    /\ None \notin Ids \cup Handlers \cup Row \cup Int \cup {NoAccount}
    /\ None \notin {"ok", "error", "lost", "late"}

VARIABLES
    rows,        \* rows[id]: the loyalty_transactions row with that key
    account,     \* account[c]: PointsAccount/Balance in UNAS
    task,        \* task[h]: the coroutine serving a request in slot h
    lock,        \* lock[i][c]: who holds process i's asyncio.Lock for c
    worker,      \* worker[i]: the reconciliation loop of process i
    submitted,   \* submitted[id]: how often clients asked for id
    effects,     \* history: how often a write for id changed the balance
    crashes,     \* crashes so far
    externals    \* changes made outside the middleware so far

vars == <<rows, account, task, lock, worker, submitted, effects, crashes,
          externals>>

IdleTask   == [at |-> "idle", id |-> None, seen |-> None, got |-> None,
               reply |-> None]
IdleWorker == [todo |-> {}, cur |-> None, got |-> None,
               snap |-> [id \in Ids |-> None]]

Task == [at : Steps, id : Ids \cup {None}, seen : Row \cup {None},
         got : Int \cup {None},
         reply : {None, "ok", "error", "lost", "late"}]
Reconciler == [todo : SUBSET Ids, cur : Ids \cup {None},
               got : Int \cup {None}, snap : [Ids -> Row \cup {None}]]

Init ==
    /\ rows = [id \in Ids |-> None]
    /\ account = InitialAccount
    /\ task = [h \in Handlers |-> IdleTask]
    /\ lock = [i \in Instances |-> [c \in Customers |-> None]]
    /\ worker = [i \in Instances |-> IdleWorker]
    /\ submitted = [id \in Ids |-> 0]
    /\ effects = [id \in Ids |-> 0]
    /\ crashes = 0
    /\ externals = 0

-----------------------------------------------------------------------------
(* The points a getCustomer answer stands for, int(points_balance or 0).   *)

Value(b)   == IF b = NoAccount THEN 0 ELSE b
Balance(c) == Value(account[c])

Has(id, status) == rows[id] # None /\ rows[id].status = status

\* Mutant of AppliedBefore: the key is not looked up before booking.
NeverApplied(id) == FALSE

\* existing is not None and existing.status == "applied"
AppliedBefore(id) == Has(id, "applied")

\* _is_fresh_pending
FreshPending(id) == Has(id, "pending") /\ rows[id].fresh

(* The locks: one asyncio.Lock per process and customer.                   *)
LockOf(h)   == lock[Home[h]][Customer(task[h].id)]
\* Mutant of LockFree: a handler that skips "async with lock".
NoLocking(h) == TRUE
LockFree(h) == LockOf(h) = None
SetLock(h, owner) ==
    lock' = [lock EXCEPT ![Home[h]][Customer(task[h].id)] = owner]

\* The handler returns or raises: "async with lock" is left, the request is
\* answered.  A write that UNAS is still busy with lives on as an orphan.
Answer(h) ==
    /\ SetLock(h, None)
    /\ task' = [task EXCEPT ![h] = IF @.reply = "late"
                                   THEN [@ EXCEPT !.at = "orphan"]
                                   ELSE IdleTask]

-----------------------------------------------------------------------------
(* Requests.  A request that is refused before it takes the lock changes   *)
(* nothing and is not modelled: an unknown QR token, a redemption outside  *)
(* the configured limits, the reversal of a transaction that is missing or *)
(* not applied.                                                            *)

\* Without "reuse" a client is done with a key once its reversal was asked
\* for, and no reversal is asked for while the key is being processed.
ClientMaySubmit(id) ==
    \/ "reuse" \in Environment
    \/ ~IsReversal(id) /\ submitted[<<id[1], "reversal">>] = 0
    \/ /\ IsReversal(id)
       /\ \A h \in Handlers : task[h].at = "orphan" \/ task[h].id # Original(id)

Submit(h, id) ==
    /\ task[h].at = "idle"
    /\ submitted[id] < Attempts[id]
    /\ ClientMaySubmit(id)
    /\ IsReversal(id) => Has(Original(id), "applied")
    /\ task' = [task EXCEPT ![h] = [IdleTask EXCEPT !.at = "wait", !.id = id]]
    /\ submitted' = [submitted EXCEPT ![id] = @ + 1]
    /\ UNCHANGED <<rows, account, lock, worker, effects, crashes, externals>>

\* redeem() enters "async with lock" and reads the balance to validate.
LockForRedeem(h) ==
    /\ task[h].at = "wait" /\ LockFree(h)
    /\ IsRedeem(task[h].id)
    /\ SetLock(h, h)
    /\ task' = [task EXCEPT ![h].at = "validate"]
    /\ UNCHANGED <<rows, account, worker, submitted, effects, crashes,
                   externals>>

\* reverse() re-reads the original under the lock; only "reversed" stops it.
AlreadyReversed(h) ==
    /\ task[h].at = "wait" /\ LockFree(h)
    /\ IsReversal(task[h].id) /\ Has(Original(task[h].id), "reversed")
    /\ Answer(h)
    /\ UNCHANGED <<rows, account, worker, submitted, effects, crashes,
                   externals>>

\* Mutant of Covered: the check of the balance is forgotten.
AnyBalance(id) == TRUE

\* validate_redeem_request: points_to_redeem > current_balance.
Covered(id) == Balance(Customer(id)) + Delta(id) >= 0

RefuseOverdraw(h) ==
    /\ task[h].at = "validate"
    /\ ~Covered(task[h].id)
    /\ Answer(h)
    /\ UNCHANGED <<rows, account, worker, submitted, effects, crashes,
                   externals>>

\* The point where _apply_balance_change starts, the lock being held: right
\* after taking it, or after a redemption's validation succeeded.  The answer
\* to validate and the lookup of the key are one step: the balance that is
\* booked on is read once more, by Observe.
Entering(h) ==
    \/ /\ task[h].at = "wait" /\ LockFree(h)
       /\ ~IsRedeem(task[h].id)
       /\ IsReversal(task[h].id) => ~Has(Original(task[h].id), "reversed")
    \/ /\ task[h].at = "validate"
       /\ Covered(task[h].id)

\* The key was applied before: answer with the stored result.  reverse() goes
\* on to mark the original, whoever applied the reversal.
ReplayApplied(h) ==
    /\ Entering(h)
    /\ AppliedBefore(task[h].id)
    /\ IF IsReversal(task[h].id)
       THEN /\ SetLock(h, h)
            /\ task' = [task EXCEPT ![h].at = "mark"]
       ELSE Answer(h)
    /\ UNCHANGED <<rows, account, worker, submitted, effects, crashes,
                   externals>>

RefuseInFlight(h) ==
    /\ Entering(h)
    /\ FreshPending(task[h].id)
    /\ Answer(h)
    /\ UNCHANGED <<rows, account, worker, submitted, effects, crashes,
                   externals>>

\* No row, a failed or reversed one, or a pending one that is not fresh: the
\* session keeps the row as loaded here and asks UNAS for the balance.
Lookup(h) ==
    /\ Entering(h)
    /\ ~AppliedBefore(task[h].id) /\ ~FreshPending(task[h].id)
    /\ SetLock(h, h)
    /\ task' = [task EXCEPT ![h].at = "observe",
                            ![h].seen = rows[task[h].id]]
    /\ UNCHANGED <<rows, account, worker, submitted, effects, crashes,
                   externals>>

\* getCustomer raises, after its own retries, or returns no customer.
ReadFails(h) ==
    /\ task[h].at \in {"validate", "observe"}
    /\ "readError" \in Environment
    /\ Answer(h)
    /\ UNCHANGED <<rows, account, worker, submitted, effects, crashes,
                   externals>>

\* UNAS serves the getCustomer call whose answer gives balance_before.
Observe(h) ==
    /\ task[h].at = "observe"
    /\ task' = [task EXCEPT ![h].at = "record",
                            ![h].got = Balance(Customer(task[h].id))]
    /\ UNCHANGED <<rows, account, lock, worker, submitted, effects, crashes,
                   externals>>

\* Mutant of InsertPending: the commit before the call to UNAS is left out.
SendUnrecorded(h) ==
    /\ task[h].at = "record" /\ task[h].seen = None
    /\ task' = [task EXCEPT ![h].at = "put"]
    /\ UNCHANGED <<rows, account, lock, worker, submitted, effects, crashes,
                   externals>>

\* session.add(tx); commit.  created_at is now.
InsertPending(h) ==
    LET id == task[h].id
    IN  /\ task[h].at = "record" /\ task[h].seen = None
        /\ rows[id] = None
        /\ rows' = [rows EXCEPT ![id] =
                       [status |-> "pending",
                        after  |-> task[h].got + Delta(id),
                        fresh  |-> TRUE]]
        /\ task' = [task EXCEPT ![h].at = "put"]
        /\ UNCHANGED <<account, lock, worker, submitted, effects, crashes,
                       externals>>

\* The unique idempotency_key: another process inserted it since Lookup.  The
\* IntegrityError leaves the handler before anything was sent to UNAS.
DuplicateKey(h) ==
    /\ task[h].at = "record" /\ task[h].seen = None
    /\ rows[task[h].id] # None
    /\ Answer(h)
    /\ UNCHANGED <<rows, account, worker, submitted, effects, crashes,
                   externals>>

\* The UPDATE a retry commits.  SQLAlchemy leaves a column out when the value
\* assigned equals the one loaded at Lookup, so a row loaded as "pending"
\* keeps whatever status was committed since.  created_at is never touched.
Renewed(row, seen, after) ==
    [row EXCEPT !.status = IF seen.status = "pending" THEN @ ELSE "pending",
                !.after  = IF seen.after = after THEN @ ELSE after]

UpdatePending(h) ==
    LET id == task[h].id
    IN  /\ task[h].at = "record" /\ task[h].seen # None
        /\ rows' = [rows EXCEPT ![id] =
                       Renewed(@, task[h].seen, task[h].got + Delta(id))]
        /\ task' = [task EXCEPT ![h].at = "put"]
        /\ UNCHANGED <<account, lock, worker, submitted, effects, crashes,
                       externals>>

\* setCustomer replaces the balance, whatever it is by now.
WriteBalance(h) ==
    LET id == task[h].id
    IN  /\ account' = [account EXCEPT ![Customer(id)] = task[h].got + Delta(id)]
        /\ effects' = [effects EXCEPT ![id] = @ + 1]

\* UNAS carries the write out, and the client sees reply.
UnasApplies(h, reply) ==
    /\ task[h].at = "put"
    /\ \/ reply = "ok"
       \/ reply = "error" /\ "garbled" \in Environment
       \/ reply = "lost"  /\ "lost" \in Environment
    /\ WriteBalance(h)
    /\ task' = [task EXCEPT ![h].at = "reply", ![h].reply = reply]
    /\ UNCHANGED <<rows, lock, worker, submitted, crashes, externals>>

\* UNAS does not carry it out, or not yet.
UnasDeclines(h, reply) ==
    /\ task[h].at = "put"
    /\ \/ reply = "error" /\ "reject" \in Environment
       \/ reply = "lost"  /\ "lost" \in Environment
       \/ reply = "late"  /\ "late" \in Environment
    /\ task' = [task EXCEPT ![h].at = "reply", ![h].reply = reply]
    /\ UNCHANGED <<rows, account, lock, worker, submitted, effects, crashes,
                   externals>>

LateWrite(h) ==
    /\ task[h].at = "orphan"
    /\ WriteBalance(h)
    /\ task' = [task EXCEPT ![h] = IdleTask]
    /\ UNCHANGED <<rows, lock, worker, submitted, crashes, externals>>

\* tx expired with the last commit: the status is overwritten unseen.
SetStatus(id, status) == rows' = [rows EXCEPT ![id].status = status]

\* Mutant of FinishApplied: the commit after the write is left out.
ApplyUnrecorded(h) ==
    /\ task[h].at = "reply" /\ task[h].reply = "ok"
    /\ IF IsReversal(task[h].id)
       THEN task' = [task EXCEPT ![h].at = "mark"] /\ UNCHANGED lock
       ELSE Answer(h)
    /\ UNCHANGED <<rows, account, worker, submitted, effects, crashes,
                   externals>>

FinishApplied(h) ==
    /\ task[h].at = "reply" /\ task[h].reply = "ok"
    /\ SetStatus(task[h].id, "applied")
    /\ IF IsReversal(task[h].id)
       THEN task' = [task EXCEPT ![h].at = "mark"] /\ UNCHANGED lock
       ELSE Answer(h)
    /\ UNCHANGED <<account, worker, submitted, effects, crashes, externals>>

\* except UnasApiError
FinishFailed(h) ==
    /\ task[h].at = "reply" /\ task[h].reply = "error"
    /\ SetStatus(task[h].id, "failed")
    /\ Answer(h)
    /\ UNCHANGED <<account, worker, submitted, effects, crashes, externals>>

\* Mutants of FinishUncertain: reverse() carries on after a timeout; the lock
\* is taken without "with" and kept when the handler raises; the write is sent
\* again.
MarkAfterTimeout(h) ==
    /\ task[h].at = "reply" /\ task[h].reply \in {"lost", "late"}
    /\ IF IsReversal(task[h].id)
       THEN task' = [task EXCEPT ![h].at = "mark"] /\ UNCHANGED lock
       ELSE Answer(h)
    /\ UNCHANGED <<rows, account, worker, submitted, effects, crashes,
                   externals>>

LeaveLocked(h) ==
    /\ task[h].at = "reply" /\ task[h].reply \in {"lost", "late"}
    /\ task' = [task EXCEPT ![h] = IdleTask]
    /\ UNCHANGED <<rows, account, lock, worker, submitted, effects, crashes,
                   externals>>

SendAgain(h) ==
    /\ task[h].at = "reply" /\ task[h].reply \in {"lost", "late"}
    /\ task' = [task EXCEPT ![h].at = "put", ![h].reply = None]
    /\ UNCHANGED <<rows, account, lock, worker, submitted, effects, crashes,
                   externals>>

\* except UnasTransientError: only error_message is written, HTTP 202 follows.
FinishUncertain(h) ==
    /\ task[h].at = "reply" /\ task[h].reply \in {"lost", "late"}
    /\ Answer(h)
    /\ UNCHANGED <<rows, account, worker, submitted, effects, crashes,
                   externals>>

\* Mutant of MarkReversed: result.transaction_id instead of the original's.
MarkItself(h) ==
    /\ task[h].at = "mark"
    /\ SetStatus(task[h].id, "reversed")
    /\ Answer(h)
    /\ UNCHANGED <<account, worker, submitted, effects, crashes, externals>>

\* The second commit of reverse().
MarkReversed(h) ==
    /\ task[h].at = "mark"
    /\ SetStatus(Original(task[h].id), "reversed")
    /\ Answer(h)
    /\ UNCHANGED <<account, worker, submitted, effects, crashes, externals>>

\* The commit expired tx, so that result.status is what the row holds by now:
\* if another process's worker has overwritten it since, reverse() returns that
\* status and leaves the original unmarked.  A replay returns what it tested.
Unmarked(h) ==
    /\ task[h].at = "mark" /\ task[h].reply = "ok"
    /\ ~Has(task[h].id, "applied")
    /\ Answer(h)
    /\ UNCHANGED <<rows, account, worker, submitted, effects, crashes,
                   externals>>

\* A commit raises (on SQLite: "database is locked"), HTTP 500.
CommitFails(h) ==
    /\ task[h].at \in {"record", "reply", "mark"}
    /\ "dbError" \in Environment
    /\ Answer(h)
    /\ UNCHANGED <<rows, account, worker, submitted, effects, crashes,
                   externals>>

-----------------------------------------------------------------------------
(* Time and the reconciliation worker.                                     *)

\* PENDING_FRESH_SECONDS pass since created_at.  Short of "slow", the request
\* that inserted the row has had its answer from UNAS by then; a retry may
\* find the minute over at any point.
Age(id) ==
    /\ rows[id] # None /\ rows[id].fresh
    /\ \/ "slow" \in Environment
       \/ \A h \in Handlers :
             task[h].id = id => task[h].at \notin {"put", "reply"}
                                \/ task[h].seen # None
    /\ rows' = [rows EXCEPT ![id].fresh = FALSE]
    /\ UNCHANGED <<account, task, lock, worker, submitted, effects, crashes,
                   externals>>

\* Mutants of StalePending: the cutoff is forgotten; only bookings are
\* reconciled, not their reversals.
AnyPending    == {id \in Ids : Has(id, "pending")}
StaleBookings == {id \in AnyPending : ~rows[id].fresh /\ ~IsReversal(id)}

StalePending == {id \in Ids : Has(id, "pending") /\ ~rows[id].fresh}

\* The loop body reaches its getCustomer call for the next row of the batch,
\* in whatever order the database returned them.  tx is as loaded by the
\* query, or reloaded from table if a commit of the loop expired it since.
Continuations(todo, snap, table) ==
    IF todo = {} THEN {IdleWorker}
    ELSE {[todo |-> todo \ {id}, cur |-> id, got |-> None,
           snap |-> IF snap[id] = None THEN [snap EXCEPT ![id] = table[id]]
                                       ELSE snap] : id \in todo}

WorkerSelect(i) ==
    /\ worker[i].cur = None
    /\ StalePending # {}
    /\ \E batch \in SUBSET StalePending :
          /\ \/ Cardinality(batch) = BatchLimit
             \/ batch = StalePending /\ Cardinality(batch) < BatchLimit
          /\ \E w \in Continuations(batch, [id \in Ids |->
                          IF id \in batch THEN rows[id] ELSE None], rows) :
                worker' = [worker EXCEPT ![i] = w]
    /\ UNCHANGED <<rows, account, task, lock, submitted, effects, crashes,
                   externals>>

\* UNAS serves the worker's getCustomer call.
WorkerRead(i) ==
    /\ worker[i].cur # None /\ worker[i].got = None
    /\ account[Customer(worker[i].cur)] # NoAccount
    /\ worker' = [worker EXCEPT ![i].got = account[Customer(worker[i].cur)]]
    /\ UNCHANGED <<rows, account, task, lock, submitted, effects, crashes,
                   externals>>

\* No such customer, or no balance: "continue".
WorkerSkip(i) ==
    /\ worker[i].cur # None /\ worker[i].got = None
    /\ \/ account[Customer(worker[i].cur)] = NoAccount
       \/ "readError" \in Environment
    /\ \E w \in Continuations(worker[i].todo, worker[i].snap, rows) :
          worker' = [worker EXCEPT ![i] = w]
    /\ UNCHANGED <<rows, account, task, lock, submitted, effects, crashes,
                   externals>>

\* Mutant of Verdict: the error code goes into the status column.
CodeAsStatus(i) == IF worker[i].got = worker[i].snap[worker[i].cur].after
                   THEN "applied" ELSE "reconciliation_mismatch"

\* actual_balance == tx.balance_after
Verdict(i) == IF worker[i].got = worker[i].snap[worker[i].cur].after
              THEN "applied" ELSE "failed"

\* No customer lock is taken and the status is not read again; only a status
\* equal to the loaded one is left out of the UPDATE.
WorkerVerdict(i) ==
    LET id == worker[i].cur
    IN  /\ id # None /\ worker[i].got # None
        /\ rows' = IF Verdict(i) = worker[i].snap[id].status THEN rows
                   ELSE [rows EXCEPT ![id].status = Verdict(i)]
        /\ \E w \in Continuations(worker[i].todo, IdleWorker.snap, rows') :
              worker' = [worker EXCEPT ![i] = w]
        /\ UNCHANGED <<account, task, lock, submitted, effects, crashes,
                       externals>>

\* getCustomer or a commit raises: the whole iteration is abandoned.
WorkerAborts(i) ==
    /\ worker[i].cur # None
    /\ {"readError", "dbError"} \cap Environment # {}
    /\ worker' = [worker EXCEPT ![i] = IdleWorker]
    /\ UNCHANGED <<rows, account, task, lock, submitted, effects, crashes,
                   externals>>

-----------------------------------------------------------------------------
(* The process dies and is started again: its tasks, locks and worker are  *)
(* gone, and a write under way may still reach UNAS.                       *)
Crash(i) ==
    LET dead == {h \in Handlers : Home[h] = i /\ task[h].at # "orphan"}
    IN  /\ crashes < MaxCrashes
        /\ crashes' = crashes + 1
        /\ \E sent \in SUBSET {h \in dead : task[h].at = "put"} :
              /\ sent # {} => "late" \in Environment
              /\ task' = [h \in Handlers |->
                    IF h \notin dead THEN task[h]
                    ELSE IF h \in sent \/ task[h].reply = "late"
                         THEN [task[h] EXCEPT !.at = "orphan"]
                         ELSE IdleTask]
        /\ lock' = [lock EXCEPT ![i] = [c \in Customers |-> None]]
        /\ worker' = [worker EXCEPT ![i] = IdleWorker]
        /\ UNCHANGED <<rows, account, submitted, effects, externals>>

\* A purchase in the web shop, or an admin at UNAS, moves the balance.
External(c, d) ==
    /\ externals < MaxExternal
    /\ externals' = externals + 1
    /\ account' = [account EXCEPT ![c] = Value(@) + d]
    /\ UNCHANGED <<rows, task, lock, worker, submitted, effects, crashes>>

-----------------------------------------------------------------------------
Replies == {"ok", "error", "lost", "late"}

\* Everything that moves the request in slot h along.
Proceed(h) ==
    \/ LockForRedeem(h) \/ AlreadyReversed(h) \/ RefuseOverdraw(h)
    \/ ReplayApplied(h) \/ RefuseInFlight(h) \/ Lookup(h)
    \/ ReadFails(h) \/ Observe(h)
    \/ InsertPending(h) \/ DuplicateKey(h) \/ UpdatePending(h)
    \/ \E reply \in Replies : UnasApplies(h, reply) \/ UnasDeclines(h, reply)
    \/ FinishApplied(h) \/ FinishFailed(h) \/ FinishUncertain(h)
    \/ MarkReversed(h) \/ Unmarked(h) \/ CommitFails(h)

Reconcile(i) == WorkerSelect(i) \/ WorkerRead(i) \/ WorkerSkip(i)
                \/ WorkerVerdict(i) \/ WorkerAborts(i)

Next ==
    \/ \E h \in Handlers : Proceed(h) \/ LateWrite(h)
                           \/ \E id \in Ids : Submit(h, id)
    \/ \E id \in Ids : Age(id)
    \/ \E i \in Instances : Reconcile(i) \/ Crash(i)
    \/ \E c \in Customers, d \in ExternalDeltas : External(c, d)

Spec == Init /\ [][Next]_vars

\* asyncio resumes every runnable task and hands a lock to its waiters in
\* order; a UNAS call ends by its timeout at the latest; the worker loop never
\* stops polling; a balance asked for again and again is delivered in the end,
\* and a commit tried again and again goes through.  Nobody has to submit
\* anything, crash, or change a balance.
Fairness ==
    /\ \A h \in Handlers : SF_vars(Proceed(h))
    /\ \A id \in Ids : WF_vars(Age(id))
    /\ \A i \in Instances :
          /\ WF_vars(Reconcile(i))
          /\ \A id \in Ids :
                /\ SF_vars(worker[i].cur = id /\ WorkerRead(i))
                /\ SF_vars(worker[i].cur = id /\ WorkerVerdict(i))

FairSpec == Spec /\ Fairness

-----------------------------------------------------------------------------
(* Correctness.                                                            *)

\* Every variable keeps its type, in every environment.
TypeOK ==
    /\ rows \in [Ids -> Row \cup {None}]
    /\ account \in [Customers -> Int \cup {NoAccount}]
    /\ task \in [Handlers -> Task]
    /\ lock \in [Instances -> [Customers -> Handlers \cup {None}]]
    /\ worker \in [Instances -> Reconciler]
    /\ submitted \in [Ids -> Nat]
    /\ effects \in [Ids -> Nat]
    /\ crashes \in Nat
    /\ externals \in Nat

\* Parts of the inductive invariant behind the theorems.  Inside "async with
\* lock" a task holds the lock of its customer in its own process.
Critical == {"validate", "observe", "record", "put", "reply", "mark"}
LocksHeld ==
    \A h \in Handlers : task[h].at \in Critical => LockOf(h) = h

\* ... and the other way round: whoever has a lock is inside "async with lock",
\* in that process and for that customer.  No lock is left taken by an answer,
\* an exception or a crash, so no customer is shut out for good.
LocksInUse ==
    \A i \in Instances, c \in Customers : lock[i][c] # None =>
        LET h == lock[i][c]
        IN  Home[h] = i /\ task[h].at \in Critical /\ Customer(task[h].id) = c

\* Every row that will be updated exists, every value to be sent was read.
TaskLocated(t, table) ==
    /\ t.at # "idle" => t.id \in Ids
    /\ t.at \in {"put", "reply", "orphan"} => table[t.id] # None
    /\ t.at # "idle" /\ t.seen # None => table[t.id] # None
    /\ t.at \in {"record", "put", "reply", "orphan"} => t.got # None
    /\ t.at # "idle" /\ IsReversal(t.id) => table[Original(t.id)] # None
    /\ t.at = "mark" => IsReversal(t.id)
    /\ t.reply = "late" => t.at \in {"reply", "orphan"}

WorkerLocated(w, table) ==
    /\ \A id \in w.todo : table[id] # None
    /\ w.cur # None => table[w.cur] # None /\ w.snap[w.cur] # None

TasksLocated   == \A h \in Handlers : TaskLocated(task[h], rows)
WorkersLocated == \A i \in Instances : WorkerLocated(worker[i], rows)

\* A redemption past its validation is still covered.
RedeemCovered ==
    \A h \in Handlers :
        task[h].at # "idle" /\ IsRedeem(task[h].id) =>
            /\ task[h].at = "observe" => Covered(task[h].id)
            /\ task[h].at \in {"record", "put"} =>
                  task[h].got + Delta(task[h].id) >= 0

\* From the read of the balance to the absolute write computed from it, the
\* balance in UNAS does not move: no update of a customer is lost.
SnapshotCurrent ==
    \A h \in Handlers :
        task[h].at \in {"record", "put"} =>
            task[h].got = Balance(Customer(task[h].id))

\* Read-then-overwrite looks like the indivisible, never overdrawing addition
\* of PointsAccount.
Account == INSTANCE PointsAccount WITH
    Changes  <- Ids,
    OwnerOf  <- [id \in Ids |-> Customer(id)],
    AmountOf <- [id \in Ids |-> Delta(id)],
    Guarded  <- {id \in Ids : IsRedeem(id)},
    balance  <- [c \in Customers |-> Balance(c)]

AtomicAdditions == Account!Spec

\* A balance falls below zero only through a change that no validation covers,
\* the reversal of an earn: redemptions alone never overdraw, in whatever order
\* they are validated, repeated and written.
OnlyReversalsOverdraw ==
    \A c \in Customers :
        /\ Value(InitialAccount[c]) >= 0
        /\ \A id \in Ids : Customer(id) = c /\ Delta(id) < 0 /\ ~IsRedeem(id)
               => effects[id] = 0
        => Balance(c) >= 0

\* A balance never changes on behalf of a request the database has no trace
\* of: the row is committed before the write is sent, and rows stay.
IntentRecorded == \A id \in Ids : effects[id] > 0 => rows[id] # None

\* An applied transaction only ever becomes reversed: neither the worker nor
\* a late answer makes it failed or pending again.
AppliedIsFinal ==
    [][\A id \in Ids : Has(id, "applied") =>
           rows'[id].status \in {"applied", "reversed"}]_vars

\* Whatever fails, a request changes the balance at most as often as it was
\* sent: neither a late write nor the worker nor a restart carries one
\* submission out again.
OncePerSubmission == \A id \in Ids : effects[id] <= submitted[id]

\* One idempotency key changes the balance at most once.
EffectAtMostOnce == \A id \in Ids : effects[id] <= 1

\* Whatever the two commits of reverse() and the other requests do: a
\* transaction marked reversed has a reversal that was applied.
ReversedHasReversal ==
    \A id \in Ids : ~IsReversal(id) /\ Has(id, "reversed") =>
        Has(<<id[1], "reversal">>, "applied")

\* Once nobody works on a request any more, the table tells whether it changed
\* the balance: it did if and only if its row is applied or reversed.
Settled(id) == Has(id, "applied") \/ Has(id, "reversed")
TableTellsEffects ==
    \A id \in Ids :
        (\A h \in Handlers : task[h].id # id)
            => (effects[id] > 0 <=> Settled(id))

\* A key looks like IdempotentKeys to its client: recorded, carried out and
\* settled once each, however many processes its repetitions reach.
StatusOf(id) == IF rows[id] = None THEN "unknown" ELSE rows[id].status

Promise == INSTANCE IdempotentKeys WITH
    Bookings  <- {id \in Ids : ~IsReversal(id)},
    Reversals <- {id \in Ids : IsReversal(id)},
    Undoes    <- [id \in {x \in Ids : IsReversal(x)} |-> Original(id)],
    status    <- [id \in Ids |-> StatusOf(id)]

KeysIdempotent == Promise!Spec

\* No other request has changed the balance of the customer of id so far.
OnlyEffect(id) ==
    \A x \in Ids \ {id} : Customer(x) = Customer(id) => effects[x] = 0

\* Then a verdict is the truth, whether the handler gave it or, after a timeout,
\* a failed commit or a crash, the worker, which merely compares balances.
VerdictTrue ==
    \A id \in Ids : OnlyEffect(id) /\ Delta(id) # 0 =>
        /\ Settled(id) => effects[id] > 0
        /\ Has(id, "failed") => effects[id] = 0

\* A submitted request is answered, whatever fails: no lock is ever kept.
RequestsEnd ==
    \A h \in Handlers :
        task[h].at = "wait" ~> task[h].at \in {"idle", "orphan"}

\* A pending transaction does not stay pending: its handler or, after a
\* crash or an uncertain write, the worker gives it a verdict.
PendingResolved ==
    \A id \in Ids : Has(id, "pending") ~> ~Has(id, "pending")
=============================================================================
