-------------------------- MODULE SqliteSessions --------------------------
(* SQLite's only write lock, the event loop and the threads that compete     *)
(* for it.  db.py opens every transaction with BEGIN IMMEDIATE, so the first *)
(* statement of a session takes the lock, and only a commit, a rollback or   *)
(* close() returns it.  A statement that finds the lock taken waits inside   *)
(* SQLite, at most busy_timeout; one issued by a coroutine stops the event   *)
(* loop meanwhile.  Synchronous dependencies and routes run in threads.      *)
(* What is written is reduced to the status of a booking's row: the ledger's *)
(* own logic is LoyaltyLedger.                                               *)
EXTENDS Integers, FiniteSets

CONSTANTS
    Bookings,   \* earn and redeem requests
    Scans,      \* requests of /api/scans/resolve
    Webhooks,   \* deliveries of the registration webhook, handled on the loop
    Pages,      \* requests served by threads alone; the steps of the backfill
    Worker,     \* the background worker's coroutine
    Customers,
    Card,       \* whose card a booking presents
    Nobody

Requests == Bookings \cup Scans \cup Webhooks \cup Pages
Tasks    == Requests \cup {Worker}

ASSUME SessionsAssumption ==
    /\ Worker \notin Requests
    /\ Nobody \notin Tasks
    /\ Card \in [Bookings -> Customers]
    /\ Bookings \cap (Scans \cup Webhooks \cup Pages) = {}
    /\ Scans \cap (Webhooks \cup Pages) = {}
    /\ Webhooks \cap Pages = {}

VARIABLES
    pc,      \* where a task is
    writer,  \* the task whose session holds SQLite's write lock
    loop,    \* the coroutine that keeps the event loop between two awaits
    turn,    \* a customer's asyncio.Lock: its holder
    row,     \* status of a booking's row in loyalty_transactions
    answer   \* what UNAS answered to a booking's setCustomer call

vars == <<pc, writer, loop, turn, row, answer>>

AtUnas   == {"read", "put"}                       \* awaiting an answer
OnLoop   == {"select", "store", "reopen", "record", "reload"}
Stages   == {"idle", "user", "ready", "queue", "close", "done"} \cup AtUnas \cup OnLoop

TypeOK ==
    /\ pc \in [Tasks -> Stages]
    /\ writer \in Tasks \cup {Nobody}
    /\ loop \in Tasks \cup {Nobody}
    /\ turn \in [Customers -> Bookings \cup {Nobody}]
    /\ row \in [Bookings -> {"none", "pending", "applied", "failed"}]
    /\ answer \in [Bookings -> {"none", "ok", "refused", "lost"}]

Init ==
    /\ pc = [r \in Tasks |-> "idle"]
    /\ writer = Nobody
    /\ loop = Nobody
    /\ turn = [c \in Customers |-> Nobody]
    /\ row = [r \in Bookings |-> "none"]
    /\ answer = [r \in Bookings |-> "none"]

---------------------------------------------------------------------------
(* The session.                                                              *)

Goto(r, stage) == pc' = [pc EXCEPT ![r] = stage]

\* A statement runs in the transaction that is open, or opens one.
Statement(r) == writer \in {Nobody, r}

Commits == writer' = Nobody
Holds(r) == writer' = r

\* Leaving "async with lock", with a result or an exception.
LeaveTurn(r) == turn' = [c \in Customers |-> IF turn[c] = r THEN Nobody ELSE turn[c]]

\* Back to the event loop: the coroutine awaits, returns or raises.
Yield(r) == loop' = IF loop = r THEN Nobody ELSE loop

\* A task that ends: a request's session is closed by a thread, later; the
\* worker closes its own.
Leave(r) == Goto(r, "close") /\ LeaveTurn(r) /\ Yield(r)

\* Mutants of Busy: the customer's lock is kept; a statement of a
\* coroutine waits without limit.
BusyKeepsTurn(r) ==
    /\ pc[r] \in {"user"} \cup OnLoop
    /\ ~Statement(r)
    /\ Goto(r, "close") /\ Yield(r)
    /\ UNCHANGED <<writer, turn, row, answer>>

BusyInThreads(r) ==
    /\ pc[r] = "user"
    /\ ~Statement(r)
    /\ Leave(r)
    /\ UNCHANGED <<writer, row, answer>>

\* busy_timeout has passed: OperationalError, which no handler expects.
Busy(r) ==
    /\ pc[r] \in {"user"} \cup OnLoop
    /\ ~Statement(r)
    /\ Leave(r)
    /\ UNCHANGED <<writer, row, answer>>

---------------------------------------------------------------------------
(* Threads.                                                                  *)

\* A request arrives that needs a user or is served by threads.
Arrive(r) ==
    /\ r \in Bookings \cup Scans \cup Pages
    /\ pc[r] = "idle"
    /\ Goto(r, "user")
    /\ UNCHANGED <<writer, loop, turn, row, answer>>

\* get_current_user: the first statement of the session.  An unknown user or a
\* page ends here; the coroutine of another request is scheduled.
LoadUser(r) ==
    /\ pc[r] = "user"
    /\ Statement(r)
    /\ Holds(r)
    /\ \/ Goto(r, "close")
       \/ r \notin Pages /\ Goto(r, "ready")
    /\ UNCHANGED <<loop, turn, row, answer>>

\* Mutant of Close: a session is left to the garbage collector.
CloseLeaks(r) ==
    /\ pc[r] = "close"
    /\ r = Worker => loop = Nobody
    /\ Goto(r, IF r = Worker THEN "idle" ELSE "done")
    /\ UNCHANGED <<writer, loop, turn, row, answer>>

\* session.close(), in a thread for a request, in its coroutine for the worker.
Close(r) ==
    /\ pc[r] = "close"
    /\ r = Worker => loop = Nobody
    /\ writer' = IF writer = r THEN Nobody ELSE writer
    /\ Goto(r, IF r = Worker THEN "idle" ELSE "done")
    /\ UNCHANGED <<loop, turn, row, answer>>

---------------------------------------------------------------------------
(* Coroutines.  One runs at a time, from one await to the next.              *)

\* A webhook's body has arrived, or the worker's five seconds are over.
Wake(r) ==
    /\ r \in Webhooks \cup {Worker}
    /\ pc[r] = "idle" /\ loop = Nobody
    /\ loop' = r
    /\ Goto(r, "select")
    /\ UNCHANGED <<writer, turn, row, answer>>

\* The webhook's lookup, insert and commit, without an await between them; a
\* duplicate commits nothing; event.id of one without a customer id is read again
\* for the log.  The worker's queries, and the refresh of the next row: a row that
\* is due is looked up in UNAS, otherwise the iteration is over.
Select(r) ==
    /\ pc[r] = "select"
    /\ Statement(r)
    /\ \/ r \in Webhooks /\ Commits /\ Leave(r)
       \/ r \in Webhooks /\ Commits /\ Goto(r, "reload") /\ UNCHANGED <<loop, turn>>
       \/ Holds(r) /\ Leave(r)
       \/ r = Worker /\ Holds(r) /\ Goto(r, "read") /\ Yield(r) /\ UNCHANGED turn
    /\ UNCHANGED <<row, answer>>

\* The handler begins: rate limit and unknown card end it here.  A scan awaits
\* get_customer_by_id, a booking comes to "async with lock".
Enter(r) ==
    /\ pc[r] = "ready" /\ loop = Nobody
    /\ \/ Leave(r)
       \/ Goto(r, IF r \in Bookings THEN "queue" ELSE "read") /\ UNCHANGED <<loop, turn>>
    /\ UNCHANGED <<writer, row, answer>>

\* A booking has its customer's lock: a replay ends, otherwise UNAS is asked.
Lock(r) ==
    /\ pc[r] = "queue" /\ loop = Nobody
    /\ turn[Card[r]] = Nobody
    /\ \/ Leave(r)
       \/ Goto(r, "read") /\ turn' = [turn EXCEPT ![Card[r]] = r] /\ UNCHANGED loop
    /\ UNCHANGED <<writer, row, answer>>

\* getCustomer is answered, with a customer or not.  (A redemption asks twice
\* in the same transaction; the worker goes on to its next row.)
ReadAnswered(r) ==
    /\ pc[r] = "read" /\ loop = Nobody
    /\ \/ Goto(r, "store") /\ loop' = r /\ UNCHANGED turn
       \/ r = Worker /\ Goto(r, "select") /\ loop' = r /\ UNCHANGED turn
       \/ Leave(r)
    /\ UNCHANGED <<writer, row, answer>>

\* The commit after the reading: a booking's pending row, a scan's cached name,
\* the worker's verdict.  What is loaded expires, and the next attribute is
\* read at once.
Store(r) ==
    /\ pc[r] = "store"
    /\ Statement(r)
    /\ Commits
    /\ row' = IF r \in Bookings THEN [row EXCEPT ![r] = "pending"] ELSE row
    /\ Goto(r, CASE r \in Bookings -> "reopen"
                 [] r = Worker     -> "select"
                 [] OTHER          -> "reload")
    /\ UNCHANGED <<loop, turn, answer>>

\* Mutant of Reopen: the session is idle while UNAS is awaited, as the documents have it.
ReopenNot(r) ==
    /\ pc[r] = "reopen"
    /\ Goto(r, "put")
    /\ Yield(r)
    /\ UNCHANGED <<writer, turn, row, answer>>

\* customer.unas_customer_id is an argument of set_customer_balance: a refresh,
\* whose transaction stays open while UNAS is awaited.
Reopen(r) ==
    /\ pc[r] = "reopen"
    /\ Statement(r)
    /\ Holds(r)
    /\ Goto(r, "put")
    /\ Yield(r)
    /\ UNCHANGED <<turn, row, answer>>

PutAnswered(r) ==
    /\ pc[r] = "put" /\ loop = Nobody
    /\ \E a \in {"ok", "refused", "lost"} : answer' = [answer EXCEPT ![r] = a]
    /\ loop' = r
    /\ Goto(r, "record")
    /\ UNCHANGED <<writer, turn, row>>

\* Mutant of Verdict: the outcome is stored under the name it arrives with.
VerdictRaw(a) == a

Verdict(a) == CASE a = "ok" -> "applied" [] a = "refused" -> "failed" [] OTHER -> "pending"

\* The commit of what UNAS said.  Except when it refused, tx.id is read next.
Record(r) ==
    /\ pc[r] = "record"
    /\ Statement(r)
    /\ Commits
    /\ row' = [row EXCEPT ![r] = Verdict(answer[r])]
    /\ IF answer[r] = "refused" THEN Leave(r) ELSE Goto(r, "reload") /\ UNCHANGED <<loop, turn>>
    /\ UNCHANGED answer

\* tx.id, row.id: a refresh for the answer to the client.
Reload(r) ==
    /\ pc[r] = "reload"
    /\ Statement(r)
    /\ Holds(r)
    /\ Leave(r)
    /\ UNCHANGED <<row, answer>>

---------------------------------------------------------------------------
Step(r) ==
    \/ LoadUser(r) \/ Close(r) \/ Wake(r) \/ Select(r) \/ Enter(r) \/ Lock(r)
    \/ ReadAnswered(r) \/ Store(r) \/ Reopen(r) \/ PutAnswered(r) \/ Record(r) \/ Reload(r)
    \/ Busy(r)

Next == \E r \in Tasks : Arrive(r) \/ Step(r)

Spec == Init /\ [][Next]_vars

\* Coroutines get their turn on the loop, threads run, the answer of UNAS is
\* bounded by httpx's timeout and the wait for the lock by SQLite's.  A task
\* waiting for the loop is enabled again and again, not always.
FairSpec == Spec /\ \A r \in Tasks : SF_vars(Step(r))

---------------------------------------------------------------------------
(* What the lock is worth, and what waiting for it may not cost.             *)

\* The lock serializes: while one task awaits UNAS, with a balance it has read or
\* is overwriting, no other does, whoever the customers are (db.py:41-44).  It
\* holds because the transaction stays open over the await.
OneAtUnas == \A r, s \in Tasks : pc[r] \in AtUnas /\ pc[s] \in AtUnas => r = s

\* A lock that cannot be had may fail a request before its write, or after its
\* record, never in between: what UNAS has answered is in the table
\* (service.py:228-244).
OutcomeKept ==
    \A r \in Bookings :
        answer[r] # "none" /\ pc[r] # "record" => row[r] = Verdict(answer[r])

\* The customer's lock is never waited for: whoever comes to it holds SQLite's
\* lock, which its holder would need to go on.  So nobody sits on the database
\* for a customer's turn (service.py:283-284).
TurnIsFree ==
    \A r \in Bookings : pc[r] = "queue" => turn[Card[r]] = Nobody

\* However a request ended, it keeps neither lock and not the loop.
NothingKept ==
    \A r \in Requests : pc[r] = "done" =>
        writer # r /\ loop # r /\ \A c \in Customers : turn[c] # r

\* So no lock is in the way of a request, neither of one that comes nor through
\* one that has gone.
LocksReturned == TurnIsFree /\ NothingKept

\* The event loop, blocked by a statement, comes back, though the holder of the
\* lock may itself need the loop to go on (db.py:69).
LoopComesBack == loop # Nobody ~> loop = Nobody

\* Every request that arrived ends, with a result or an error.
RequestsEnd == \A r \in Requests : pc[r] \notin {"idle", "done"} ~> pc[r] = "done"

\* docs/ARCHITECTURE_DECISIONS.md:45-48: no transaction is open while UNAS is
\* called, so a slow answer does not block the reads and writes of others.  At
\* the least, the event loop does not stand still for the lock of a booking that
\* awaits UNAS, whose answer the loop would have to receive.
SlowAnswerBlocksNobody ==
    \A r \in Bookings : pc[r] = "put" /\ writer = r => loop = Nobody
=============================================================================
