----------------------- MODULE SqliteSessionsProofs -----------------------
(* What holds of SqliteSessions for every set of requests and customers.     *)
EXTENDS SqliteSessions, TLAPS

\* From the first statement to the next commit a session has the lock.
InTransaction == {"ready", "queue", "read", "store", "put", "record"}
Holders == \A r \in Tasks : pc[r] \in InTransaction => writer = r
Writers == \A r \in Tasks : writer = r => pc[r] \notin {"idle", "user", "done"}

\* The loop is where a coroutine is between two awaits.
Loopers == \A r \in Tasks : loop = r <=> pc[r] \in OnLoop

\* A customer's lock is held inside "async with lock" only, and by a booking of
\* that customer.
InTurn == {"read", "store", "reopen", "put", "record", "reload"}
Turns == \A c \in Customers, r \in Bookings :
             turn[c] = r => Card[r] = c /\ pc[r] \in InTurn

\* Nothing is answered before it was asked.
Unanswered == \A r \in Bookings :
    pc[r] \in {"idle", "user", "ready", "queue", "read", "store", "reopen", "put"}
        => answer[r] = "none"

\* Stages only coroutines, webhooks or bookings come to.
Kinds == \A r \in Tasks :
    /\ pc[r] \in {"queue", "reopen", "put", "record"} => r \in Bookings
    /\ pc[r] = "select" => r \in Webhooks \cup {Worker}

Inv == TypeOK /\ Kinds /\ Holders /\ Writers /\ Loopers /\ Turns /\ TurnIsFree
           /\ Unanswered /\ OutcomeKept

\* Abbreviations, expanded in every step.
USE SessionsAssumption DEF Goto, Statement, Commits, Holds, LeaveTurn, Yield, Leave,
    Tasks, Requests, Stages, AtUnas, OnLoop, InTransaction, InTurn

LEMMA InitInv == Init => Inv
BY DEF Init, Inv, TypeOK, Kinds, Holders, Writers, Loopers, Turns, TurnIsFree,
    Unanswered, OutcomeKept

LEMMA ArriveKeeps ==
    ASSUME Inv, NEW r \in Tasks, Arrive(r)
    PROVE  Inv'
<1> USE DEF Inv, TypeOK, Arrive
<1>1. TypeOK' /\ Kinds'
  BY DEF Kinds
<1>2. Holders' /\ Writers'
  BY DEF Holders, Writers
<1>3. Loopers'
  BY DEF Loopers
<1>4. Turns'
  BY DEF Turns, Kinds
<1>5. TurnIsFree'
  BY DEF TurnIsFree, Turns, Kinds, Holders, Loopers
<1>6. Unanswered'
  BY DEF Unanswered
<1>7. OutcomeKept'
  BY DEF OutcomeKept, Unanswered, Holders, Verdict
<1> QED
  BY <1>1, <1>2, <1>3, <1>4, <1>5, <1>6, <1>7

LEMMA LoadUserKeeps ==
    ASSUME Inv, NEW r \in Tasks, LoadUser(r)
    PROVE  Inv'
<1> USE DEF Inv, TypeOK, LoadUser
<1>1. TypeOK' /\ Kinds'
  BY DEF Kinds
<1>2. Holders' /\ Writers'
  BY DEF Holders, Writers
<1>3. Loopers'
  BY DEF Loopers
<1>4. Turns'
  BY DEF Turns, Kinds
<1>5. TurnIsFree'
  BY DEF TurnIsFree, Turns, Kinds, Holders, Loopers
<1>6. Unanswered'
  BY DEF Unanswered
<1>7. OutcomeKept'
  BY DEF OutcomeKept, Unanswered, Holders, Verdict
<1> QED
  BY <1>1, <1>2, <1>3, <1>4, <1>5, <1>6, <1>7

LEMMA CloseKeeps ==
    ASSUME Inv, NEW r \in Tasks, Close(r)
    PROVE  Inv'
<1> USE DEF Inv, TypeOK, Close
<1>1. TypeOK' /\ Kinds'
  BY DEF Kinds
<1>2. Holders' /\ Writers'
  BY DEF Holders, Writers
<1>3. Loopers'
  BY DEF Loopers
<1>4. Turns'
  BY DEF Turns, Kinds
<1>5. TurnIsFree'
  BY DEF TurnIsFree, Turns, Kinds, Holders, Loopers
<1>6. Unanswered'
  BY DEF Unanswered
<1>7. OutcomeKept'
  BY DEF OutcomeKept, Unanswered, Holders, Verdict
<1> QED
  BY <1>1, <1>2, <1>3, <1>4, <1>5, <1>6, <1>7

LEMMA WakeKeeps ==
    ASSUME Inv, NEW r \in Tasks, Wake(r)
    PROVE  Inv'
<1> USE DEF Inv, TypeOK, Wake
<1>1. TypeOK' /\ Kinds'
  BY DEF Kinds
<1>2. Holders' /\ Writers'
  BY DEF Holders, Writers
<1>3. Loopers'
  BY DEF Loopers
<1>4. Turns'
  BY DEF Turns, Kinds
<1>5. TurnIsFree'
  BY DEF TurnIsFree, Turns, Kinds, Holders, Loopers
<1>6. Unanswered'
  BY DEF Unanswered
<1>7. OutcomeKept'
  BY DEF OutcomeKept, Unanswered, Holders, Verdict
<1> QED
  BY <1>1, <1>2, <1>3, <1>4, <1>5, <1>6, <1>7

LEMMA SelectKeeps ==
    ASSUME Inv, NEW r \in Tasks, Select(r)
    PROVE  Inv'
<1> USE DEF Inv, TypeOK, Select
<1>1. TypeOK' /\ Kinds'
  BY DEF Kinds
<1>2. Holders' /\ Writers'
  BY DEF Holders, Writers
<1>3. Loopers'
  BY DEF Loopers
<1>4. Turns'
  BY DEF Turns, Kinds
<1>5. TurnIsFree'
  BY DEF TurnIsFree, Turns, Kinds, Holders, Loopers
<1>6. Unanswered'
  BY DEF Unanswered
<1>7. OutcomeKept'
  BY DEF OutcomeKept, Unanswered, Holders, Verdict
<1> QED
  BY <1>1, <1>2, <1>3, <1>4, <1>5, <1>6, <1>7

LEMMA EnterKeeps ==
    ASSUME Inv, NEW r \in Tasks, Enter(r)
    PROVE  Inv'
<1> USE DEF Inv, TypeOK, Enter
<1>1. TypeOK' /\ Kinds'
  BY DEF Kinds
<1>2. Holders' /\ Writers'
  BY DEF Holders, Writers
<1>3. Loopers'
  BY DEF Loopers
<1>4. Turns'
  BY DEF Turns, Kinds
<1>5. TurnIsFree'
  BY DEF TurnIsFree, Turns, Kinds, Holders, Loopers
<1>6. Unanswered'
  BY DEF Unanswered
<1>7. OutcomeKept'
  BY DEF OutcomeKept, Unanswered, Holders, Verdict
<1> QED
  BY <1>1, <1>2, <1>3, <1>4, <1>5, <1>6, <1>7

LEMMA LockKeeps ==
    ASSUME Inv, NEW r \in Tasks, Lock(r)
    PROVE  Inv'
<1> USE DEF Inv, TypeOK, Lock
<1>1. TypeOK' /\ Kinds'
  BY DEF Kinds
<1>2. Holders' /\ Writers'
  BY DEF Holders, Writers
<1>3. Loopers'
  BY DEF Loopers
<1>4. Turns'
  BY DEF Turns, Kinds
<1>5. TurnIsFree'
  BY DEF TurnIsFree, Turns, Kinds, Holders, Loopers
<1>6. Unanswered'
  BY DEF Unanswered
<1>7. OutcomeKept'
  BY DEF OutcomeKept, Unanswered, Holders, Verdict
<1> QED
  BY <1>1, <1>2, <1>3, <1>4, <1>5, <1>6, <1>7

LEMMA ReadAnsweredKeeps ==
    ASSUME Inv, NEW r \in Tasks, ReadAnswered(r)
    PROVE  Inv'
<1> USE DEF Inv, TypeOK, ReadAnswered
<1>1. TypeOK' /\ Kinds'
  BY DEF Kinds
<1>2. Holders' /\ Writers'
  BY DEF Holders, Writers
<1>3. Loopers'
  BY DEF Loopers
<1>4. Turns'
  BY DEF Turns, Kinds
<1>5. TurnIsFree'
  BY DEF TurnIsFree, Turns, Kinds, Holders, Loopers
<1>6. Unanswered'
  BY DEF Unanswered
<1>7. OutcomeKept'
  BY DEF OutcomeKept, Unanswered, Holders, Verdict
<1> QED
  BY <1>1, <1>2, <1>3, <1>4, <1>5, <1>6, <1>7

LEMMA StoreKeeps ==
    ASSUME Inv, NEW r \in Tasks, Store(r)
    PROVE  Inv'
<1> USE DEF Inv, TypeOK, Store
<1>1. TypeOK' /\ Kinds'
  BY DEF Kinds
<1>2. Holders' /\ Writers'
  BY DEF Holders, Writers
<1>3. Loopers'
  BY DEF Loopers
<1>4. Turns'
  BY DEF Turns, Kinds
<1>5. TurnIsFree'
  BY DEF TurnIsFree, Turns, Kinds, Holders, Loopers
<1>6. Unanswered'
  BY DEF Unanswered
<1>7. OutcomeKept'
  BY DEF OutcomeKept, Unanswered, Holders, Verdict
<1> QED
  BY <1>1, <1>2, <1>3, <1>4, <1>5, <1>6, <1>7

LEMMA ReopenKeeps ==
    ASSUME Inv, NEW r \in Tasks, Reopen(r)
    PROVE  Inv'
<1> USE DEF Inv, TypeOK, Reopen
<1>1. TypeOK' /\ Kinds'
  BY DEF Kinds
<1>2. Holders' /\ Writers'
  BY DEF Holders, Writers
<1>3. Loopers'
  BY DEF Loopers
<1>4. Turns'
  BY DEF Turns, Kinds
<1>5. TurnIsFree'
  BY DEF TurnIsFree, Turns, Kinds, Holders, Loopers
<1>6. Unanswered'
  BY DEF Unanswered
<1>7. OutcomeKept'
  BY DEF OutcomeKept, Unanswered, Holders, Verdict
<1> QED
  BY <1>1, <1>2, <1>3, <1>4, <1>5, <1>6, <1>7

LEMMA PutAnsweredKeeps ==
    ASSUME Inv, NEW r \in Tasks, PutAnswered(r)
    PROVE  Inv'
<1> USE DEF Inv, TypeOK, PutAnswered
<1>1. TypeOK' /\ Kinds'
  BY DEF Kinds
<1>2. Holders' /\ Writers'
  BY DEF Holders, Writers
<1>3. Loopers'
  BY DEF Loopers
<1>4. Turns'
  BY DEF Turns, Kinds
<1>5. TurnIsFree'
  BY DEF TurnIsFree, Turns, Kinds, Holders, Loopers
<1>6. Unanswered'
  BY DEF Unanswered
<1>7. OutcomeKept'
  BY DEF OutcomeKept, Unanswered, Holders, Verdict
<1> QED
  BY <1>1, <1>2, <1>3, <1>4, <1>5, <1>6, <1>7

LEMMA RecordKeeps ==
    ASSUME Inv, NEW r \in Tasks, Record(r)
    PROVE  Inv'
<1> USE DEF Inv, TypeOK, Record
<1>1. TypeOK' /\ Kinds'
  BY DEF Kinds, Verdict
<1>2. Holders' /\ Writers'
  BY DEF Holders, Writers
<1>3. Loopers'
  BY DEF Loopers
<1>4. Turns'
  BY DEF Turns, Kinds
<1>5. TurnIsFree'
  BY DEF TurnIsFree, Turns, Kinds, Holders, Loopers
<1>6. Unanswered'
  BY DEF Unanswered
<1>7. OutcomeKept'
  BY DEF OutcomeKept, Unanswered, Holders, Verdict
<1> QED
  BY <1>1, <1>2, <1>3, <1>4, <1>5, <1>6, <1>7

LEMMA ReloadKeeps ==
    ASSUME Inv, NEW r \in Tasks, Reload(r)
    PROVE  Inv'
<1> USE DEF Inv, TypeOK, Reload
<1>1. TypeOK' /\ Kinds'
  BY DEF Kinds
<1>2. Holders' /\ Writers'
  BY DEF Holders, Writers
<1>3. Loopers'
  BY DEF Loopers
<1>4. Turns'
  BY DEF Turns, Kinds
<1>5. TurnIsFree'
  BY DEF TurnIsFree, Turns, Kinds, Holders, Loopers
<1>6. Unanswered'
  BY DEF Unanswered
<1>7. OutcomeKept'
  BY DEF OutcomeKept, Unanswered, Holders, Verdict
<1> QED
  BY <1>1, <1>2, <1>3, <1>4, <1>5, <1>6, <1>7

LEMMA BusyKeeps ==
    ASSUME Inv, NEW r \in Tasks, Busy(r)
    PROVE  Inv'
<1> USE DEF Inv, TypeOK, Busy
<1>1. TypeOK' /\ Kinds'
  BY DEF Kinds
<1>2. Holders' /\ Writers'
  BY DEF Holders, Writers
<1>3. Loopers'
  BY DEF Loopers
<1>4. Turns'
  BY DEF Turns, Kinds
<1>5. TurnIsFree'
  BY DEF TurnIsFree, Turns, Kinds, Holders, Loopers
<1>6. Unanswered'
  BY DEF Unanswered
<1>7. OutcomeKept'
  BY DEF OutcomeKept, Unanswered, Holders, Verdict
<1> QED
  BY <1>1, <1>2, <1>3, <1>4, <1>5, <1>6, <1>7

LEMMA NextInv == Inv /\ [Next]_vars => Inv'
<1> SUFFICES ASSUME Inv, [Next]_vars PROVE Inv'
  OBVIOUS
<1>1. ASSUME NEW r \in Tasks, Arrive(r) PROVE Inv'
  BY <1>1, ArriveKeeps
<1>2. ASSUME NEW r \in Tasks, Step(r) PROVE Inv'
  BY <1>2, LoadUserKeeps, CloseKeeps, WakeKeeps, SelectKeeps, EnterKeeps, LockKeeps,
     ReadAnsweredKeeps, StoreKeeps, ReopenKeeps, PutAnsweredKeeps, RecordKeeps,
     ReloadKeeps, BusyKeeps DEF Step
<1>3. CASE UNCHANGED vars
  BY <1>3 DEF vars, Inv, TypeOK, Kinds, Holders, Writers, Loopers, Turns, TurnIsFree,
     Unanswered, OutcomeKept
<1> QED
  BY <1>1, <1>2, <1>3 DEF Next

THEOREM InvHolds == Spec => []Inv
<1>1. Init => Inv
  BY InitInv
<1>2. Inv /\ [Next]_vars => Inv'
  BY NextInv
<1> QED
  BY <1>1, <1>2, PTL DEF Spec

\* Type correctness.
THEOREM TypeCorrect == Spec => []TypeOK
<1>1. Inv => TypeOK
  BY DEF Inv
<1> QED
  BY <1>1, InvHolds, PTL

\* BEGIN IMMEDIATE serializes: no two tasks await UNAS at once, because each
\* holds the only write lock there (db.py:41-44).
THEOREM OneTaskAtUnas == Spec => []OneAtUnas
<1>1. Inv => OneAtUnas
  BY DEF Inv, Holders, OneAtUnas
<1> QED
  BY <1>1, InvHolds, PTL

\* What UNAS answered to a write is in the table, however busy the database is
\* (service.py:228-244).
THEOREM OutcomeAlwaysKept == Spec => []OutcomeKept
<1>1. Inv => OutcomeKept
  BY DEF Inv
<1> QED
  BY <1>1, InvHolds, PTL

\* Nobody sits on the database waiting for a customer's lock (service.py:283-284).
THEOREM TurnAlwaysFree == Spec => []TurnIsFree
<1>1. Inv => TurnIsFree
  BY DEF Inv
<1> QED
  BY <1>1, InvHolds, PTL

\* A request that ended keeps neither lock and not the loop (deps.py:13-18).
THEOREM NothingEverKept == Spec => []NothingKept
<1>1. ASSUME Inv, NEW r \in Requests, pc[r] = "done" PROVE writer # r /\ loop # r
  BY <1>1 DEF Inv, Writers, Loopers
<1>2. ASSUME Inv, NEW r \in Requests, pc[r] = "done", NEW c \in Customers, turn[c] = r
      PROVE FALSE
  BY <1>2 DEF Inv, TypeOK, Turns
<1>3. Inv => NothingKept
  BY <1>1, <1>2 DEF NothingKept
<1> QED
  BY <1>3, InvHolds, PTL

\* Hence no lock is in the way of a request (service.py:283-284, deps.py:13-18).
THEOREM LocksAlwaysReturned == Spec => []LocksReturned
<1>1. TurnIsFree /\ NothingKept => LocksReturned
  BY DEF LocksReturned
<1> QED
  BY <1>1, TurnAlwaysFree, NothingEverKept, PTL
===========================================================================
