----------------------------- MODULE RateLimit -----------------------------
(* SlidingWindowRateLimiter.check: a deque of the times of admitted hits for *)
(* every (bucket, address).  The limiters of scans and webhooks are called   *)
(* on the event loop, where one check runs at a time; those of the login and *)
(* of the bootstrap by threads, whose statements interleave on one deque.    *)
EXTENDS Integers, Sequences, FiniteSets

CONSTANTS
    Keys,     \* (bucket, address) pairs
    Callers,  \* the event loop, or a thread, checking a key
    Of,       \* whose key a caller checks
    Max,      \* max_requests
    Window,   \* window_seconds
    MaxTime,  \* bound: time.monotonic() stops here
    MaxHits   \* bound: hits admitted per key

ASSUME LimiterAssumption ==
    /\ IsFiniteSet(Callers)
    /\ Of \in [Callers -> Keys]
    /\ Max \in Nat \ {0}
    /\ Window \in Nat
    /\ MaxTime \in Nat
    /\ MaxHits \in Nat

VARIABLES
    clock,
    hits,   \* times of the hits admitted to a key, in the order appended
    head,   \* the deque is what is left of hits from here
    at,     \* a caller's next statement
    now     \* the time a caller has read

vars == <<clock, hits, head, at, now>>

Stages == {"idle", "test", "first", "pop", "count", "append"}

TypeOK ==
    /\ clock \in Nat
    /\ hits \in [Keys -> Seq(Nat)]
    /\ head \in [Keys -> Nat \ {0}]
    /\ \A k \in Keys : head[k] <= Len(hits[k]) + 1
    /\ at \in [Callers -> Stages]
    /\ now \in [Callers -> Nat]
    /\ \A t \in Callers : now[t] <= clock

Init ==
    /\ clock = 0
    /\ hits = [k \in Keys |-> << >>]
    /\ head = [k \in Keys |-> 1]
    /\ at = [t \in Callers |-> "idle"]
    /\ now = [t \in Callers |-> 0]

InDeque(k) == Len(hits[k]) - head[k] + 1

Goto(t, stage) == at' = [at EXCEPT ![t] = stage]

\* now = time.monotonic(); the deque of the key.
Check(t) ==
    /\ at[t] = "idle"
    /\ now' = [now EXCEPT ![t] = clock]
    /\ Goto(t, "test")
    /\ UNCHANGED <<clock, hits, head>>

\* while window ...
Test(t) ==
    /\ at[t] = "test"
    /\ Goto(t, IF InDeque(Of[t]) > 0 THEN "first" ELSE "count")
    /\ UNCHANGED <<clock, hits, head, now>>

\* Mutant of Expired: the window's edge is out.
ExpiredAtEdge(t, stamp) == now[t] - stamp >= Window

Expired(t, stamp) == now[t] - stamp > Window

\* ... and now - window[0] > window_seconds: another thread may have emptied
\* the deque since the test, which raises IndexError.
First(t) ==
    /\ at[t] = "first"
    /\ Goto(t, IF InDeque(Of[t]) = 0 THEN "idle"
               ELSE IF Expired(t, hits[Of[t]][head[Of[t]]]) THEN "pop" ELSE "count")
    /\ UNCHANGED <<clock, hits, head, now>>

\* Mutant of PopLeft: what another thread emptied is popped all the same.
PopAnyway(t) ==
    /\ at[t] = "pop"
    /\ Goto(t, "test") /\ head' = [head EXCEPT ![Of[t]] = @ + 1]
    /\ UNCHANGED <<clock, hits, now>>

\* window.popleft(): whatever is first by now, or IndexError.
PopLeft(t) ==
    /\ at[t] = "pop"
    /\ IF InDeque(Of[t]) = 0
       THEN Goto(t, "idle") /\ UNCHANGED head
       ELSE Goto(t, "test") /\ head' = [head EXCEPT ![Of[t]] = @ + 1]
    /\ UNCHANGED <<clock, hits, now>>

\* Mutants of Count: hits that have expired count; only a deque of exactly the
\* limit is full, which one caller alone would not notice.
CountAll(t) ==
    /\ at[t] = "count"
    /\ Goto(t, IF Len(hits[Of[t]]) >= Max THEN "idle" ELSE "append")
    /\ UNCHANGED <<clock, hits, head, now>>

CountEqual(t) ==
    /\ at[t] = "count"
    /\ Goto(t, IF InDeque(Of[t]) = Max THEN "idle" ELSE "append")
    /\ UNCHANGED <<clock, hits, head, now>>

\* len(window) >= max_requests: HTTP 429.
Count(t) ==
    /\ at[t] = "count"
    /\ Goto(t, IF InDeque(Of[t]) >= Max THEN "idle" ELSE "append")
    /\ UNCHANGED <<clock, hits, head, now>>

Admit(t) ==
    /\ at[t] = "append"
    /\ Len(hits[Of[t]]) < MaxHits
    /\ hits' = [hits EXCEPT ![Of[t]] = Append(@, now[t])]
    /\ Goto(t, "idle")
    /\ UNCHANGED <<clock, head, now>>

Tick ==
    /\ clock < MaxTime
    /\ clock' = clock + 1
    /\ UNCHANGED <<hits, head, at, now>>

Next == Tick \/ \E t \in Callers :
            Check(t) \/ Test(t) \/ First(t) \/ PopLeft(t) \/ Count(t) \/ Admit(t)

Spec == Init /\ [][Next]_vars

---------------------------------------------------------------------------
CallersOf(k) == {t \in Callers : Of[t] = k}

\* The keys checked on the event loop.
Alone(k) == \A s, t \in CallersOf(k) : s = t

\* On the loop the limit is exact: more than Max admitted hits in a row always
\* span more than a window (rate_limit.py:24-28).
AtMostMax ==
    \A k \in Keys : Alone(k) =>
        \A i \in 1 .. Len(hits[k]) - Max : hits[k][i + Max] - hits[k][i] > Window

\* ... and it refuses nobody too early: at a refusal the last Max admitted hits
\* are all within the window, its edge included.
RefusedForCause ==
    [][\A t \in Callers :
          Alone(Of[t]) /\ at[t] = "count" /\ at'[t] = "idle" =>
              LET h == hits[Of[t]] IN
              Len(h) >= Max /\ now[t] - h[Len(h) - Max + 1] <= Window]_vars

\* Threads between len(window) and append() have passed the same test: a deque
\* exceeds the limit by at most the other threads (rate_limit.py:26-28).
Overshoot ==
    \A k \in Keys : InDeque(k) <= Max + Cardinality(CallersOf(k)) - 1

\* ... and as long as nothing has left the window, so does what is admitted:
\* nobody pops a hit that has not expired for somebody.
BurstBounded ==
    /\ Overshoot
    /\ \A k \in Keys :
          (\A i \in DOMAIN hits[k] : clock - hits[k][i] <= Window)
              => Len(hits[k]) <= Max + Cardinality(CallersOf(k)) - 1
=============================================================================
