-------------------------- MODULE RateLimitProofs --------------------------
(* The limiter's bounds, for every number of callers, limit and window.      *)
EXTENDS RateLimit, FiniteSetTheorems, TLAPS

\* Checks that have passed the test of the length and not appended yet.
Passed(k) == {t \in CallersOf(k) : at[t] = "append"}

Room == \A k \in Keys :
    InDeque(k) + Cardinality(Passed(k)) <= Max + Cardinality(CallersOf(k)) - 1

\* Nothing is popped before something has expired.
Popping == \A k \in Keys :
    head[k] > 1 \/ (\E t \in CallersOf(k) : at[t] = "pop")
        => \E i \in DOMAIN hits[k] : clock - hits[k][i] > Window

\* A caller that has its key to itself finds the deque as it left it: what was
\* popped has expired, what is left is in order, and a test made is still true.
Gone == \A t \in Callers : Alone(Of[t]) =>
    \A i \in 1 .. head[Of[t]] - 1 : now[t] - hits[Of[t]][i] > Window
Sorted == \A t \in Callers : Alone(Of[t]) =>
    \A i, j \in DOMAIN hits[Of[t]] :
        i <= j => hits[Of[t]][i] <= hits[Of[t]][j] /\ hits[Of[t]][j] <= now[t]
Tested == \A t \in Callers : Alone(Of[t]) =>
    /\ at[t] \in {"first", "pop"} => InDeque(Of[t]) > 0
    /\ at[t] = "pop" => Expired(t, hits[Of[t]][head[Of[t]]])
    /\ at[t] = "count" =>
           InDeque(Of[t]) = 0 \/ ~Expired(t, hits[Of[t]][head[Of[t]]])
    /\ at[t] = "append" => InDeque(Of[t]) < Max

Exact == Gone /\ Sorted /\ Tested /\ AtMostMax

Inv == TypeOK /\ Room /\ Popping /\ Exact

USE LimiterAssumption DEF Goto, InDeque, CallersOf, Stages

LEMMA Stamps ==
    ASSUME TypeOK, NEW k \in Keys
    PROVE  /\ Len(hits[k]) \in Nat /\ DOMAIN hits[k] = 1 .. Len(hits[k])
           /\ head[k] \in Nat \ {0} /\ head[k] <= Len(hits[k]) + 1
           /\ \A i \in 1 .. Len(hits[k]) : hits[k][i] \in Nat
BY DEF TypeOK

LEMMA Own ==
    ASSUME TypeOK, NEW t \in Callers
    PROVE  /\ Of[t] \in Keys
           /\ Len(hits[Of[t]]) \in Nat /\ DOMAIN hits[Of[t]] = 1 .. Len(hits[Of[t]])
           /\ head[Of[t]] \in Nat \ {0} /\ head[Of[t]] <= Len(hits[Of[t]]) + 1
           /\ \A i \in 1 .. Len(hits[Of[t]]) : hits[Of[t]][i] \in Nat
<1>1. Of[t] \in Keys
  OBVIOUS
<1> QED
  BY <1>1, Stamps

LEMMA InitInv == Init => Inv
<1> SUFFICES ASSUME Init PROVE Inv
  OBVIOUS
<1>1. TypeOK
  BY DEF Init, TypeOK
<1>2. ASSUME NEW k \in Keys
      PROVE  InDeque(k) + Cardinality(Passed(k)) <= Max + Cardinality(CallersOf(k)) - 1
  <2>1. Passed(k) = {}
    BY DEF Init, Passed
  <2>2. Cardinality(CallersOf(k)) \in Nat
    BY FS_Subset, FS_CardinalityType
  <2> QED
    BY <2>1, <2>2, FS_EmptySet DEF Init
<1>3. Popping /\ Exact
  BY DEF Init, Popping, Exact, Gone, Sorted, Tested, AtMostMax
<1> QED
  BY <1>1, <1>2, <1>3 DEF Inv, Room

LEMMA CheckKeeps ==
    ASSUME Inv, NEW t \in Callers, Check(t)
    PROVE  TypeOK' /\ Popping' /\ Exact'
<1> USE DEF Inv, Check
<1>1. TypeOK'
  BY DEF TypeOK
<1>2. Popping'
  BY DEF TypeOK, Popping, Expired
<1>3. Gone'
  <2> SUFFICES ASSUME NEW s \in Callers, Alone(Of[s]), NEW i \in 1 .. head[Of[s]] - 1
               PROVE  now'[s] - hits[Of[s]][i] > Window
    BY DEF TypeOK, Gone
  <2>1. now[s] - hits[Of[s]][i] > Window
    BY DEF TypeOK, Exact, Gone
  <2>2. now'[s] >= now[s] /\ now'[s] \in Nat /\ now[s] \in Nat
    BY DEF TypeOK
  <2>3. hits[Of[s]][i] \in Nat
    <3>1. /\ Len(hits[Of[s]]) \in Nat /\ head[Of[s]] \in Nat \ {0}
          /\ head[Of[s]] <= Len(hits[Of[s]]) + 1
          /\ \A j \in 1 .. Len(hits[Of[s]]) : hits[Of[s]][j] \in Nat
      BY Own
    <3>2. i \in 1 .. Len(hits[Of[s]])
      BY <3>1
    <3> QED
      BY <3>1, <3>2
  <2>4. ASSUME NEW a \in Nat, NEW b \in Nat, NEW h \in Nat, b >= a, a - h > Window
        PROVE  b - h > Window
    BY <2>4
  <2> QED
    BY <2>1, <2>2, <2>3, <2>4
<1>4. Sorted'
  <2> SUFFICES ASSUME NEW s \in Callers, Alone(Of[s]), NEW i \in DOMAIN hits[Of[s]],
                      NEW j \in DOMAIN hits[Of[s]], i <= j
               PROVE  hits[Of[s]][i] <= hits[Of[s]][j] /\ hits[Of[s]][j] <= now'[s]
    BY DEF TypeOK, Sorted
  <2>1. hits[Of[s]][i] <= hits[Of[s]][j] /\ hits[Of[s]][j] <= now[s]
    BY DEF TypeOK, Exact, Sorted
  <2>2. now'[s] >= now[s] /\ now'[s] \in Nat /\ now[s] \in Nat
    BY DEF TypeOK
  <2>3. hits[Of[s]][j] \in Nat
    BY Own
  <2> QED
    BY <2>1, <2>2, <2>3
<1>5. Tested'
  BY DEF TypeOK, Exact, Tested, Alone, Expired
<1>6. AtMostMax'
  BY DEF TypeOK, Exact, AtMostMax, Gone, Tested, Alone
<1> QED
  BY <1>1, <1>2, <1>3, <1>4, <1>5, <1>6 DEF Exact

LEMMA TestKeeps ==
    ASSUME Inv, NEW t \in Callers, Test(t)
    PROVE  TypeOK' /\ Popping' /\ Exact'
<1> USE DEF Inv, Test
<1>1. TypeOK'
  BY DEF TypeOK
<1>2. Popping'
  BY DEF TypeOK, Popping, Expired
<1>3. Gone'
  BY DEF TypeOK, Exact, Gone, Tested, Alone, Expired
<1>4. Sorted'
  BY DEF TypeOK, Exact, Sorted, Alone
<1>5. Tested'
  BY DEF TypeOK, Exact, Tested, Alone, Expired
<1>6. AtMostMax'
  BY DEF TypeOK, Exact, AtMostMax, Gone, Tested, Alone
<1> QED
  BY <1>1, <1>2, <1>3, <1>4, <1>5, <1>6 DEF Exact

LEMMA FirstKeeps ==
    ASSUME Inv, NEW t \in Callers, First(t)
    PROVE  TypeOK' /\ Popping' /\ Exact'
<1> USE DEF Inv, First
<1>1. TypeOK'
  BY DEF TypeOK
<1>2. Popping'
  <2> SUFFICES ASSUME NEW k \in Keys,
                      head[k] > 1 \/ \E s \in CallersOf(k) : at'[s] = "pop"
               PROVE  \E i \in DOMAIN hits[k] : clock - hits[k][i] > Window
    BY DEF Popping
  <2>1. CASE head[k] > 1 \/ \E s \in CallersOf(k) : at[s] = "pop"
    BY <2>1 DEF Popping
  <2>2. CASE k = Of[t] /\ at'[t] = "pop" /\ at[t] = "first"
    <3>1. InDeque(k) # 0 /\ now[t] - hits[k][head[k]] > Window
      BY <2>2 DEF Expired, TypeOK
    <3>2. head[k] \in DOMAIN hits[k] /\ hits[k][head[k]] \in Nat
      <4>1. /\ Len(hits[k]) \in Nat /\ DOMAIN hits[k] = 1 .. Len(hits[k])
            /\ head[k] \in Nat \ {0} /\ head[k] <= Len(hits[k]) + 1
            /\ \A i \in 1 .. Len(hits[k]) : hits[k][i] \in Nat
        BY Stamps
      <4>2. head[k] \in 1 .. Len(hits[k])
        BY <3>1, <4>1
      <4> QED
        BY <4>1, <4>2
    <3>3. now[t] \in Nat /\ clock \in Nat /\ now[t] <= clock
      BY DEF TypeOK
    <3> QED
      BY <3>1, <3>2, <3>3
  <2> QED
    BY <2>1, <2>2 DEF TypeOK
<1>3. Gone'
  BY DEF TypeOK, Exact, Gone, Tested, Alone, Expired
<1>4. Sorted'
  BY DEF TypeOK, Exact, Sorted, Alone
<1>5. Tested'
  BY DEF TypeOK, Exact, Tested, Alone, Expired
<1>6. AtMostMax'
  BY DEF TypeOK, Exact, AtMostMax, Gone, Tested, Alone
<1> QED
  BY <1>1, <1>2, <1>3, <1>4, <1>5, <1>6 DEF Exact

LEMMA PopLeftKeeps ==
    ASSUME Inv, NEW t \in Callers, PopLeft(t)
    PROVE  TypeOK' /\ Popping' /\ Exact'
<1> USE DEF Inv, PopLeft
<1>1. TypeOK'
  <2>1. CASE InDeque(Of[t]) = 0
    BY <2>1 DEF TypeOK
  <2>2. CASE InDeque(Of[t]) # 0
    <3>1. /\ Of[t] \in Keys /\ head[Of[t]] + 1 \in Nat \ {0}
          /\ head[Of[t]] + 1 <= Len(hits[Of[t]]) + 1
      BY <2>2, Own
    <3>2. UNCHANGED <<clock, hits, now>> /\ at' = [at EXCEPT ![t] = "test"]
          /\ head' = [head EXCEPT ![Of[t]] = @ + 1]
      BY <2>2
    <3>3. head' \in [Keys -> Nat \ {0}] /\ at' \in [Callers -> Stages]
      BY <3>1, <3>2 DEF TypeOK
    <3>4. \A k \in Keys : head'[k] <= Len(hits[k]) + 1
      BY <3>1, <3>2 DEF TypeOK
    <3> QED
      BY <3>2, <3>3, <3>4 DEF TypeOK
  <2> QED
    BY <2>1, <2>2 DEF TypeOK
<1>2. Popping'
  BY DEF TypeOK, Popping, Expired
<1>3. Gone'
  <2> SUFFICES ASSUME NEW s \in Callers, Alone(Of[s]), NEW i \in 1 .. head'[Of[s]] - 1
               PROVE  now[s] - hits[Of[s]][i] > Window
    BY DEF TypeOK, Gone
  <2>1. /\ head[Of[s]] \in Nat /\ i \in Nat \ {0} /\ i < head'[Of[s]]
        /\ \/ head'[Of[s]] = head[Of[s]]
           \/ Of[s] = Of[t] /\ head'[Of[s]] = head[Of[s]] + 1
    <3>1. Of[s] \in Keys /\ head[Of[s]] \in Nat
      BY Own
    <3>2. \/ head'[Of[s]] = head[Of[s]]
          \/ Of[s] = Of[t] /\ head'[Of[s]] = head[Of[s]] + 1
      <4>1. UNCHANGED head \/ head' = [head EXCEPT ![Of[t]] = head[Of[t]] + 1]
        OBVIOUS
      <4>2. head \in [Keys -> Nat \ {0}]
        BY DEF TypeOK
      <4> HIDE DEF Inv, PopLeft
      <4> QED
        BY <3>1, <4>1, <4>2
    <3> QED
      BY <3>1, <3>2
  <2>2. CASE i < head[Of[s]]
    <3>1. i \in 1 .. head[Of[s]] - 1
      BY <2>1, <2>2
    <3>2. Gone
      BY DEF Exact
    <3> QED
      BY <3>1, <3>2 DEF Gone
  <2>3. CASE i >= head[Of[s]]
    <3>1. Of[s] = Of[t] /\ i = head[Of[t]]
      BY <2>1, <2>3
    <3>2. s = t
      BY <3>1 DEF Alone
    <3>3. at[t] = "pop"
      OBVIOUS
    <3> QED
      BY <3>1, <3>2, <3>3 DEF Exact, Tested, Expired
  <2> QED
    BY <2>1, <2>2, <2>3
<1>4. Sorted'
  BY DEF TypeOK, Exact, Sorted, Alone
<1>5. Tested'
  <2> SUFFICES ASSUME NEW s \in Callers, Alone(Of[s])
               PROVE  /\ at'[s] \in {"first", "pop"} => InDeque(Of[s])' > 0
                      /\ at'[s] = "pop" => Expired(s, hits[Of[s]][head'[Of[s]]])
                      /\ at'[s] = "count" => \/ InDeque(Of[s])' = 0
                                             \/ ~Expired(s, hits[Of[s]][head'[Of[s]]])
                      /\ at'[s] = "append" => InDeque(Of[s])' < Max
    BY DEF TypeOK, Tested, Expired
  <2>1. CASE s = t
    BY <2>1 DEF TypeOK
  <2>2. CASE s # t
    <3>1. Of[s] # Of[t]
      BY <2>2 DEF Alone
    <3>2. at'[s] = at[s] /\ head'[Of[s]] = head[Of[s]]
      BY <2>2, <3>1 DEF TypeOK
    <3> QED
      BY <3>2 DEF Exact, Tested, Expired
  <2> QED
    BY <2>1, <2>2 DEF TypeOK
<1>6. AtMostMax'
  BY DEF TypeOK, Exact, AtMostMax, Gone, Tested, Alone
<1> QED
  BY <1>1, <1>2, <1>3, <1>4, <1>5, <1>6 DEF Exact

LEMMA CountKeeps ==
    ASSUME Inv, NEW t \in Callers, Count(t)
    PROVE  TypeOK' /\ Popping' /\ Exact'
<1> USE DEF Inv, Count
<1>1. TypeOK'
  BY DEF TypeOK
<1>2. Popping'
  BY DEF TypeOK, Popping, Expired
<1>3. Gone'
  BY DEF TypeOK, Exact, Gone, Tested, Alone, Expired
<1>4. Sorted'
  BY DEF TypeOK, Exact, Sorted, Alone
<1>5. Tested'
  BY DEF TypeOK, Exact, Tested, Alone, Expired
<1>6. AtMostMax'
  BY DEF TypeOK, Exact, AtMostMax, Gone, Tested, Alone
<1> QED
  BY <1>1, <1>2, <1>3, <1>4, <1>5, <1>6 DEF Exact

LEMMA Appended ==
    ASSUME TypeOK, NEW t \in Callers, Admit(t), NEW k \in Keys
    PROVE  /\ k # Of[t] => hits'[k] = hits[k]
           /\ k = Of[t] => /\ Len(hits'[k]) = Len(hits[k]) + 1
                           /\ DOMAIN hits'[k] = 1 .. Len(hits[k]) + 1
                           /\ \A i \in 1 .. Len(hits[k]) : hits'[k][i] = hits[k][i]
                           /\ hits'[k][Len(hits[k]) + 1] = now[t]
BY Stamps DEF TypeOK, Admit

LEMMA AdmitKeeps ==
    ASSUME Inv, NEW t \in Callers, Admit(t)
    PROVE  TypeOK' /\ Popping' /\ Exact'
<1> USE DEF Inv
<1>1. TypeOK'
  BY DEF TypeOK, Admit
<1>2. Popping'
  <2> SUFFICES ASSUME NEW k \in Keys,
                      head[k] > 1 \/ \E s \in CallersOf(k) : at'[s] = "pop"
               PROVE  \E i \in DOMAIN hits'[k] : clock - hits'[k][i] > Window
    BY DEF Popping, Admit
  <2>1. head[k] > 1 \/ \E s \in CallersOf(k) : at[s] = "pop"
    BY DEF Admit, TypeOK
  <2>2. PICK i \in DOMAIN hits[k] : clock - hits[k][i] > Window
    BY <2>1 DEF Popping
  <2>3. i \in 1 .. Len(hits[k]) /\ Len(hits[k]) \in Nat
    BY Stamps
  <2>4. i \in DOMAIN hits'[k] /\ hits'[k][i] = hits[k][i]
    <3>1. CASE k = Of[t]
      BY <3>1, <2>3, Appended
    <3>2. CASE k # Of[t]
      BY <3>2, <2>2, Appended
    <3> QED
      BY <3>1, <3>2
  <2> QED
    BY <2>2, <2>4
<1>3. Gone'
  <2> SUFFICES ASSUME NEW s \in Callers, Alone(Of[s]), NEW i \in 1 .. head[Of[s]] - 1
               PROVE  now[s] - hits'[Of[s]][i] > Window
    BY DEF Gone, Admit
  <2>1. Of[s] \in Keys /\ i \in 1 .. Len(hits[Of[s]])
    BY Own
  <2>2. hits'[Of[s]][i] = hits[Of[s]][i]
    BY <2>1, Appended
  <2> QED
    BY <2>2 DEF Exact, Gone
<1>4. Sorted'
  <2> SUFFICES ASSUME NEW s \in Callers, Alone(Of[s])
               PROVE  \A i, j \in DOMAIN hits'[Of[s]] :
                          i <= j => hits'[Of[s]][i] <= hits'[Of[s]][j]
                                    /\ hits'[Of[s]][j] <= now[s]
    BY DEF Sorted, Alone, Admit
  <2>1. CASE Of[s] = Of[t]
    <3>1. s = t
      BY <2>1 DEF Alone
    <3> QED
      <4> DEFINE h == hits[Of[t]]
                 n == Len(h)
      <4>1. /\ Of[t] \in Keys /\ n \in Nat /\ DOMAIN h = 1 .. n
            /\ \A i \in 1 .. n : h[i] \in Nat /\ h[i] <= now[t]
            /\ now[t] \in Nat
        BY <3>1, Own DEF Exact, Sorted, TypeOK
      <4>2. /\ DOMAIN hits'[Of[t]] = 1 .. n + 1
            /\ \A i \in 1 .. n : hits'[Of[t]][i] = h[i]
            /\ hits'[Of[t]][n + 1] = now[t]
        BY <4>1, Appended
      <4>3. \A i, j \in 1 .. n : i <= j => h[i] <= h[j]
        BY <3>1, <4>1 DEF Exact, Sorted
      <4>4. ASSUME NEW i \in 1 .. n + 1, NEW j \in 1 .. n + 1, i <= j
            PROVE  hits'[Of[t]][i] <= hits'[Of[t]][j] /\ hits'[Of[t]][j] <= now[t]
        <5>1. CASE j <= n
          <6>1. i \in 1 .. n /\ j \in 1 .. n
            BY <4>1, <4>4, <5>1
          <6> QED
            BY <4>1, <4>2, <4>3, <4>4, <6>1
        <5>2. CASE j > n
          <6>1. j = n + 1 /\ (i = n + 1 \/ i \in 1 .. n)
            BY <4>1, <5>2
          <6> QED
            BY <4>1, <4>2, <6>1
        <5> QED
          BY <4>1, <5>1, <5>2
      <4> QED
        BY <3>1, <4>2, <4>4
  <2>2. CASE Of[s] # Of[t]
    BY <2>2, Appended DEF Exact, Sorted, TypeOK
  <2> QED
    BY <2>1, <2>2
<1>5. Tested'
  BY Stamps, Appended DEF Exact, Tested, Alone, Expired, TypeOK, Admit
<1>6. AtMostMax'
  <2> SUFFICES ASSUME NEW k \in Keys, Alone(k), NEW i \in 1 .. Len(hits'[k]) - Max
               PROVE  hits'[k][i + Max] - hits'[k][i] > Window
    BY DEF AtMostMax, Alone
  <2>1. CASE k # Of[t] \/ i + Max <= Len(hits[k])
    <3>1. i \in 1 .. Len(hits[k]) - Max /\ i + Max \in 1 .. Len(hits[k])
          /\ i \in 1 .. Len(hits[k])
      <4>1. Len(hits[k]) \in Nat
        BY Stamps
      <4>2. Len(hits'[k]) = Len(hits[k]) \/ i + Max <= Len(hits[k])
        BY <2>1, Appended
      <4> QED
        BY <4>1, <4>2
    <3>2. hits'[k][i + Max] = hits[k][i + Max] /\ hits'[k][i] = hits[k][i]
      BY <3>1, Appended
    <3> QED
      BY <3>1, <3>2 DEF Exact, AtMostMax
  <2>2. CASE k = Of[t] /\ i + Max > Len(hits[k])
    <3>1. i + Max = Len(hits[k]) + 1
      <4>1. Len(hits'[k]) = Len(hits[k]) + 1
        BY <2>2, Appended
      <4>2. i \in 1 .. Len(hits[k]) + 1 - Max
        BY <4>1
      <4>3. Len(hits[k]) \in Nat
        BY Stamps
      <4> QED
        BY <2>2, <4>2, <4>3
    <3>2. i < head[k]
      <4>1. InDeque(k) < Max
        BY <2>2 DEF Exact, Tested, Admit
      <4> QED
        BY <4>1, <3>1, Stamps
    <3> QED
      <4>1. i \in 1 .. head[k] - 1 /\ i \in 1 .. Len(hits[k])
        BY <3>1, <3>2, Stamps
      <4>2. hits'[k][Len(hits[k]) + 1] = now[t] /\ hits'[k][i] = hits[k][i]
        BY <2>2, <4>1, Appended
      <4> QED
        BY <2>2, <3>1, <4>1, <4>2 DEF Exact, Gone
  <2> QED
    <3>1. Len(hits[k]) \in Nat /\ i \in Nat
      BY Stamps
    <3> QED
      BY <2>1, <2>2, <3>1
<1> QED
  BY <1>1, <1>2, <1>3, <1>4, <1>5, <1>6 DEF Exact

LEMMA TickKeeps == Inv /\ Tick => TypeOK' /\ Popping' /\ Exact'
<1> SUFFICES ASSUME Inv, Tick PROVE TypeOK' /\ Popping' /\ Exact'
  OBVIOUS
<1>1. TypeOK' /\ clock' = clock + 1 /\ UNCHANGED <<hits, head, at, now>>
  BY DEF Inv, TypeOK, Tick
<1>2. ASSUME NEW k \in Keys, NEW i \in DOMAIN hits[k], clock - hits[k][i] > Window
      PROVE  clock' - hits[k][i] > Window
  BY <1>1, <1>2, Stamps DEF Inv, TypeOK
<1>3. Popping'
  BY <1>1, <1>2 DEF Inv, Popping
<1>4. Exact'
  BY <1>1 DEF Inv, Exact, Gone, Sorted, Tested, AtMostMax, Expired
<1> QED
  BY <1>1, <1>3, <1>4

\* Only an append adds to a deque, and it gives up the room it was promised.
LEMMA RoomKeeps == Inv /\ [Next]_vars => Room'
<1> SUFFICES ASSUME Inv, [Next]_vars, NEW k \in Keys
             PROVE  InDeque(k)' + Cardinality(Passed(k)')
                        <= Max + Cardinality(CallersOf(k)) - 1
  BY DEF Room
<1>1. /\ IsFiniteSet(CallersOf(k)) /\ Passed(k) \subseteq CallersOf(k)
      /\ Passed(k)' \subseteq CallersOf(k)
  BY FS_Subset DEF Passed
<1>2. /\ IsFiniteSet(Passed(k)) /\ IsFiniteSet(Passed(k)')
      /\ Cardinality(CallersOf(k)) \in Nat
      /\ Cardinality(Passed(k)) \in Nat /\ Cardinality(Passed(k)') \in Nat
      /\ Cardinality(Passed(k)') <= Cardinality(CallersOf(k))
  BY <1>1, FS_Subset, FS_CardinalityType
<1>3. InDeque(k) \in Int /\ InDeque(k) + Cardinality(Passed(k))
                            <= Max + Cardinality(CallersOf(k)) - 1
  BY Stamps DEF Inv, Room
<1>4. ASSUME Passed(k)' = Passed(k), InDeque(k)' \in Int, InDeque(k)' <= InDeque(k)
      PROVE  InDeque(k)' + Cardinality(Passed(k)') <= Max + Cardinality(CallersOf(k)) - 1
  BY <1>2, <1>3, <1>4
<1>5. CASE Tick \/ UNCHANGED vars
  BY <1>3, <1>4, <1>5 DEF Tick, vars, Passed
<1>6. ASSUME NEW t \in Callers, Check(t) \/ Test(t) \/ First(t)
      PROVE  InDeque(k)' + Cardinality(Passed(k)') <= Max + Cardinality(CallersOf(k)) - 1
  <2>1. Passed(k)' = Passed(k)
    BY <1>6 DEF Check, Test, First, Passed, Inv, TypeOK
  <2> QED
    BY <1>3, <1>4, <1>6, <2>1 DEF Check, Test, First
<1>7. ASSUME NEW t \in Callers, PopLeft(t)
      PROVE  InDeque(k)' + Cardinality(Passed(k)') <= Max + Cardinality(CallersOf(k)) - 1
  <2>1. Passed(k)' = Passed(k)
    BY <1>7 DEF PopLeft, Passed, Inv, TypeOK
  <2>2. InDeque(k)' \in Int /\ InDeque(k)' <= InDeque(k)
    <3>1. UNCHANGED hits /\ (head'[k] = head[k] \/ head'[k] = head[k] + 1)
      BY <1>7 DEF PopLeft, Inv, TypeOK
    <3> QED
      BY <3>1, Stamps DEF Inv
  <2> QED
    BY <1>4, <2>1, <2>2
<1>8. ASSUME NEW t \in Callers, Count(t)
      PROVE  InDeque(k)' + Cardinality(Passed(k)') <= Max + Cardinality(CallersOf(k)) - 1
  <2>1. InDeque(k)' = InDeque(k)
    BY <1>8 DEF Count
  <2>2. CASE Of[t] = k /\ InDeque(k) < Max
    BY <1>2, <1>3, <2>1, <2>2
  <2>3. CASE ~(Of[t] = k /\ InDeque(k) < Max)
    <3>1. Passed(k)' = Passed(k)
      BY <1>3, <1>8, <2>3 DEF Count, Passed, Inv, TypeOK
    <3> QED
      BY <1>3, <1>4, <2>1, <3>1
  <2> QED
    BY <2>2, <2>3
<1>9. ASSUME NEW t \in Callers, Admit(t)
      PROVE  InDeque(k)' + Cardinality(Passed(k)') <= Max + Cardinality(CallersOf(k)) - 1
  <2>1. CASE Of[t] = k
    <3>1. InDeque(k)' = InDeque(k) + 1
      <4>1. Len(hits'[k]) = Len(hits[k]) + 1 /\ UNCHANGED head
        BY <1>9, <2>1, Appended DEF Admit, Inv
      <4> QED
        BY <4>1, Stamps DEF Inv
    <3>2. t \in Passed(k) /\ Passed(k)' = Passed(k) \ {t}
      BY <1>9, <2>1 DEF Admit, Passed, Inv, TypeOK
    <3>3. Cardinality(Passed(k)') = Cardinality(Passed(k)) - 1
      BY <1>2, <3>2, FS_RemoveElement
    <3> QED
      BY <1>2, <1>3, <3>1, <3>3
  <2>2. CASE Of[t] # k
    <3>1. InDeque(k)' = InDeque(k)
      BY <1>9, <2>2, Appended DEF Admit, Inv
    <3>2. Passed(k)' = Passed(k)
      BY <1>9, <2>2 DEF Admit, Passed, Inv, TypeOK
    <3> QED
      BY <1>3, <1>4, <3>1, <3>2
  <2> QED
    BY <2>1, <2>2
<1> QED
  BY <1>5, <1>6, <1>7, <1>8, <1>9 DEF Next

LEMMA NextInv == Inv /\ [Next]_vars => Inv'
<1> SUFFICES ASSUME Inv, [Next]_vars PROVE Inv'
  OBVIOUS
<1>1. Room'
  BY RoomKeeps
<1>2. CASE UNCHANGED vars
  BY <1>1, <1>2 DEF vars, Inv, TypeOK, Popping, Exact, Gone, Sorted, Tested, AtMostMax,
     Expired
<1>3. CASE Tick
  BY <1>1, <1>3, TickKeeps DEF Inv
<1>4. ASSUME NEW t \in Callers,
             Check(t) \/ Test(t) \/ First(t) \/ PopLeft(t) \/ Count(t) \/ Admit(t)
      PROVE  Inv'
  BY <1>1, <1>4, CheckKeeps, TestKeeps, FirstKeeps, PopLeftKeeps, CountKeeps, AdmitKeeps
     DEF Inv
<1> QED
  BY <1>2, <1>3, <1>4 DEF Next

THEOREM InvHolds == Spec => []Inv
<1> QED
  BY InitInv, NextInv, PTL DEF Spec

\* Type correctness.
THEOREM TypeCorrect == Spec => []TypeOK
<1>1. Inv => TypeOK
  BY DEF Inv
<1> QED
  BY <1>1, InvHolds, PTL

\* On the event loop no window ever contains more than Max admitted hits
\* (rate_limit.py:24-28).
THEOREM LimitExact == Spec => []AtMostMax
<1>1. Inv => AtMostMax
  BY DEF Inv, Exact
<1> QED
  BY <1>1, InvHolds, PTL

\* Threads exceed the limit by less than their number (rate_limit.py:26-28).
THEOREM OvershootBounded == Spec => []Overshoot
<1>1. ASSUME Inv, NEW k \in Keys
      PROVE  InDeque(k) <= Max + Cardinality(CallersOf(k)) - 1
  <2>1. IsFiniteSet(CallersOf(k)) /\ IsFiniteSet(Passed(k))
    BY FS_Subset DEF Passed
  <2>2. Cardinality(CallersOf(k)) \in Nat /\ Cardinality(Passed(k)) \in Nat
    BY <2>1, FS_CardinalityType
  <2>3. InDeque(k) \in Int
    BY <1>1, Stamps DEF Inv
  <2>4. InDeque(k) + Cardinality(Passed(k)) <= Max + Cardinality(CallersOf(k)) - 1
    BY <1>1 DEF Inv, Room
  <2> QED
    BY <2>2, <2>3, <2>4
<1>2. Inv => Overshoot
  BY <1>1 DEF Overshoot
<1> QED
  BY <1>2, InvHolds, PTL

\* As long as no hit has left the window, that also bounds what a burst gets
\* (rate_limit.py:24-28).
THEOREM BurstsBounded == Spec => []BurstBounded
<1>1. ASSUME Inv, Overshoot, NEW k \in Keys,
             \A i \in DOMAIN hits[k] : clock - hits[k][i] <= Window
      PROVE  Len(hits[k]) <= Max + Cardinality(CallersOf(k)) - 1
  <2>1. ~ \E i \in DOMAIN hits[k] : clock - hits[k][i] > Window
    BY <1>1, Stamps DEF Inv, TypeOK
  <2>2. head[k] = 1
    BY <1>1, <2>1, Stamps DEF Inv, Popping
  <2> QED
    BY <1>1, <2>2, Stamps DEF Inv, Overshoot
<1>2. Inv /\ Overshoot => BurstBounded
  BY <1>1 DEF BurstBounded
<1> QED
  BY <1>2, InvHolds, OvershootBounded, PTL

\* On the event loop a refusal has its reason: Max admitted hits within the
\* window (rate_limit.py:26-27).
THEOREM RefusalsJustified == Spec => RefusedForCause
<1>1. ASSUME Inv, [Next]_vars, NEW t \in Callers, Alone(Of[t]),
             at[t] = "count", at'[t] = "idle"
      PROVE  /\ Len(hits[Of[t]]) >= Max
             /\ now[t] - hits[Of[t]][Len(hits[Of[t]]) - Max + 1] <= Window
  <2> DEFINE k == Of[t]
             h == hits[k]
             j == Len(h) - Max + 1
  <2>1. InDeque(k) >= Max
    BY <1>1 DEF Next, vars, Tick, Check, Test, First, PopLeft, Count, Admit, Inv, TypeOK
  <2>2. /\ k \in Keys /\ Len(h) \in Nat /\ DOMAIN h = 1 .. Len(h)
        /\ head[k] \in Nat \ {0} /\ \A i \in 1 .. Len(h) : h[i] \in Nat
    BY <1>1, Stamps DEF Inv
  <2>3. head[k] \in 1 .. Len(h) /\ j \in 1 .. Len(h) /\ head[k] <= j
    BY <2>1, <2>2
  <2>4. ~Expired(t, h[head[k]])
    BY <1>1, <2>1 DEF Inv, Exact, Tested
  <2>5. h[head[k]] <= h[j]
    BY <1>1, <2>2, <2>3 DEF Inv, Exact, Sorted
  <2>6. now[t] \in Nat
    BY <1>1 DEF Inv, TypeOK
  <2>7. ASSUME NEW a \in Nat, NEW b \in Nat, NEW n \in Nat, ~(n - a > Window), a <= b
        PROVE  n - b <= Window
    BY <2>7
  <2>8. now[t] - h[j] <= Window
    BY <2>2, <2>3, <2>4, <2>5, <2>6, <2>7 DEF Expired
  <2> QED
    BY <2>1, <2>2, <2>8
<1>2. Inv /\ [Next]_vars => [\A t \in Callers :
          Alone(Of[t]) /\ at[t] = "count" /\ at'[t] = "idle" =>
              LET h == hits[Of[t]] IN
              Len(h) >= Max /\ now[t] - h[Len(h) - Max + 1] <= Window]_vars
  BY <1>1
<1> QED
  BY <1>2, InvHolds, PTL DEF Spec, RefusedForCause
============================================================================
