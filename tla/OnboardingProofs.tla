-------------------------- MODULE OnboardingProofs --------------------------
(* What holds of Onboarding for every set of customers, every start, every   *)
(* page size and every bound.                                                *)
EXTENDS Onboarding, SequenceTheorems, WellFoundedInduction, TLAPS

\* What a call of issue_token_for_customer has at hand at each of its steps.
Calls == \A p \in Runners :
    /\ issue[p].at # "idle" => issue[p].who \in Customers
    /\ issue[p].at \in {"put", "find", "save"} => issue[p].token \in Token

\* The worker's call is about the oldest event of its batch.
AtTheEvent ==
    issue["worker"].at # "idle" => due # {} /\ issue["worker"].who = About[AtHand.body]

Base == TypeOK /\ Calls /\ AtTheEvent

\* The token that is about to be stored is the one the shop shows.
Shown == \A p \in Runners :
    issue[p].at \in {"find", "save"} /\ issue[p].who \notin clobbered
        => issue[p].token = param[issue[p].who]

DoneHasCard == \A p \in Runners :
    issue[p].at = "done" => cards[issue[p].who] # None

Cards == Shown /\ CardMatchesShop /\ DoneHasCard /\ ProcessedHasCard

\* Between two runs of the command nothing is left of the last one.
Rest == ~walk.on => /\ walk.offset = 0 /\ walk.page = <<>> /\ ~walk.short
                    /\ issue["backfill"].at = "idle"

\* Whom the backfill has still before it: on the page, in its hands, or on a
\* page it will ask for.
OnPage(c) == \E i \in DOMAIN walk.page : walk.page[i] = c
InHand(c) == issue["backfill"].at # "idle" /\ issue["backfill"].who = c
Ahead(c)  == ~walk.short /\ \E i \in DOMAIN shop : i > walk.offset /\ shop[i] = c
Progress == walk.on /\ ~walk.failed =>
    \A c \in walk.from : cards[c] # None \/ OnPage(c) \/ InHand(c) \/ Ahead(c)

Walked == Rest /\ Progress /\ BackfillCovers

Inv == Base /\ Cards /\ Walked

\* Abbreviations, expanded in every step.
USE OnboardingAssumption DEF Runners, Token, tables

-----------------------------------------------------------------------------
(* Sequences and sets.                                                     *)

LEMMA Least ==
    ASSUME NEW S, S \subseteq Nat, S # {}
    PROVE  Min(S) \in S /\ \A y \in S : Min(S) <= y
<1>1. PICK x \in S : \A y \in S : ~(<<y, x>> \in OpToRel(<, Nat))
  BY WFMin, NatLessThanWellFounded
<1>2. ASSUME NEW y \in S PROVE x <= y
  <2>1. SUFFICES ASSUME ~(x <= y) PROVE FALSE
    OBVIOUS
  <2>2. y < x /\ y \in Nat /\ x \in Nat
    BY <2>1
  <2>3. <<y, x>> \in OpToRel(<, Nat)
    BY <2>2 DEF OpToRel
  <2> QED
    BY <2>3, <1>1
<1> QED
  BY <1>2 DEF Min

LEMMA AtHandIsEvent ==
    ASSUME TypeOK, due # {}
    PROVE  /\ Min(due) \in DOMAIN inbox /\ Min(due) \in due
           /\ AtHand \in Event
<1>1. DOMAIN inbox = 1 .. Len(inbox) /\ due \subseteq Nat
  BY LenProperties DEF TypeOK
<1>2. Min(due) \in due /\ Min(due) \in 1 .. Len(inbox)
  BY <1>1, Least DEF TypeOK
<1>3. AtHand \in Event
  BY <1>2, ElementOfSeq DEF AtHand, TypeOK
<1> QED
  BY <1>1, <1>2, <1>3

\* One event is replaced by another about the same customer.
LEMMA EventReplaced ==
    ASSUME TypeOK, NEW m \in DOMAIN inbox, NEW e \in Event,
           inbox' = [inbox EXCEPT ![m] = e]
    PROVE  /\ inbox' \in Seq(Event) /\ DOMAIN inbox' = DOMAIN inbox
           /\ inbox'[m] = e
           /\ \A i \in DOMAIN inbox : i # m => inbox'[i] = inbox[i]
<1>1. DOMAIN inbox = 1 .. Len(inbox) /\ inbox \in Seq(Event)
  BY LenProperties DEF TypeOK
<1>2. inbox' \in Seq(Event) /\ Len(inbox') = Len(inbox)
  BY <1>1, ExceptSeq
<1>3. \A i \in 1 .. Len(inbox) : inbox'[i] = IF i = m THEN e ELSE inbox[i]
  BY <1>1, ExceptSeq
<1>4. DOMAIN inbox' = 1 .. Len(inbox')
  BY <1>2, LenProperties
<1> QED
  BY <1>1, <1>2, <1>3, <1>4
-----------------------------------------------------------------------------
(* Types, and what calls and worker have at hand: the actions of Issue.    *)

LEMMA RecordsOfCalls ==
    ASSUME NEW r \in Call, NEW t \in Token \cup {None}, NEW b \in BOOLEAN,
           NEW at \in {"idle", "read", "put", "find", "save", "done", "failed"},
           NEW c \in Customers \cup {None}, NEW n \in Nat
    PROVE  /\ NoCall \in Call
           /\ [r EXCEPT !.at = at] \in Call
           /\ [r EXCEPT !.at = at, !.token = t] \in Call
           /\ [r EXCEPT !.at = at, !.known = b] \in Call
           /\ [r EXCEPT !.at = at, !.token = None, !.known = FALSE] \in Call
           /\ [NoCall EXCEPT !.at = at, !.who = c, !.tries = n] \in Call
           /\ [NoCall EXCEPT !.at = at, !.who = c] \in Call
<1>1. NoCall \in Call
  BY DEF Call, NoCall
<1>2. [r EXCEPT !.at = at] \in Call
  BY DEF Call
<1>3. [r EXCEPT !.at = at, !.token = t] \in Call
  BY DEF Call
<1>4. [r EXCEPT !.at = at, !.known = b] \in Call
  BY DEF Call
<1>5. [r EXCEPT !.at = at, !.token = None, !.known = FALSE] \in Call
  BY DEF Call
<1>6. [NoCall EXCEPT !.at = at, !.who = c] \in Call
  BY <1>1 DEF Call
<1>7. [NoCall EXCEPT !.at = at, !.who = c, !.tries = n] \in Call
  BY <1>1 DEF Call
<1> QED
  BY <1>1, <1>2, <1>3, <1>4, <1>5, <1>6, <1>7

\* A step that changes the record of one call only.
LEMMA OneCallMoves ==
    ASSUME Base, NEW p \in Runners, NEW r \in Call,
           issue' = [issue EXCEPT ![p] = r],
           r.who = issue[p].who, issue[p].at # "idle",
           r.at \in {"put", "find", "save"} => r.token \in Token,
           UNCHANGED <<due, inbox>>
    PROVE  issue' \in [Runners -> Call] /\ Calls' /\ AtTheEvent'
<1>1. issue' \in [Runners -> Call] /\ issue'[p] = r
      /\ \A q \in Runners \ {p} : issue'[q] = issue[q]
  BY DEF Base, TypeOK
<1>2. Calls'
  BY <1>1 DEF Base, Calls
<1>3. AtTheEvent'
  BY <1>1 DEF Base, AtTheEvent, AtHand
<1> QED
  BY <1>1, <1>2, <1>3

LEMMA ReadFailsBase ==
    ASSUME Base, NEW p \in Runners, ReadFails(p)
    PROVE  Base'
<1> DEFINE r == [issue[p] EXCEPT !.at = "failed", !.token = None, !.known = FALSE]
<1>1. issue[p] \in Call /\ issue[p].at # "idle" /\ issue[p].who \in Customers
  BY DEF Base, TypeOK, Calls, ReadFails
<1>2. r \in Call
  BY <1>1, RecordsOfCalls
<1>3. r.who = issue[p].who /\ r.at = "failed"
  BY <1>1 DEF Call
<1>4. issue' = [issue EXCEPT ![p] = r] /\ UNCHANGED <<due, inbox>>
  BY <1>1 DEF ReadFails, Leave
<1> HIDE DEF r
<1>5. issue' \in [Runners -> Call] /\ Calls' /\ AtTheEvent'
  BY <1>1, <1>2, <1>3, <1>4, OneCallMoves
<1>6. TypeOK'
  BY <1>1, <1>4, <1>5 DEF Base, TypeOK, ReadFails
<1> QED
  BY <1>5, <1>6 DEF Base

LEMMA AdoptBase ==
    ASSUME Base, NEW p \in Runners, Adopt(p)
    PROVE  Base'
<1> DEFINE r == [issue[p] EXCEPT !.at = "find", !.token = param[issue[p].who]]
<1>1. issue[p] \in Call /\ issue[p].at # "idle" /\ issue[p].who \in Customers
  BY DEF Base, TypeOK, Calls, Adopt
<1>0. param[issue[p].who] \in Token
  BY <1>1 DEF Base, TypeOK, Adopt
<1>2. r \in Call
  BY <1>1, <1>0, RecordsOfCalls
<1>3. r.who = issue[p].who /\ r.at = "find" /\ r.token = param[issue[p].who]
  BY <1>0, <1>1 DEF Call
<1>4. issue' = [issue EXCEPT ![p] = r] /\ UNCHANGED <<due, inbox>>
  BY <1>0, <1>1 DEF Adopt
<1> HIDE DEF r
<1>5. issue' \in [Runners -> Call] /\ Calls' /\ AtTheEvent'
  BY <1>1, <1>0, <1>2, <1>3, <1>4, OneCallMoves
<1>6. TypeOK'
  BY <1>1, <1>4, <1>5 DEF Base, TypeOK, Adopt
<1> QED
  BY <1>5, <1>6 DEF Base

LEMMA DrawBase ==
    ASSUME Base, NEW p \in Runners, Draw(p)
    PROVE  Base'
<1>1. issue[p] \in Call /\ issue[p].at # "idle" /\ issue[p].who \in Customers
  BY DEF Base, TypeOK, Calls, Draw
<1>2. PICK t \in NewTokens :
          issue' = [issue EXCEPT ![p].at = "put", ![p].token = t]
  BY DEF Draw
<1> DEFINE r == [issue[p] EXCEPT !.at = "put", !.token = t]
<1>3. t \in Token
  BY DEF NewTokens
<1>4. r \in Call
  BY <1>1, <1>3, RecordsOfCalls
<1>5. r.who = issue[p].who /\ r.token = t
  BY <1>1 DEF Call
<1>6. issue' = [issue EXCEPT ![p] = r] /\ UNCHANGED <<due, inbox>>
  BY <1>2 DEF Draw
<1> HIDE DEF r
<1>7. issue' \in [Runners -> Call] /\ Calls' /\ AtTheEvent'
  BY <1>1, <1>3, <1>4, <1>5, <1>6, OneCallMoves
<1>8. TypeOK'
  BY <1>6, <1>7 DEF Base, TypeOK, Draw
<1> QED
  BY <1>7, <1>8 DEF Base

LEMMA PutAnsweredBase ==
    ASSUME Base, NEW p \in Runners, PutAnswered(p)
    PROVE  Base'
<1> DEFINE r == [issue[p] EXCEPT !.at = "find"]
<1>1. issue[p] \in Call /\ issue[p].at # "idle" /\ issue[p].who \in Customers
  BY DEF Base, TypeOK, Calls, PutAnswered
<1>0. issue[p].token \in Token
  BY DEF Base, Calls, PutAnswered
<1>2. r \in Call
  BY <1>1, <1>0, RecordsOfCalls
<1>3. r.who = issue[p].who /\ r.at = "find" /\ r.token = issue[p].token
  BY <1>0, <1>1 DEF Call
<1>4. issue' = [issue EXCEPT ![p] = r] /\ UNCHANGED <<due, inbox>>
  BY <1>0, <1>1 DEF PutAnswered, Go
<1> HIDE DEF r
<1>5. issue' \in [Runners -> Call] /\ Calls' /\ AtTheEvent'
  BY <1>1, <1>0, <1>2, <1>3, <1>4, OneCallMoves
<1>6. TypeOK'
  BY <1>0, <1>1, <1>4, <1>5 DEF Base, TypeOK, PutAnswered, SetParam
<1> QED
  BY <1>5, <1>6 DEF Base

LEMMA PutFailsBase ==
    ASSUME Base, NEW p \in Runners, PutFails(p)
    PROVE  Base'
<1> DEFINE r == [issue[p] EXCEPT !.at = "failed", !.token = None, !.known = FALSE]
<1>1. issue[p] \in Call /\ issue[p].at # "idle" /\ issue[p].who \in Customers
  BY DEF Base, TypeOK, Calls, PutFails
<1>0. issue[p].token \in Token
  BY DEF Base, Calls, PutFails
<1>2. r \in Call
  BY <1>1, <1>0, RecordsOfCalls
<1>3. r.who = issue[p].who /\ r.at = "failed"
  BY <1>0, <1>1 DEF Call
<1>4. issue' = [issue EXCEPT ![p] = r] /\ UNCHANGED <<due, inbox>>
  BY <1>0, <1>1 DEF PutFails, Leave
<1> HIDE DEF r
<1>5. issue' \in [Runners -> Call] /\ Calls' /\ AtTheEvent'
  BY <1>1, <1>0, <1>2, <1>3, <1>4, OneCallMoves
<1>6. TypeOK'
  BY <1>0, <1>1, <1>4, <1>5 DEF Base, TypeOK, PutFails, SetParam
<1> QED
  BY <1>5, <1>6 DEF Base

LEMMA FindCardBase ==
    ASSUME Base, NEW p \in Runners, FindCard(p)
    PROVE  Base'
<1> DEFINE r == [issue[p] EXCEPT !.at = "save", !.known = cards[issue[p].who] # None]
<1>1. issue[p] \in Call /\ issue[p].at # "idle" /\ issue[p].who \in Customers
  BY DEF Base, TypeOK, Calls, FindCard
<1>0. issue[p].token \in Token
  BY DEF Base, Calls, FindCard
<1>2. r \in Call
  BY <1>1, <1>0, RecordsOfCalls
<1>3. r.who = issue[p].who /\ r.at = "save" /\ r.token = issue[p].token
  BY <1>0, <1>1 DEF Call
<1>4. issue' = [issue EXCEPT ![p] = r] /\ UNCHANGED <<due, inbox>>
  BY <1>0, <1>1 DEF FindCard
<1> HIDE DEF r
<1>5. issue' \in [Runners -> Call] /\ Calls' /\ AtTheEvent'
  BY <1>1, <1>0, <1>2, <1>3, <1>4, OneCallMoves
<1>6. TypeOK'
  BY <1>1, <1>4, <1>5 DEF Base, TypeOK, FindCard
<1> QED
  BY <1>5, <1>6 DEF Base

LEMMA SaveConflictsBase ==
    ASSUME Base, NEW p \in Runners, SaveConflicts(p)
    PROVE  Base'
<1> DEFINE how == IF cards[issue[p].who] = None THEN "failed" ELSE "done"
           n == IF p = "worker" THEN AtHand.attempts ELSE 0
           r == [NoCall EXCEPT !.at = how, !.who = issue[p].who, !.tries = n]
<1>1. issue[p] \in Call /\ issue[p].at # "idle" /\ issue[p].who \in Customers
  BY DEF Base, TypeOK, Calls, SaveConflicts
<1>2. n \in Nat
  BY <1>1, AtHandIsEvent DEF Base, AtTheEvent, Event
<1> HIDE DEF n
<1>3. r \in Call
  <2>1. NoCall \in Call /\ how \in {"failed", "done"}
    BY DEF Call, NoCall
  <2> HIDE DEF how
  <2> QED
    BY <1>1, <1>2, <2>1 DEF Call
<1>4. r.who = issue[p].who /\ r.at \in {"failed", "done"}
  BY DEF NoCall
<1>5. issue' = [issue EXCEPT ![p] = r] /\ UNCHANGED <<due, inbox>>
  BY DEF SaveConflicts, n
<1> HIDE DEF r
<1>6. issue' \in [Runners -> Call] /\ Calls' /\ AtTheEvent'
  BY <1>1, <1>3, <1>4, <1>5, OneCallMoves
<1>7. TypeOK'
  BY <1>5, <1>6 DEF Base, TypeOK, SaveConflicts
<1> QED
  BY <1>6, <1>7 DEF Base
LEMMA SaveCardBase ==
    ASSUME Base, NEW p \in Runners, SaveCard(p)
    PROVE  Base'
<1> DEFINE r == [issue[p] EXCEPT !.at = "done", !.token = None, !.known = FALSE]
           e == [AtHand EXCEPT !.attempts = issue[p].tries]
<1>1. issue[p] \in Call /\ issue[p].at # "idle" /\ issue[p].who \in Customers
      /\ issue[p].token \in Token
  BY DEF Base, TypeOK, Calls, SaveCard
<1>2. r \in Call
  BY <1>1, RecordsOfCalls
<1>3. r.who = issue[p].who /\ r.at = "done"
  BY <1>1 DEF Call
<1>4. issue' = [issue EXCEPT ![p] = r] /\ UNCHANGED due
  BY <1>1 DEF SaveCard, Leave
<1> HIDE DEF r
<1>5. issue' \in [Runners -> Call] /\ issue'[p] = r
      /\ \A q \in Runners \ {p} : issue'[q] = issue[q]
  BY <1>2, <1>4 DEF Base, TypeOK
<1>6. Calls'
  BY <1>1, <1>3, <1>5 DEF Base, Calls
<1>7. inbox' \in Seq(Event) /\ DOMAIN inbox' = DOMAIN inbox
      /\ (due # {} => AtHand'.body = AtHand.body)
  <2>1. CASE p = "worker"
    <3>1. due # {} /\ AtHand \in Event /\ Min(due) \in DOMAIN inbox
      BY <1>1, <2>1, AtHandIsEvent DEF Base, AtTheEvent
    <3>2. e \in Event /\ e.body = AtHand.body
      BY <1>1, <3>1 DEF Event, Call
    <3>3. inbox' = [inbox EXCEPT ![Min(due)] = e]
      BY <2>1 DEF SaveCard, AtHand
    <3> HIDE DEF e
    <3>4. inbox' \in Seq(Event) /\ DOMAIN inbox' = DOMAIN inbox
          /\ inbox'[Min(due)] = e
      BY <3>1, <3>2, <3>3, EventReplaced DEF Base
    <3> QED
      BY <1>4, <3>2, <3>4 DEF AtHand
  <2>2. CASE p # "worker"
    BY <1>4, <2>2 DEF SaveCard, Base, TypeOK, AtHand
  <2> QED
    BY <2>1, <2>2
<1>8. AtTheEvent'
  BY <1>1, <1>3, <1>4, <1>5, <1>7 DEF Base, AtTheEvent
<1>9. TypeOK'
  BY <1>1, <1>4, <1>5, <1>7 DEF Base, TypeOK, SaveCard
<1> QED
  BY <1>6, <1>8, <1>9 DEF Base

-----------------------------------------------------------------------------
(* The worker.                                                             *)

\* The worker is at an event while it has a batch and makes no call.
LEMMA WorkerAtEvent ==
    ASSUME Base, Turn \/ issue["worker"].at # "idle"
    PROVE  /\ due # {} /\ Min(due) \in DOMAIN inbox /\ Min(due) \in due
           /\ AtHand \in Event /\ inbox[Min(due)] = AtHand
  BY AtHandIsEvent DEF Base, Turn, AtTheEvent, AtHand

LEMMA SelectDueBase ==
    ASSUME Base, SelectDue
    PROVE  Base'
<1>1. due' \subseteq DOMAIN inbox
  BY DEF SelectDue, Received
<1>2. issue["worker"].at = "idle"
  BY DEF SelectDue, Base, AtTheEvent
<1> QED
  BY <1>1, <1>2 DEF SelectDue, Base, TypeOK, Calls, AtTheEvent

LEMMA StillBackingOffBase ==
    ASSUME Base, StillBackingOff
    PROVE  Base'
  BY DEF StillBackingOff, Turn, Base, TypeOK, Calls, AtTheEvent

\* An event leaves the batch and no call is under way.
LEMMA EventLeaves ==
    ASSUME Base, NEW e \in Event, Turn \/ issue["worker"].at # "idle",
           inbox' = [inbox EXCEPT ![Min(due)] = e], due' = due \ {Min(due)},
           UNCHANGED issue \/ issue' = [issue EXCEPT !["worker"] = NoCall],
           Turn \/ issue' = [issue EXCEPT !["worker"] = NoCall],
           UNCHANGED <<shop, param, cards, walk, late, faults, clobbered>>
    PROVE  Base'
<1>1. Min(due) \in DOMAIN inbox
  BY WorkerAtEvent
<1>2. inbox' \in Seq(Event) /\ DOMAIN inbox' = DOMAIN inbox
  BY <1>1, EventReplaced DEF Base
<1>3. NoCall \in Call /\ NoCall.at = "idle"
  BY DEF Call, NoCall
<1>4. issue' \in [Runners -> Call] /\ issue'["worker"].at = "idle"
      /\ issue'["backfill"] = issue["backfill"]
  BY <1>3 DEF Base, TypeOK, Turn
<1>5. Calls' /\ AtTheEvent'
  BY <1>4 DEF Base, Calls, AtTheEvent
<1>6. TypeOK'
  BY <1>2, <1>4 DEF Base, TypeOK
<1> QED
  BY <1>5, <1>6 DEF Base

LEMMA SetAsideBase ==
    ASSUME Base, SetAside
    PROVE  Base'
<1> DEFINE e == [AtHand EXCEPT !.status = "needs_review",
                             !.attempts = AtHand.attempts + 1]
<1>1. AtHand \in Event /\ inbox[Min(due)] = AtHand /\ Min(due) \in DOMAIN inbox
  BY WorkerAtEvent DEF SetAside
<1>2. e \in Event
  <2>1. \A a \in Event, n \in Nat :
            [a EXCEPT !.status = "needs_review", !.attempts = n] \in Event
    BY DEF Event
  <2>2. AtHand.attempts + 1 \in Nat
    BY <1>1 DEF Event
  <2> QED
    BY <1>1, <2>1, <2>2
<1>3. inbox' = [inbox EXCEPT ![Min(due)] = e]
  BY <1>1 DEF SetAside
<1> HIDE DEF e
<1> QED
  BY <1>2, <1>3, EventLeaves DEF SetAside

LEMMA ProcessBase ==
    ASSUME Base, Process
    PROVE  Base'
<1> DEFINE r == [NoCall EXCEPT !.at = "read", !.who = About[AtHand.body],
                               !.tries = AtHand.attempts + 1]
<1>1. AtHand \in Event /\ due # {}
  BY WorkerAtEvent DEF Process
<1>2. About[AtHand.body] \in Customers /\ AtHand.attempts + 1 \in Nat
  BY <1>1 DEF Event
<1>3. r \in Call /\ r.at = "read" /\ r.who = About[AtHand.body]
  BY <1>2 DEF Call, NoCall
<1>4. issue' = [issue EXCEPT !["worker"] = r]
  BY DEF Process
<1> HIDE DEF r
<1>5. issue' \in [Runners -> Call] /\ issue'["worker"] = r
      /\ issue'["backfill"] = issue["backfill"]
  BY <1>3, <1>4 DEF Base, TypeOK
<1>6. Calls' /\ AtTheEvent'
  BY <1>1, <1>2, <1>3, <1>5 DEF Process, Base, Calls, AtTheEvent, AtHand
<1>7. TypeOK'
  BY <1>5 DEF Process, Base, TypeOK
<1> QED
  BY <1>6, <1>7 DEF Base

LEMMA CloseEventBase ==
    ASSUME Base, issue["worker"].at # "idle",
           NEW status \in {"received", "processed", "needs_review", "failed"},
           NEW attempts \in Nat, NEW ready \in BOOLEAN,
           CloseEvent(status, attempts, ready)
    PROVE  Base'
<1> DEFINE e == [body |-> AtHand.body, status |-> status, attempts |-> attempts,
                 ready |-> ready]
<1>1. AtHand.body \in Bodies
  BY WorkerAtEvent DEF Event
<1>2. e \in Event
  BY <1>1 DEF Event
<1>3. inbox' = [inbox EXCEPT ![Min(due)] = e]
  BY DEF CloseEvent
<1> HIDE DEF e
<1> QED
  BY <1>2, <1>3, EventLeaves DEF CloseEvent

LEMMA EventProcessedBase ==
    ASSUME Base, EventProcessed
    PROVE  Base'
<1>1. issue["worker"].at # "idle" /\ AtHand.attempts \in Nat
  BY WorkerAtEvent DEF EventProcessed, Event
<1> QED
  BY <1>1, CloseEventBase DEF EventProcessed

LEMMA EventFailedBase ==
    ASSUME Base, EventFailed
    PROVE  Base'
<1>1. issue["worker"].at # "idle" /\ issue["worker"].tries \in Nat
  BY DEF EventFailed, Base, TypeOK, Call
<1> QED
  BY <1>1, CloseEventBase DEF EventFailed

LEMMA BackoffOverBase ==
    ASSUME Base, NEW i \in DOMAIN inbox, BackoffOver(i)
    PROVE  Base'
<1> DEFINE e == [inbox[i] EXCEPT !.ready = TRUE]
<1>1. inbox[i] \in Event
  BY LenProperties, ElementOfSeq DEF Base, TypeOK
<1>2. e \in Event /\ e.body = inbox[i].body
  BY <1>1 DEF Event
<1>3. inbox' = [inbox EXCEPT ![i] = e]
  BY DEF BackoffOver
<1> HIDE DEF e
<1>4. inbox' \in Seq(Event) /\ DOMAIN inbox' = DOMAIN inbox
      /\ inbox'[i] = e /\ \A j \in DOMAIN inbox : j # i => inbox'[j] = inbox[j]
  BY <1>2, <1>3, EventReplaced DEF Base
<1>5. issue["worker"].at # "idle" => AtHand'.body = AtHand.body
  BY <1>2, <1>4, WorkerAtEvent DEF BackoffOver, AtHand
<1> QED
  BY <1>4, <1>5 DEF BackoffOver, Base, TypeOK, Calls, AtTheEvent
-----------------------------------------------------------------------------
(* The backfill command.                                                   *)

LEMMA RecordsOfWalks ==
    ASSUME NEW w \in Walk, NEW f \in BOOLEAN, NEW b \in BOOLEAN, NEW n \in Nat,
           NEW page \in Seq(Customers), NEW S \in SUBSET Customers
    PROVE  /\ [w EXCEPT !.on = FALSE, !.offset = 0, !.page = <<>>, !.short = FALSE,
                        !.failed = f] \in Walk
           /\ [w EXCEPT !.on = TRUE, !.failed = FALSE, !.from = S,
                        !.runs = w.runs + 1] \in Walk
           /\ [w EXCEPT !.page = page, !.offset = n, !.short = b] \in Walk
           /\ [w EXCEPT !.page = page] \in Walk
           /\ [w EXCEPT !.failed = f] \in Walk
<1>1. w.runs + 1 \in Nat
  BY DEF Walk
<1>2. \A k \in Nat : [w EXCEPT !.on = TRUE, !.failed = FALSE, !.from = S,
                              !.runs = k] \in Walk
  BY DEF Walk
<1>3. <<>> \in Seq(Customers)
  OBVIOUS
<1>4. [w EXCEPT !.on = FALSE, !.offset = 0, !.page = <<>>, !.short = FALSE,
                !.failed = f] \in Walk
  BY <1>3 DEF Walk
<1>5. [w EXCEPT !.page = page, !.offset = n, !.short = b] \in Walk
      /\ [w EXCEPT !.page = page] \in Walk /\ [w EXCEPT !.failed = f] \in Walk
  BY DEF Walk
<1> QED
  BY <1>1, <1>2, <1>4, <1>5

\* A step of the command that leaves its call alone.
LEMMA OnlyWalks ==
    ASSUME Base, walk' \in Walk,
           UNCHANGED <<shop, param, tables, issue, due, late, faults, clobbered>>
    PROVE  Base'
  BY DEF Base, TypeOK, Calls, AtTheEvent, AtHand

LEMMA EndTyped ==
    ASSUME Base, NEW f \in BOOLEAN, End(f)
    PROVE  walk' \in Walk
  BY RecordsOfWalks DEF End, Base, TypeOK

LEMMA StartBackfillBase ==
    ASSUME Base, StartBackfill
    PROVE  Base'
<1>1. Range(shop) \in SUBSET Customers
  BY LenProperties, ElementOfSeq DEF Range, Base, TypeOK
<1>2. walk' = [walk EXCEPT !.on = TRUE, !.failed = FALSE, !.from = Range(shop),
                           !.runs = walk.runs + 1]
  BY DEF StartBackfill
<1>3. walk' \in Walk
  BY <1>1, <1>2, RecordsOfWalks DEF Base, TypeOK
<1> QED
  BY <1>3, OnlyWalks DEF StartBackfill

\* The page that is asked for: what the shop has from the offset on.
NewPage == SubSeq(shop, walk.offset + 1,
                  Min({walk.offset + walk.size, Len(shop)}))

LEMMA Slice ==
    ASSUME NEW s, s \in Seq(Customers), NEW off, off \in Nat, NEW size, size \in Nat,
           NEW last, last \in Nat, last <= Len(s), last <= off + size,
           last = Len(s) \/ last = off + size,
           NEW page, page = SubSeq(s, off + 1, last)
    PROVE  /\ page \in Seq(Customers)
           /\ \A i \in DOMAIN page : off + i \in DOMAIN s
           /\ \A j \in DOMAIN s :
                 \/ j <= off
                 \/ j - off \in DOMAIN page /\ page[j - off] = s[j]
                 \/ j > off + size /\ Len(page) = size
<1>1. PICK n \in Nat : n = Len(s) /\ DOMAIN s = 1 .. n
  BY LenProperties
<1>2. /\ off \in Nat /\ size \in Nat /\ last \in Nat
      /\ last <= n /\ last <= off + size
      /\ last = n \/ last = off + size
  BY <1>1
<1>3. \A i \in off + 1 .. last : s[i] \in Customers
  <2>1. \A i \in off + 1 .. last : i \in 1 .. n
    BY <1>1, <1>2
  <2> QED
    BY <1>1, <2>1, ElementOfSeq
<1>4. /\ page \in Seq(Customers)
      /\ Len(page) = IF off + 1 <= last THEN last - (off + 1) + 1 ELSE 0
      /\ \A i \in 1 .. last - (off + 1) + 1 : page[i] = s[(off + 1) + i - 1]
  <2>1. page = SubSeq(s, off + 1, last) /\ off + 1 \in Int /\ last \in Int
    BY <1>1, <1>2
  <2>2. /\ SubSeq(s, off + 1, last) \in Seq(Customers)
        /\ Len(SubSeq(s, off + 1, last)) =
              IF off + 1 <= last THEN last - (off + 1) + 1 ELSE 0
        /\ \A i \in 1 .. last - (off + 1) + 1 :
              SubSeq(s, off + 1, last)[i] = s[(off + 1) + i - 1]
    BY ONLY <1>3, <2>1, SubSeqProperties
  <2> QED
    BY ONLY <2>1, <2>2, Zenon
<1>5. PICK m \in Nat : m = Len(page) /\ DOMAIN page = 1 .. m
  BY <1>4, LenProperties
<1>6. ASSUME NEW i \in 1 .. m
      PROVE  off + i \in 1 .. n /\ page[i] = s[off + i]
  <2>1. m = last - off /\ off < last /\ i \in 1 .. last - (off + 1) + 1
    BY ONLY <1>2, <1>4, <1>5, <1>6
  <2>2. page[i] = s[(off + 1) + i - 1] /\ (off + 1) + i - 1 = off + i
    <3>1. (off + 1) + i - 1 = off + i
      OBVIOUS
    <3> QED
      BY ONLY <1>4, <2>1, <3>1, Zenon
  <2>3. off + i \in 1 .. n
    BY ONLY <1>2, <1>6, <2>1
  <2> QED
    BY ONLY <2>2, <2>3, Zenon
<1>7. ASSUME NEW j \in 1 .. n
      PROVE  \/ j <= off
             \/ j - off \in 1 .. m /\ page[j - off] = s[j]
             \/ j > off + size /\ m = size
  <2>1. CASE off < j /\ j <= last
    <3>1. m = last - off /\ j - off \in 1 .. m /\ off + (j - off) = j
      BY ONLY <1>2, <1>4, <1>5, <1>7, <2>1
    <3> QED
      BY ONLY <1>6, <3>1, Zenon
  <2>2. CASE off < j /\ j > last
    BY ONLY <1>2, <1>4, <1>5, <1>7, <2>2
  <2>3. j <= off \/ (off < j /\ j <= last) \/ (off < j /\ j > last)
    BY <1>2, <1>7
  <2> QED
    BY ONLY <2>1, <2>2, <2>3, Zenon
<1> QED
  BY ONLY <1>1, <1>4, <1>5, <1>6, <1>7, Zenon

LEMMA PageIsSlice ==
    ASSUME Base
    PROVE  /\ NewPage \in Seq(Customers)
           /\ \A i \in DOMAIN NewPage : walk.offset + i \in DOMAIN shop
           /\ \A j \in DOMAIN shop :
                 \/ j <= walk.offset
                 \/ j - walk.offset \in DOMAIN NewPage
                    /\ NewPage[j - walk.offset] = shop[j]
                 \/ j > walk.offset + walk.size /\ Len(NewPage) = walk.size
<1>1. walk.offset \in Nat /\ walk.size \in Nat /\ shop \in Seq(Customers)
  BY DEF Base, TypeOK, Walk
<1>2. PICK off \in Nat, size \in Nat : off = walk.offset /\ size = walk.size
  BY <1>1
<1>3. Len(shop) \in Nat
  BY <1>1, LenProperties
<1>4. PICK page : page = NewPage
  OBVIOUS
<1>5. PICK last : last = Min({off + size, Len(shop)})
  OBVIOUS
<1>6. last \in {off + size, Len(shop)} /\ \A y \in {off + size, Len(shop)} : last <= y
  <2>1. {off + size, Len(shop)} \subseteq Nat /\ {off + size, Len(shop)} # {}
    BY <1>3
  <2>2. /\ Min({off + size, Len(shop)}) \in {off + size, Len(shop)}
        /\ \A y \in {off + size, Len(shop)} : Min({off + size, Len(shop)}) <= y
    BY ONLY <2>1, Least
  <2> QED
    BY ONLY <1>5, <2>2, Zenon
<1>7. /\ last \in Nat /\ last <= Len(shop) /\ last <= off + size
      /\ last = Len(shop) \/ last = off + size
  BY <1>3, <1>6
<1>8. page = SubSeq(shop, off + 1, last)
  BY <1>2, <1>5, <1>4 DEF NewPage
<1>9. /\ page \in Seq(Customers)
      /\ \A i \in DOMAIN page : off + i \in DOMAIN shop
      /\ \A j \in DOMAIN shop :
            \/ j <= off
            \/ j - off \in DOMAIN page /\ page[j - off] = shop[j]
            \/ j > off + size /\ Len(page) = size
  BY <1>1, <1>7, <1>8, Slice
<1> QED
  BY ONLY <1>2, <1>9, <1>4, Zenon

LEMMA NextPageBase ==
    ASSUME Base, NextPage
    PROVE  Base'
<1>1. walk' \in Walk
  <2>1. walk.failed \in BOOLEAN /\ walk.offset + walk.size \in Nat /\ walk \in Walk
    BY DEF Base, TypeOK, Walk
  <2>2. CASE NewPage = <<>>
    BY <2>1, <2>2, EndTyped DEF NextPage, NewPage
  <2>3. CASE NewPage # <<>>
    <3>1. NewPage \in Seq(Customers) /\ (Len(NewPage) < walk.size) \in BOOLEAN
      BY PageIsSlice
    <3>2. walk' = [walk EXCEPT !.page = NewPage,
                               !.offset = walk.offset + walk.size,
                               !.short = Len(NewPage) < walk.size]
      BY <2>3 DEF NextPage, NewPage
    <3> QED
      BY <2>1, <3>1, <3>2, RecordsOfWalks
  <2> QED
    BY <2>2, <2>3
<1> QED
  BY <1>1, OnlyWalks DEF NextPage

LEMMA PageFailsBase ==
    ASSUME Base, PageFails
    PROVE  Base'
  BY EndTyped, OnlyWalks DEF PageFails

LEMMA LastPageDoneBase ==
    ASSUME Base, LastPageDone
    PROVE  Base'
<1>1. walk.failed \in BOOLEAN
  BY DEF Base, TypeOK, Walk
<1> QED
  BY <1>1, EndTyped, OnlyWalks DEF LastPageDone

LEMMA TakeRecordBase ==
    ASSUME Base, TakeRecord
    PROVE  Base'
<1> DEFINE r == [NoCall EXCEPT !.at = "read", !.who = Head(walk.page)]
<1>1. walk.page \in Seq(Customers) /\ walk.page # <<>> /\ walk \in Walk
  BY DEF TakeRecord, Base, TypeOK, Walk
<1>2. Head(walk.page) \in Customers /\ Tail(walk.page) \in Seq(Customers)
  BY <1>1, HeadTailProperties
<1>3. r \in Call /\ r.who = Head(walk.page) /\ r.at = "read"
  BY <1>2 DEF Call, NoCall
<1>4. issue' = [issue EXCEPT !["backfill"] = r]
  BY DEF TakeRecord
<1>5. walk' \in Walk
  BY <1>1, <1>2, RecordsOfWalks DEF TakeRecord
<1> HIDE DEF r
<1>6. issue' \in [Runners -> Call] /\ issue'["backfill"] = r
      /\ issue'["worker"] = issue["worker"]
  BY <1>3, <1>4 DEF Base, TypeOK
<1>7. Calls' /\ AtTheEvent'
  BY <1>2, <1>3, <1>6 DEF TakeRecord, Base, Calls, AtTheEvent, AtHand
<1>8. TypeOK'
  BY <1>5, <1>6 DEF TakeRecord, Base, TypeOK
<1> QED
  BY <1>7, <1>8 DEF Base

\* A call is over or never was.
LEMMA CallGone ==
    ASSUME Base, NEW p \in Runners, issue' = [issue EXCEPT ![p] = NoCall]
    PROVE  /\ issue' \in [Runners -> Call] /\ issue'[p].at = "idle" /\ Calls'
           /\ \A q \in Runners \ {p} : issue'[q] = issue[q]
<1>1. NoCall \in Call /\ NoCall.at = "idle"
  BY DEF Call, NoCall
<1> QED
  BY <1>1 DEF Base, TypeOK, Calls

LEMMA RecordDoneBase ==
    ASSUME Base, RecordDone
    PROVE  Base'
<1> DEFINE f == walk.failed \/ issue["backfill"].at = "failed"
<1>1. /\ walk' = [walk EXCEPT !.failed = f] /\ f \in BOOLEAN /\ walk \in Walk
      /\ walk.page \in Seq(Customers) /\ walk.offset \in Nat
  BY DEF RecordDone, Base, TypeOK, Walk
<1> HIDE DEF f
<1>2. walk' \in Walk
  BY <1>1, RecordsOfWalks
<1>3. issue' \in [Runners -> Call] /\ Calls' /\ issue'["worker"] = issue["worker"]
  BY CallGone DEF RecordDone
<1> QED
  BY <1>2, <1>3 DEF RecordDone, Base, TypeOK, AtTheEvent, AtHand

-----------------------------------------------------------------------------
(* The shop, late writes, crashes.                                         *)

LEMMA RegisterBase ==
    ASSUME Base, NEW c \in Customers, Register(c)
    PROVE  Base'
<1>1. shop' \in Seq(Customers)
  BY AppendProperties DEF Register, Base, TypeOK
<1> QED
  BY <1>1 DEF Register, Base, TypeOK, Calls, AtTheEvent, AtHand

LEMMA DeliverBase ==
    ASSUME Base, NEW b \in Bodies, Deliver(b)
    PROVE  /\ Base' /\ DOMAIN inbox \subseteq DOMAIN inbox'
           /\ \A i \in DOMAIN inbox : inbox'[i] = inbox[i]
           /\ \A i \in DOMAIN inbox' \ DOMAIN inbox : inbox'[i].status = "received"
<1> DEFINE e == [body |-> b, status |-> "received", attempts |-> 0, ready |-> TRUE]
<1>1. e \in Event /\ e.status = "received" /\ inbox \in Seq(Event)
      /\ Len(inbox) \in Nat /\ DOMAIN inbox = 1 .. Len(inbox)
  BY LenProperties DEF Event, Base, TypeOK
<1>2. inbox' = inbox \/ inbox' = Append(inbox, e)
  BY DEF Deliver
<1> HIDE DEF e
<1>3. /\ inbox' \in Seq(Event) /\ DOMAIN inbox \subseteq DOMAIN inbox'
      /\ \A i \in DOMAIN inbox : inbox'[i] = inbox[i]
      /\ \A i \in DOMAIN inbox' \ DOMAIN inbox : inbox'[i].status = "received"
  <2>1. CASE inbox' = Append(inbox, e)
    <3>1. /\ inbox' \in Seq(Event) /\ Len(inbox') = Len(inbox) + 1
          /\ \A i \in 1 .. Len(inbox) : inbox'[i] = inbox[i]
          /\ inbox'[Len(inbox) + 1] = e
      BY <1>1, <2>1, AppendProperties
    <3>2. DOMAIN inbox' = 1 .. Len(inbox) + 1
      BY <3>1, LenProperties
    <3>3. \A i \in DOMAIN inbox' \ DOMAIN inbox : i = Len(inbox) + 1
      BY <1>1, <3>2
    <3>4. DOMAIN inbox \subseteq DOMAIN inbox'
      BY <1>1, <3>2
    <3>5. \A i \in DOMAIN inbox' \ DOMAIN inbox : inbox'[i] = e
      <4>1. \A i \in {Len(inbox) + 1} : inbox'[i] = e
        BY <3>1
      <4> QED
        BY ONLY <3>3, <4>1, Zenon
    <3> QED
      BY ONLY <1>1, <3>1, <3>4, <3>5, Zenon
  <2>2. CASE inbox' = inbox
    BY <1>1, <2>2
  <2> QED
    BY ONLY <1>2, <2>1, <2>2, Zenon
<1>4. issue["worker"].at # "idle" => AtHand' = AtHand
  BY <1>3, WorkerAtEvent DEF Deliver, AtHand
<1> QED
  BY <1>3, <1>4 DEF Deliver, Base, TypeOK, Calls, AtTheEvent

LEMMA LateWriteBase ==
    ASSUME Base, NEW w \in late, LateWrite(w[1], w[2])
    PROVE  Base'
<1>1. w[1] \in Customers /\ w[2] \in Token
  BY DEF Base, TypeOK
<1> QED
  BY <1>1 DEF LateWrite, SetParam, Base, TypeOK, Calls, AtTheEvent, AtHand

LEMMA CrashBase ==
    ASSUME Base, NEW p \in Runners, Crash(p)
    PROVE  Base'
<1>1. /\ issue' \in [Runners -> Call] /\ issue'[p].at = "idle" /\ Calls'
      /\ \A q \in Runners \ {p} : issue'[q] = issue[q]
  BY CallGone DEF Crash
<1>2. late' \subseteq Customers \X Token /\ faults' \in Nat
  BY DEF Crash, Base, TypeOK, Calls
<1>3. walk' \in Walk /\ due' \subseteq DOMAIN inbox
      /\ (p # "worker" => due' = due)
  BY EndTyped DEF Crash, Base, TypeOK
<1>4. AtTheEvent'
  BY <1>1, <1>3 DEF Crash, Base, AtTheEvent, AtHand
<1>5. TypeOK'
  BY <1>1, <1>2, <1>3 DEF Crash, Base, TypeOK
<1> QED
  BY <1>1, <1>4, <1>5 DEF Base
-----------------------------------------------------------------------------
(* Cards.                                                                  *)

\* No step takes a card away.
CardsStay == \A c \in Customers : cards[c] # None => cards'[c] # None

LEMMA SaveCardStays ==
    ASSUME Base, NEW p \in Runners, SaveCard(p)
    PROVE  CardsStay /\ cards'[issue[p].who] = issue[p].token
<1>1. issue[p].who \in Customers /\ issue[p].token \in Token
  BY DEF Base, Calls, SaveCard
<1> QED
  BY <1>1 DEF CardsStay, SaveCard, Base, TypeOK

\* An event is processed that was so before, or whose customer has a card.
LEMMA EventsKept ==
    ASSUME Base, ProcessedHasCard, CardsStay,
           \A i \in DOMAIN inbox' : inbox'[i].status = "processed" =>
              \/ i \in DOMAIN inbox /\ inbox[i].status = "processed"
                 /\ inbox'[i].body = inbox[i].body
              \/ cards'[About[inbox'[i].body]] # None
    PROVE  ProcessedHasCard'
<1>1. \A i \in DOMAIN inbox : inbox[i].status = "processed" =>
          About[inbox[i].body] \in Customers /\ cards[About[inbox[i].body]] # None
  <2>1. \A i \in DOMAIN inbox : inbox[i] \in Range(inbox)
    BY DEF Range
  <2>2. \A i \in DOMAIN inbox : inbox[i] \in Event
    BY LenProperties, ElementOfSeq DEF Base, TypeOK
  <2> QED
    BY <2>1, <2>2 DEF ProcessedHasCard, Event
<1>2. \A i \in DOMAIN inbox' : inbox'[i].status = "processed" =>
          cards'[About[inbox'[i].body]] # None
  BY <1>1 DEF CardsStay
<1> QED
  BY <1>2 DEF ProcessedHasCard, Range

\* Whoever is not clobbered after a card is stored was not so before, or what
\* is stored for him, here and elsewhere, is what the shop shows.
LEMMA CardSaved ==
    ASSUME Base, Cards, NEW p \in Runners, SaveCard(p)
    PROVE  /\ CardMatchesShop'
           /\ \A q \in Runners \ {p} :
                 issue[q].at \in {"find", "save"} /\ issue[q].who \notin clobbered'
                     => issue[q].token = param[issue[q].who]
<1> DEFINE w == issue[p].who
<1>1. /\ w \in Customers /\ issue[p].token \in Token
      /\ cards' = [cards EXCEPT ![w] = issue[p].token] /\ UNCHANGED param
      /\ \/ clobbered' = clobbered
         \/ clobbered' = clobbered \ {w} /\ Mends(p)
  BY DEF SaveCard, Base, Calls
<1>2. w \notin clobbered' => issue[p].token = param[w]
  BY <1>1 DEF Mends, Cards, Shown, SaveCard
<1>3. ASSUME NEW c \in Customers \ clobbered', cards'[c] # None
      PROVE  cards'[c] = param'[c]
  <2>1. CASE c = w
    BY <1>1, <1>2, <1>3, <2>1 DEF Base, TypeOK
  <2>2. CASE c # w
    BY <1>1, <1>3, <2>2 DEF Base, TypeOK, Cards, CardMatchesShop
  <2> QED
    BY <2>1, <2>2
<1>4. ASSUME NEW q \in Runners \ {p}, issue[q].at \in {"find", "save"},
             issue[q].who \notin clobbered'
      PROVE  issue[q].token = param[issue[q].who]
  <2>1. CASE issue[q].who \in clobbered
    BY <1>1, <1>4, <2>1 DEF Mends
  <2>2. CASE issue[q].who \notin clobbered
    BY <1>4, <2>2 DEF Cards, Shown
  <2> QED
    BY <2>1, <2>2
<1> QED
  BY <1>3, <1>4 DEF CardMatchesShop

\* A parameter that is written: who is not clobbered by it sees no change.
LEMMA ParamWritten ==
    ASSUME Base, Cards, NEW c \in Customers, NEW t \in Token, SetParam(c, t)
    PROVE  /\ \A d \in Customers \ clobbered' :
                 param[d] # None => d \notin clobbered /\ param'[d] = param[d]
           /\ clobbered \subseteq clobbered' /\ param'[c] = t
  BY DEF SetParam, Base, TypeOK

LEMMA ShopChanges ==
    ASSUME Base, Cards, UNCHANGED cards,
           clobbered \subseteq clobbered',
           \A d \in Customers \ clobbered' :
               param[d] # None => d \notin clobbered /\ param'[d] = param[d]
    PROVE  /\ CardMatchesShop'
           /\ \A p \in Runners :
                 issue[p].at \in {"find", "save"} /\ issue[p].who \notin clobbered'
                     => issue[p].token = param'[issue[p].who]
<1>1. \A d \in Customers \ clobbered' :
          cards[d] # None => param[d] = cards[d] /\ param[d] # None
  BY DEF Cards, CardMatchesShop
<1>2. CardMatchesShop'
  BY <1>1 DEF CardMatchesShop
<1>3. ASSUME NEW p \in Runners, issue[p].at \in {"find", "save"},
             issue[p].who \notin clobbered'
      PROVE  issue[p].token = param'[issue[p].who]
  <2>1. issue[p].who \in Customers /\ issue[p].token \in Token
    BY <1>3 DEF Base, Calls
  <2>2. issue[p].token = param[issue[p].who] /\ param[issue[p].who] # None
    BY <1>3, <2>1 DEF Cards, Shown
  <2> QED
    BY <1>3, <2>1, <2>2
<1> QED
  BY <1>2, <1>3

\* A step of one call that changes neither tables nor shop.
LEMMA CardsUntouched ==
    ASSUME Base, Cards, NEW p \in Runners, UNCHANGED <<param, cards, inbox, clobbered>>,
           \A q \in Runners \ {p} : issue'[q] = issue[q],
           issue'[p].at \in {"find", "save"} =>
               issue'[p].token = param[issue'[p].who],
           issue'[p].at = "done" => cards[issue'[p].who] # None
    PROVE  Cards' /\ CardsStay
<1>1. CardMatchesShop' /\ ProcessedHasCard' /\ CardsStay
  BY DEF Cards, CardMatchesShop, ProcessedHasCard, CardsStay
<1>2. Shown'
  BY DEF Cards, Shown
<1>3. DoneHasCard'
  BY DEF Cards, DoneHasCard
<1> QED
  BY <1>1, <1>2, <1>3 DEF Cards
\* What Leave does to a call.
LEMMA CallLeaves ==
    ASSUME Base, NEW p \in Runners, NEW how, Leave(p, how)
    PROVE  /\ issue'[p].at = how /\ issue'[p].who = issue[p].who
           /\ \A q \in Runners \ {p} : issue'[q] = issue[q]
  BY DEF Leave, Base, TypeOK, Call

LEMMA IssueCards ==
    ASSUME Base, Cards, NEW p \in Runners, Issue(p)
    PROVE  Cards' /\ CardsStay
<1>1. issue \in [Runners -> Call] /\ issue[p] \in Call
  BY DEF Base, TypeOK
<1>2. CASE ReadFails(p)
  <2>1. issue'[p].at = "failed" /\ \A q \in Runners \ {p} : issue'[q] = issue[q]
    BY <1>2, CallLeaves DEF ReadFails
  <2> QED
    BY <1>2, <2>1, CardsUntouched DEF ReadFails
<1>3. CASE Adopt(p)
  <2>1. /\ issue'[p].at = "find" /\ issue'[p].who = issue[p].who
        /\ issue'[p].token = param[issue[p].who]
        /\ \A q \in Runners \ {p} : issue'[q] = issue[q]
    BY <1>1, <1>3 DEF Adopt, Call
  <2> QED
    BY <1>3, <2>1, CardsUntouched DEF Adopt
<1>4. CASE Draw(p)
  <2>1. PICK t \in NewTokens :
            issue' = [issue EXCEPT ![p].at = "put", ![p].token = t]
    BY <1>4 DEF Draw
  <2>2. issue'[p].at = "put" /\ \A q \in Runners \ {p} : issue'[q] = issue[q]
    BY <1>1, <2>1 DEF Call
  <2> QED
    BY <1>4, <2>2, CardsUntouched DEF Draw
<1>5. CASE PutAnswered(p)
  <2>1. issue[p].who \in Customers /\ issue[p].token \in Token
    BY <1>5 DEF PutAnswered, Base, Calls
  <2>2. /\ \A d \in Customers \ clobbered' :
              param[d] # None => d \notin clobbered /\ param'[d] = param[d]
        /\ clobbered \subseteq clobbered' /\ param'[issue[p].who] = issue[p].token
    BY <1>5, <2>1, ParamWritten DEF PutAnswered
  <2>3. /\ CardMatchesShop'
        /\ \A q \in Runners :
              issue[q].at \in {"find", "save"} /\ issue[q].who \notin clobbered'
                  => issue[q].token = param'[issue[q].who]
    BY <1>5, <2>2, ShopChanges DEF PutAnswered
  <2>4. /\ issue'[p].at = "find" /\ issue'[p].who = issue[p].who
        /\ issue'[p].token = issue[p].token
        /\ \A q \in Runners \ {p} : issue'[q] = issue[q]
    BY <1>1, <1>5 DEF PutAnswered, Go, Call
  <2>5. Shown'
    BY <2>2, <2>3, <2>4 DEF Shown
  <2>6. DoneHasCard' /\ ProcessedHasCard' /\ CardsStay
    BY <1>5, <2>4 DEF PutAnswered, Cards, DoneHasCard, ProcessedHasCard, CardsStay
  <2> QED
    BY <2>3, <2>5, <2>6 DEF Cards
<1>6. CASE PutFails(p)
  <2>1. issue[p].who \in Customers /\ issue[p].token \in Token
    BY <1>6 DEF PutFails, Base, Calls
  <2>2. /\ \A d \in Customers \ clobbered' :
              param[d] # None => d \notin clobbered /\ param'[d] = param[d]
        /\ clobbered \subseteq clobbered'
    BY <1>6, <2>1, ParamWritten DEF PutFails
  <2>3. /\ CardMatchesShop'
        /\ \A q \in Runners :
              issue[q].at \in {"find", "save"} /\ issue[q].who \notin clobbered'
                  => issue[q].token = param'[issue[q].who]
    BY <1>6, <2>2, ShopChanges DEF PutFails
  <2>4. issue'[p].at = "failed" /\ \A q \in Runners \ {p} : issue'[q] = issue[q]
    BY <1>6, CallLeaves DEF PutFails
  <2>5. Shown'
    BY <2>3, <2>4 DEF Shown
  <2>6. DoneHasCard' /\ ProcessedHasCard' /\ CardsStay
    BY <1>6, <2>4 DEF PutFails, Cards, DoneHasCard, ProcessedHasCard, CardsStay
  <2> QED
    BY <2>3, <2>5, <2>6 DEF Cards
<1>7. CASE FindCard(p)
  <2>1. /\ issue'[p].at = "save" /\ issue'[p].who = issue[p].who
        /\ issue'[p].token = issue[p].token
        /\ \A q \in Runners \ {p} : issue'[q] = issue[q]
    BY <1>1, <1>7 DEF FindCard, Call
  <2>2. CardMatchesShop' /\ ProcessedHasCard' /\ CardsStay
    BY <1>7 DEF FindCard, Cards, CardMatchesShop, ProcessedHasCard, CardsStay
  <2>3. issue[p].at = "find" /\ UNCHANGED <<param, cards, clobbered>>
    BY <1>7 DEF FindCard
  <2>4. Shown'
    BY <2>1, <2>3 DEF Cards, Shown
  <2>5. DoneHasCard'
    BY <2>1, <2>3 DEF Cards, DoneHasCard
  <2> QED
    BY <2>2, <2>4, <2>5 DEF Cards
<1>8. CASE SaveCard(p)
  <2>1. issue[p].who \in Customers /\ issue[p].token \in Token
    BY <1>8 DEF SaveCard, Base, Calls
  <2>2. CardsStay /\ cards' = [cards EXCEPT ![issue[p].who] = issue[p].token]
        /\ cards'[issue[p].who] # None /\ UNCHANGED <<param, due>>
    BY <1>8, <2>1, SaveCardStays DEF SaveCard
  <2>3. issue'[p].at = "done" /\ issue'[p].who = issue[p].who
        /\ \A q \in Runners \ {p} : issue'[q] = issue[q]
    BY <1>8, CallLeaves DEF SaveCard
  <2>4. CardMatchesShop'
    BY <1>8, CardSaved
  <2>5. Shown'
    BY <1>8, <2>2, <2>3, CardSaved DEF Shown
  <2>6. DoneHasCard'
    BY <2>2, <2>3 DEF Cards, DoneHasCard, CardsStay, Base, Calls
  <2>7. ProcessedHasCard'
    <3>1. CASE p = "worker"
      <4>1. Min(due) \in DOMAIN inbox /\ AtHand \in Event
            /\ inbox[Min(due)] = AtHand
        BY <1>8, <3>1, WorkerAtEvent DEF SaveCard
      <4> DEFINE e == [AtHand EXCEPT !.attempts = issue[p].tries]
      <4>2. e \in Event /\ e.body = AtHand.body /\ e.status = AtHand.status
        BY <1>1, <4>1 DEF Event, Call
      <4>3. inbox' = [inbox EXCEPT ![Min(due)] = e]
        BY <1>8, <3>1, <4>1 DEF SaveCard
      <4> HIDE DEF e
      <4>4. DOMAIN inbox' = DOMAIN inbox /\ inbox'[Min(due)] = e
            /\ \A i \in DOMAIN inbox : i # Min(due) => inbox'[i] = inbox[i]
        BY <4>1, <4>2, <4>3, EventReplaced DEF Base
      <4> QED
        BY <2>2, <4>1, <4>2, <4>4, EventsKept DEF Cards
    <3>2. CASE p # "worker"
      BY <1>8, <2>2, <3>2, EventsKept DEF SaveCard, Cards
    <3> QED
      BY <3>1, <3>2
  <2> QED
    BY <2>2, <2>4, <2>5, <2>6, <2>7 DEF Cards
<1>9. CASE SaveConflicts(p)
  <2> DEFINE n == IF p = "worker" THEN AtHand.attempts ELSE 0
             how == IF cards[issue[p].who] = None THEN "failed" ELSE "done"
             r == [NoCall EXCEPT !.at = how, !.who = issue[p].who, !.tries = n]
  <2>1. r.at = how /\ r.who = issue[p].who
    BY DEF NoCall
  <2>2. issue' = [issue EXCEPT ![p] = r]
    BY <1>9 DEF SaveConflicts
  <2> HIDE DEF r
  <2>3. issue'[p] = r /\ \A q \in Runners \ {p} : issue'[q] = issue[q]
    BY <1>1, <2>2
  <2> QED
    BY <1>9, <2>1, <2>3, CardsUntouched DEF SaveConflicts
<1> QED
  BY <1>2, <1>3, <1>4, <1>5, <1>6, <1>7, <1>8, <1>9 DEF Issue
\* A step that issues no token: calls begin or are gone.
LEMMA NothingIssued ==
    ASSUME Base, Cards, UNCHANGED <<param, cards, clobbered>>,
           \A p \in Runners : \/ issue'[p] = issue[p]
                              \/ issue'[p].at \in {"idle", "read"},
           \A i \in DOMAIN inbox' : inbox'[i].status = "processed" =>
              \/ i \in DOMAIN inbox /\ inbox[i].status = "processed"
                 /\ inbox'[i].body = inbox[i].body
              \/ cards[About[inbox'[i].body]] # None
    PROVE  Cards' /\ CardsStay
<1>1. CardsStay /\ CardMatchesShop'
  BY DEF CardsStay, Cards, CardMatchesShop
<1>2. Shown'
  BY DEF Cards, Shown
<1>3. DoneHasCard'
  BY DEF Cards, DoneHasCard
<1>4. ProcessedHasCard'
  BY <1>1, EventsKept DEF Cards
<1> QED
  BY <1>1, <1>2, <1>3, <1>4 DEF Cards

LEMMA EventLeavesCards ==
    ASSUME Base, Cards, NEW e \in Event, Turn \/ issue["worker"].at # "idle",
           inbox' = [inbox EXCEPT ![Min(due)] = e],
           e.status = "processed" => cards[About[e.body]] # None,
           \A p \in Runners : issue'[p] = issue[p] \/ issue'[p].at = "idle",
           UNCHANGED <<param, cards, clobbered>>
    PROVE  Cards' /\ CardsStay
<1>1. Min(due) \in DOMAIN inbox
  BY WorkerAtEvent
<1>2. DOMAIN inbox' = DOMAIN inbox /\ inbox'[Min(due)] = e
      /\ \A i \in DOMAIN inbox : i # Min(due) => inbox'[i] = inbox[i]
  BY <1>1, EventReplaced DEF Base
<1> QED
  BY <1>2, NothingIssued

LEMMA CloseEventCards ==
    ASSUME Base, Cards, issue["worker"].at # "idle",
           NEW status \in {"received", "processed", "needs_review", "failed"},
           NEW attempts \in Nat, NEW ready \in BOOLEAN,
           CloseEvent(status, attempts, ready),
           status = "processed" => issue["worker"].at = "done"
    PROVE  Cards' /\ CardsStay
<1> DEFINE e == [body |-> AtHand.body, status |-> status, attempts |-> attempts,
                 ready |-> ready]
<1>1. AtHand \in Event /\ issue["worker"].who = About[AtHand.body]
  BY WorkerAtEvent DEF Base, AtTheEvent
<1>2. e \in Event /\ e.status = status /\ e.body = AtHand.body
  BY <1>1 DEF Event
<1>3. inbox' = [inbox EXCEPT ![Min(due)] = e]
  BY DEF CloseEvent
<1> HIDE DEF e
<1>4. \A p \in Runners : issue'[p] = issue[p] \/ issue'[p].at = "idle"
  BY CallGone DEF CloseEvent
<1>5. e.status = "processed" => cards[About[e.body]] # None
  BY <1>1, <1>2 DEF Cards, DoneHasCard
<1> QED
  BY <1>2, <1>3, <1>4, <1>5, EventLeavesCards DEF CloseEvent

LEMMA WorkerCards ==
    ASSUME Base, Cards, Worker
    PROVE  Cards' /\ CardsStay
<1>1. CASE SelectDue
  BY <1>1, NothingIssued DEF SelectDue
<1>2. CASE StillBackingOff
  BY <1>2, NothingIssued DEF StillBackingOff
<1>3. CASE SetAside
  <2> DEFINE e == [AtHand EXCEPT !.status = "needs_review",
                                 !.attempts = AtHand.attempts + 1]
  <2>1. AtHand \in Event /\ inbox[Min(due)] = AtHand /\ Min(due) \in DOMAIN inbox
    BY <1>3, WorkerAtEvent DEF SetAside
  <2>2. e \in Event /\ e.status = "needs_review"
    <3>1. \A a \in Event, n \in Nat :
              LET b == [a EXCEPT !.status = "needs_review", !.attempts = n]
              IN  b \in Event /\ b.status = "needs_review"
      BY DEF Event
    <3>2. AtHand.attempts + 1 \in Nat
      BY <2>1 DEF Event
    <3> QED
      BY <2>1, <3>1, <3>2
  <2>3. inbox' = [inbox EXCEPT ![Min(due)] = e]
    BY <1>3, <2>1 DEF SetAside
  <2> HIDE DEF e
  <2> QED
    BY <1>3, <2>2, <2>3, EventLeavesCards DEF SetAside
<1>4. CASE Process
  <2>1. issue'["worker"].at = "read" /\ issue'["backfill"] = issue["backfill"]
    BY <1>4 DEF Process, NoCall, Base, TypeOK
  <2> QED
    BY <1>4, <2>1, NothingIssued DEF Process
<1>5. CASE EventProcessed
  <2>1. issue["worker"].at = "done" /\ AtHand.attempts \in Nat
    BY <1>5, WorkerAtEvent DEF EventProcessed, Event
  <2> QED
    BY <1>5, <2>1, CloseEventCards DEF EventProcessed
<1>6. CASE EventFailed
  <2>1. issue["worker"].at = "failed" /\ issue["worker"].tries \in Nat
    BY <1>6 DEF EventFailed, Base, TypeOK, Call
  <2> QED
    BY <1>6, <2>1, CloseEventCards DEF EventFailed
<1>7. CASE Issue("worker")
  BY <1>7, IssueCards
<1> QED
  BY <1>1, <1>2, <1>3, <1>4, <1>5, <1>6, <1>7 DEF Worker

LEMMA BackfillCards ==
    ASSUME Base, Cards, Backfill
    PROVE  Cards' /\ CardsStay
<1>1. CASE StartBackfill \/ NextPage \/ PageFails \/ LastPageDone
  BY <1>1, NothingIssued DEF StartBackfill, NextPage, PageFails, LastPageDone
<1>2. CASE TakeRecord
  <2>1. issue'["backfill"].at = "read" /\ issue'["worker"] = issue["worker"]
    BY <1>2 DEF TakeRecord, NoCall, Base, TypeOK
  <2> QED
    BY <1>2, <2>1, NothingIssued DEF TakeRecord
<1>3. CASE RecordDone
  <2>1. issue'["backfill"].at = "idle" /\ issue'["worker"] = issue["worker"]
    BY <1>3, CallGone DEF RecordDone
  <2> QED
    BY <1>3, <2>1, NothingIssued DEF RecordDone
<1> QED
  BY <1>1, <1>2, <1>3, IssueCards DEF Backfill

LEMMA EnvironmentCards ==
    ASSUME Base, Cards,
           \/ \E c \in Customers : Register(c)
           \/ \E b \in Bodies : Deliver(b)
           \/ \E w \in late : LateWrite(w[1], w[2])
           \/ \E i \in DOMAIN inbox : BackoffOver(i)
           \/ \E p \in Runners : Crash(p)
    PROVE  Cards' /\ CardsStay
<1>1. ASSUME NEW c \in Customers, Register(c) PROVE Cards' /\ CardsStay
  BY <1>1, NothingIssued DEF Register
<1>2. ASSUME NEW b \in Bodies, Deliver(b) PROVE Cards' /\ CardsStay
  BY <1>2, DeliverBase, NothingIssued DEF Deliver
<1>3. ASSUME NEW w \in late, LateWrite(w[1], w[2]) PROVE Cards' /\ CardsStay
  <2>1. w[1] \in Customers /\ w[2] \in Token
    BY DEF Base, TypeOK
  <2>2. /\ CardMatchesShop'
        /\ \A p \in Runners :
              issue[p].at \in {"find", "save"} /\ issue[p].who \notin clobbered'
                  => issue[p].token = param'[issue[p].who]
    BY <1>3, <2>1, ParamWritten, ShopChanges DEF LateWrite
  <2>3. Shown' /\ DoneHasCard' /\ ProcessedHasCard' /\ CardsStay
    BY <1>3, <2>2 DEF LateWrite, Cards, Shown, DoneHasCard, ProcessedHasCard,
       CardsStay
  <2> QED
    BY <2>2, <2>3 DEF Cards
<1>4. ASSUME NEW i \in DOMAIN inbox, BackoffOver(i) PROVE Cards' /\ CardsStay
  <2> DEFINE e == [inbox[i] EXCEPT !.ready = TRUE]
  <2>1. inbox[i] \in Event
    BY LenProperties, ElementOfSeq DEF Base, TypeOK
  <2>2. e \in Event /\ e.body = inbox[i].body /\ e.status = inbox[i].status
    BY <2>1 DEF Event
  <2>3. inbox' = [inbox EXCEPT ![i] = e]
    BY <1>4 DEF BackoffOver
  <2> HIDE DEF e
  <2>4. DOMAIN inbox' = DOMAIN inbox /\ inbox'[i] = e
        /\ \A j \in DOMAIN inbox : j # i => inbox'[j] = inbox[j]
    BY <2>2, <2>3, EventReplaced DEF Base
  <2> QED
    BY <1>4, <2>2, <2>4, NothingIssued DEF BackoffOver
<1>5. ASSUME NEW p \in Runners, Crash(p) PROVE Cards' /\ CardsStay
  <2>1. issue'[p].at = "idle" /\ \A q \in Runners \ {p} : issue'[q] = issue[q]
    BY <1>5, CallGone DEF Crash
  <2> QED
    BY <1>5, <2>1, NothingIssued DEF Crash
<1> QED
  BY <1>1, <1>2, <1>3, <1>4, <1>5
-----------------------------------------------------------------------------
(* The backfill reaches everybody.                                             *)

\* Its place in the walk and what it has in hand stay; the shop may grow.
LEMMA WalkUntouched ==
    ASSUME Base, Walked, CardsStay, UNCHANGED walk,
           issue'["backfill"] = issue["backfill"],
           \A i \in DOMAIN shop : i \in DOMAIN shop' /\ shop'[i] = shop[i]
    PROVE  Walked'
<1>1. Rest'
  BY DEF Walked, Rest
<1>2. \A c \in Customers : OnPage(c)' = OnPage(c) /\ InHand(c)' = InHand(c)
  BY DEF OnPage, InHand
<1>3. \A c \in Customers : Ahead(c) => Ahead(c)'
  BY DEF Ahead
<1>4. walk.from \subseteq Customers
  BY DEF Base, TypeOK, Walk
<1>5. Progress'
  BY <1>2, <1>3, <1>4 DEF Walked, Progress, CardsStay
<1>6. BackfillCovers'
  BY <1>4 DEF Walked, BackfillCovers, CardsStay
<1> QED
  BY <1>1, <1>5, <1>6 DEF Walked

LEMMA IssueGoesOn ==
    ASSUME Base, NEW p \in Runners, Issue(p)
    PROVE  /\ issue[p].at # "idle" /\ issue'[p].at # "idle"
           /\ issue'[p].who = issue[p].who
           /\ \A q \in Runners \ {p} : issue'[q] = issue[q]
           /\ UNCHANGED <<shop, walk>>
<1>1. issue \in [Runners -> Call] /\ issue[p] \in Call
  BY DEF Base, TypeOK
<1>2. CASE ReadFails(p) \/ PutFails(p) \/ SaveCard(p)
  BY <1>2, CallLeaves DEF ReadFails, PutFails, SaveCard
<1>3. CASE Adopt(p) \/ PutAnswered(p) \/ FindCard(p)
  BY <1>1, <1>3 DEF Adopt, PutAnswered, FindCard, Go, Call
<1>4. CASE Draw(p)
  <2>1. PICK t \in NewTokens :
            issue' = [issue EXCEPT ![p].at = "put", ![p].token = t]
    BY <1>4 DEF Draw
  <2> QED
    BY <1>1, <1>4, <2>1 DEF Draw, Call
<1>5. CASE SaveConflicts(p)
  <2> DEFINE n == IF p = "worker" THEN AtHand.attempts ELSE 0
             how == IF cards[issue[p].who] = None THEN "failed" ELSE "done"
             r == [NoCall EXCEPT !.at = how, !.who = issue[p].who, !.tries = n]
  <2>1. r.at # "idle" /\ r.who = issue[p].who
    BY DEF NoCall
  <2>2. issue' = [issue EXCEPT ![p] = r]
    BY <1>5 DEF SaveConflicts
  <2> HIDE DEF r
  <2> QED
    BY <1>1, <1>5, <2>1, <2>2 DEF SaveConflicts
<1> QED
  BY <1>2, <1>3, <1>4, <1>5 DEF Issue

LEMMA IssueWalks ==
    ASSUME Base, Walked, CardsStay, NEW p \in Runners, Issue(p)
    PROVE  Walked'
<1>1. CASE p = "worker"
  BY <1>1, IssueGoesOn, WalkUntouched
<1>2. CASE p = "backfill"
  <2>1. /\ issue["backfill"].at # "idle" /\ issue'["backfill"].at # "idle"
        /\ issue'["backfill"].who = issue["backfill"].who
        /\ UNCHANGED <<shop, walk>>
    BY <1>2, IssueGoesOn
  <2>2. walk.on /\ walk.from \subseteq Customers
    BY <2>1 DEF Walked, Rest, Base, TypeOK, Walk
  <2>3. \A c \in Customers : /\ OnPage(c) => OnPage(c)'
                             /\ InHand(c) => InHand(c)'
                             /\ Ahead(c) => Ahead(c)'
    BY <2>1 DEF OnPage, Ahead, InHand
  <2>4. Progress'
    <3>1. SUFFICES ASSUME walk'.on, ~walk'.failed, NEW c \in walk'.from
                   PROVE  cards'[c] # None \/ OnPage(c)' \/ InHand(c)' \/ Ahead(c)'
      BY DEF Progress
    <3>2. c \in Customers
          /\ (cards[c] # None \/ OnPage(c) \/ InHand(c) \/ Ahead(c))
      BY <2>1, <2>2, <3>1 DEF Walked, Progress
    <3> QED
      BY <2>3, <3>2 DEF CardsStay
  <2> QED
    BY <2>1, <2>2, <2>4 DEF Walked, Rest, BackfillCovers
<1> QED
  BY <1>1, <1>2

\* Nobody is on a page any more, in hand or ahead: the run is complete.
LEMMA Complete ==
    ASSUME Base, Walked, BetweenPages, End(walk.failed), UNCHANGED <<cards, issue>>,
           \A c \in Customers : ~Ahead(c)
    PROVE  Walked'
<1>1. walk.on /\ walk.page = <<>> /\ issue["backfill"].at = "idle"
      /\ walk.from \subseteq Customers
  BY DEF BetweenPages, Base, TypeOK, Walk
<1>2. \A c \in Customers : ~OnPage(c) /\ ~InHand(c)
  BY <1>1 DEF OnPage, InHand
<1>3. ~walk.failed => \A c \in walk.from : cards[c] # None
  BY <1>1, <1>2 DEF Walked, Progress
<1>4. /\ ~walk'.on /\ walk'.offset = 0 /\ walk'.page = <<>> /\ ~walk'.short
      /\ walk'.failed = walk.failed /\ walk'.from = walk.from
  BY DEF End, Base, TypeOK, Walk
<1> QED
  BY <1>1, <1>3, <1>4 DEF Walked, Rest, Progress, BackfillCovers

LEMMA Aborted ==
    ASSUME Base, End(TRUE), issue'["backfill"].at = "idle"
    PROVE  Walked'
<1>1. /\ ~walk'.on /\ walk'.offset = 0 /\ walk'.page = <<>> /\ ~walk'.short
      /\ walk'.failed
  BY DEF End, Base, TypeOK, Walk
<1> QED
  BY <1>1 DEF Walked, Rest, Progress, BackfillCovers

LEMMA NextPageWalks ==
    ASSUME Base, Walked, NextPage
    PROVE  Walked'
<1>1. /\ walk.on /\ walk.page = <<>> /\ issue["backfill"].at = "idle" /\ ~walk.short
      /\ walk.offset \in Nat /\ walk.size \in Nat \ {0}
      /\ UNCHANGED <<shop, cards, issue>> /\ walk.from \subseteq Customers
      /\ BetweenPages
  BY DEF NextPage, BetweenPages, Base, TypeOK, Walk
<1>2. DOMAIN shop \subseteq Nat
  BY LenProperties DEF Base, TypeOK
<1>3. CASE NewPage = <<>>
  <2>1. End(walk.failed)
    BY <1>3 DEF NextPage, NewPage
  <2>2. ASSUME NEW c \in Customers, Ahead(c) PROVE FALSE
    <3>1. PICK i \in DOMAIN shop : i > walk.offset /\ shop[i] = c
      BY <2>2 DEF Ahead
    <3>2. \/ i <= walk.offset \/ i - walk.offset \in DOMAIN NewPage
          \/ Len(NewPage) = walk.size
      BY PageIsSlice
    <3> QED
      BY <1>1, <1>2, <1>3, <3>1, <3>2
  <2> QED
    BY <1>1, <2>1, <2>2, Complete
<1>4. CASE NewPage # <<>>
  <2>1. /\ walk'.page = NewPage /\ walk'.offset = walk.offset + walk.size
        /\ (walk'.short <=> Len(NewPage) < walk.size)
        /\ walk'.on = walk.on /\ walk'.failed = walk.failed
        /\ walk'.from = walk.from
    BY <1>4 DEF NextPage, NewPage, Base, TypeOK, Walk
  <2>2. ASSUME NEW c \in Customers, Ahead(c) PROVE OnPage(c)' \/ Ahead(c)'
    <3>1. PICK i \in DOMAIN shop : i > walk.offset /\ shop[i] = c
      BY <2>2 DEF Ahead
    <3>2. \/ i <= walk.offset
          \/ i - walk.offset \in DOMAIN NewPage /\ NewPage[i - walk.offset] = shop[i]
          \/ i > walk.offset + walk.size /\ Len(NewPage) = walk.size
      BY PageIsSlice
    <3>3. i \in Nat
      BY <1>2
    <3>4. CASE i - walk.offset \in DOMAIN NewPage /\ NewPage[i - walk.offset] = shop[i]
      BY <2>1, <3>1, <3>4 DEF OnPage
    <3>5. CASE i > walk.offset + walk.size /\ Len(NewPage) = walk.size
      <4>1. ~walk'.short
        BY <1>1, <2>1, <3>5
      <4>2. i > walk'.offset /\ shop' = shop
        BY <1>1, <2>1, <3>5
      <4> QED
        BY <3>1, <4>1, <4>2 DEF Ahead
    <3> QED
      BY <1>1, <3>1, <3>2, <3>3, <3>4, <3>5
  <2>3. \A c \in Customers : ~OnPage(c) /\ ~InHand(c)
    BY <1>1 DEF OnPage, InHand
  <2>4. Progress'
    BY <1>1, <2>1, <2>2, <2>3 DEF Walked, Progress
  <2> QED
    BY <1>1, <2>1, <2>4 DEF Walked, Rest, BackfillCovers
<1> QED
  BY <1>3, <1>4

LEMMA BackfillWalks ==
    ASSUME Base, Cards, Walked, CardsStay, Backfill
    PROVE  Walked'
<1>1. walk \in Walk /\ walk.from \subseteq Customers /\ walk.page \in Seq(Customers)
  BY DEF Base, TypeOK, Walk
<1>2. CASE StartBackfill
  <2>1. /\ ~walk.on /\ walk'.on /\ walk'.page = walk.page
        /\ walk'.offset = walk.offset /\ walk'.short = walk.short
        /\ walk'.from = Range(shop) /\ UNCHANGED <<shop, cards, issue>>
    BY <1>1, <1>2 DEF StartBackfill, Walk
  <2>2. walk'.offset = 0 /\ ~walk'.short
    BY <2>1 DEF Walked, Rest
  <2>3. \A i \in DOMAIN shop : i > 0
    BY LenProperties DEF Base, TypeOK
  <2>4. \A c \in Range(shop) : Ahead(c)'
    BY <2>1, <2>2, <2>3 DEF Ahead, Range
  <2> QED
    BY <2>1, <2>4 DEF Walked, Rest, Progress, BackfillCovers
<1>3. CASE NextPage
  BY <1>3, NextPageWalks
<1>4. CASE PageFails
  BY <1>4, Aborted DEF PageFails, BetweenPages
<1>5. CASE LastPageDone
  <2>1. \A c \in Customers : ~Ahead(c)
    BY <1>5 DEF LastPageDone, Ahead
  <2> QED
    BY <1>5, <2>1, Complete DEF LastPageDone
<1>6. CASE TakeRecord
  <2>1. /\ walk.page # <<>> /\ issue["backfill"].at = "idle"
        /\ walk'.page = Tail(walk.page) /\ walk'.on = walk.on
        /\ walk'.offset = walk.offset /\ walk'.short = walk.short
        /\ walk'.failed = walk.failed /\ walk'.from = walk.from
        /\ UNCHANGED <<shop, cards>>
    BY <1>1, <1>6 DEF TakeRecord, Walk
  <2>2. issue'["backfill"].at = "read" /\ issue'["backfill"].who = Head(walk.page)
    BY <1>6 DEF TakeRecord, NoCall, Base, TypeOK
  <2>3. walk.on
    BY <2>1 DEF Walked, Rest
  <2>4. ASSUME NEW c \in Customers, OnPage(c) PROVE OnPage(c)' \/ InHand(c)'
    <3>1. PICK i \in DOMAIN walk.page : walk.page[i] = c
      BY <2>4 DEF OnPage
    <3>2. /\ DOMAIN walk.page = 1 .. Len(walk.page) /\ Len(walk.page) \in Nat
          /\ Tail(walk.page) \in Seq(Customers)
          /\ Len(Tail(walk.page)) = Len(walk.page) - 1
          /\ \A j \in 1 .. Len(Tail(walk.page)) :
                Tail(walk.page)[j] = walk.page[j + 1]
      BY <1>1, <2>1, LenProperties, HeadTailProperties
    <3>3. DOMAIN Tail(walk.page) = 1 .. Len(Tail(walk.page))
      BY <3>2, LenProperties
    <3>4. CASE i = 1
      BY <1>1, <2>1, <2>2, <3>1, <3>4 DEF InHand
    <3>5. CASE i # 1
      <4>1. i - 1 \in DOMAIN Tail(walk.page) /\ Tail(walk.page)[i - 1] = walk.page[i]
        BY <3>1, <3>2, <3>3, <3>5
      <4> QED
        BY <2>1, <3>1, <4>1 DEF OnPage
    <3> QED
      BY <3>4, <3>5
  <2>5. \A c \in Customers : ~InHand(c) /\ (Ahead(c) => Ahead(c)')
    BY <2>1 DEF InHand, Ahead
  <2>6. Progress'
    BY <1>1, <2>1, <2>4, <2>5 DEF Walked, Progress
  <2> QED
    BY <2>1, <2>3, <2>6 DEF Walked, Rest, BackfillCovers
<1>7. CASE RecordDone
  <2>1. /\ walk'.page = walk.page /\ walk'.on = walk.on
        /\ walk'.offset = walk.offset /\ walk'.short = walk.short
        /\ walk'.failed = (walk.failed \/ issue["backfill"].at = "failed")
        /\ walk'.from = walk.from /\ UNCHANGED <<shop, cards>>
        /\ issue["backfill"].at \in {"done", "failed"}
    BY <1>1, <1>7 DEF RecordDone, Walk
  <2>2. walk.on
    BY <2>1 DEF Walked, Rest
  <2>3. ASSUME NEW c \in Customers, InHand(c), ~walk'.failed PROVE cards[c] # None
    BY <2>1, <2>3 DEF InHand, Cards, DoneHasCard
  <2>4. \A c \in Customers : (OnPage(c) => OnPage(c)') /\ (Ahead(c) => Ahead(c)')
    BY <2>1 DEF OnPage, Ahead
  <2>5. Progress'
    BY <1>1, <2>1, <2>3, <2>4 DEF Walked, Progress
  <2> QED
    BY <2>1, <2>2, <2>5 DEF Walked, Rest, BackfillCovers
<1>8. CASE Issue("backfill")
  BY <1>8, IssueWalks
<1> QED
  BY <1>2, <1>3, <1>4, <1>5, <1>6, <1>7, <1>8 DEF Backfill

LEMMA EnvironmentWalks ==
    ASSUME Base, Walked, CardsStay,
           \/ \E c \in Customers : Register(c)
           \/ \E b \in Bodies : Deliver(b)
           \/ \E w \in late : LateWrite(w[1], w[2])
           \/ \E i \in DOMAIN inbox : BackoffOver(i)
           \/ \E p \in Runners : Crash(p)
    PROVE  Walked'
<1>1. ASSUME NEW c \in Customers, Register(c) PROVE Walked'
  <2>1. \A i \in DOMAIN shop : i \in DOMAIN shop' /\ shop'[i] = shop[i]
    <3>1. shop \in Seq(Customers) /\ shop' = Append(shop, c)
      BY <1>1 DEF Register, Base, TypeOK
    <3>2. /\ Len(shop) \in Nat /\ DOMAIN shop = 1 .. Len(shop)
          /\ shop' \in Seq(Customers) /\ Len(shop') = Len(shop) + 1
          /\ \A i \in 1 .. Len(shop) : shop'[i] = shop[i]
      BY <3>1, LenProperties, AppendProperties
    <3>3. DOMAIN shop' = 1 .. Len(shop')
      BY <3>2, LenProperties
    <3> QED
      BY <3>2, <3>3
  <2> QED
    BY <1>1, <2>1, WalkUntouched DEF Register
<1>2. ASSUME NEW b \in Bodies, Deliver(b) PROVE Walked'
  BY <1>2, WalkUntouched DEF Deliver
<1>3. ASSUME NEW w \in late, LateWrite(w[1], w[2]) PROVE Walked'
  BY <1>3, WalkUntouched DEF LateWrite
<1>4. ASSUME NEW i \in DOMAIN inbox, BackoffOver(i) PROVE Walked'
  BY <1>4, WalkUntouched DEF BackoffOver
<1>5. ASSUME NEW p \in Runners, Crash(p) PROVE Walked'
  <2>1. issue'[p].at = "idle" /\ \A q \in Runners \ {p} : issue'[q] = issue[q]
    BY <1>5, CallGone DEF Crash
  <2>2. CASE p = "worker"
    BY <1>5, <2>1, <2>2, WalkUntouched DEF Crash
  <2>3. CASE p = "backfill"
    BY <1>5, <2>1, <2>3, Aborted DEF Crash
  <2> QED
    BY <2>2, <2>3
<1> QED
  BY <1>1, <1>2, <1>3, <1>4, <1>5

LEMMA WorkerWalks ==
    ASSUME Base, Walked, CardsStay, Worker
    PROVE  Walked'
<1>1. CASE Issue("worker")
  BY <1>1, IssueWalks
<1>2. CASE SelectDue \/ StillBackingOff \/ SetAside
  BY <1>2, WalkUntouched DEF SelectDue, StillBackingOff, SetAside
<1>3. CASE Process
  <2>1. issue'["backfill"] = issue["backfill"]
    BY <1>3 DEF Process, Base, TypeOK
  <2> QED
    BY <1>3, <2>1, WalkUntouched DEF Process
<1>4. CASE EventProcessed \/ EventFailed
  <2>1. issue' = [issue EXCEPT !["worker"] = NoCall] /\ UNCHANGED <<shop, walk>>
    BY <1>4 DEF EventProcessed, EventFailed, CloseEvent
  <2>2. issue'["backfill"] = issue["backfill"]
    BY <2>1, CallGone
  <2> QED
    BY <2>1, <2>2, WalkUntouched
<1> QED
  BY <1>1, <1>2, <1>3, <1>4 DEF Worker

-----------------------------------------------------------------------------
(* The theorems.                                                           *)

LEMMA InitInv ==
    ASSUME Init
    PROVE  Inv
<1>1. PICK s \in Starts :
          /\ shop = s.shop
          /\ param = s.param
          /\ walk = [on |-> FALSE, size |-> s.pageSize, offset |-> 0,
                     page |-> <<>>, short |-> FALSE, failed |-> TRUE,
                     from |-> {}, runs |-> 0]
  BY DEF Init
<1>2. /\ s.shop \in Seq(Customers) /\ s.pageSize \in Nat \ {0}
      /\ s.param \in [Customers -> Token \cup {None}]
  BY DEF Start
<1>3. NoCall \in Call /\ NoCall.at = "idle"
  BY DEF Call, NoCall
<1>4. walk \in Walk
  BY <1>1, <1>2 DEF Walk
<1>5. issue \in [Runners -> Call] /\ \A p \in Runners : issue[p].at = "idle"
  BY <1>3 DEF Init
<1>6. TypeOK
  BY <1>1, <1>2, <1>4, <1>5 DEF Init, TypeOK
<1>7. Calls /\ AtTheEvent /\ Shown /\ DoneHasCard
  BY <1>5 DEF Calls, AtTheEvent, Shown, DoneHasCard
<1>8. CardMatchesShop /\ ProcessedHasCard
  BY DEF Init, CardMatchesShop, ProcessedHasCard, Range
<1>9. Walked
  BY <1>1, <1>5 DEF Walked, Rest, Progress, BackfillCovers
<1> QED
  BY <1>6, <1>7, <1>8, <1>9 DEF Inv, Base, Cards

LEMMA NextInv ==
    ASSUME Inv, Next
    PROVE  Inv'
<1>1. ASSUME NEW p \in Runners, Issue(p) PROVE Base'
  BY <1>1, ReadFailsBase, AdoptBase, DrawBase, PutAnsweredBase, PutFailsBase,
     FindCardBase, SaveCardBase, SaveConflictsBase DEF Issue, Inv
<1>2. CASE Worker
  <2>1. Base'
    BY <1>1, <1>2, SelectDueBase, StillBackingOffBase, SetAsideBase, ProcessBase,
       EventProcessedBase, EventFailedBase DEF Worker, Inv
  <2> QED
    BY <1>2, <2>1, WorkerCards, WorkerWalks DEF Inv
<1>3. CASE Backfill
  <2>1. Base'
    BY <1>1, <1>3, StartBackfillBase, NextPageBase, PageFailsBase,
       LastPageDoneBase, TakeRecordBase, RecordDoneBase DEF Backfill, Inv
  <2> QED
    BY <1>3, <2>1, BackfillCards, BackfillWalks DEF Inv
<1>4. CASE \/ \E c \in Customers : Register(c)
           \/ \E b \in Bodies : Deliver(b)
           \/ \E w \in late : LateWrite(w[1], w[2])
           \/ \E i \in DOMAIN inbox : BackoffOver(i)
           \/ \E p \in Runners : Crash(p)
  <2>1. Base'
    BY <1>4, RegisterBase, DeliverBase, LateWriteBase, BackoffOverBase, CrashBase
       DEF Inv
  <2> QED
    BY <1>4, <2>1, EnvironmentCards, EnvironmentWalks DEF Inv
<1> QED
  BY <1>2, <1>3, <1>4 DEF Next

\* Whatever is left unchanged keeps the invariant.
LEMMA StutterInv ==
    ASSUME Inv, UNCHANGED vars
    PROVE  Inv'
<1>1. Base'
  BY DEF vars, Inv, Base, TypeOK, Calls, AtTheEvent, AtHand
<1>2. Cards'
  BY DEF vars, Inv, Cards, Shown, CardMatchesShop, DoneHasCard, ProcessedHasCard
<1>3. Walked'
  BY DEF vars, Inv, Walked, Rest, Progress, OnPage, InHand, Ahead, BackfillCovers
<1> QED
  BY <1>1, <1>2, <1>3 DEF Inv

\* The inductive invariant: what calls and worker have at hand, that a token
\* about to be stored is the one in the shop, and whom the backfill has still
\* before it.
THEOREM InvHolds == Spec => []Inv
<1>1. Init => Inv
  BY InitInv
<1>2. Inv /\ [Next]_vars => Inv'
  BY NextInv, StutterInv
<1> QED
  BY <1>1, <1>2, PTL DEF Spec

\* Every variable keeps its type, for any customers, page size and batch limit.
THEOREM TypeCorrect == Spec => []TypeOK
<1>1. Inv => TypeOK
  BY DEF Inv, Base
<1> QED
  BY <1>1, InvHolds, PTL

\* The row of a customer has the token the shop shows (issue_token_for_customer,
\* service.py), whatever is lost, refused, tried again or crashes.  Two things are
\* left out, and each only until the next call for that customer has gone
\* through: a second process that issued at the same time, and a write that came
\* late.
THEOREM CardsAlwaysMatch == Spec => []CardMatchesShop
<1>1. Inv => CardMatchesShop
  BY DEF Inv, Cards
<1> QED
  BY <1>1, InvHolds, PTL

\* What an overwritten token takes (issue_token_for_customer, service.py:55-65):
\* a write that timed out and comes late, or one that was decided on when the
\* parameter was empty and finds another token there.
OverwrittenBy(c) ==
    \/ \E t \in Token : <<c, t>> \in late
    \/ \E p \in Runners : /\ issue[p].at = "put" /\ issue[p].who = c
                         /\ param[c] \notin {None, issue[p].token}
OverwritesExplained ==
    [][\A c \in clobbered' \ clobbered : OverwrittenBy(c)]_vars

LEMMA ClobberedBySetParam ==
    ASSUME NEW c, NEW t, SetParam(c, t), NEW d \in clobbered' \ clobbered
    PROVE  d = c /\ param[c] \notin {None, t}
  BY DEF SetParam

LEMMA OverwriteStep ==
    ASSUME TypeOK, Next, NEW c \in clobbered' \ clobbered
    PROVE  OverwrittenBy(c)
<1>1. CASE \E p \in Runners : PutAnswered(p) \/ PutFails(p)
  <2>1. PICK p \in Runners : /\ issue[p].at = "put"
                            /\ SetParam(issue[p].who, issue[p].token)
    BY <1>1 DEF PutAnswered, PutFails
  <2> QED
    BY <2>1, ClobberedBySetParam DEF OverwrittenBy
<1>2. CASE \E w \in late : LateWrite(w[1], w[2])
  <2>1. PICK w \in late : SetParam(w[1], w[2])
    BY <1>2 DEF LateWrite
  <2>2. w[2] \in Token /\ w = <<w[1], w[2]>>
    BY DEF TypeOK
  <2>3. c = w[1]
    BY <2>1, ClobberedBySetParam
  <2> QED
    BY <2>2, <2>3 DEF OverwrittenBy
<1>3. CASE \E p \in Runners : SaveCard(p)
  BY <1>3 DEF SaveCard
<1>4. CASE ~\E p \in Runners : PutAnswered(p) \/ PutFails(p) \/ SaveCard(p)
  BY <1>2, <1>4 DEF Next, Worker, Backfill, Issue, Register, Deliver, BackoffOver,
     Crash, SelectDue, StillBackingOff, SetAside, Process, EventProcessed,
     EventFailed, CloseEvent, StartBackfill, NextPage, PageFails, LastPageDone,
     TakeRecord, RecordDone, ReadFails, Adopt, Draw, FindCard, SaveConflicts
<1> QED
  BY <1>1, <1>3, <1>4

\* A token is only overwritten by a late write or by a process that did not see
\* it, so these two are all that CardsAlwaysMatch leaves out.
THEOREM OnlyRacesOverwrite == Spec => OverwritesExplained
<1>1. Inv /\ [Next]_vars => [\A c \in clobbered' \ clobbered : OverwrittenBy(c)]_vars
  BY OverwriteStep DEF Inv, Base, vars
<1> QED
  BY <1>1, InvHolds, PTL DEF Spec, OverwritesExplained

\* Where only the worker issues tokens and no write comes late, nothing is left
\* out: every row has the token the shop shows.
LoneIssuer == MaxBackfills = 0 /\ "late" \notin Environment

EveryCardMatches ==
    \A c \in Customers : cards[c] # None => cards[c] = param[c]

\* Nothing is overwritten: what is about to be written meets no token.
Undisputed ==
    /\ clobbered = {} /\ late = {}
    /\ ~walk.on /\ issue["backfill"].at = "idle"
    /\ issue["worker"].at = "put" => param[issue["worker"].who] = None

\* Only drawing a token leads to writing one.
LEMMA DrawnBeforePut ==
    ASSUME Base, NEW p \in Runners, Issue(p), ~Draw(p)
    PROVE  issue'[p].at # "put"
<1>1. issue \in [Runners -> Call] /\ issue[p] \in Call
  BY DEF Base, TypeOK
<1>2. CASE ReadFails(p) \/ PutFails(p) \/ SaveCard(p)
  BY <1>2, CallLeaves DEF ReadFails, PutFails, SaveCard
<1>3. CASE Adopt(p) \/ PutAnswered(p) \/ FindCard(p)
  BY <1>1, <1>3 DEF Adopt, PutAnswered, FindCard, Go, Call
<1>4. CASE SaveConflicts(p)
  <2> DEFINE n == IF p = "worker" THEN AtHand.attempts ELSE 0
             how == IF cards[issue[p].who] = None THEN "failed" ELSE "done"
             r == [NoCall EXCEPT !.at = how, !.who = issue[p].who, !.tries = n]
  <2>1. r.at # "put"
    BY DEF NoCall
  <2>2. issue' = [issue EXCEPT ![p] = r]
    BY <1>4 DEF SaveConflicts
  <2> HIDE DEF r
  <2> QED
    BY <1>1, <2>1, <2>2
<1> QED
  BY <1>2, <1>3, <1>4 DEF Issue

LEMMA UndisputedIssue ==
    ASSUME LoneIssuer, Base, Undisputed, Issue("worker")
    PROVE  Undisputed'
<1>1. /\ issue'["backfill"] = issue["backfill"] /\ UNCHANGED walk
      /\ issue'["worker"].who = issue["worker"].who
  BY IssueGoesOn
<1>2. clobbered' = {} /\ late' = {}
  BY DEF Undisputed, LoneIssuer, Issue, ReadFails, Adopt, Draw, PutAnswered,
     PutFails, FindCard, SaveCard, SaveConflicts, SetParam
<1>3. CASE Draw("worker")
  BY <1>1, <1>2, <1>3 DEF Draw, Undisputed
<1>4. CASE ~Draw("worker")
  BY <1>1, <1>2, <1>4, DrawnBeforePut DEF Undisputed
<1> QED
  BY <1>3, <1>4

\* The command is never started.
LEMMA UndisputedNoBackfill ==
    ASSUME LoneIssuer, Base, Rest, Undisputed
    PROVE  ~Backfill /\ ~Crash("backfill")
<1>1. /\ walk.runs \in Nat /\ walk.page = <<>> /\ ~walk.on
      /\ issue["backfill"].at = "idle" /\ MaxBackfills = 0
  BY DEF Base, TypeOK, Walk, Rest, Undisputed, LoneIssuer
<1>2. ~StartBackfill
  BY <1>1 DEF StartBackfill
<1>3. ~(NextPage \/ PageFails \/ LastPageDone)
  BY <1>1 DEF NextPage, PageFails, LastPageDone, BetweenPages
<1>4. ~(TakeRecord \/ RecordDone)
  BY <1>1 DEF TakeRecord, RecordDone
<1>5. ~Issue("backfill")
  BY <1>1, IssueGoesOn
<1> QED
  BY <1>1, <1>2, <1>3, <1>4, <1>5 DEF Backfill, Crash

LEMMA UndisputedStep ==
    ASSUME LoneIssuer, Inv, Undisputed, [Next]_vars
    PROVE  Undisputed'
<1>1. CASE Issue("worker")
  BY <1>1, UndisputedIssue DEF Inv
<1>2. CASE \/ SelectDue \/ StillBackingOff \/ SetAside \/ UNCHANGED vars
           \/ \E c \in Customers : Register(c)
           \/ \E b \in Bodies : Deliver(b)
           \/ \E e \in DOMAIN inbox : BackoffOver(e)
  BY <1>2 DEF Undisputed, SelectDue, StillBackingOff, SetAside, vars, Register,
     Deliver, BackoffOver
<1>3. CASE Process
  <2> DEFINE r == [NoCall EXCEPT !.at = "read", !.who = About[AtHand.body],
                                 !.tries = AtHand.attempts + 1]
  <2>1. r.at = "read" /\ issue' = [issue EXCEPT !["worker"] = r]
    BY <1>3 DEF Process, NoCall
  <2> HIDE DEF r
  <2>2. issue'["worker"].at = "read" /\ issue'["backfill"] = issue["backfill"]
    BY <2>1 DEF Inv, Base, TypeOK
  <2> QED
    BY <1>3, <2>2 DEF Process, Undisputed
<1>4. CASE EventProcessed \/ EventFailed \/ Crash("worker")
  <2>1. /\ issue' = [issue EXCEPT !["worker"] = NoCall]
        /\ UNCHANGED <<walk, clobbered, late>>
    BY <1>4 DEF EventProcessed, EventFailed, CloseEvent, Crash, LoneIssuer
  <2>2. issue'["worker"].at = "idle" /\ issue'["backfill"] = issue["backfill"]
    BY <2>1, CallGone DEF Inv
  <2> QED
    BY <2>1, <2>2 DEF Undisputed
<1>5. ~Backfill /\ ~Crash("backfill")
  BY UndisputedNoBackfill DEF Inv, Walked
<1>6. ~\E w \in late : LateWrite(w[1], w[2])
  BY DEF Undisputed
<1> QED
  BY <1>1, <1>2, <1>3, <1>4, <1>5, <1>6 DEF Next, Worker

\* A middleware without a backfill, whose writes never land late, never shows a
\* QR code that issue_token_for_customer has not stored.
THEOREM LoneIssuerCardsMatch ==
    ASSUME LoneIssuer
    PROVE  Spec => []EveryCardMatches
<1>1. Init => Undisputed
  BY DEF Init, Undisputed, NoCall
<1>2. Undisputed /\ Inv /\ [Next]_vars => Undisputed'
  BY UndisputedStep
<1>3. Undisputed /\ Inv => EveryCardMatches
  BY DEF Undisputed, Inv, Cards, CardMatchesShop, EveryCardMatches
<1> QED
  BY <1>1, <1>2, <1>3, InvHolds, PTL DEF Spec

\* An event marked processed (worker.py) has left its customer a card.
THEOREM ProcessedAlwaysHasCard == Spec => []ProcessedHasCard
<1>1. Inv => ProcessedHasCard
  BY DEF Inv, Cards
<1> QED
  BY <1>1, InvHolds, PTL

\* A backfill (cli.py) that reports no failure has reached every customer of
\* its beginning, whatever the size of a page and however many register
\* meanwhile.
THEOREM BackfillAlwaysCovers == Spec => []BackfillCovers
<1>1. Inv => BackfillCovers
  BY DEF Inv, Walked
<1> QED
  BY <1>1, InvHolds, PTL
=============================================================================
