----------------------------- MODULE Onboarding -----------------------------
(***************************************************************************)
(* How a customer of the shop gets a card: the registration webhook        *)
(* (webhook_routes.py), the webhook_events table the worker polls          *)
(* (worker.py), the backfill command that walks the shop's customers page  *)
(* by page (cli.py), and issue_token_for_customer (loyalty/service.py),    *)
(* which both of them call.  The token lives twice: as a customer          *)
(* parameter in UNAS, from which the QR code is drawn, and as a hash in    *)
(* loyalty_customers, by which a scanned card is looked up.                *)
(*                                                                         *)
(* Worker and backfill are two processes: the lock that                    *)
(* issue_token_for_customer takes is known to one of them only, and each   *)
(* of them issues one token at a time, so it never blocks and is left out. *)
(***************************************************************************)
EXTENDS Integers, Sequences, FiniteSets, FiniteSetsExt, SequencesExt

CONSTANTS
    Customers,      \* customers of the shop, now or later
    Bodies,         \* what UNAS may post to the webhook, each with an event_key
    About,          \* About[b]: the customer the registration b is about
    Long,           \* the bodies of more than 2000 characters
    Starts,         \* what a behaviour may start with, see Start
    MaxAttempts,    \* MAX_WEBHOOK_ATTEMPTS (8 in the code)
    BatchLimit,     \* LIMIT of the worker's query (20 in the code)
    MaxShop,        \* bound: with as many customers nobody registers any more
    MaxEvents,      \* bound on rows of webhook_events
    MaxBackfills,   \* bound on runs of the backfill command
    MaxFaults,      \* bound on crashes and late writes
    Environment,    \* which kinds of trouble may occur, see Troubles
    None            \* no token, no card, no customer

Troubles == {
    "readError",    \* getCustomer(s) fails for good, or the customer is gone
    "reject",       \* setCustomer answers an error and changed nothing
    "lost",         \* timeout: the parameter may or may not have been written
    "late" }        \* a timed-out write takes effect later

Runners == {"worker", "backfill"}

\* Tokens drawn here are positive numbers, preset ones negative.
Token == Int

\* The customers and the parameters the shop has already, the former in the
\* order of registration, and PAGE_SIZE of the backfill (100 in the code).
Start == [shop : Seq(Customers), param : [Customers -> Token \cup {None}],
          pageSize : Nat \ {0}]

ASSUME OnboardingAssumption ==
    /\ About \in [Bodies -> Customers] /\ Long \subseteq Bodies
    /\ \A s \in Starts :
          /\ s \in Start /\ IsInjective(s.shop)
          /\ \A c \in Customers : s.param[c] # None => s.param[c] < 0
    /\ MaxAttempts \in Nat \ {0} /\ BatchLimit \in Nat \ {0}
    /\ MaxShop \in Nat /\ MaxEvents \in Nat
    /\ MaxBackfills \in Nat /\ MaxFaults \in Nat
    /\ Environment \subseteq Troubles
    /\ None \notin Token /\ None \notin Customers

VARIABLES
    shop,       \* the customers of the shop in the order of registration
    param,      \* param[c]: the loyalty parameter of c in UNAS
    cards,      \* cards[c]: token_hash of the loyalty_customers row of c
    inbox,      \* the webhook_events rows in the order of received_at
    issue,      \* issue[p]: the call of issue_token_for_customer p is in
    due,        \* the events the worker's current iteration still has to do
    walk,       \* the current or last run of the backfill command
    late,       \* parameter writes that timed out and may still take effect
    faults,     \* crashes and late writes so far
    clobbered   \* history: customers a token of whom was replaced by another,
                \* until a call has stored the one the shop shows

vars == <<shop, param, cards, inbox, issue, due, walk, late, faults, clobbered>>
tables == <<cards, inbox>>

Event == [body : Bodies, status : {"received", "processed", "needs_review",
          "failed"}, attempts : Nat, ready : BOOLEAN]

\* tries is event.attempts as the worker's session has it, committed or not.
Call == [at : {"idle", "read", "put", "find", "save", "done", "failed"},
         who : Customers \cup {None}, token : Token \cup {None},
         known : BOOLEAN, tries : Nat]
NoCall == [at |-> "idle", who |-> None, token |-> None, known |-> FALSE,
           tries |-> 0]

Walk == [on : BOOLEAN, size : Nat \ {0}, offset : Nat, page : Seq(Customers),
         short : BOOLEAN, failed : BOOLEAN, from : SUBSET Customers,
         runs : Nat]

Init ==
    /\ cards = [c \in Customers |-> None]
    /\ inbox = <<>>
    /\ issue = [p \in Runners |-> NoCall]
    /\ due = {}
    /\ \E s \in Starts :
          /\ shop = s.shop
          /\ param = s.param
          /\ walk = [on |-> FALSE, size |-> s.pageSize, offset |-> 0,
                     page |-> <<>>, short |-> FALSE, failed |-> TRUE,
                     from |-> {}, runs |-> 0]
    /\ late = {}
    /\ faults = 0
    /\ clobbered = {}

-----------------------------------------------------------------------------
(* The shop and its webhooks.                                              *)

Register(c) ==
    /\ c \notin Range(shop) /\ Len(shop) < MaxShop
    /\ shop' = Append(shop, c)
    /\ UNCHANGED <<param, tables, issue, due, walk, late, faults, clobbered>>

\* customer_registration_webhook, whenever UNAS delivers and as often as it
\* does: event_key is a hash of the body, so the same body is known again, and
\* another one about the same customer is another event.  A bad signature or a
\* full rate limiter leaves no trace.
Deliver(b) ==
    /\ About[b] \in Range(shop)
    /\ \/ /\ \E e \in Range(inbox) : e.body = b
          /\ UNCHANGED inbox
       \/ /\ \A e \in Range(inbox) : e.body # b
          /\ Len(inbox) < MaxEvents
          /\ inbox' = Append(inbox, [body |-> b, status |-> "received",
                                     attempts |-> 0, ready |-> TRUE])
    /\ UNCHANGED <<shop, param, cards, issue, due, walk, late, faults,
                   clobbered>>

-----------------------------------------------------------------------------
(* issue_token_for_customer, on behalf of p.                               *)

\* c's parameter is set to token; a token that is replaced leaves a mark.
SetParam(c, token) ==
    /\ param' = [param EXCEPT ![c] = token]
    /\ clobbered' = IF param[c] \in {None, token} THEN clobbered
                    ELSE clobbered \cup {c}

Go(p, at) == issue' = [issue EXCEPT ![p].at = at]

\* The call returns (done) or raises (failed).
Leave(p, how) ==
    issue' = [issue EXCEPT ![p] = [@ EXCEPT !.at = how, !.token = None,
                                            !.known = FALSE]]

\* getCustomer fails for good, or there is no such customer.
ReadFails(p) ==
    /\ issue[p].at = "read" /\ "readError" \in Environment
    /\ Leave(p, "failed")
    /\ UNCHANGED <<shop, param, tables, due, walk, late, faults, clobbered>>

\* A token that is there is adopted, otherwise one is drawn.
Adopt(p) ==
    /\ issue[p].at = "read" /\ param[issue[p].who] # None
    /\ issue' = [issue EXCEPT ![p].at = "find",
                              ![p].token = param[issue[p].who]]
    /\ UNCHANGED <<shop, param, tables, due, walk, late, faults, clobbered>>

\* generate_loyalty_token: one that nobody holds; which one makes no
\* difference, so it is the least.
InUse == Range(param) \cup Range(cards) \cup {issue[p].token : p \in Runners}
         \cup {w[2] : w \in late}
NewTokens == {t \in 1 .. Cardinality(InUse) + 1 :
                 t \notin InUse /\ \A u \in 1 .. t - 1 : u \in InUse}
Draw(p) ==
    /\ issue[p].at = "read" /\ param[issue[p].who] = None
    /\ \E t \in NewTokens :
          issue' = [issue EXCEPT ![p].at = "put", ![p].token = t]
    /\ UNCHANGED <<shop, param, tables, due, walk, late, faults, clobbered>>

\* set_customer_param.  Whether or not UNAS carried it out, the call only
\* continues after an answer that says so.
PutAnswered(p) ==
    /\ issue[p].at = "put"
    /\ SetParam(issue[p].who, issue[p].token)
    /\ Go(p, "find")
    /\ UNCHANGED <<shop, tables, due, walk, late, faults>>

\* Mutant of PutFails: a timeout is taken for success.
IgnoreTimeout(p) ==
    /\ issue[p].at = "put" /\ "lost" \in Environment
    /\ Go(p, "find")
    /\ UNCHANGED <<shop, param, tables, due, walk, late, faults, clobbered>>

PutFails(p) ==
    /\ issue[p].at = "put"
    /\ \/ /\ {"reject", "lost"} \cap Environment # {}
          /\ UNCHANGED <<param, late, faults, clobbered>>
       \/ /\ "lost" \in Environment
          /\ SetParam(issue[p].who, issue[p].token)
          /\ UNCHANGED <<late, faults>>
       \/ /\ "late" \in Environment /\ faults < MaxFaults
          /\ late' = late \cup {<<issue[p].who, issue[p].token>>}
          /\ faults' = faults + 1
          /\ UNCHANGED <<param, clobbered>>
    /\ Leave(p, "failed")
    /\ UNCHANGED <<shop, tables, due, walk>>

LateWrite(c, token) ==
    /\ late' = late \ {<<c, token>>}
    /\ SetParam(c, token)
    /\ UNCHANGED <<shop, tables, issue, due, walk, faults>>

\* The row is looked up by the customer's id: update it, or add one.
FindCard(p) ==
    /\ issue[p].at = "find"
    /\ issue' = [issue EXCEPT ![p].at = "save",
                              ![p].known = cards[issue[p].who] # None]
    /\ UNCHANGED <<shop, param, tables, due, walk, late, faults, clobbered>>

\* unas_customer_id and token_hash are unique.
Conflict(p) ==
    \/ ~issue[p].known /\ cards[issue[p].who] # None
    \/ \E c \in Customers \ {issue[p].who} : cards[c] = issue[p].token

\* The event the worker is at: the oldest one left of its batch.
AtHand == inbox[Min(due)]

\* What p stores is what the shop shows, and so is what others will store.
Mends(p) ==
    LET c == issue[p].who
    IN  /\ issue[p].token = param[c]
        /\ \A q \in Runners \ {p} :
              issue[q].who = c /\ issue[q].at \in {"find", "save"}
                  => issue[q].token = param[c]

\* The worker's session also commits its event, with the attempt counted.
SaveCard(p) ==
    /\ issue[p].at = "save" /\ ~Conflict(p)
    /\ cards' = [cards EXCEPT ![issue[p].who] = issue[p].token]
    /\ inbox' = IF p = "worker" THEN [inbox EXCEPT ![Min(due)].attempts =
                                         issue[p].tries]
                ELSE inbox
    /\ clobbered' = IF Mends(p) THEN clobbered \ {issue[p].who} ELSE clobbered
    /\ Leave(p, "done")
    /\ UNCHANGED <<shop, param, due, walk, late, faults>>

\* Mutant of SaveConflicts: scalar_one_or_none() instead of scalar_one().
ConflictIgnored(p) ==
    /\ issue[p].at = "save" /\ Conflict(p)
    /\ Leave(p, "done")
    /\ UNCHANGED <<shop, param, tables, due, walk, late, faults, clobbered>>

\* IntegrityError: the rollback also forgets that the attempt was counted,
\* and scalar_one() raises if the customer has no row after all.
SaveConflicts(p) ==
    /\ issue[p].at = "save" /\ Conflict(p)
    /\ issue' = [issue EXCEPT ![p] =
           [NoCall EXCEPT
               !.at = IF cards[issue[p].who] = None THEN "failed" ELSE "done",
               !.who = issue[p].who,
               !.tries = IF p = "worker" THEN AtHand.attempts ELSE 0]]
    /\ UNCHANGED <<shop, param, tables, due, walk, late, faults, clobbered>>

Issue(p) == \/ ReadFails(p) \/ Adopt(p) \/ Draw(p)
            \/ PutAnswered(p) \/ PutFails(p)
            \/ FindCard(p) \/ SaveCard(p) \/ SaveConflicts(p)

-----------------------------------------------------------------------------
(* The worker: process_pending_webhooks and _process_one_webhook.          *)

Received == {e \in DOMAIN inbox : inbox[e].status = "received"}

SelectDue ==
    /\ due = {} /\ Received # {}
    /\ due' = {e \in Received :
                  Cardinality({f \in Received : f < e}) < BatchLimit}
    /\ UNCHANGED <<shop, param, tables, issue, walk, late, faults, clobbered>>

Turn == due # {} /\ issue["worker"].at = "idle"

StillBackingOff ==
    /\ Turn /\ ~AtHand.ready
    /\ due' = due \ {Min(due)}
    /\ UNCHANGED <<shop, param, tables, issue, walk, late, faults, clobbered>>

\* mask_payload_for_logging cut the stored text off: it is no JSON any more.
Unreadable(event) == event.body \in Long

SetAside ==
    /\ Turn /\ AtHand.ready /\ Unreadable(AtHand)
    /\ inbox' = [inbox EXCEPT ![Min(due)].status = "needs_review",
                              ![Min(due)].attempts = @ + 1]
    /\ due' = due \ {Min(due)}
    /\ UNCHANGED <<shop, param, cards, issue, walk, late, faults, clobbered>>

Process ==
    /\ Turn /\ AtHand.ready /\ ~Unreadable(AtHand)
    /\ issue' = [issue EXCEPT !["worker"] =
           [NoCall EXCEPT !.at = "read", !.who = About[AtHand.body],
                          !.tries = AtHand.attempts + 1]]
    /\ UNCHANGED <<shop, param, tables, due, walk, late, faults, clobbered>>

\* What the worker commits when the call has returned, or raised.
CloseEvent(status, attempts, ready) ==
    /\ inbox' = [inbox EXCEPT ![Min(due)] =
           [body |-> AtHand.body, status |-> status, attempts |-> attempts,
            ready |-> ready]]
    /\ issue' = [issue EXCEPT !["worker"] = NoCall]
    /\ due' = due \ {Min(due)}
    /\ UNCHANGED <<shop, param, cards, walk, late, faults, clobbered>>

EventProcessed ==
    /\ issue["worker"].at = "done"
    /\ CloseEvent("processed", AtHand.attempts, TRUE)

\* Mutants of EventFailed: a status nobody knows; attempts are not counted.
EventDead ==
    /\ issue["worker"].at = "failed"
    /\ CloseEvent("dead", issue["worker"].tries, FALSE)

EventRetried ==
    /\ issue["worker"].at = "failed"
    /\ CloseEvent("received", AtHand.attempts, FALSE)

EventFailed ==
    /\ issue["worker"].at = "failed"
    /\ IF issue["worker"].tries >= MaxAttempts
       THEN CloseEvent("failed", issue["worker"].tries, TRUE)
       ELSE CloseEvent("received", issue["worker"].tries, FALSE)

\* next_attempt_at, at most five minutes ahead, has come.
BackoffOver(e) ==
    /\ e \in DOMAIN inbox /\ ~inbox[e].ready
    /\ inbox' = [inbox EXCEPT ![e].ready = TRUE]
    /\ UNCHANGED <<shop, param, cards, issue, due, walk, late, faults,
                   clobbered>>

Worker == SelectDue \/ StillBackingOff \/ SetAside \/ Process
          \/ EventProcessed \/ EventFailed \/ Issue("worker")

-----------------------------------------------------------------------------
(* The backfill command: run_backfill, without --dry-run and --limit.      *)

StartBackfill ==
    /\ ~walk.on /\ walk.runs < MaxBackfills
    /\ walk' = [walk EXCEPT !.on = TRUE, !.failed = FALSE,
                            !.from = Range(shop), !.runs = @ + 1]
    /\ UNCHANGED <<shop, param, tables, issue, due, late, faults, clobbered>>

\* The command ends, having failed for someone or not.
End(failed) == walk' = [walk EXCEPT !.on = FALSE, !.offset = 0, !.page = <<>>,
                                    !.short = FALSE, !.failed = failed]

BetweenPages == walk.on /\ walk.page = <<>> /\ issue["backfill"].at = "idle"

\* Mutant of NextPage: an offset that counts from one.
NextPageSkips ==
    LET page == SubSeq(shop, walk.offset + 1,
                       Min({walk.offset + walk.size, Len(shop)}))
    IN  /\ BetweenPages /\ ~walk.short
        /\ IF page = <<>> THEN End(walk.failed)
           ELSE walk' = [walk EXCEPT !.page = page,
                                     !.offset = @ + walk.size + 1,
                                     !.short = Len(page) < walk.size]
        /\ UNCHANGED <<shop, param, tables, issue, due, late, faults,
                       clobbered>>

\* get_customers_page; an empty page ends the loop.
NextPage ==
    LET page == SubSeq(shop, walk.offset + 1,
                       Min({walk.offset + walk.size, Len(shop)}))
    IN  /\ BetweenPages /\ ~walk.short
        /\ IF page = <<>> THEN End(walk.failed)
           ELSE walk' = [walk EXCEPT !.page = page, !.offset = @ + walk.size,
                                     !.short = Len(page) < walk.size]
        /\ UNCHANGED <<shop, param, tables, issue, due, late, faults,
                       clobbered>>

\* A page that cannot be read ends the command with an error.
PageFails ==
    /\ BetweenPages /\ ~walk.short /\ "readError" \in Environment
    /\ End(TRUE)
    /\ UNCHANGED <<shop, param, tables, issue, due, late, faults, clobbered>>

LastPageDone ==
    /\ BetweenPages /\ walk.short
    /\ End(walk.failed)
    /\ UNCHANGED <<shop, param, tables, issue, due, late, faults, clobbered>>

TakeRecord ==
    /\ walk.page # <<>> /\ issue["backfill"].at = "idle"
    /\ issue' = [issue EXCEPT !["backfill"] =
                    [NoCall EXCEPT !.at = "read", !.who = Head(walk.page)]]
    /\ walk' = [walk EXCEPT !.page = Tail(@)]
    /\ UNCHANGED <<shop, param, tables, due, late, faults, clobbered>>

\* summary.created, skipped or failed.
RecordDone ==
    /\ issue["backfill"].at \in {"done", "failed"}
    /\ walk' = [walk EXCEPT !.failed = @ \/ issue["backfill"].at = "failed"]
    /\ issue' = [issue EXCEPT !["backfill"] = NoCall]
    /\ UNCHANGED <<shop, param, tables, due, late, faults, clobbered>>

Backfill == StartBackfill \/ NextPage \/ PageFails \/ LastPageDone
            \/ TakeRecord \/ RecordDone \/ Issue("backfill")

-----------------------------------------------------------------------------
\* A process dies; the worker's is started again.  Nothing uncommitted stays.
Crash(p) ==
    /\ faults < MaxFaults
    /\ IF p = "worker" THEN due # {} ELSE walk.on
    /\ faults' = faults + 1
    /\ issue' = [issue EXCEPT ![p] = NoCall]
    /\ IF p = "worker" THEN due' = {} /\ UNCHANGED walk
       ELSE End(TRUE) /\ UNCHANGED due
    /\ \/ UNCHANGED late
       \/ /\ "late" \in Environment /\ issue[p].at = "put"
          /\ late' = late \cup {<<issue[p].who, issue[p].token>>}
    /\ UNCHANGED <<shop, param, tables, clobbered>>

Next == \/ \E c \in Customers : Register(c)
        \/ \E b \in Bodies : Deliver(b)
        \/ \E w \in late : LateWrite(w[1], w[2])
        \/ Worker \/ Backfill
        \/ \E e \in DOMAIN inbox : BackoffOver(e)
        \/ \E p \in Runners : Crash(p)

Spec == Init /\ [][Next]_vars

\* The worker loop never ends, and time passes.  Nobody has to register,
\* deliver a webhook, or run the backfill.
FairSpec == Spec /\ WF_vars(Worker)
                 /\ \A e \in 1 .. MaxEvents :
                       WF_vars(BackoffOver(e))

-----------------------------------------------------------------------------
(* Correctness.                                                            *)

\* Every variable keeps its type.
TypeOK ==
    /\ shop \in Seq(Customers) /\ inbox \in Seq(Event)
    /\ param \in [Customers -> Token \cup {None}]
    /\ cards \in [Customers -> Token \cup {None}]
    /\ issue \in [Runners -> Call]
    /\ due \subseteq DOMAIN inbox
    /\ walk \in Walk
    /\ late \subseteq Customers \X Token
    /\ faults \in Nat
    /\ clobbered \subseteq Customers

\* A card that is printed from the shop's parameter is found in the table:
\* whatever failed, crashed or was tried again, the row of a customer has the
\* token the shop shows, also while another one is being issued.  Excepted is
\* a customer whose token was overwritten by another one, which takes two
\* processes at once or a write that came late, and only until a call for that
\* customer goes through again.
CardMatchesShop ==
    \A c \in Customers \ clobbered : cards[c] # None => cards[c] = param[c]

\* An event is only called processed when the customer it is about has a card.
ProcessedHasCard ==
    \A e \in Range(inbox) : e.status = "processed" => cards[About[e.body]] # None

\* A backfill that ends without reporting a failure has given every customer
\* a card that was in the shop when it started.
BackfillCovers ==
    ~walk.on /\ ~walk.failed => \A c \in walk.from : cards[c] # None

\* An event does not stay in the queue for ever: it is processed, set aside,
\* or given up after MAX_WEBHOOK_ATTEMPTS.  Excepted are the event of a customer
\* whose parameter is a token another customer's card has, since SaveConflicts
\* takes back the attempt it counted, and the events behind enough of those to
\* fill the worker's batch: they are first in order of received_at for ever.
Barred(c)  == cards[c] = None /\ param[c] # None
              /\ \E d \in Customers \ {c} : cards[d] = param[c]
Stuck      == {e \in Received : Barred(About[inbox[e].body])}
Crowded(e) == Cardinality({f \in Stuck : f < e}) >= BatchLimit
EventsSettle ==
    \A e \in 1 .. MaxEvents :
        e \in Received ~> e \notin Received \/ e \in Stuck \/ Crowded(e)

\* A customer who registers, and whose registration reached the middleware,
\* gets a card.
RegistrationGetsCard ==
    \A c \in Customers :
        (\E e \in Range(inbox) : About[e.body] = c) ~> cards[c] # None
=============================================================================
