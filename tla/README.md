# A verification project for the UNAS loyalty middleware

TLA+ modules of the middleware that lets a shop's cashiers scan a customer's
QR card, credit points for a purchase, redeem points, and that lets an admin
reverse either. The points themselves live in a UNAS web shop, which knows
only "set this customer's balance to N". Everything that is hard about the
program follows from that: it reads a balance, computes, and overwrites, over a
network that loses answers, for requests that run concurrently.

Paths below are relative to the repository; `loyalty_app/` abbreviates
`src/loyalty_app/`.

## 1. Inventory

| Part | Source | State it keeps | Operations |
|---|---|---|---|
| Points ledger | `loyalty_app/loyalty/service.py`, `concurrency.py`, `models.py` | table `loyalty_transactions` (one row per idempotency key: pending, applied, failed, reversed), a lock per customer in each process, the balance in UNAS | `earn`, `redeem`, `reverse`, all through `_apply_balance_change` |
| Reconciliation | `loyalty_app/worker.py` | the batch of the current iteration | `reconcile_pending_transactions` every five seconds |
| Card onboarding | `webhook_routes.py`, `worker.py`, `service.py`, `cli.py` | table `webhook_events`, table `loyalty_customers` (a hash of the token), the token in a UNAS customer parameter | registration webhook, `process_pending_webhooks`, `issue_token_for_customer`, `backfill-customers` |
| UNAS client | `loyalty_app/unas/client.py` | cached Bearer token and its lock, time of the last request and its lock | `getCustomer`, `setCustomer`, login, renewal, retries |
| Register page | `loyalty_app/static/register.js` | scan field, customer shown, balance shown, dialog, requests under way | scan, earn, redeem, reverse, reset |
| QR payload, rules | `loyalty/qr.py`, `loyalty/rules.py` | none | what a payload stands for; points of a purchase; limits of a redemption |
| Database sessions | `db.py`, `api/deps.py` | SQLite's write lock, the event loop, the transaction a session has open | one session per request, `BEGIN IMMEDIATE`, `busy_timeout`, close in a thread |
| Accounts | `auth_routes.py`, `admin_routes.py`, `security.py` | table `users`, signed cookie | login, bootstrap, role checks |
| Rate limiter of the API | `rate_limit.py` | a deque of hits per bucket and address | `check`, on the event loop or in threads |
| Conversions, wiring | `xml_utils.py`, `schemas.py`, `config.py`, `main.py`, `pages.py`, templates, migrations | none | |

How they interact. The page calls the API; a handler takes its customer's
`asyncio.Lock`, then alternates between short database transactions and calls
of the UNAS client, which all coroutines of a process share. The worker is one
more coroutine: it reads what handlers and the webhook left in the tables,
calls UNAS, and writes verdicts without taking the customer lock. The
backfill command is another process, which shares only the tables and UNAS.
Synchronous dependencies and routes (the user of a request, logins) run in
threads of the same process, next to the event loop.

What is hard here, part by part, and what makes it correct:

* **Ledger.** A write computed from an old balance (two processes, a late
  write, somebody else changing the balance); the same key submitted again; an
  answer that never comes; a crash between two commits; the worker judging a
  row a handler is working on. Correct: no update is lost, no key counts twice,
  no change is without a row, every pending row gets a verdict, the mark
  "reversed" means that a reversal was applied, every lock is released.
* **Onboarding.** The token has two homes, and either write can fail or be
  repeated; worker and backfill may meet at one customer. Correct: a row has
  the token the shop shows; an event called processed, a backfill that reports
  no failure, leave cards behind; an event leaves the queue, but for those the
  code keeps in it or shuts out of the batch for ever (section 6).
* **Client.** Several calls refused at once renew one token; a login sits on a
  lock; a write must not be repeated after a timeout. Correct: a write happens
  once or not at all and its result says what it may say; one renewal is
  enough; requests keep their distance; every call ends.
* **Sessions.** The first statement of a session takes SQLite's only write
  lock; a coroutine that finds it taken stops the event loop, which its holder
  may need. Correct: nobody waits for ever, no answer of UNAS is lost to a busy
  database, nothing is kept by a request that ended.
* **Limiter.** The edge of the window; threads between a test and what they do
  about it. Correct: the window is exact on the event loop, threads exceed it by
  a known number.
* **Page.** Answers in any order, a reader that types faster than the page
  clears its field, a dialog in between. Correct: the buttons book for the
  customer on the panel; what is booked was confirmed; the balance shown is
  the current one; no status hangs.

`PROJECT.json` lists these hazards one by one with the line where each bites.

## 2. The modules

| Module | What it is |
|---|---|
| `PointsAccount` | abstract: every earn, redemption and reversal is one addition; redemptions do not overdraw |
| `IdempotentKeys` | abstract: every key is recorded, carried out and settled once; a booking is marked reversed by its settled reversal |
| `LoyaltyLedger` | the ledger and the reconciliation; implements `PointsAccount` and `IdempotentKeys`, each in a deployment described below |
| `LoyaltyLedgerProofs` | its theorems about types, locks and balances |
| `LedgerKeysProofs` | its theorems about one idempotency key: effects, statuses, reversals |
| `LedgerVerdictProofs` | its theorem about verdicts: when a status is the truth about the balance |
| `Onboarding` | webhook, worker, backfill, issuing of tokens |
| `RemoteWrite` | abstract: what a handler may rely on when it awaits a `setCustomer` call |
| `UnasClient` | token cache, login, pacing, retries; implements `RemoteWrite` |
| `RegisterPage` | the cashier's page, the server reduced to its answers |
| `SqliteSessions` | SQLite's write lock, the event loop and the threads, the handlers reduced to their statements and awaits |
| `RateLimit` | the sliding window, statement by statement |
| `OnboardingProofs`, `UnasClientProofs`, `RegisterPageProofs`, `SqliteSessionsProofs`, `RateLimitProofs` | the theorems about each |
| `MC*` | small instances for TLC |

### LoyaltyLedger

An action is what runs between two `await`s, or between two points where a
crash or another process could see the difference.

| Code | Action or state |
|---|---|
| a request reaches `async with lock` | `Submit`, then `LockForRedeem` / `Entering` when the lock is free |
| `redeem`: first `get_customer_by_id`, `validate_redeem_request` | `validate`, `RefuseOverdraw`, `Covered` |
| `reverse`: `session.refresh(original)` | `AlreadyReversed` |
| `existing.status == "applied"`, `_is_fresh_pending` | `ReplayApplied`, `RefuseInFlight` |
| otherwise, up to the await of `get_customer_by_id` | `Lookup` (keeps the row as loaded), `Observe`, `ReadFails` |
| new row / renewed row, `session.commit()` | `InsertPending`, `DuplicateKey`, `UpdatePending` with `Renewed` |
| `set_customer_balance` | `UnasApplies`, `UnasDeclines`, `LateWrite` |
| the three ways on from there | `FinishApplied`, `FinishUncertain`, `FinishFailed` |
| `if result.status == "applied"` in `reverse`, its second commit | `MarkReversed`, `Unmarked` |
| any commit that raises | `CommitFails` |
| `reconcile_pending_transactions` | `WorkerSelect`, `WorkerRead`, `WorkerSkip`, `WorkerVerdict`, `WorkerAborts` |

Two details of SQLAlchemy decide outcomes and are modelled: a column is only
part of an UPDATE when the value assigned differs from the value loaded
(`Renewed`, `WorkerVerdict`), and a commit expires what the session has
loaded (`SetStatus`, `Continuations`, and `Unmarked`: the status `reverse` tests
is read again after the commit that set it, and may be a worker's verdict by then).
The worker of an instance also stands for those of other processes, since it
may move between any two actions of a handler. The two readings of a redemption
and the lookup of its key need no more than `Entering` and `Observe`: the lock is
held throughout, and what is booked is the second reading. A customer's amounts are the constants
`Points`; `balance_before` and error texts are left out because nothing reads
them again. `created_at` is reduced to whether a minute has passed (`fresh`).

`Environment` says which kinds of trouble an instance has: failing reads,
refused writes, unreadable answers, lost answers, writes that land late,
commits that fail, a first write slower than a minute, clients that repeat a
key they have reversed. One specification serves every deployment; a theorem
names the trouble it excludes.

The tables are those of a database that does not block readers. The SQLite
engine of `db.py` opens every transaction with `BEGIN IMMEDIATE`, which allows
fewer interleavings; what its lock does to the event loop is the subject of
`SqliteSessions`.

### Onboarding

`issue[p]` is the call of `issue_token_for_customer` that the worker or the
backfill is in; the two are different processes, so the lock the function
takes never stops either. `param` is the parameter in UNAS, `cards` the table,
`inbox` the events, `due` and `walk` the progress of worker and backfill.
`SaveCard` and `SaveConflicts` are the commit and its `IntegrityError`; the
commit also stores the attempt the worker has counted, and the rollback takes
it back, as in the code, where both are one session. What UNAS posts is a body,
`About` one customer; the table knows an event by its body (`event_key` is a
hash of it), so a customer may have several events. A body in `Long` has more than
the 2000 characters that are stored. `clobbered` remembers whose token was
overwritten by another one, until a call for that customer has stored what the
shop shows (`Mends`). `MaxShop` and `MaxEvents` bound the shop and the table.

### UnasClient

`call[c]` follows one call through `get_token`, the rate limiter, the wire,
`_post_with_retry` and `_authenticated_post`; a login is the same path with
`job = "login"`, during which `tokenLock` is held. UNAS numbers its tokens;
`revoked` is up to where it accepts them no more. A reply "lost" stands for
`UnasTransientError`, "error" for every other answer that is not a success.

### RegisterPage

The variables are those of the script. A payload is the sequence of cards
whose codes ended up in the field, and `Resolve` is what the server makes of
it: of two codes in the URL form the last one counts, anything else that was
appended is no code. `arrival` is the code a page opened by `/scan/<token>`
starts with, which `init` handles once the rules have come (`Arrive`). A balance
is represented by its owner and its age, so
that a stale or foreign one can be told from the current one. `strayed` records
that the cashier did something while an answer, a dialog or the code the page
was opened with was outstanding: some properties are about the cashier who does
not. The list of transactions (`loadHistory`) is left out: nothing else reads
it.

### SqliteSessions

`writer` is the session that holds the lock, `loop` the coroutine between two
awaits, `turn` a customer's `asyncio.Lock`, `pc[r]` where a request is:

| Code | Action |
|---|---|
| `get_current_user`, in a thread | `Arrive`, `LoadUser` |
| a handler's first lines, `async with lock` | `Enter`, `Lock` |
| `await get_customer_by_id` | stage `read`, `ReadAnswered` |
| `session.commit()` of the pending row, of a scan's name, of a verdict | `Store` |
| `customer.unas_customer_id`, an argument of `set_customer_balance` | `Reopen` |
| `await set_customer_balance` and what follows | stage `put`, `PutAnswered`, `Record`, `Reload` |
| the webhook's lookup, insert, commit; the worker's queries | `Wake`, `Select` |
| `OperationalError` after `busy_timeout` | `Busy` |
| `session.close()` | `Close`, in a thread for a request, in its coroutine for the worker |

`Reopen` is the step the documents do not know of: a commit expires what the
session has loaded (`expire_on_commit` is SQLAlchemy's default), so the next
attribute is a SELECT, which opens a transaction, with `BEGIN IMMEDIATE`, that
stays open during the await. A statement that finds the lock taken either waits
until it gets it (it is simply not enabled) or fails (`Busy`); when it is a
coroutine's, `loop` is not `Nobody` meanwhile. Requests that only threads serve,
and the steps of the backfill command, are `Pages`; the runs have none, since
they differ from the other threads' steps in nothing, the theorems have any
number. Bookings are earns and redemptions. A reversal, a booking whose answer is
followed by one more commit in the transaction `Reload` opened, is left out.

### RateLimit

`hits[k]` are all hits admitted for a key, the deque is what is left of them
from `head[k]` on, so that what was admitted can be told from what is still
remembered. Each statement of `check` is an action, because threads interleave
between them; a caller that has its key to itself (`Alone`) is the event loop,
on which one check runs at a time. An `IndexError` raised by a deque that another
thread has emptied ends the check.

## 3. The runs

| Run | Question | Bounds |
|---|---|---|
| `retries` | one process, all troubles but late writes, failing commits and writes slower than a minute: is every write an addition, is every change recorded, is nothing done more often than asked, is no lock left behind? | 1 customer, an earn of 3 and its reversal, each twice, a redemption of 2, 2 slots, 1 crash |
| `page` | clients that never repeat a key, with every trouble but slow writes, a foreign change of the balance and a crash: are verdicts kept, is "reversed" true? | as above with both reversals, each request once |
| `processes` | two processes, each request twice, no lost calls: does the unique key suffice against double booking, and does a key look like `IdempotentKeys`? | 2 processes with a slot each |
| `live` | is every request answered, every pending row judged, and every verdict true? | both bookings and the reversal of the earning, 1 crash, timeouts; batch of one row, so that rows compete for it |
| `intake` | worker and backfill at once, lost and late writes, a crash: `CardMatchesShop`, `ProcessedHasCard`, `BackfillCovers`, `EventsSettle` | 3 customers, 3 bodies about two of them, one of them long, 2 events, batch of 1, 2 attempts; an older customer, one who registers, no parameters and a page of 1, or three older customers, two of them sharing a token, and a page of 2 |
| `calls` | a write and a forbidden read share the client: `OnceOrNever`, `RevocationHarmless`, `Spaced`, `CallsEnd` | 2 tries, an interval of 1 tick, 2 revocations |
| `desk` | the page, opened empty or by a card, with a cashier of any haste and an admin | 3 cards, 2 of them URLs, 3 requests |
| `sessions` | who waits for whom on SQLite: `OneAtUnas`, `OutcomeKept`, `LocksReturned`, `LoopComesBack`, `RequestsEnd` | two bookings of one card, a scan, a webhook, the worker |
| `limits` | one caller on the loop, two threads on one deque: `AtMostMax`, `RefusedForCause`, `BurstBounded` | limit 2, window 1, three readings of the clock, 6 hits per key |
| `replay_reversed`, `long_payload`, `stall` | the findings of section 6 | the smallest instance that shows each |

Why these bounds are enough to be interesting: an earn of 3 and a redemption
of 2 on an account without points make the redemption legal only after the
earn, and illegal again after its reversal; two slots are what a race needs, a
third only repeats it since a customer's lock admits one at a time. A batch of
one makes the limit of 20 bite; a page of one makes the backfill fetch several,
a page of two makes it end on a short one. The worker reaches
the pending rows of a repeated reversal between its two commits, which fires
`Unmarked`. Two attempts stand for
eight: the code distinguishes only "not yet" and "reached". Two revocations
are one more than the client survives. Three requests of the page are a scan, a
second scan or a booking, and an answer that overtakes them. Two bookings of one
card are what a customer's lock needs to be waited for, a third task at least to
stand between them. A limit of two is the smallest at which a window has an
inside. Two threads may leave three hits in a deque, and a key may take
six, so it is the limiter and not the bound that stops them: the mutant
`CountEqual`, which never refuses above the limit, breaks `BurstBounded` only on
the threads' key. An event of a customer whose token another card has stays at
the head of a batch of one, and a third customer's registration behind it is
never reached: `EventsSettle` without `Crowded` fails in `intake`.

`SYMMETRY` is used for the two slots of one process, the two threads of the
limiter and the cards in URLs, in runs without liveness properties. `CHECK_DEADLOCK FALSE` is set throughout: clients, the shop's
customers and the cashier may stop, and bounded counters run out.

Every property has a mutant: a plausible slip in one definition (a forgotten
check, a lock taken too late, a commit left out) that makes the run fail.
Mutants stand in front of the definition they replace, marked as such.

## 4. Fairness

* A handler's step (`Proceed`) and a call's step have strong fairness. A
  waiting coroutine is enabled only while its lock is free; `asyncio.Lock`
  serves its waiters in order, so one that waits is served. The answer of UNAS
  is bounded by httpx's timeout, whatever it is.
* The worker has weak fairness: `run_worker_loop` catches every exception and
  never returns. In `live` it also gets the balance of a row, and commits its
  verdict, if it tries again and again: a UNAS that is down for ever resolves
  nothing.
* In `SqliteSessions` each task's steps have strong fairness: the loop resumes
  every runnable coroutine, threads run, the answer of UNAS is bounded by httpx's
  timeout and a statement's wait by `busy_timeout`. A coroutine is enabled again
  and again while others use the loop, not always. Nobody has to arrive.
* Time passes (`Age`, `BackoffOver`, `Tick`).
* Nobody has to submit, register, deliver a webhook, run the backfill, scan,
  crash, or renew a token.

## 5. What is proved

`LoyaltyLedgerProofs`, for every set of customers, keys, amounts, slots and
processes, every batch limit and every bound:

* `TypeCorrect`: `TypeOK`, and `AlwaysLocated`: the invariant `Located`, in every
  environment. `TypeOK` is not inductive: a handler updates the row it loaded,
  the worker's `snap[cur]` has to be a row, a write needs a balance that was
  read. `TasksLocated` and `WorkersLocated` say what a task and a worker have
  at each step; with them the three are inductive together.
* `IntentAlwaysRecorded`: no balance changes for a request without a row. Rows
  never vanish, and a task that writes has one, by `Located`.
* `LocksAlwaysHeld` and `LocksAlwaysInUse`: from entering to leaving `async with
  lock` a request holds the lock of its customer in its process, and a lock that
  is taken is held by such a request, in every environment. The steps are sorted
  by whether they take, keep, need or leave the lock (`LockStep`); each way out of
  a handler is a case. What `asyncio` adds, that a waiter is woken, is the
  fairness of `live`.
* `SnapshotAlwaysCurrent` and `Refinement` (of `PointsAccount`), under
  `SoleWriter`: all slots belong to one process, no write lands late, nobody
  else changes balances. Then no task is an orphan, so a second write for a
  customer would need a second holder of one lock; hence the balance read is
  the balance overwritten (`SnapshotCurrent`), and what was validated for a
  redemption still holds at the second reading (`RedeemCovered`). `Sole` is the
  conjunction of all of these; it is what is inductive.
* `RedemptionsNeverOverdraw`, under `SoleWriter` too: a balance that was not
  negative gets so only by the reversal of an earn. A write adds its amount to
  the balance (`WriteMovesBalance`), and one that subtracts is a covered
  redemption, or a reversal whose effect stays on record.

The theorems under `SoleWriter` need each of its parts: with a second process
two handlers hold two locks for one customer, and a late write or a foreign
change between reading and writing does the same damage. The constants'
assumption is `LedgerAssumption`, which TLC evaluates in every run of the ledger.

`LedgerKeysProofs` first sorts the steps (`NextSorted`) by what they do to one
task, one row and the effects.

`OncePerSubmissionAlways` has no assumption: in every environment the effects of a
key, and the slots that may still have one for it (`Owing`), are together no more
than its submissions (`AskedFor`); a write that lands late is paid for by the
orphan it leaves. Hence `UnrepeatedEffectAtMostOnce`: a client that sends every
request once, as the page does, is never booked twice, whatever fails. A client
that repeats a key after a lost answer may be (section 6), and then at most as
often as it sent it.

The rest treats two deployments.

* `Unrepeated`: no key is submitted twice (the register page draws a new one for
  every click) and no first write takes longer than `PENDING_FRESH_SECONDS`;
  timeouts, late writes, failing commits, foreign changes and crashes are allowed,
  and so is any number of processes. Then a request is alone with its row until
  it has left it (`SubmittedOnce`, `FirstOfItsKey`), a reversal begins when the
  handler of its booking is gone (`AfterOriginal`), and a worker has only what
  its handler has left (`LeftBehind`). So the reversal a mark rests on is applied
  and in nobody's batch (`SealedReversals`): `ReversedAlwaysHasReversal`. With `OneWorker`, what is in a batch is pending
  (`Unjudged`), hence `AppliedStaysApplied`; a second worker could give its
  verdict on a row the first one has settled, so that assumption is needed.
* `Reliable`: only reads of the balance fail and no process dies; keys are
  repeated at will and on any number of processes. Whoever inserted the row is
  the one who writes (`Straight`, `SentOnce`), so a pending row is young and in
  somebody's hand (`InHand`), the worker finds nothing to do, and what is settled
  was written once (`Counted`): `RepeatedEffectAtMostOnce` and `TableAlwaysTells`.
  From the same invariant, `RepeatedReversedHasReversal` and
  `RepeatedAppliedStaysApplied`, and `KeysAreIdempotent`: every step is one of
  `IdempotentKeys` or changes nothing a client can tell. The insert is `Record`,
  the write `CarryOut`, the commit after it `Settle`, the mark `Mark`. A client
  that asked for the reversal is done with the booking (`DoneWith`); without it
  the run `replay_reversed` is a counterexample.

`LedgerVerdictProofs`: `VerdictAlwaysTrue`, in the deployment `Observable`: all
requests in one process, nobody else writes balances, keys are sent once, and
UNAS does not answer "error" to a write it carried out. Reads, writes, commits
and the process may fail, and any number of workers judges. Then, for a request
that is the only one to have changed the balance of its customer, the balance
tells whether it did (`Level`), the row expects the balance it would leave
(`Recorded`), and so do the workers' copies (`Batched`); what a worker has read is
still the balance (`ReadOff`), since nobody with that row is about to write; an
answer means what it says (`Replied`); and a reversal is at work on a booking that
did change the balance (`Grounded`), so its mark is true as well. With another
booking in between the worker's comparison can be wrong either way, which is why
`VerdictTrue` says `OnlyEffect`.

`OnboardingProofs`: `TypeOK`, `CardMatchesShop`, `ProcessedHasCard` and
`BackfillCovers`, for every set of customers, every content of the shop, every
page size and attempt limit. The inductive invariant has three layers. `Base`
says what each call has at hand (`Calls`) and that the worker's call is about
the oldest event of its batch (`AtTheEvent`). `Cards` adds that the token about
to be stored is the one the shop shows (`Shown`), which is what makes the row
agree with the parameter, and that a call that is done left a card (`DoneHasCard`),
which is what makes "processed" true. `Walked` follows a backfill: every customer
it set out for has a card, or is on its page, in its hand or ahead of its offset
(`Progress`, of `OnPage`, `InHand`, `Ahead`), unless it has failed; and nothing
is left of one run when the next begins (`Rest`). That a page is a slice of the shop, and the
next one starts where it ended, is a lemma about `SubSeq` and the least element
of a set.

`CardMatchesShop` leaves out the customers in `clobbered`, and two theorems say
what that costs. `OnlyRacesOverwrite`: a customer gets there only by a write that
timed out and lands late over another token, or by one that was decided on when the
parameter was still empty, that is, by two processes at once. The next call that
goes through for the customer, with no other under way, ends it. `LoneIssuerCardsMatch`: where the backfill
does not run and no write lands late (`LoneIssuer`), nothing is ever overwritten
(`Undisputed`), and every card agrees with the shop without exception.

`UnasClientProofs`: `TypeOK`, `RevocationHarmless`, `Spaced` and the refinement
of `RemoteWrite` (`OnceOrNever`), for any number of calls. `LoginLocked` and
`SleepLocked` say who has which lock, `Stage` what a call has at hand; `Turn` that
who sleeps has calculated its nap from a gap that has only grown since; `Renewed`
that after a single revocation a call that dropped the cached token finds none
but younger ones, since the lock lets no login that began before put its token
there afterwards; `Outcome` what each answer says about the effect.

`RegisterPageProofs`: `TypeOK`, `PanelMatchesCurrent`, `LoadingMeansBusy`,
`ConfirmationsHonoured` and `BalanceUpToDate`, for every set of cards and every
number of requests. The first three hold for any cashier; the last two are
about one who waits, and rest on what is outstanding then: only scans while the
first code is still to be handled (`AwaitsArrival`), a dialog only with nothing
in flight and about the customer shown (`AwaitsDialog`), and one change at a time
(`AwaitsChange`).

`SqliteSessionsProofs`: `TypeOK`, `OneAtUnas`, `OutcomeKept` and `LocksReturned`
(`TurnIsFree` and `NothingKept`), for every set of requests. The invariant is
that between its first statement and its commit a session has the lock
(`Holders`), that it has it only then (`Writers`), that the loop is where a
coroutine is between two awaits (`Loopers`), and that a customer's lock is held
by its bookings inside `async with` (`Turns`). Two tasks at UNAS would be two
holders.

`RateLimitProofs`: `TypeOK`, `AtMostMax`, `RefusedForCause` and `BurstBounded`
(with `Overshoot`), for any limit, window, keys and callers. `Room` counts the
callers that have passed the test of the length and not appended yet; `Popping`
says that nothing leaves the deque before something has expired; on the loop,
`Gone`, `Sorted` and `Tested` say that what was popped has expired, that the
deque is in order and that a test made is still true.

Every invariant, every action property and every refinement that a run
checks are also theorems, under the assumptions named above. Only model-checked:
all liveness (`RequestsEnd`, `PendingResolved`, `EventsSettle`, `CallsEnd`,
`LoopComesBack`), which is out of the prover's reach,
as are `ENABLED` and induction over data. No module declares a recursive
operator.

## 6. Where the code disagrees with its documents

Three of these are runs that end in a counterexample:

* `replay_reversed`: the request of a transaction that was reversed, repeated,
  books its points again (`service.py:185` replays only the status "applied"),
  and the original can then not be reversed any more.
* `long_payload`: `worker.py:75` parses the copy of the payload that was cut off
  for logging; a longer registration gets no card.
* `stall`: a booking awaits UNAS in the transaction that refreshed its customer
  (`service.py:229`), and the event loop stands in `busy_timeout` for it, although
  only the loop could take the answer. `docs/ARCHITECTURE_DECISIONS.md:45-50` says
  that no transaction is open during a call of UNAS. Property
  `OneAtUnas`, which keeps two processes from overwriting each other on SQLite,
  holds only because of this.

Seen while modelling, without a run of their own:

* with two processes on Postgres, points are lost: `docs/DEPLOYMENT.md:197-200`
  says one worker is not needed there because of `SELECT ... FOR UPDATE`, but no
  query in `loyalty/service.py` locks a row;
* a reversal whose write timed out and which the worker found carried out never
  marks its original (`worker.py:115`), which `docs/CASHIER_GUIDE.md:49-52`
  promises;
* a card in the inline form read twice at once does not have its second reading
  ignored (`register.js:143`, against `docs/CASHIER_GUIDE.md:58-59`): the reader
  appended it to the first, so it is another payload, which is sent and is no
  code;
* the page draws a new key for every click (`register.js:224`), so the same
  receipt entered again is booked again, against `docs/CASHIER_GUIDE.md:60-61`;
* an uncertain write may be repeated before the worker has judged it
  (`service.py:193`, against `loyalty/errors.py:43-44`), and may then be booked as
  often as it was sent (`OncePerSubmission`), not once;
* a redemption that was applied is refused when repeated, if the balance it left
  does not cover it again (`service.py:331-334`);
* an event whose token belongs to another customer is tried for ever
  (`service.py:88-89` forgets the attempt). It stays first in
  `order_by(received_at).limit(20)` (`worker.py:52-56`), also while it is backing
  off, so 20 such events shut every later registration out: `EventsSettle`
  excepts both kinds (`Barred`, `Crowded`);
* HTTP 202 makes the page announce a new balance of "undefined"
  (`register.js:227-229`);
* a booking whose record is committed is answered with HTTP 500 when `tx.id`
  cannot be read any more (`service.py:246`).

## 7. Not modelled

Rendering, XML, request schemas, configuration, migrations and logging hold no
state. `loadHistory`, the previews of the page, `--dry-run` and `--limit` change
nothing that the rest depends on. Of the business rules only the check of the
balance is part of the ledger: the other limits refuse a request before anything
happens, and the points of a purchase are computed in floating point, which TLA+
does not have. `qr.py` is modelled as far as codes may be appended to each
other, not down to the characters of a token. Accounts and sessions are requests
that are decided one by one from the users table and a signed cookie; the
administration commands are single inserts.

What could be added: the accounts, for the user who is deactivated while signed
in and the bootstrap of the first admin from two browsers; the ledger with
`UnasClient` underneath it in place of `UnasApplies` and `UnasDeclines`;
`loadHistory`, whose list may be older than the balance next to it.
