----------------------------- MODULE UnasClient -----------------------------
(***************************************************************************)
(* The client every coroutine of a process shares for its calls to the     *)
(* UNAS API (unas/client.py): the cached Bearer token and the lock around  *)
(* it, the login, the rate limiter all requests pass, the repetition of a  *)
(* call UNAS refused to authenticate, and the retries that only reads and  *)
(* logins get.  An action is what runs between two awaits.                 *)
(***************************************************************************)
EXTENDS Integers

CONSTANTS
    Calls,           \* calls of the client's methods, each made once
    Writes,          \* the setCustomer calls; the others read
    Forbidden,       \* calls this API key has no permission for
    MaxTries,        \* stop_after_attempt (3 in the code)
    Interval,        \* ticks between requests, 0: no limit
    MaxRevocations,  \* how often UNAS ends the tokens it issued
    None             \* no lock holder, no answer

Replies == {"ok", "error", "lost", "unauthorized", "forbidden"}

ASSUME ClientAssumption ==
    /\ Writes \subseteq Calls /\ Forbidden \subseteq Calls
    /\ MaxTries \in Nat \ {0} /\ Interval \in Nat /\ MaxRevocations \in Nat
    /\ None \notin Calls \cup Replies

VARIABLES
    token,        \* _token: the cached token, 0 for none
    due,          \* it is within 60 seconds of expires_at
    tokenLock,    \* who holds _token_lock
    paceLock,     \* who holds _rate_limiter._lock
    gap,          \* ticks since _last_request_at, Interval for "long ago"
    call,         \* call[c]: where call c is
    issued,       \* tokens UNAS issued: 1 .. issued
    revoked,      \* of which 1 .. revoked are accepted no more
    revocations,  \* how often that happened
    effects,      \* effects[w]: how often UNAS carried w out
    floating      \* writes UNAS may still carry out, unknown to the client

clientVars == <<token, due, tokenLock, paceLock, gap>>
unasVars   == <<issued, revoked, revocations, effects, floating>>
vars       == <<clientVars, call, unasVars>>

Call == [at : {"idle", "token", "pace", "sleep", "wire", "answered",
               "refused", "done"},
         job : {"login", "post"}, tries : Nat, token : Nat, again : BOOLEAN,
         nap : Nat, reply : Replies \cup {None}, result : Replies \cup {None}]

NewCall == [at |-> "idle", job |-> "post", tries |-> 0, token |-> 0,
            again |-> FALSE, nap |-> 0, reply |-> None, result |-> None]

Init ==
    /\ token = 0 /\ due = FALSE /\ tokenLock = None /\ paceLock = None
    /\ gap = Interval
    /\ call = [c \in Calls |-> NewCall]
    /\ issued = 0 /\ revoked = 0 /\ revocations = 0
    /\ effects = [w \in Writes |-> 0] /\ floating = {}

-----------------------------------------------------------------------------
(* get_token and invalidate_token.                                         *)

Begin(c) ==
    /\ call[c].at = "idle"
    /\ call' = [call EXCEPT ![c].at = "token"]
    /\ UNCHANGED <<clientVars, unasVars>>

\* The request goes to _post, under the token t in the Authorization header.
Post(c, job, t) ==
    call' = [call EXCEPT ![c] = [@ EXCEPT !.at = "pace", !.job = job,
                                          !.tries = 1, !.token = t,
                                          !.reply = None]]

\* The method returns, or raises the exception how stands for.
End(c, how) ==
    call' = [call EXCEPT ![c] = [NewCall EXCEPT !.at = "done", !.result = how]]

Cached == token # 0 /\ ~due

TokenCached(c) ==
    /\ call[c].at = "token" /\ tokenLock = None
    /\ Cached
    /\ Post(c, "post", token)
    /\ UNCHANGED <<clientVars, unasVars>>

\* The lock is kept until the login is over, all its retries included.
StartLogin(c) ==
    /\ call[c].at = "token" /\ tokenLock = None
    /\ ~Cached
    /\ tokenLock' = c
    /\ Post(c, "login", 0)
    /\ UNCHANGED <<token, due, paceLock, gap, unasVars>>

LoggedIn(c) ==
    /\ call[c].at = "answered" /\ call[c].job = "login"
    /\ call[c].reply = "ok"
    /\ token' = call[c].token /\ due' = FALSE
    /\ tokenLock' = None
    /\ Post(c, "post", call[c].token)
    /\ UNCHANGED <<paceLock, gap, unasVars>>

\* The exception of a failed login leaves "async with" and ends the call.
LoginFails(c) ==
    /\ call[c].at = "answered" /\ call[c].job = "login"
    /\ \/ call[c].reply \notin {"ok", "lost"}
       \/ call[c].reply = "lost" /\ call[c].tries >= MaxTries
    /\ tokenLock' = None
    /\ End(c, call[c].reply)
    /\ UNCHANGED <<token, due, paceLock, gap, unasVars>>

\* Mutants of Invalidate: the cached token stays; the lock does.
KeepToken(c) ==
    /\ call[c].at = "refused" /\ tokenLock = None
    /\ call' = [call EXCEPT ![c].at = "token", ![c].again = TRUE]
    /\ UNCHANGED <<clientVars, unasVars>>

KeepLock(c) ==
    /\ call[c].at = "refused" /\ tokenLock = None
    /\ token' = 0
    /\ tokenLock' = c
    /\ call' = [call EXCEPT ![c].at = "token", ![c].again = TRUE]
    /\ UNCHANGED <<due, paceLock, gap, unasVars>>

\* Whatever token is cached by now, possibly one just fetched, is dropped.
Invalidate(c) ==
    /\ call[c].at = "refused" /\ tokenLock = None
    /\ token' = 0
    /\ call' = [call EXCEPT ![c].at = "token", ![c].again = TRUE]
    /\ UNCHANGED <<due, tokenLock, paceLock, gap, unasVars>>

-----------------------------------------------------------------------------
(* _RateLimiter.wait                                                       *)

PassNow(c) ==
    /\ call[c].at = "pace" /\ paceLock = None /\ gap >= Interval
    /\ gap' = 0
    /\ call' = [call EXCEPT ![c].at = "wire"]
    /\ UNCHANGED <<token, due, tokenLock, paceLock, unasVars>>

\* Mutant of Sleep: the time is computed under the lock and slept without it.
SleepUnlocked(c) ==
    /\ call[c].at = "pace" /\ paceLock = None /\ gap < Interval
    /\ call' = [call EXCEPT ![c].at = "sleep", ![c].nap = Interval - gap]
    /\ UNCHANGED <<clientVars, unasVars>>

Sleep(c) ==
    /\ call[c].at = "pace" /\ paceLock = None /\ gap < Interval
    /\ paceLock' = c
    /\ call' = [call EXCEPT ![c].at = "sleep", ![c].nap = Interval - gap]
    /\ UNCHANGED <<token, due, tokenLock, gap, unasVars>>

Wake(c) ==
    /\ call[c].at = "sleep" /\ call[c].nap = 0
    /\ paceLock' = None /\ gap' = 0
    /\ call' = [call EXCEPT ![c].at = "wire"]
    /\ UNCHANGED <<token, due, tokenLock, unasVars>>

Tick ==
    /\ gap < Interval \/ \E c \in Calls : call[c].nap > 0
    /\ gap' = IF gap < Interval THEN gap + 1 ELSE gap
    /\ call' = [c \in Calls |->
                   IF call[c].nap > 0 THEN [call[c] EXCEPT !.nap = @ - 1]
                                      ELSE call[c]]
    /\ UNCHANGED <<token, due, tokenLock, paceLock, unasVars>>

TokenDue ==
    /\ Cached
    /\ due' = TRUE
    /\ UNCHANGED <<token, tokenLock, paceLock, gap, call, unasVars>>

-----------------------------------------------------------------------------
(* UNAS, as the client takes it.                                           *)

Answered(c, reply) ==
    call' = [call EXCEPT ![c].at = "answered", ![c].reply = reply]

\* 401 and 403 alike come back for a key UNAS does not accept, and login() makes
\* no difference between them: "forbidden" stands for both.
ServeLogin(c, reply) ==
    /\ call[c].at = "wire" /\ call[c].job = "login"
    /\ reply # "unauthorized"
    /\ IF reply = "ok"
       THEN /\ issued' = issued + 1
            /\ call' = [call EXCEPT ![c].at = "answered", ![c].reply = reply,
                                    ![c].token = issued + 1]
       ELSE Answered(c, reply) /\ UNCHANGED issued
    /\ UNCHANGED <<clientVars, revoked, revocations, effects, floating>>

Refusal(c) == IF call[c].token <= revoked THEN "unauthorized"
              ELSE IF c \in Forbidden THEN "forbidden" ELSE None

\* A request that is authenticated is answered, or its answer is lost, or it
\* breaks down: "error" and "lost" leave open whether a write took effect, and
\* a lost one may do so later.
ServePost(c, reply) ==
    /\ call[c].at = "wire" /\ call[c].job = "post"
    /\ \/ /\ reply \in {"ok", "error", "lost"} /\ Refusal(c) = None
          /\ effects' = IF c \in Writes THEN [effects EXCEPT ![c] = @ + 1]
                                        ELSE effects
          /\ UNCHANGED floating
       \/ /\ reply = "lost" /\ Refusal(c) = None /\ c \in Writes
          /\ floating' = floating \cup {c}
          /\ UNCHANGED effects
       \/ /\ reply \in {"lost", IF Refusal(c) = None THEN "error"
                                                   ELSE Refusal(c)}
          /\ UNCHANGED <<effects, floating>>
    /\ Answered(c, reply)
    /\ UNCHANGED <<clientVars, issued, revoked, revocations>>

LateEffect(c) ==
    /\ c \in floating
    /\ floating' = floating \ {c}
    /\ effects' = [effects EXCEPT ![c] = @ + 1]
    /\ UNCHANGED <<clientVars, call, issued, revoked, revocations>>

Revoke ==
    /\ revocations < MaxRevocations /\ revoked < issued
    /\ revoked' = issued
    /\ revocations' = revocations + 1
    /\ UNCHANGED <<clientVars, call, issued, effects, floating>>

-----------------------------------------------------------------------------
(* _post, _post_with_retry and _authenticated_post.                        *)

\* Mutant of Retryable: retryable=True in set_customer_balance.
AnyRetryable(c) == TRUE

Retryable(c) == call[c].job = "login" \/ c \notin Writes

Retry(c) ==
    /\ call[c].at = "answered" /\ call[c].reply = "lost"
    /\ Retryable(c) /\ call[c].tries < MaxTries
    /\ call' = [call EXCEPT ![c].at = "pace", ![c].tries = @ + 1,
                            ![c].reply = None]
    /\ UNCHANGED <<clientVars, unasVars>>

\* except UnasAuthError, the first time.
Refused(c) ==
    /\ call[c].at = "answered" /\ call[c].job = "post"
    /\ call[c].reply \in {"unauthorized", "forbidden"} /\ ~call[c].again
    /\ call' = [call EXCEPT ![c].at = "refused", ![c].token = 0,
                            ![c].reply = None]
    /\ UNCHANGED <<clientVars, unasVars>>

\* Mutant of Return: an error code that no caller knows.
ReturnRaw(c) ==
    /\ call[c].at = "answered" /\ call[c].job = "post"
    /\ \/ call[c].reply \in {"ok", "error"}
       \/ call[c].reply = "lost" /\ ~(Retryable(c) /\ call[c].tries < MaxTries)
       \/ call[c].reply \in {"unauthorized", "forbidden"} /\ call[c].again
    /\ End(c, IF call[c].reply = "lost" THEN "transient" ELSE call[c].reply)
    /\ UNCHANGED <<clientVars, unasVars>>

Return(c) ==
    /\ call[c].at = "answered" /\ call[c].job = "post"
    /\ \/ call[c].reply \in {"ok", "error"}
       \/ call[c].reply = "lost" /\ ~(Retryable(c) /\ call[c].tries < MaxTries)
       \/ call[c].reply \in {"unauthorized", "forbidden"} /\ call[c].again
    /\ End(c, call[c].reply)
    /\ UNCHANGED <<clientVars, unasVars>>

-----------------------------------------------------------------------------
Proceed(c) ==
    \/ TokenCached(c) \/ StartLogin(c) \/ LoggedIn(c) \/ LoginFails(c)
    \/ Invalidate(c) \/ PassNow(c) \/ Sleep(c) \/ Wake(c)
    \/ \E reply \in Replies : ServeLogin(c, reply) \/ ServePost(c, reply)
    \/ Retry(c) \/ Refused(c) \/ Return(c)

Next == \/ \E c \in Calls : Begin(c) \/ Proceed(c) \/ LateEffect(c)
        \/ Tick \/ TokenDue \/ Revoke

\* asyncio resumes runnable tasks and hands a lock to its waiters in the order
\* they came; an HTTP request ends by its timeout at the latest.
Spec == Init /\ [][Next]_vars
FairSpec == Spec /\ WF_vars(Tick) /\ \A c \in Calls : SF_vars(Proceed(c))

-----------------------------------------------------------------------------
(* Correctness.                                                            *)

\* Every variable keeps its type.
TypeOK ==
    /\ token \in 0 .. issued /\ due \in BOOLEAN
    /\ tokenLock \in Calls \cup {None} /\ paceLock \in Calls \cup {None}
    /\ gap \in 0 .. Interval
    /\ call \in [Calls -> Call]
    /\ issued \in Nat /\ revoked \in 0 .. issued /\ revocations \in Nat
    /\ effects \in [Writes -> Nat]
    /\ floating \subseteq Writes

\* A call fails to authenticate only if UNAS ended tokens twice, or never gave
\* it the permission: one renewal is enough, also when other calls renew and
\* drop the token at the same time.
RevocationHarmless ==
    \A c \in Calls \ Forbidden :
        call[c].result = "unauthorized" => revocations >= 2

\* Two requests leave the client at least Interval ticks apart.
Spaced ==
    [][\A c \in Calls :
           call[c].at # "wire" /\ call'[c].at = "wire" => gap >= Interval]_vars

\* A setCustomer call looks to its handler like RemoteWrite.
Remote == INSTANCE RemoteWrite WITH
    result <- [w \in Writes |-> call[w].result]

OnceOrNever == Remote!Spec

\* Whatever UNAS answers, no call waits for ever for a lock or its turn.
CallsEnd == \A c \in Calls : call[c].at = "token" ~> call[c].at = "done"
=============================================================================
