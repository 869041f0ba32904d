-------------------------- MODULE UnasClientProofs --------------------------
(* What holds of UnasClient for every set of calls, every limit and every    *)
(* number of revocations.                                                    *)
EXTENDS UnasClient, TLAPS

\* A call waits for a login exactly while it holds _token_lock.
LoginLocked == \A c \in Calls : tokenLock = c <=> call[c].job = "login"

\* And sleeps exactly while it holds the limiter's lock.
SleepLocked == \A c \in Calls : paceLock = c <=> call[c].at = "sleep"

\* What the stages of a call say about the rest of its record.
Posting == {"pace", "sleep", "wire", "answered"}
Stage == \A c \in Calls :
    /\ call[c].job = "login" =>
          /\ call[c].at \in Posting
          /\ call[c].reply # "unauthorized"
          /\ call[c].reply = "ok" => call[c].at = "answered" /\ call[c].token > 0
    /\ call[c].job = "post" /\ call[c].at \in Posting => call[c].token > 0
    /\ call[c].token <= issued
    /\ call[c].at = "answered" => call[c].reply # None
    /\ call[c].at = "done" <=> call[c].result # None

\* Nobody else passes while a call sleeps for its turn.
Turn == \A c \in Calls :
    /\ call[c].nap > 0 => call[c].at = "sleep"
    /\ call[c].at = "sleep" => gap + call[c].nap >= Interval

\* UNAS ended tokens at least once if one is ended.  And when it did so once
\* only, a call that dropped the cached token finds none but younger ones: the
\* lock lets no login that began before put its token there afterwards.
Renewed ==
    /\ revoked > 0 => revocations > 0
    /\ \A c \in Calls \ Forbidden :
          call[c].again =>
             /\ revocations > 0
             /\ revocations = 1 =>
                   /\ token = 0 \/ token > revoked
                   /\ \A d \in Calls :
                         call[d].job = "login" /\ call[d].reply = "ok" =>
                             call[d].token > revoked
                   /\ call[c].job = "post" /\ call[c].at \in Posting =>
                         call[c].token > revoked
                   /\ call[c].job = "post" => call[c].reply # "unauthorized"
    /\ \A c \in Calls \ Forbidden :
          /\ call[c].reply # "forbidden" \/ call[c].job = "login"
          /\ call[c].reply = "unauthorized" => revocations > 0

\* How often a write took effect by now, and may still.
Reached(w) == call[w].job = "post" /\ call[w].at = "answered"
Outcome == \A w \in Writes :
    /\ effects[w] \in {0, 1}
    /\ w \in floating => effects[w] = 0
    /\ ~Reached(w) /\ call[w].at # "done" => effects[w] = 0 /\ w \notin floating
    /\ \A how \in Replies :
          (Reached(w) /\ call[w].reply = how) \/ call[w].result = how =>
             /\ how = "ok" => effects[w] = 1
             /\ how # "lost" => w \notin floating
             /\ how \in {"unauthorized", "forbidden"} => effects[w] = 0

Inv == TypeOK /\ LoginLocked /\ SleepLocked /\ Stage /\ Turn /\ Renewed
           /\ RevocationHarmless /\ Outcome

\* Abbreviations, expanded in every step.
USE ClientAssumption DEF Replies, Call, NewCall, Posting, Post, End, Cached, Answered,
    Refusal, Retryable, Reached, clientVars, unasVars

LEMMA InitInv ==
    ASSUME Init
    PROVE  Inv
<1> USE DEF Init
<1>1. TypeOK
  <2>1. NewCall \in Call
    OBVIOUS
  <2> HIDE DEF Call, NewCall
  <2>2. due \in BOOLEAN /\ call \in [Calls -> Call] /\ effects \in [Writes -> Nat]
    BY <2>1
  <2>3. token \in 0 .. issued /\ gap \in 0 .. Interval
    OBVIOUS
  <2> QED
    BY <2>2, <2>3 DEF TypeOK
<1>2. \A c \in Calls : call[c] = NewCall
  OBVIOUS
<1> QED
  BY <1>1, <1>2 DEF Inv, LoginLocked, SleepLocked, Stage, Turn, Renewed,
     RevocationHarmless, Outcome

LEMMA BeginKeeps ==
    ASSUME Inv, NEW c \in Calls, Begin(c)
    PROVE  Inv'
<1> USE DEF Inv, TypeOK, Begin
<1>1. TypeOK'
  OBVIOUS
<1>2. LoginLocked' /\ SleepLocked'
  BY DEF LoginLocked, SleepLocked, Stage
<1>3. Stage'
  BY DEF Stage
<1>4. Turn'
  BY DEF Turn, SleepLocked
<1>5. Renewed'
  BY DEF Renewed, Stage, LoginLocked
<1>6. RevocationHarmless'
  BY DEF RevocationHarmless, Renewed, Stage
<1>7. Outcome'
  BY DEF Outcome, Stage
<1> QED
  BY <1>1, <1>2, <1>3, <1>4, <1>5, <1>6, <1>7

LEMMA TokenCachedKeeps ==
    ASSUME Inv, NEW c \in Calls, TokenCached(c)
    PROVE  Inv'
<1> USE DEF Inv, TypeOK, TokenCached
<1>1. TypeOK'
  <2>1. call[c] \in Call /\ token \in Nat
    OBVIOUS
  <2>2. [call[c] EXCEPT !.at = "pace", !.job = "post", !.tries = 1,
           !.token = token, !.reply = None] \in Call
    BY ONLY <2>1, ClientAssumption DEF Call, Replies
  <2> HIDE DEF Call
  <2> QED
    BY <2>1, <2>2
<1>2. LoginLocked' /\ SleepLocked'
  BY DEF LoginLocked, SleepLocked, Stage
<1>3. Stage'
  BY DEF Stage
<1>4. Turn'
  BY DEF Turn, SleepLocked
<1>5. Renewed'
  BY DEF Renewed, Stage, LoginLocked
<1>6. RevocationHarmless'
  BY DEF RevocationHarmless, Renewed, Stage
<1>7. Outcome'
  BY DEF Outcome, Stage
<1> QED
  BY <1>1, <1>2, <1>3, <1>4, <1>5, <1>6, <1>7

LEMMA StartLoginKeeps ==
    ASSUME Inv, NEW c \in Calls, StartLogin(c)
    PROVE  Inv'
<1> USE DEF Inv, TypeOK, StartLogin
<1>1. TypeOK'
  <2>1. call[c] \in Call /\ 0 \in Nat
    OBVIOUS
  <2>2. [call[c] EXCEPT !.at = "pace", !.job = "login", !.tries = 1,
           !.token = 0, !.reply = None] \in Call
    BY ONLY <2>1, ClientAssumption DEF Call, Replies
  <2> HIDE DEF Call
  <2> QED
    BY <2>1, <2>2
<1>2. LoginLocked' /\ SleepLocked'
  BY DEF LoginLocked, SleepLocked, Stage
<1>3. Stage'
  BY DEF Stage
<1>4. Turn'
  BY DEF Turn, SleepLocked
<1>5. Renewed'
  BY DEF Renewed, Stage, LoginLocked
<1>6. RevocationHarmless'
  BY DEF RevocationHarmless, Renewed, Stage
<1>7. Outcome'
  BY DEF Outcome, Stage
<1> QED
  BY <1>1, <1>2, <1>3, <1>4, <1>5, <1>6, <1>7

LEMMA LoggedInKeeps ==
    ASSUME Inv, NEW c \in Calls, LoggedIn(c)
    PROVE  Inv'
<1> USE DEF Inv, TypeOK, LoggedIn
<1>1. TypeOK'
  <2>1. call[c] \in Call /\ call[c].token \in Nat
    OBVIOUS
  <2>2. [call[c] EXCEPT !.at = "pace", !.job = "post", !.tries = 1,
           !.token = call[c].token, !.reply = None] \in Call
    BY ONLY <2>1, ClientAssumption DEF Call, Replies
  <2>3. call[c].token \in 0 .. issued
    BY DEF Stage
  <2>4. due' \in BOOLEAN
    OBVIOUS
  <2> HIDE DEF Call
  <2> QED
    BY <2>1, <2>2, <2>3, <2>4
<1>2. LoginLocked' /\ SleepLocked'
  BY DEF LoginLocked, SleepLocked, Stage
<1>3. Stage'
  BY DEF Stage
<1>4. Turn'
  BY DEF Turn, SleepLocked
<1>5. Renewed'
  BY DEF Renewed, Stage, LoginLocked
<1>6. RevocationHarmless'
  BY DEF RevocationHarmless, Renewed, Stage
<1>7. Outcome'
  BY DEF Outcome, Stage
<1> QED
  BY <1>1, <1>2, <1>3, <1>4, <1>5, <1>6, <1>7

LEMMA LoginFailsKeeps ==
    ASSUME Inv, NEW c \in Calls, LoginFails(c)
    PROVE  Inv'
<1> USE DEF Inv, TypeOK, LoginFails
<1>1. TypeOK'
  OBVIOUS
<1>2. LoginLocked' /\ SleepLocked'
  BY DEF LoginLocked, SleepLocked, Stage
<1>3. Stage'
  BY DEF Stage
<1>4. Turn'
  BY DEF Turn, SleepLocked
<1>5. Renewed'
  BY DEF Renewed, Stage, LoginLocked
<1>6. RevocationHarmless'
  BY DEF RevocationHarmless, Renewed, Stage
<1>7. Outcome'
  BY DEF Outcome, Stage
<1> QED
  BY <1>1, <1>2, <1>3, <1>4, <1>5, <1>6, <1>7

LEMMA InvalidateKeeps ==
    ASSUME Inv, NEW c \in Calls, Invalidate(c)
    PROVE  Inv'
<1> USE DEF Inv, TypeOK, Invalidate
<1>1. TypeOK'
  <2>1. call[c] \in Call /\ 0 \in Nat
    OBVIOUS
  <2>2. [call[c] EXCEPT !.at = "token", !.again = TRUE] \in Call
    BY ONLY <2>1, ClientAssumption DEF Call, Replies
  <2> HIDE DEF Call
  <2> QED
    BY <2>1, <2>2
<1>2. LoginLocked' /\ SleepLocked'
  BY DEF LoginLocked, SleepLocked, Stage
<1>3. Stage'
  BY DEF Stage
<1>4. Turn'
  BY DEF Turn, SleepLocked
<1>5. Renewed'
  BY DEF Renewed, Stage, LoginLocked
<1>6. RevocationHarmless'
  BY DEF RevocationHarmless, Renewed, Stage
<1>7. Outcome'
  BY DEF Outcome, Stage
<1> QED
  BY <1>1, <1>2, <1>3, <1>4, <1>5, <1>6, <1>7

LEMMA PassNowKeeps ==
    ASSUME Inv, NEW c \in Calls, PassNow(c)
    PROVE  Inv'
<1> USE DEF Inv, TypeOK, PassNow
<1>1. TypeOK'
  OBVIOUS
<1>2. LoginLocked' /\ SleepLocked'
  BY DEF LoginLocked, SleepLocked, Stage
<1>3. Stage'
  BY DEF Stage
<1>4. Turn'
  BY DEF Turn, SleepLocked
<1>5. Renewed'
  BY DEF Renewed, Stage, LoginLocked
<1>6. RevocationHarmless'
  BY DEF RevocationHarmless, Renewed, Stage
<1>7. Outcome'
  BY DEF Outcome, Stage
<1> QED
  BY <1>1, <1>2, <1>3, <1>4, <1>5, <1>6, <1>7

LEMMA SleepKeeps ==
    ASSUME Inv, NEW c \in Calls, Sleep(c)
    PROVE  Inv'
<1> USE DEF Inv, TypeOK, Sleep
<1>1. TypeOK'
  <2>1. call[c] \in Call /\ Interval - gap \in Nat
    OBVIOUS
  <2>2. [call[c] EXCEPT !.at = "sleep", !.nap = Interval - gap] \in Call
    BY ONLY <2>1, ClientAssumption DEF Call, Replies
  <2> HIDE DEF Call
  <2> QED
    BY <2>1, <2>2
<1>2. LoginLocked' /\ SleepLocked'
  BY DEF LoginLocked, SleepLocked, Stage
<1>3. Stage'
  BY DEF Stage
<1>4. Turn'
  BY DEF Turn, SleepLocked
<1>5. Renewed'
  BY DEF Renewed, Stage, LoginLocked
<1>6. RevocationHarmless'
  BY DEF RevocationHarmless, Renewed, Stage
<1>7. Outcome'
  BY DEF Outcome, Stage
<1> QED
  BY <1>1, <1>2, <1>3, <1>4, <1>5, <1>6, <1>7

LEMMA WakeKeeps ==
    ASSUME Inv, NEW c \in Calls, Wake(c)
    PROVE  Inv'
<1> USE DEF Inv, TypeOK, Wake
<1>1. TypeOK'
  OBVIOUS
<1>2. LoginLocked' /\ SleepLocked'
  BY DEF LoginLocked, SleepLocked, Stage
<1>3. Stage'
  BY DEF Stage
<1>4. Turn'
  BY DEF Turn, SleepLocked
<1>5. Renewed'
  BY DEF Renewed, Stage, LoginLocked
<1>6. RevocationHarmless'
  BY DEF RevocationHarmless, Renewed, Stage
<1>7. Outcome'
  BY DEF Outcome, Stage
<1> QED
  BY <1>1, <1>2, <1>3, <1>4, <1>5, <1>6, <1>7

LEMMA ServeLoginKeeps ==
    ASSUME Inv, NEW c \in Calls, NEW reply \in Replies, ServeLogin(c, reply)
    PROVE  Inv'
<1> USE DEF Inv, TypeOK, ServeLogin
<1>1. TypeOK'
  <2>1. call[c] \in Call /\ issued + 1 \in Nat
    OBVIOUS
  <2>2. [call[c] EXCEPT !.at = "answered", !.reply = reply,
           !.token = issued + 1] \in Call
    BY ONLY <2>1, ClientAssumption DEF Call, Replies
  <2>3. [call[c] EXCEPT !.at = "answered", !.reply = reply] \in Call
    BY ONLY <2>1, ClientAssumption DEF Call, Replies
  <2> HIDE DEF Call
  <2>4. CASE reply = "ok"
    <3>1. call' = [call EXCEPT ![c] = [@ EXCEPT !.at = "answered", !.reply = reply,
                                                !.token = issued + 1]]
      BY <2>4
    <3>2. issued' = issued + 1
      BY <2>4
    <3> QED
      BY <2>1, <2>2, <3>1, <3>2
  <2>5. CASE reply # "ok"
    <3>1. call' = [call EXCEPT ![c] = [@ EXCEPT !.at = "answered", !.reply = reply]]
      BY <2>5
    <3>2. UNCHANGED issued
      BY <2>5
    <3> QED
      BY <2>1, <2>3, <3>1, <3>2
  <2> QED
    BY <2>4, <2>5
<1>2. LoginLocked' /\ SleepLocked'
  BY DEF LoginLocked, SleepLocked, Stage
<1>3. Stage'
  BY DEF Stage
<1>4. Turn'
  BY DEF Turn, SleepLocked
<1>5. Renewed'
  BY DEF Renewed, Stage, LoginLocked
<1>6. RevocationHarmless'
  BY DEF RevocationHarmless, Renewed, Stage
<1>7. Outcome'
  BY DEF Outcome, Stage
<1> QED
  BY <1>1, <1>2, <1>3, <1>4, <1>5, <1>6, <1>7

LEMMA ServePostKeeps ==
    ASSUME Inv, NEW c \in Calls, NEW reply \in Replies, ServePost(c, reply)
    PROVE  Inv'
<1> USE DEF Inv, TypeOK, ServePost
<1>1. TypeOK'
  <2>1. call[c] \in Call /\ 0 \in Nat
    OBVIOUS
  <2>2. [call[c] EXCEPT !.at = "answered", !.reply = reply] \in Call
    BY ONLY <2>1, ClientAssumption DEF Call, Replies
  <2> HIDE DEF Call
  <2> QED
    BY <2>1, <2>2
<1>2. LoginLocked' /\ SleepLocked'
  BY DEF LoginLocked, SleepLocked, Stage
<1>3. Stage'
  BY DEF Stage
<1>4. Turn'
  BY DEF Turn, SleepLocked
<1>5. Renewed'
  BY DEF Renewed, Stage, LoginLocked
<1>6. RevocationHarmless'
  BY DEF RevocationHarmless, Renewed, Stage
<1>7. Outcome'
  BY DEF Outcome, Stage
<1> QED
  BY <1>1, <1>2, <1>3, <1>4, <1>5, <1>6, <1>7

LEMMA LateEffectKeeps ==
    ASSUME Inv, NEW c \in Calls, LateEffect(c)
    PROVE  Inv'
<1> USE DEF Inv, TypeOK, LateEffect
<1>1. TypeOK'
  OBVIOUS
<1>2. LoginLocked' /\ SleepLocked'
  BY DEF LoginLocked, SleepLocked, Stage
<1>3. Stage'
  BY DEF Stage
<1>4. Turn'
  BY DEF Turn, SleepLocked
<1>5. Renewed'
  BY DEF Renewed, Stage, LoginLocked
<1>6. RevocationHarmless'
  BY DEF RevocationHarmless, Renewed, Stage
<1>7. Outcome'
  BY DEF Outcome, Stage
<1> QED
  BY <1>1, <1>2, <1>3, <1>4, <1>5, <1>6, <1>7

LEMMA RetryKeeps ==
    ASSUME Inv, NEW c \in Calls, Retry(c)
    PROVE  Inv'
<1> USE DEF Inv, TypeOK, Retry
<1>1. TypeOK'
  OBVIOUS
<1>2. LoginLocked' /\ SleepLocked'
  BY DEF LoginLocked, SleepLocked, Stage
<1>3. Stage'
  BY DEF Stage
<1>4. Turn'
  BY DEF Turn, SleepLocked
<1>5. Renewed'
  BY DEF Renewed, Stage, LoginLocked
<1>6. RevocationHarmless'
  BY DEF RevocationHarmless, Renewed, Stage
<1>7. Outcome'
  BY DEF Outcome, Stage
<1> QED
  BY <1>1, <1>2, <1>3, <1>4, <1>5, <1>6, <1>7

LEMMA RefusedKeeps ==
    ASSUME Inv, NEW c \in Calls, Refused(c)
    PROVE  Inv'
<1> USE DEF Inv, TypeOK, Refused
<1>1. TypeOK'
  <2>1. call[c] \in Call /\ 0 \in Nat
    OBVIOUS
  <2>2. [call[c] EXCEPT !.at = "refused", !.token = 0, !.reply = None] \in Call
    BY ONLY <2>1, ClientAssumption DEF Call, Replies
  <2> HIDE DEF Call
  <2> QED
    BY <2>1, <2>2
<1>2. LoginLocked' /\ SleepLocked'
  BY DEF LoginLocked, SleepLocked, Stage
<1>3. Stage'
  BY DEF Stage
<1>4. Turn'
  BY DEF Turn, SleepLocked
<1>5. Renewed'
  BY DEF Renewed, Stage, LoginLocked
<1>6. RevocationHarmless'
  BY DEF RevocationHarmless, Renewed, Stage
<1>7. Outcome'
  BY DEF Outcome, Stage
<1> QED
  BY <1>1, <1>2, <1>3, <1>4, <1>5, <1>6, <1>7

LEMMA ReturnKeeps ==
    ASSUME Inv, NEW c \in Calls, Return(c)
    PROVE  Inv'
<1> USE DEF Inv, TypeOK, Return
<1>1. TypeOK'
  OBVIOUS
<1>2. LoginLocked' /\ SleepLocked'
  BY DEF LoginLocked, SleepLocked, Stage
<1>3. Stage'
  BY DEF Stage
<1>4. Turn'
  BY DEF Turn, SleepLocked
<1>5. Renewed'
  BY DEF Renewed, Stage, LoginLocked
<1>6. RevocationHarmless'
  BY DEF RevocationHarmless, Renewed, Stage
<1>7. Outcome'
  BY DEF Outcome, Stage
<1> QED
  BY <1>1, <1>2, <1>3, <1>4, <1>5, <1>6, <1>7

LEMMA TickKeeps ==
    ASSUME Inv, Tick
    PROVE  Inv'
<1> USE DEF Inv, TypeOK, Tick
<1>1. TypeOK'
  <2>1. ASSUME NEW c \in Calls
        PROVE  (IF call[c].nap > 0 THEN [call[c] EXCEPT !.nap = @ - 1]
                                   ELSE call[c]) \in Call
    <3>1. call[c] \in Call
      OBVIOUS
    <3> QED
      BY ONLY <3>1, ClientAssumption DEF Call, Replies
  <2> HIDE DEF Call
  <2> QED
    BY <2>1
<1>2. LoginLocked' /\ SleepLocked'
  BY DEF LoginLocked, SleepLocked, Stage
<1>3. Stage'
  BY DEF Stage
<1>4. Turn'
  BY DEF Turn, SleepLocked
<1>5. Renewed'
  BY DEF Renewed, Stage, LoginLocked
<1>6. RevocationHarmless'
  BY DEF RevocationHarmless, Renewed, Stage
<1>7. Outcome'
  BY DEF Outcome, Stage
<1> QED
  BY <1>1, <1>2, <1>3, <1>4, <1>5, <1>6, <1>7

LEMMA TokenDueKeeps ==
    ASSUME Inv, TokenDue
    PROVE  Inv'
<1> USE DEF Inv, TypeOK, TokenDue
<1>1. TypeOK'
  OBVIOUS
<1>2. LoginLocked' /\ SleepLocked'
  BY DEF LoginLocked, SleepLocked, Stage
<1>3. Stage'
  BY DEF Stage
<1>4. Turn'
  BY DEF Turn, SleepLocked
<1>5. Renewed'
  BY DEF Renewed, Stage, LoginLocked
<1>6. RevocationHarmless'
  BY DEF RevocationHarmless, Renewed, Stage
<1>7. Outcome'
  BY DEF Outcome, Stage
<1> QED
  BY <1>1, <1>2, <1>3, <1>4, <1>5, <1>6, <1>7

LEMMA RevokeKeeps ==
    ASSUME Inv, Revoke
    PROVE  Inv'
<1> USE DEF Inv, TypeOK, Revoke
<1>1. TypeOK'
  OBVIOUS
<1>2. LoginLocked' /\ SleepLocked'
  BY DEF LoginLocked, SleepLocked, Stage
<1>3. Stage'
  BY DEF Stage
<1>4. Turn'
  BY DEF Turn, SleepLocked
<1>5. Renewed'
  BY DEF Renewed, Stage, LoginLocked
<1>6. RevocationHarmless'
  BY DEF RevocationHarmless, Renewed, Stage
<1>7. Outcome'
  BY DEF Outcome, Stage
<1> QED
  BY <1>1, <1>2, <1>3, <1>4, <1>5, <1>6, <1>7

LEMMA NextInv == Inv /\ [Next]_vars => Inv'
<1> SUFFICES ASSUME Inv, [Next]_vars PROVE Inv'
  OBVIOUS
<1>1. ASSUME NEW c \in Calls, Begin(c) \/ Proceed(c) \/ LateEffect(c) PROVE Inv'
  BY <1>1, BeginKeeps, TokenCachedKeeps, StartLoginKeeps, LoggedInKeeps,
     LoginFailsKeeps, InvalidateKeeps, PassNowKeeps, SleepKeeps, WakeKeeps,
     ServeLoginKeeps, ServePostKeeps, LateEffectKeeps, RetryKeeps, RefusedKeeps,
     ReturnKeeps DEF Proceed
<1>2. CASE Tick \/ TokenDue \/ Revoke
  BY <1>2, TickKeeps, TokenDueKeeps, RevokeKeeps
<1>3. CASE UNCHANGED vars
  BY <1>3 DEF vars, Inv, TypeOK, LoginLocked, SleepLocked, Stage, Turn, Renewed,
     RevocationHarmless, Outcome
<1> QED
  BY <1>1, <1>2, <1>3 DEF Next

THEOREM InvHolds == Spec => []Inv
BY InitInv, NextInv, PTL DEF Spec

\* Every variable keeps its type: get_token, invalidate_token, _RateLimiter.wait
\* and _authenticated_post of unas/client.py.
THEOREM TypeCorrect == Spec => []TypeOK
BY InvHolds, PTL DEF Inv

\* One renewal of the token is enough, however many calls renew and drop it at
\* the same time (_authenticated_post).
THEOREM OneRenewalSuffices == Spec => []RevocationHarmless
BY InvHolds, PTL DEF Inv

LEMMA Posted ==
    ASSUME NEW c \in Calls, NEW job, NEW t, call \in [Calls -> Call], Post(c, job, t)
    PROVE  /\ call'[c].at = "pace" /\ call'[c].result = call[c].result
           /\ \A d \in Calls \ {c} : call'[d] = call[d]
OBVIOUS

LEMMA Ended ==
    ASSUME NEW c \in Calls, NEW how, call \in [Calls -> Call], End(c, how)
    PROVE  /\ call'[c].at = "done" /\ call'[c].result = how
           /\ \A d \in Calls \ {c} : call'[d] = call[d]
OBVIOUS

\* The limiter never lets two requests out less than the interval apart
\* (_RateLimiter.wait).
THEOREM RequestsSpaced == Spec => Spaced
<1>1. ASSUME Inv, NEW c \in Calls, call[c].at # "wire", call'[c].at = "wire", Next
      PROVE  gap >= Interval
  <2> USE <1>1 DEF Inv, TypeOK
  <2>1. ASSUME NEW d \in Calls, PassNow(d)
        PROVE  gap >= Interval
    BY <2>1 DEF PassNow
  <2>2. ASSUME NEW d \in Calls, Wake(d)
        PROVE  gap >= Interval
    <3>1. d = c
      BY <2>2 DEF Wake
    <3> QED
      BY <2>2, <3>1 DEF Wake, Turn
  <2>3. ASSUME NEW d \in Calls, NEW stage \in {"token", "pace", "sleep", "answered",
                                               "refused", "done"},
               call' = [call EXCEPT ![d] = call'[d]], call'[d].at = stage
        PROVE  FALSE
    BY <2>3
  <2>4. ASSUME NEW d \in Calls, Begin(d) \/ Proceed(d), ~PassNow(d), ~Wake(d)
        PROVE  FALSE
    <3>1. CASE Begin(d) \/ Invalidate(d) \/ Refused(d)
      BY <2>3, <3>1 DEF Begin, Invalidate, Refused
    <3>2. CASE TokenCached(d) \/ StartLogin(d) \/ LoggedIn(d)
      <4> HIDE DEF Post
      <4>1. \E job, t : Post(d, job, t)
        BY <3>2 DEF TokenCached, StartLogin, LoggedIn
      <4> QED
        BY <1>1, <4>1, Posted
    <3>3. CASE LoginFails(d) \/ Return(d)
      <4> HIDE DEF End
      <4>1. \E how : End(d, how)
        BY <3>3 DEF LoginFails, Return
      <4> QED
        BY <1>1, <4>1, Ended
    <3>4. CASE Sleep(d) \/ Retry(d)
      BY <2>3, <3>4 DEF Sleep, Retry
    <3>5. ASSUME NEW reply \in Replies, ServeLogin(d, reply) \/ ServePost(d, reply)
          PROVE  FALSE
      BY <2>3, <3>5 DEF ServeLogin, ServePost
    <3> QED
      BY <2>4, <3>1, <3>2, <3>3, <3>4, <3>5 DEF Proceed
  <2>5. ~Tick /\ ~TokenDue /\ ~Revoke /\ \A d \in Calls : ~LateEffect(d)
    BY DEF Tick, TokenDue, Revoke, LateEffect
  <2> QED
    BY <2>1, <2>2, <2>4, <2>5 DEF Next
<1>2. Inv /\ [Next]_vars =>
        [\A c \in Calls :
            call[c].at # "wire" /\ call'[c].at = "wire" => gap >= Interval]_vars
  BY <1>1
<1> QED
  BY <1>2, InvHolds, PTL DEF Spec, Spaced

\* A step that changes neither a result nor an effect is none of RemoteWrite.
LEMMA Quiet ==
    ASSUME \A w \in Writes : call'[w].result = call[w].result, effects' = effects
    PROVE  UNCHANGED Remote!remoteVars
BY DEF Remote!remoteVars

\* The write c takes effect.
LEMMA CarriesOut ==
    ASSUME NEW c \in Writes, call[c].result \in {None, "lost"}, effects[c] = 0,
           \A w \in Writes : call'[w].result = call[w].result,
           effects' = [effects EXCEPT ![c] = @ + 1], effects \in [Writes -> Nat]
    PROVE  Remote!Next
<1>1. effects' = [effects EXCEPT ![c] = 1]
  OBVIOUS
<1>2. Remote!CarryOut(c)
  BY <1>1 DEF Remote!CarryOut
<1> QED
  BY <1>2 DEF Remote!Next

\* The call c is over, with what it was answered last.
LEMMA Returns ==
    ASSUME Inv, NEW c \in Calls, LoginFails(c) \/ Return(c)
    PROVE  Remote!Next \/ UNCHANGED Remote!remoteVars
<1> USE DEF Inv, TypeOK
<1>1. PICK how \in Replies : how = call[c].reply /\ End(c, how)
  BY DEF LoginFails, Return, Stage
<1>2. /\ call[c].at = "answered" /\ call[c].result = None /\ effects' = effects
      /\ Reached(c) \/ how # "ok"
  BY <1>1 DEF LoginFails, Return, Stage
<1> HIDE DEF End
<1>3. CASE c \notin Writes
  <2>1. \A w \in Writes : call'[w].result = call[w].result
    BY <1>1, <1>3, Ended
  <2> QED
    BY <1>2, <2>1, Quiet
<1>4. CASE c \in Writes
  <2>1. /\ how = "ok" => effects[c] = 1
        /\ how \in {"unauthorized", "forbidden"} => effects[c] = 0
    BY <1>1, <1>2, <1>4 DEF Outcome
  <2>2. [w \in Writes |-> call'[w].result] =
            [[w \in Writes |-> call[w].result] EXCEPT ![c] = how]
    BY <1>1, <1>4, Ended
  <2>3. Remote!Return(c, how)
    BY <1>2, <1>4, <2>1, <2>2 DEF Remote!Return
  <2>4. how \in Remote!Results
    BY DEF Remote!Results
  <2> QED
    BY <1>4, <2>3, <2>4 DEF Remote!Next
<1> QED
  BY <1>3, <1>4

\* A setCustomer call is carried out once or never and tells what RemoteWrite
\* says it tells, whatever logins, refusals and retries it goes through.
THEOREM WritesOnceOrNever == Spec => OnceOrNever
<1>1. Init => Remote!Init
  BY DEF Init, Remote!Init
<1>2. ASSUME Inv, [Next]_vars
      PROVE  [Remote!Next]_(Remote!remoteVars)
  <2> USE <1>2 DEF Inv, TypeOK
  <2>1. ASSUME NEW c \in Calls,
               \/ Begin(c) \/ TokenCached(c) \/ StartLogin(c) \/ LoggedIn(c)
               \/ Invalidate(c) \/ PassNow(c) \/ Sleep(c) \/ Wake(c)
               \/ Retry(c) \/ Refused(c)
        PROVE  UNCHANGED Remote!remoteVars
    <3>1. effects' = effects
      BY <2>1 DEF Begin, TokenCached, StartLogin, LoggedIn, Invalidate, PassNow,
         Sleep, Wake, Retry, Refused
    <3>2. CASE TokenCached(c) \/ StartLogin(c) \/ LoggedIn(c)
      <4> HIDE DEF Post
      <4>1. \E job, t : Post(c, job, t)
        BY <3>2 DEF TokenCached, StartLogin, LoggedIn
      <4>2. \A w \in Writes : call'[w].result = call[w].result
        BY <4>1, Posted
      <4> QED
        BY <3>1, <4>2, Quiet
    <3>3. CASE ~(TokenCached(c) \/ StartLogin(c) \/ LoggedIn(c))
      <4>1. \A w \in Writes : call'[w].result = call[w].result
        BY <2>1, <3>3 DEF Begin, Invalidate, PassNow, Sleep, Wake, Retry, Refused
      <4> QED
        BY <3>1, <4>1, Quiet
    <3> QED
      BY <2>1, <3>2, <3>3
  <2>2. ASSUME NEW c \in Calls, NEW reply \in Replies, ServeLogin(c, reply)
        PROVE  UNCHANGED Remote!remoteVars
    <3>1. \A w \in Writes : call'[w].result = call[w].result
      BY <2>2 DEF ServeLogin
    <3>2. effects' = effects
      BY <2>2 DEF ServeLogin
    <3> QED
      BY <3>1, <3>2, Quiet
  <2>3. ASSUME NEW c \in Calls, NEW reply \in Replies, ServePost(c, reply)
        PROVE  Remote!Next \/ UNCHANGED Remote!remoteVars
    <3>1. \A w \in Writes : call'[w].result = call[w].result
      BY <2>3 DEF ServePost
    <3>2. CASE effects' = effects
      BY <3>1, <3>2, Quiet
    <3>3. CASE effects' # effects
      <4>1. c \in Writes /\ effects' = [effects EXCEPT ![c] = @ + 1]
        BY <2>3, <3>3 DEF ServePost
      <4>2. call[c].result = None /\ effects[c] = 0
        BY <2>3, <4>1 DEF ServePost, Stage, Outcome
      <4> QED
        BY <3>1, <4>1, <4>2, CarriesOut
    <3> QED
      BY <3>2, <3>3
  <2>4. ASSUME NEW c \in Calls, LateEffect(c)
        PROVE  Remote!Next
    <3>1. c \in Writes /\ effects' = [effects EXCEPT ![c] = @ + 1] /\ call' = call
      BY <2>4 DEF LateEffect
    <3>2. effects[c] = 0 /\ call[c].result \in {None, "lost"}
      BY <2>4, <3>1 DEF LateEffect, Outcome
    <3> QED
      BY <3>1, <3>2, CarriesOut
  <2>5. CASE Tick
    <3>1. \A w \in Writes : call'[w].result = call[w].result
      BY <2>5 DEF Tick
    <3> QED
      BY <2>5, <3>1, Quiet DEF Tick
  <2>6. CASE TokenDue \/ Revoke \/ UNCHANGED vars
    BY <2>6, Quiet DEF TokenDue, Revoke, vars
  <2> QED
    BY <2>1, <2>2, <2>3, <2>4, <2>5, <2>6, Returns DEF Next, Proceed
<1> QED
  BY <1>1, <1>2, InvHolds, PTL DEF Spec, OnceOrNever, Remote!Spec
=============================================================================
