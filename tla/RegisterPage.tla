---------------------------- MODULE RegisterPage ----------------------------
(***************************************************************************)
(* The cashier's page (static/register.js): a field the QR reader types    *)
(* into, the panel of the customer shown, the confirmation dialog in front *)
(* of every earn and redeem, and the requests under way, whose answers     *)
(* come in any order.  The browser runs one callback at a time: an action  *)
(* is a callback up to its next await.                                     *)
(*                                                                         *)
(* A payload is the sequence of cards whose codes it was put together      *)
(* from, since the reader appends to whatever the field holds.  Amounts    *)
(* are left out: a balance is known by its owner and by how many changes   *)
(* the account had seen when it was read.                                  *)
(***************************************************************************)
EXTENDS Integers, Sequences, FiniteSets

CONSTANTS
    Customers,     \* customers with a card
    Urls,          \* those whose card holds the URL form of the payload
    MaxCodes,      \* so many codes fit into ScanRequest.qrPayload
    MaxRequests,   \* bound on requests the page sends
    None,          \* nothing: no payload, customer, balance, answer
    Garbage        \* "undefined" on the page, NaN in currentBalance

Payload == Seq(Customers)
Reading == [who : Customers, at : Nat]

ASSUME RegisterAssumption ==
    /\ Urls \subseteq Customers
    /\ MaxCodes \in Nat \ {0} /\ MaxRequests \in Nat
    /\ None \notin Customers \cup Payload \cup Reading /\ None # Garbage

VARIABLES
    arrival,   \* while init() awaits the rules: the payload of the /scan page
               \* that was opened, <<>> of /register; None afterwards
    text,      \* scanInput.value
    lastScan,  \* lastScan.payload, None once it is two seconds old
    current,   \* currentQrPayload
    balance,   \* currentBalance and the number on the panel
    shown,     \* the customer whose name and card are on the panel
    panel,     \* customerPanel is visible
    banner,    \* scanStatus
    dialogs,   \* the calls of openConfirm that wait for OK or Cancel
    flying,    \* requests that are not answered yet
    changes,   \* changes[c]: how often the balance of c was changed
    sent,      \* requests sent so far
    card,      \* history: the card scanned in the last two seconds
    strayed    \* history: the cashier did what the guide does not foresee

page == <<text, lastScan, current, balance, shown, panel, banner>>
vars == <<arrival, page, dialogs, flying, changes, sent, card, strayed>>

Answer  == [result : {"ok", "error", "uncertain"},
            balance : Reading \cup {None}]

\* asked and ok are history: the customer the dialog was about, and the number
\* of the first request its OK sent.
Request == [id : Nat, kind : {"scan", "booking", "reversal"},
            payload : Payload \cup {None}, asked : Customers \cup {None},
            ok : Nat, answer : Answer \cup {None}]

Init ==
    /\ arrival \in {<<>>} \cup {<<c>> : c \in Urls}
    /\ text = <<>> /\ lastScan = None /\ current = None /\ balance = None
    /\ shown = None /\ panel = FALSE /\ banner = "hidden"
    /\ dialogs = {} /\ flying = {}
    /\ changes = [c \in Customers |-> 0]
    /\ sent = 0 /\ card = None /\ strayed = FALSE

-----------------------------------------------------------------------------
\* extract_token: the inline form must be the prefix and a token and nothing
\* else; of a URL the last path segment counts.  Two codes in a row are still
\* a code only if both are URLs, and then stand for the second.
Resolve(payload) ==
    CASE payload = None -> None
      [] payload # None /\ Len(payload) = 1 -> payload[1]
      [] payload # None /\ Len(payload) # 1 ->
            IF /\ Len(payload) \in 2 .. MaxCodes
               /\ payload[1] \in Urls /\ payload[Len(payload)] \in Urls
            THEN payload[Len(payload)] ELSE None

NewRequest(id, kind, payload) ==
    [id |-> id, kind |-> kind, payload |-> payload, asked |-> None,
     ok |-> id, answer |-> None]

\* What the cashier starts while an answer or a dialog is outstanding, or the
\* customer whose code opened the page is.
Hurried == flying # {} \/ dialogs # {} \/ arrival \notin {None, <<>>}

\* A second quick scan of one card, which the guide calls harmless.
Rescan(c) == card = c /\ dialogs = {} /\ \A r \in flying : r.kind = "scan"

-----------------------------------------------------------------------------
(* What the cashier does.                                                  *)

\* A payload that equals the one of less than two seconds ago is ignored.
HandleScan(payload) ==
    IF lastScan = payload
    THEN UNCHANGED <<lastScan, banner, flying, sent>>
    ELSE /\ sent < MaxRequests
         /\ lastScan' = payload
         /\ banner' = "loading"
         /\ flying' = flying \cup {NewRequest(sent, "scan", payload)}
         /\ sent' = sent + 1

\* Mutant of Scan: currentQrPayload is assigned before the await.
ScanEarly(c) ==
    /\ Len(text) <= MaxCodes
    /\ text' = Append(text, c)
    /\ HandleScan(text')
    /\ card' = c
    /\ strayed' = (strayed \/ (Hurried /\ ~Rescan(c)))
    /\ current' = text'
    /\ UNCHANGED <<arrival, balance, shown, panel, dialogs, changes>>

\* The reader types the code and Enter: whatever the field holds is handled,
\* and stays there until an answer clears it.
Scan(c) ==
    /\ Len(text) <= MaxCodes
    /\ text' = Append(text, c)
    /\ HandleScan(text')
    /\ card' = c
    /\ strayed' = (strayed \/ (Hurried /\ ~Rescan(c)))
    /\ UNCHANGED <<arrival, current, balance, shown, panel, dialogs, changes>>

\* init(), once the rules have come or have not: the page handles the code it
\* was opened with, or clears and focuses the field.
Arrive ==
    /\ arrival # None
    /\ arrival' = None
    /\ IF arrival = <<>>
       THEN text' = <<>> /\ UNCHANGED <<lastScan, banner, flying, sent>>
       ELSE HandleScan(arrival) /\ UNCHANGED text
    /\ card' = IF arrival = <<>> THEN card ELSE arrival[1]
    /\ UNCHANGED <<current, balance, shown, panel, dialogs, changes, strayed>>

TwoSecondsPass ==
    /\ lastScan # None \/ card # None
    /\ lastScan' = None /\ card' = None
    /\ UNCHANGED <<arrival, text, current, balance, shown, panel, banner,
                   dialogs, flying, changes, sent, strayed>>

\* Mutant of Click: the listener is registered twice.
ClickTwice ==
    /\ panel /\ current # None
    /\ Cardinality(dialogs) < 2
    /\ dialogs' = {[n |-> n, asked |-> shown] : n \in 0 .. 1}
    /\ strayed' = (strayed \/ Hurried)
    /\ UNCHANGED <<arrival, page, flying, changes, sent, card>>

\* The buttons "Pont jovairasa" and "Pont bevaltasa", which only differ in the
\* amounts they check: the dialog opens.  The overlay keeps the mouse from a
\* button behind it, not the keyboard.
Click ==
    /\ panel /\ current # None
    /\ Cardinality(dialogs) < 2
    /\ dialogs' = dialogs \cup {[n |-> Cardinality(dialogs), asked |-> shown]}
    /\ strayed' = (strayed \/ Hurried)
    /\ UNCHANGED <<arrival, page, flying, changes, sent, card>>

\* An amount is missing, or the points shown do not suffice.
ClickRefused ==
    /\ panel /\ current # None
    /\ banner' = "error"
    /\ strayed' = (strayed \/ Hurried)
    /\ UNCHANGED <<arrival, text, lastScan, current, balance, shown, panel,
                   dialogs, flying, changes, sent, card>>

\* OK resumes every waiting listener, one after the other: each sends a
\* request of its own, with a new random key, for currentQrPayload.
Confirm ==
    /\ dialogs # {} /\ sent + Cardinality(dialogs) <= MaxRequests
    /\ flying' = flying \cup
          {[NewRequest(sent + d.n, "booking", current) EXCEPT
               !.asked = d.asked, !.ok = sent] : d \in dialogs}
    /\ sent' = sent + Cardinality(dialogs)
    /\ dialogs' = {}
    /\ banner' = "loading"
    /\ UNCHANGED <<arrival, text, lastScan, current, balance, shown, panel,
                   changes, card, strayed>>

Cancel ==
    /\ dialogs # {}
    /\ dialogs' = {}
    /\ UNCHANGED <<arrival, page, flying, changes, sent, card, strayed>>

\* "Uj vasarlo beolvasasa": resetCustomerPanel.
Reset ==
    /\ panel
    /\ text' = <<>> /\ current' = None /\ balance' = None
    /\ panel' = FALSE /\ banner' = "hidden"
    /\ strayed' = (strayed \/ Hurried)
    /\ UNCHANGED <<arrival, lastScan, shown, dialogs, flying, changes, sent,
                   card>>

\* An admin reverses a transaction of c in the list of the latest ones, which
\* are not only those of the customer shown; no status says so meanwhile.
ReverseTransaction(c) ==
    /\ sent < MaxRequests
    /\ flying' = flying \cup {NewRequest(sent, "reversal", <<c>>)}
    /\ sent' = sent + 1
    /\ strayed' = (strayed \/ Hurried \/ (panel /\ c # shown))
    /\ UNCHANGED <<arrival, page, dialogs, changes, card>>

-----------------------------------------------------------------------------
(* What the server does, and what comes back.                              *)

\* The server answers, scan_routes.py a scan, loyalty_routes.py a booking or a
\* reversal.  carried: the balance was changed.  An error may also stand for an answer
\* the network lost; 202 for a write of unknown outcome.
Serve(r, result, carried) ==
    LET who == Resolve(r.payload)
    IN  /\ r.answer = None
        /\ result # "error" => who # None
        /\ carried => who # None /\ r.kind # "scan"
        /\ result = "ok" /\ r.kind # "scan" => carried
        /\ result = "uncertain" => r.kind # "scan"
        /\ changes' = IF carried THEN [changes EXCEPT ![who] = @ + 1]
                                 ELSE changes
        /\ flying' = (flying \ {r}) \cup
              {[r EXCEPT !.answer =
                   [result |-> result,
                    balance |-> IF result = "ok"
                                THEN [who |-> who, at |-> changes'[who]]
                                ELSE None]]}
        /\ UNCHANGED <<arrival, page, dialogs, sent, card, strayed>>

Answered(r, kind, results) ==
    /\ r.kind = kind /\ r.answer # None /\ r.answer.result \in results
    /\ flying' = flying \ {r}

\* Mutant of CustomerFound: the number on the panel is not refreshed.
NameOnly(r) ==
    /\ Answered(r, "scan", {"ok"})
    /\ current' = r.payload
    /\ balance' = IF balance = None THEN r.answer.balance ELSE balance
    /\ shown' = r.answer.balance.who
    /\ panel' = TRUE /\ banner' = "hidden" /\ text' = <<>>
    /\ UNCHANGED <<arrival, lastScan, dialogs, changes, sent, card, strayed>>

CustomerFound(r) ==
    /\ Answered(r, "scan", {"ok"})
    /\ current' = r.payload
    /\ balance' = r.answer.balance
    /\ shown' = r.answer.balance.who
    /\ panel' = TRUE /\ banner' = "hidden" /\ text' = <<>>
    /\ UNCHANGED <<arrival, lastScan, dialogs, changes, sent, card, strayed>>

\* currentQrPayload keeps the customer shown before.
ScanFailed(r) ==
    /\ Answered(r, "scan", {"error"})
    /\ panel' = FALSE /\ banner' = "error" /\ text' = <<>>
    /\ UNCHANGED <<arrival, lastScan, current, balance, shown, dialogs,
                   changes, sent, card, strayed>>

\* Mutant of NewBalance: the answer itself is taken for the balance.
WholeAnswer(r) == r.answer

\* HTTP 202 is response.ok as well: success is shown, with the balance of a
\* body that has none.
NewBalance(r) == IF r.answer.result = "ok" THEN r.answer.balance ELSE Garbage

Booked(r) ==
    /\ Answered(r, "booking", {"ok", "uncertain"})
    /\ balance' = NewBalance(r) /\ banner' = "success"
    /\ UNCHANGED <<arrival, text, lastScan, current, shown, panel, dialogs,
                   changes, sent, card, strayed>>

\* Whoever the transaction was of, if a balance is shown it is replaced.
Reversed(r) ==
    /\ Answered(r, "reversal", {"ok", "uncertain"})
    /\ balance' = IF balance = None THEN None ELSE NewBalance(r)
    /\ banner' = "success"
    /\ UNCHANGED <<arrival, text, lastScan, current, shown, panel, dialogs,
                   changes, sent, card, strayed>>

\* Mutant of ChangeFailed: the exception is swallowed, as in loadHistory.
FailsSilently(r) ==
    /\ \E kind \in {"booking", "reversal"} : Answered(r, kind, {"error"})
    /\ UNCHANGED <<arrival, page, dialogs, changes, sent, card, strayed>>

ChangeFailed(r) ==
    /\ \E kind \in {"booking", "reversal"} : Answered(r, kind, {"error"})
    /\ banner' = "error"
    /\ UNCHANGED <<arrival, text, lastScan, current, balance, shown, panel,
                   dialogs, changes, sent, card, strayed>>

Next ==
    \/ \E c \in Customers : Scan(c) \/ ReverseTransaction(c)
    \/ TwoSecondsPass \/ Click \/ ClickRefused \/ Confirm \/ Cancel \/ Reset
    \/ Arrive
    \/ \E r \in flying :
          \/ \E result \in {"ok", "error", "uncertain"}, carried \in BOOLEAN :
                Serve(r, result, carried)
          \/ CustomerFound(r) \/ ScanFailed(r) \/ Booked(r) \/ Reversed(r)
          \/ ChangeFailed(r)

Spec == Init /\ [][Next]_vars

-----------------------------------------------------------------------------
(* Correctness.                                                            *)

\* Every variable keeps its type.
TypeOK ==
    /\ arrival \in Payload \cup {None}
    /\ text \in Payload
    /\ lastScan \in Payload \cup {None} /\ current \in Payload \cup {None}
    /\ balance \in Reading \cup {None, Garbage}
    /\ shown \in Customers \cup {None} /\ panel \in BOOLEAN
    /\ banner \in {"hidden", "loading", "error", "success"}
    /\ dialogs \subseteq [n : Nat, asked : Customers]
    /\ flying \subseteq Request
    /\ changes \in [Customers -> Nat]
    /\ sent \in Nat /\ card \in Customers \cup {None} /\ strayed \in BOOLEAN

\* However fast the cashier is and however late answers are: the name on the
\* panel is that of the customer the buttons book for.
PanelMatchesCurrent ==
    panel => shown # None /\ Resolve(current) = shown

\* "Betoltes" and "Feldolgozas" go away: while one of them is shown, an answer
\* is still to come.
LoadingMeansBusy == banner = "loading" => flying # {}

\* A cashier who waits for answers: every request that books points has a
\* confirmation of its own, which was about the customer it books for.
ConfirmationsHonoured ==
    ~strayed =>
        \A r \in flying : r.kind = "booking" =>
            /\ Resolve(r.payload) = r.asked
            /\ \A q \in flying : q.kind = "booking" /\ q.ok = r.ok => q = r

\* The same cashier is never shown a balance of somebody else or of before the
\* last booking: when all is answered and no error was, the number on the panel
\* is up to date, or no number at all.
BalanceUpToDate ==
    panel /\ flying = {} /\ banner # "error" /\ ~strayed =>
        balance \in {Garbage, [who |-> shown, at |-> changes[shown]]}
=============================================================================
