------------------------- MODULE RegisterPageProofs -------------------------
(* What holds of RegisterPage for every set of cards, whatever is in flight. *)
EXTENDS RegisterPage, FiniteSetTheorems, TLAPS

\* What the variables hold besides their type.
Contents ==
    /\ arrival \in {None, <<>>} \cup {<<c>> : c \in Urls}
    /\ IsFiniteSet(dialogs)
    /\ panel => balance # None

\* A success says the balance of the customer whose code was sent.
Answers == \A r \in flying :
    r.answer # None /\ r.answer.result = "ok" =>
        /\ r.answer.balance \in Reading
        /\ r.answer.balance.who = Resolve(r.payload)

\* The cashier who waits: for the customer the page was opened with ...
AwaitsArrival ==
    ~strayed /\ arrival \notin {None, <<>>} =>
        flying = {} /\ dialogs = {} /\ card = None

\* ... for the dialog, which is about the customer shown ...
AwaitsDialog ==
    ~strayed /\ dialogs # {} =>
        flying = {} /\ panel /\ dialogs = {[n |-> 0, asked |-> shown]}

\* ... and for each change of a balance; meanwhile no number gets old.
AwaitsChange ==
    ~strayed => \A r \in flying :
        /\ r.kind # "scan" => /\ flying = {r} /\ dialogs = {}
                              /\ panel => Resolve(r.payload) = shown
        /\ r.answer # None /\ r.answer.result = "ok" =>
              r.answer.balance = [who |-> Resolve(r.payload),
                                  at |-> changes[Resolve(r.payload)]]

Inv == TypeOK /\ Contents /\ Answers /\ PanelMatchesCurrent /\ LoadingMeansBusy
           /\ AwaitsArrival /\ AwaitsDialog /\ AwaitsChange
           /\ ConfirmationsHonoured /\ BalanceUpToDate

\* Abbreviations, expanded in every step.
USE RegisterAssumption DEF page, Hurried, Rescan

LEMMA Resolved ==
    /\ Resolve(None) = None
    /\ \A p \in Payload : Resolve(p) \in Customers \cup {None}
    /\ \A c \in Customers : <<c>> \in Payload /\ Resolve(<<c>>) = c
<1>1. Resolve(None) = None
  BY DEF Resolve
<1>2. ASSUME NEW p \in Payload
      PROVE  Resolve(p) \in Customers \cup {None}
  <2>1. p # None /\ Len(p) \in Nat /\ \A i \in 1 .. Len(p) : p[i] \in Customers
    BY DEF Payload
  <2>2. CASE Len(p) = 1
    BY <2>1, <2>2 DEF Resolve
  <2>3. CASE Len(p) # 1
    BY <2>1, <2>3 DEF Resolve
  <2> QED
    BY <2>2, <2>3
<1>3. ASSUME NEW c \in Customers
      PROVE  <<c>> \in Payload /\ Resolve(<<c>>) = c
  <2>1. <<c>> \in Payload
    BY DEF Payload
  <2>2. <<c>> # None /\ Len(<<c>>) = 1 /\ <<c>>[1] = c
    BY <2>1
  <2> QED
    BY <2>1, <2>2 DEF Resolve
<1> QED
  BY <1>1, <1>2, <1>3

LEMMA Fields ==
    /\ <<>> \in Payload
    /\ \A p \in Payload, c \in Customers : Append(p, c) \in Payload
BY DEF Payload

\* What a request looks like when it is sent.
LEMMA Fresh ==
    ASSUME NEW id \in Nat, NEW kind \in {"scan", "booking", "reversal"},
           NEW payload \in Payload \cup {None}
    PROVE  /\ NewRequest(id, kind, payload) \in Request
           /\ NewRequest(id, kind, payload).kind = kind
           /\ NewRequest(id, kind, payload).payload = payload
           /\ NewRequest(id, kind, payload).answer = None
BY DEF NewRequest, Request

\* An answer that arrives leaves the rest of its request alone.
LEMMA Answering ==
    ASSUME NEW r \in Request, NEW a \in Answer, NEW q, q = [r EXCEPT !.answer = a]
    PROVE  /\ q \in Request /\ q.answer = a /\ q.kind = r.kind /\ q.ok = r.ok
           /\ q.payload = r.payload /\ q.asked = r.asked
BY DEF Request

\* What the server answers.
LEMMA ServeAnswer ==
    ASSUME Inv, NEW r \in flying, NEW result \in {"ok", "error", "uncertain"},
           NEW carried \in BOOLEAN, Serve(r, result, carried)
    PROVE  /\ \E a \in Answer, q \in Request :
                 /\ a.result = result
                 /\ result = "ok" =>
                       /\ a.balance \in Reading
                       /\ a.balance = [who |-> Resolve(r.payload),
                                      at |-> changes'[Resolve(r.payload)]]
                 /\ q.answer = a /\ q.kind = r.kind /\ q.ok = r.ok
                 /\ q.payload = r.payload /\ q.asked = r.asked
                 /\ flying' = (flying \ {r}) \cup {q}
           /\ changes' \in [Customers -> Nat]
           /\ r.kind = "scan" => changes' = changes
           /\ UNCHANGED <<arrival, page, dialogs, sent, card, strayed>>
<1>1. r \in Request /\ r.payload \in Payload \cup {None}
  BY DEF Inv, TypeOK, Request
<1>2. Resolve(r.payload) \in Customers \cup {None}
  BY <1>1, Resolved
<1>3. changes' \in [Customers -> Nat]
  BY <1>2 DEF Inv, TypeOK, Serve
<1>4. result = "ok" => Resolve(r.payload) \in Customers
  BY <1>2 DEF Serve
<1> DEFINE reading == [who |-> Resolve(r.payload), at |-> changes'[Resolve(r.payload)]]
           a == [result |-> result, balance |-> IF result = "ok" THEN reading ELSE None]
           q == [r EXCEPT !.answer = a]
<1>5. result = "ok" => reading \in Reading
  BY <1>3, <1>4 DEF Reading
<1>6. a \in Answer
  BY <1>5 DEF Answer
<1>7. flying' = (flying \ {r}) \cup {q}
  BY DEF Serve
<1>8. /\ q \in Request /\ q.answer = a /\ q.kind = r.kind /\ q.ok = r.ok
      /\ q.payload = r.payload /\ q.asked = r.asked
  BY <1>1, <1>6, Answering
<1>9. /\ r.kind = "scan" => changes' = changes
      /\ UNCHANGED <<arrival, page, dialogs, sent, card, strayed>>
  BY DEF Serve
<1>10. a.result = result /\ (result = "ok" => a.balance = reading)
  OBVIOUS
<1> HIDE DEF a, q
<1> QED
  BY <1>3, <1>5, <1>6, <1>7, <1>8, <1>9, <1>10

\* What OK sends.
LEMMA ConfirmSends ==
    ASSUME Inv, Confirm
    PROVE  /\ \A r \in flying' \ flying :
                 /\ r \in Request /\ r.answer = None /\ r.kind = "booking"
                 /\ r.payload = current
                 /\ \E d \in dialogs : r.asked = d.asked
           /\ dialogs # {} /\ dialogs' = {} /\ sent' \in Nat /\ banner' = "loading"
           /\ flying' # {} /\ flying \subseteq flying'
           /\ (\E d : dialogs = {d}) /\ flying = {} => \E r : flying' = {r}
           /\ UNCHANGED <<arrival, text, lastScan, current, balance, shown, panel,
                           changes, card, strayed>>
<1>1. Cardinality(dialogs) \in Nat /\ sent \in Nat /\ current \in Payload \cup {None}
  BY FS_CardinalityType DEF Inv, TypeOK, Contents
<1>2. ASSUME NEW d \in dialogs
      PROVE  sent + d.n \in Nat /\ d.asked \in Customers
  <2>1. d.n \in Nat /\ d.asked \in Customers
    BY DEF Inv, TypeOK
  <2> QED
    BY <1>1, <2>1
<1>3. ASSUME NEW r \in flying' \ flying
      PROVE  /\ r \in Request /\ r.answer = None /\ r.kind = "booking"
             /\ r.payload = current
             /\ \E d \in dialogs : r.asked = d.asked
  <2>1. PICK d \in dialogs : r = [NewRequest(sent + d.n, "booking", current) EXCEPT
                                     !.asked = d.asked, !.ok = sent]
    BY <1>3 DEF Confirm
  <2>2. sent + d.n \in Nat /\ d.asked \in Customers
    BY <1>2
  <2>3. /\ r \in Request /\ r.answer = None /\ r.kind = "booking"
        /\ r.payload = current /\ r.asked = d.asked
    BY ONLY <1>1, <2>1, <2>2, RegisterAssumption DEF NewRequest, Request
  <2> QED
    BY <2>3
<1>4. sent' = sent + Cardinality(dialogs)
  BY DEF Confirm
<1>5. sent' \in Nat
  BY <1>1, <1>4
<1>6. /\ dialogs # {} /\ dialogs' = {} /\ banner' = "loading"
      /\ UNCHANGED <<arrival, text, lastScan, current, balance, shown, panel,
                     changes, card, strayed>>
  BY DEF Confirm
<1>7. flying' # {} /\ flying \subseteq flying'
  BY DEF Confirm
<1>8. ASSUME NEW d, dialogs = {d}, flying = {}
      PROVE  \E r : flying' = {r}
  <2>1. flying' = {[NewRequest(sent + d.n, "booking", current) EXCEPT
                       !.asked = d.asked, !.ok = sent]}
    BY <1>8 DEF Confirm
  <2> QED
    BY <2>1
<1> QED
  BY <1>3, <1>5, <1>6, <1>7, <1>8

LEMMA InitInv == Init => Inv
<1> SUFFICES ASSUME Init PROVE Inv
  OBVIOUS
<1>1. TypeOK
  <2>1. arrival \in Payload \cup {None}
    BY Fields, Resolved DEF Init
  <2>2. panel \in BOOLEAN /\ strayed \in BOOLEAN /\ text \in Payload
    BY Fields DEF Init
  <2> QED
    BY <2>1, <2>2 DEF Init, TypeOK
<1>2. Contents
  BY FS_EmptySet DEF Init, Contents
<1> QED
  BY <1>1, <1>2 DEF Init, Inv, Answers, PanelMatchesCurrent, LoadingMeansBusy,
     AwaitsArrival, AwaitsDialog, AwaitsChange, ConfirmationsHonoured, BalanceUpToDate

LEMMA ScanKeeps ==
    ASSUME Inv, NEW c \in Customers, Scan(c)
    PROVE  Inv'
<1> USE DEF Inv, Scan, HandleScan
<1>1. TypeOK'
  <2>1. Append(text, c) \in Payload
    BY Fields DEF TypeOK
  <2>2. NewRequest(sent, "scan", text') \in Request
    BY <2>1, Fresh DEF TypeOK
  <2>3. flying' \subseteq Request /\ sent' \in Nat
        /\ lastScan' \in Payload \cup {None}
    <3>1. text' \in Payload /\ flying \subseteq Request /\ sent \in Nat
          /\ lastScan \in Payload \cup {None}
      BY <2>1 DEF TypeOK
    <3>2. CASE lastScan = text'
      BY <3>1, <3>2
    <3>3. CASE lastScan # text'
      <4>1. sent' = sent + 1 /\ lastScan' = text'
        BY <3>3
      <4>2. flying' = flying \cup {NewRequest(sent, "scan", text')}
        BY <3>3
      <4> QED
        BY <2>2, <3>1, <4>1, <4>2
    <3> QED
      BY <3>2, <3>3
  <2>4. banner' \in {"hidden", "loading", "error", "success"} /\ strayed' \in BOOLEAN
    BY DEF TypeOK
  <2> QED
    BY <2>1, <2>3, <2>4 DEF TypeOK
<1>2. Contents'
  BY DEF Contents
<1>3. Answers'
  <2>1. Append(text, c) \in Payload /\ sent \in Nat
    BY Fields DEF TypeOK
  <2>2. \A r \in flying' \ flying : r.answer = None
    BY <2>1, Fresh
  <2> QED
    BY <2>2 DEF Answers
<1>4. PanelMatchesCurrent' /\ LoadingMeansBusy'
  BY DEF PanelMatchesCurrent, LoadingMeansBusy
<1>5. AwaitsArrival' /\ AwaitsDialog'
  BY DEF AwaitsArrival, AwaitsDialog
<1>6. AwaitsChange'
  <2> SUFFICES ASSUME ~strayed' PROVE AwaitsChange'
    BY DEF AwaitsChange
  <2>1. ~strayed /\ changes' = changes /\ shown' = shown /\ panel' = panel
        /\ dialogs' = dialogs
    BY DEF TypeOK
  <2>2. dialogs = {} /\ \A r \in flying : r.kind = "scan"
    BY DEF TypeOK
  <2>3. Append(text, c) \in Payload /\ sent \in Nat
    BY Fields DEF TypeOK
  <2>4. \A r \in flying' \ flying : r.kind = "scan" /\ r.answer = None
    BY <2>3, Fresh
  <2> QED
    BY <2>1, <2>2, <2>4 DEF AwaitsChange
<1>7. ConfirmationsHonoured'
  <2>1. Append(text, c) \in Payload /\ sent \in Nat
    BY Fields DEF TypeOK
  <2>2. \A r \in flying' \ flying : r.kind = "scan"
    BY <2>1, Fresh
  <2>3. ~strayed' => ~strayed
    BY DEF TypeOK
  <2> QED
    BY <2>2, <2>3 DEF ConfirmationsHonoured
<1>8. BalanceUpToDate'
  <2>1. flying' = {} => flying = {} /\ UNCHANGED banner
    BY DEF TypeOK
  <2>2. ~strayed' => ~strayed
    BY DEF TypeOK
  <2> QED
    BY <2>1, <2>2 DEF BalanceUpToDate
<1> QED
  BY <1>1, <1>2, <1>3, <1>4, <1>5, <1>6, <1>7, <1>8

LEMMA ArriveKeeps ==
    ASSUME Inv, Arrive
    PROVE  Inv'
<1> USE DEF Inv, Arrive, HandleScan
<1>1. TypeOK'
  <2>1. CASE arrival = <<>>
    BY <2>1, Fields DEF TypeOK
  <2>2. CASE arrival # <<>>
    <3>1. PICK c \in Customers : arrival = <<c>> /\ arrival[1] = c
      BY <2>2 DEF Contents
    <3>2. NewRequest(sent, "scan", arrival) \in Request /\ arrival \in Payload
      BY <3>1, Fresh, Resolved DEF TypeOK
    <3>3. text' \in Payload /\ lastScan' \in Payload \cup {None} /\ sent' \in Nat
          /\ card' \in Customers \cup {None} /\ flying' \subseteq Request
      BY <2>2, <3>1, <3>2 DEF TypeOK
    <3> QED
      BY <2>2, <3>3 DEF TypeOK
  <2> QED
    BY <2>1, <2>2
<1>2. Contents'
  BY DEF Contents
<1>3. Answers'
  <2>1. arrival \in Payload \cup {None} /\ sent \in Nat
    BY DEF TypeOK
  <2>2. \A r \in flying' \ flying : r.kind = "scan" /\ r.answer = None
    BY <2>1, Fresh
  <2> QED
    BY <2>2 DEF Answers
<1>4. PanelMatchesCurrent' /\ LoadingMeansBusy'
  BY DEF PanelMatchesCurrent, LoadingMeansBusy
<1>5. AwaitsArrival' /\ AwaitsDialog'
  BY DEF AwaitsArrival, AwaitsDialog
<1>6. AwaitsChange'
  <2>1. arrival \in Payload \cup {None} /\ sent \in Nat
    BY DEF TypeOK
  <2>2. \A r \in flying' \ flying : r.kind = "scan" /\ r.answer = None
    BY <2>1, Fresh
  <2>3. ~strayed /\ flying' # flying => flying = {} /\ dialogs = {}
    BY DEF AwaitsArrival
  <2> QED
    BY <2>2, <2>3 DEF AwaitsChange
<1>7. ConfirmationsHonoured'
  <2>1. arrival \in Payload \cup {None} /\ sent \in Nat
    BY DEF TypeOK
  <2>2. \A r \in flying' \ flying : r.kind = "scan" /\ r.answer = None
    BY <2>1, Fresh
  <2> QED
    BY <2>2 DEF ConfirmationsHonoured
<1>8. BalanceUpToDate'
  BY DEF BalanceUpToDate, AwaitsChange, AwaitsDialog
<1> QED
  BY <1>1, <1>2, <1>3, <1>4, <1>5, <1>6, <1>7, <1>8

LEMMA TwoSecondsPassKeeps ==
    ASSUME Inv, TwoSecondsPass
    PROVE  Inv'
<1> USE DEF Inv, TwoSecondsPass
<1>1. TypeOK'
  BY DEF TypeOK
<1>2. Contents'
  BY DEF Contents
<1>3. Answers'
  BY DEF Answers
<1>4. PanelMatchesCurrent' /\ LoadingMeansBusy'
  BY DEF PanelMatchesCurrent, LoadingMeansBusy
<1>5. AwaitsArrival' /\ AwaitsDialog'
  BY DEF AwaitsArrival, AwaitsDialog
<1>6. AwaitsChange'
  BY DEF AwaitsChange, AwaitsDialog, AwaitsArrival
<1>7. ConfirmationsHonoured'
  BY DEF ConfirmationsHonoured
<1>8. BalanceUpToDate'
  BY DEF BalanceUpToDate, AwaitsChange, AwaitsDialog
<1> QED
  BY <1>1, <1>2, <1>3, <1>4, <1>5, <1>6, <1>7, <1>8

LEMMA ClickKeeps ==
    ASSUME Inv, Click
    PROVE  Inv'
<1> USE DEF Inv, Click
<1>1. TypeOK'
  <2>1. shown \in Customers /\ Cardinality(dialogs) \in Nat
    BY FS_CardinalityType DEF TypeOK, Contents, PanelMatchesCurrent
  <2> QED
    BY <2>1 DEF TypeOK
<1>2. Contents'
  <2>1. IsFiniteSet(dialogs')
    BY FS_AddElement DEF Contents
  <2> QED
    BY <2>1 DEF Contents
<1>3. Answers'
  BY DEF Answers
<1>4. PanelMatchesCurrent' /\ LoadingMeansBusy'
  BY DEF PanelMatchesCurrent, LoadingMeansBusy
<1>5. AwaitsArrival' /\ AwaitsDialog'
  <2>1. AwaitsArrival'
    BY DEF AwaitsArrival, TypeOK
  <2>2. ~strayed' => dialogs' = {[n |-> 0, asked |-> shown]} /\ flying = {}
    BY FS_EmptySet DEF TypeOK
  <2> QED
    BY <2>1, <2>2 DEF AwaitsDialog
<1>6. AwaitsChange'
  BY DEF AwaitsChange, AwaitsDialog, AwaitsArrival
<1>7. ConfirmationsHonoured'
  BY DEF ConfirmationsHonoured
<1>8. BalanceUpToDate'
  BY DEF BalanceUpToDate, AwaitsChange, AwaitsDialog
<1> QED
  BY <1>1, <1>2, <1>3, <1>4, <1>5, <1>6, <1>7, <1>8

LEMMA ClickRefusedKeeps ==
    ASSUME Inv, ClickRefused
    PROVE  Inv'
<1> USE DEF Inv, ClickRefused
<1>1. TypeOK'
  BY DEF TypeOK
<1>2. Contents'
  BY DEF Contents
<1>3. Answers'
  BY DEF Answers
<1>4. PanelMatchesCurrent' /\ LoadingMeansBusy'
  BY DEF PanelMatchesCurrent, LoadingMeansBusy
<1>5. AwaitsArrival' /\ AwaitsDialog'
  BY DEF AwaitsArrival, AwaitsDialog
<1>6. AwaitsChange'
  BY DEF AwaitsChange, AwaitsDialog, AwaitsArrival
<1>7. ConfirmationsHonoured'
  BY DEF ConfirmationsHonoured
<1>8. BalanceUpToDate'
  BY DEF BalanceUpToDate, AwaitsChange, AwaitsDialog
<1> QED
  BY <1>1, <1>2, <1>3, <1>4, <1>5, <1>6, <1>7, <1>8

LEMMA ConfirmKeeps ==
    ASSUME Inv, Confirm
    PROVE  Inv'
<1> USE DEF Inv
<1>1. TypeOK'
  BY ConfirmSends DEF TypeOK
<1>2. Contents'
  <2>1. IsFiniteSet(dialogs')
    BY ConfirmSends, FS_EmptySet
  <2> QED
    BY <2>1, ConfirmSends DEF Contents
<1>3. Answers'
  BY ConfirmSends DEF Answers
<1>4. PanelMatchesCurrent' /\ LoadingMeansBusy'
  BY ConfirmSends DEF PanelMatchesCurrent, LoadingMeansBusy
<1>5. AwaitsArrival' /\ AwaitsDialog'
  BY ConfirmSends DEF AwaitsArrival, AwaitsDialog
<1>6. AwaitsChange'
  <2> SUFFICES ASSUME ~strayed PROVE AwaitsChange'
    BY ConfirmSends DEF AwaitsChange
  <2>1. flying = {} /\ dialogs = {[n |-> 0, asked |-> shown]}
        /\ Resolve(current) = shown
    BY ConfirmSends DEF AwaitsDialog, PanelMatchesCurrent
  <2>2. PICK r : flying' = {r}
    BY <2>1, ConfirmSends
  <2>3. r.answer = None /\ r.payload = current /\ r.asked = shown
    BY <2>1, <2>2, ConfirmSends
  <2> QED
    BY <2>1, <2>2, <2>3, ConfirmSends DEF AwaitsChange
<1>7. ConfirmationsHonoured'
  <2> SUFFICES ASSUME ~strayed PROVE ConfirmationsHonoured'
    BY ConfirmSends DEF ConfirmationsHonoured
  <2>1. flying = {} /\ dialogs = {[n |-> 0, asked |-> shown]}
        /\ Resolve(current) = shown
    BY ConfirmSends DEF AwaitsDialog, PanelMatchesCurrent
  <2>2. PICK r : flying' = {r}
    BY <2>1, ConfirmSends
  <2>3. r.answer = None /\ r.payload = current /\ r.asked = shown
    BY <2>1, <2>2, ConfirmSends
  <2> QED
    BY <2>1, <2>2, <2>3, ConfirmSends DEF ConfirmationsHonoured
<1>8. BalanceUpToDate'
  BY ConfirmSends DEF BalanceUpToDate
<1> QED
  BY <1>1, <1>2, <1>3, <1>4, <1>5, <1>6, <1>7, <1>8

LEMMA CancelKeeps ==
    ASSUME Inv, Cancel
    PROVE  Inv'
<1> USE DEF Inv, Cancel
<1>1. TypeOK'
  BY DEF TypeOK
<1>2. Contents'
  BY FS_EmptySet DEF Contents
<1>3. Answers'
  BY DEF Answers
<1>4. PanelMatchesCurrent' /\ LoadingMeansBusy'
  BY DEF PanelMatchesCurrent, LoadingMeansBusy
<1>5. AwaitsArrival' /\ AwaitsDialog'
  BY DEF AwaitsArrival, AwaitsDialog
<1>6. AwaitsChange'
  BY DEF AwaitsChange, AwaitsDialog, AwaitsArrival
<1>7. ConfirmationsHonoured'
  BY DEF ConfirmationsHonoured
<1>8. BalanceUpToDate'
  BY DEF BalanceUpToDate, AwaitsChange, AwaitsDialog
<1> QED
  BY <1>1, <1>2, <1>3, <1>4, <1>5, <1>6, <1>7, <1>8

LEMMA ResetKeeps ==
    ASSUME Inv, Reset
    PROVE  Inv'
<1> USE DEF Inv, Reset
<1>1. TypeOK'
  BY Fields DEF TypeOK
<1>2. Contents'
  BY DEF Contents
<1>3. Answers'
  BY DEF Answers
<1>4. PanelMatchesCurrent' /\ LoadingMeansBusy'
  BY DEF PanelMatchesCurrent, LoadingMeansBusy
<1>5. AwaitsArrival' /\ AwaitsDialog'
  BY DEF AwaitsArrival, AwaitsDialog
<1>6. AwaitsChange'
  BY DEF AwaitsChange, AwaitsDialog, AwaitsArrival
<1>7. ConfirmationsHonoured'
  BY DEF ConfirmationsHonoured
<1>8. BalanceUpToDate'
  BY DEF BalanceUpToDate, AwaitsChange, AwaitsDialog
<1> QED
  BY <1>1, <1>2, <1>3, <1>4, <1>5, <1>6, <1>7, <1>8

LEMMA ReverseTransactionKeeps ==
    ASSUME Inv, NEW c \in Customers, ReverseTransaction(c)
    PROVE  Inv'
<1> USE DEF Inv, ReverseTransaction
<1>1. TypeOK'
  <2>1. NewRequest(sent, "reversal", <<c>>) \in Request
    BY Fresh, Resolved DEF TypeOK
  <2> QED
    BY <2>1 DEF TypeOK
<1>2. Contents'
  BY DEF Contents
<1>3. Answers'
  <2>1. PICK q : /\ q = NewRequest(sent, "reversal", <<c>>)
                 /\ q.kind = "reversal" /\ q.payload = <<c>> /\ q.answer = None
    BY Fresh, Resolved DEF TypeOK
  <2>2. ~strayed' => ~strayed /\ flying = {} /\ dialogs = {} /\ (panel => shown = c)
    BY DEF TypeOK
  <2> QED
    BY <2>1 DEF Answers
<1>4. PanelMatchesCurrent' /\ LoadingMeansBusy'
  BY DEF PanelMatchesCurrent, LoadingMeansBusy
<1>5. AwaitsArrival' /\ AwaitsDialog'
  BY DEF AwaitsArrival, AwaitsDialog
<1>6. AwaitsChange'
  <2>1. PICK q : /\ q = NewRequest(sent, "reversal", <<c>>)
                 /\ q.kind = "reversal" /\ q.payload = <<c>> /\ q.answer = None
    BY Fresh, Resolved DEF TypeOK
  <2>2. ~strayed' => ~strayed /\ flying = {} /\ dialogs = {} /\ (panel => shown = c)
    BY DEF TypeOK
  <2>3. Resolve(<<c>>) = c
    BY Resolved
  <2> QED
    BY <2>1, <2>2, <2>3 DEF AwaitsChange
<1>7. ConfirmationsHonoured'
  <2>1. PICK q : /\ q = NewRequest(sent, "reversal", <<c>>)
                 /\ q.kind = "reversal" /\ q.payload = <<c>> /\ q.answer = None
    BY Fresh, Resolved DEF TypeOK
  <2>2. ~strayed' => ~strayed /\ flying = {} /\ dialogs = {} /\ (panel => shown = c)
    BY DEF TypeOK
  <2> QED
    BY <2>1, <2>2 DEF ConfirmationsHonoured
<1>8. BalanceUpToDate'
  BY DEF BalanceUpToDate, AwaitsChange, AwaitsDialog
<1> QED
  BY <1>1, <1>2, <1>3, <1>4, <1>5, <1>6, <1>7, <1>8

LEMMA ServeKeeps ==
    ASSUME Inv, NEW r \in flying, NEW result \in {"ok", "error", "uncertain"},
           NEW carried \in BOOLEAN, Serve(r, result, carried)
    PROVE  Inv'
<1> USE DEF Inv
<1>1. TypeOK'
  <2>1. PICK a \in Answer, q \in Request :
           /\ a.result = result
           /\ result = "ok" =>
                 /\ a.balance \in Reading
                 /\ a.balance = [who |-> Resolve(r.payload),
                                at |-> changes'[Resolve(r.payload)]]
           /\ q.answer = a /\ q.kind = r.kind /\ q.ok = r.ok
           /\ q.payload = r.payload /\ q.asked = r.asked
           /\ flying' = (flying \ {r}) \cup {q}
    BY ServeAnswer
  <2>2. UNCHANGED <<arrival, page, dialogs, sent, card, strayed>>
    BY ServeAnswer
  <2>3. changes' \in [Customers -> Nat]
    BY ServeAnswer
  <2> QED
    BY <2>1, <2>2, <2>3 DEF TypeOK
<1>2. Contents'
  <2>1. UNCHANGED <<arrival, page, dialogs, sent, card, strayed>>
    BY ServeAnswer
  <2> QED
    BY <2>1 DEF Contents
<1>3. Answers'
  <2>1. PICK a \in Answer, q \in Request :
           /\ a.result = result
           /\ result = "ok" =>
                 /\ a.balance \in Reading
                 /\ a.balance = [who |-> Resolve(r.payload),
                                at |-> changes'[Resolve(r.payload)]]
           /\ q.answer = a /\ q.kind = r.kind /\ q.ok = r.ok
           /\ q.payload = r.payload /\ q.asked = r.asked
           /\ flying' = (flying \ {r}) \cup {q}
    BY ServeAnswer
  <2>2. UNCHANGED <<arrival, page, dialogs, sent, card, strayed>>
    BY ServeAnswer
  <2>3. result = "ok" => a.balance.who = Resolve(r.payload)
    BY <2>1
  <2> QED
    BY <2>1, <2>3 DEF Answers
<1>4. PanelMatchesCurrent' /\ LoadingMeansBusy'
  <2>1. PICK a \in Answer, q \in Request :
           /\ a.result = result
           /\ result = "ok" =>
                 /\ a.balance \in Reading
                 /\ a.balance = [who |-> Resolve(r.payload),
                                at |-> changes'[Resolve(r.payload)]]
           /\ q.answer = a /\ q.kind = r.kind /\ q.ok = r.ok
           /\ q.payload = r.payload /\ q.asked = r.asked
           /\ flying' = (flying \ {r}) \cup {q}
    BY ServeAnswer
  <2>2. UNCHANGED <<arrival, page, dialogs, sent, card, strayed>>
    BY ServeAnswer
  <2> QED
    BY <2>1, <2>2 DEF PanelMatchesCurrent, LoadingMeansBusy
<1>5. AwaitsArrival' /\ AwaitsDialog'
  <2>1. PICK a \in Answer, q \in Request :
           /\ a.result = result
           /\ result = "ok" =>
                 /\ a.balance \in Reading
                 /\ a.balance = [who |-> Resolve(r.payload),
                                at |-> changes'[Resolve(r.payload)]]
           /\ q.answer = a /\ q.kind = r.kind /\ q.ok = r.ok
           /\ q.payload = r.payload /\ q.asked = r.asked
           /\ flying' = (flying \ {r}) \cup {q}
    BY ServeAnswer
  <2>2. UNCHANGED <<arrival, page, dialogs, sent, card, strayed>>
    BY ServeAnswer
  <2> QED
    BY <2>2 DEF AwaitsArrival, AwaitsDialog
<1>6. AwaitsChange'
  <2>1. PICK a \in Answer, q \in Request :
           /\ a.result = result
           /\ result = "ok" =>
                 /\ a.balance \in Reading
                 /\ a.balance = [who |-> Resolve(r.payload),
                                at |-> changes'[Resolve(r.payload)]]
           /\ q.answer = a /\ q.kind = r.kind /\ q.ok = r.ok
           /\ q.payload = r.payload /\ q.asked = r.asked
           /\ flying' = (flying \ {r}) \cup {q}
    BY ServeAnswer
  <2>2. UNCHANGED <<arrival, page, dialogs, sent, card, strayed>>
    BY ServeAnswer
  <2> SUFFICES ASSUME ~strayed PROVE AwaitsChange'
    BY <2>2 DEF AwaitsChange
  <2>4. CASE r.kind = "scan"
    <3>1. changes' = changes
      BY <2>4, ServeAnswer
    <3>2. \A s \in flying : s.kind = "scan"
      BY <2>4 DEF AwaitsChange
    <3>3. \A s \in flying' : s.kind = "scan"
      BY <2>1, <2>4, <3>2
    <3> QED
      BY <2>1, <2>2, <3>1, <3>3 DEF AwaitsChange
  <2>5. CASE r.kind # "scan"
    <3>1. flying = {r} /\ dialogs = {} /\ (panel => Resolve(r.payload) = shown)
      BY <2>5 DEF AwaitsChange
    <3>2. flying' = {q}
      BY <2>1, <3>1
    <3> QED
      BY <2>1, <2>2, <3>1, <3>2 DEF AwaitsChange
  <2> QED
    BY <2>4, <2>5
<1>7. ConfirmationsHonoured'
  <2>1. PICK a \in Answer, q \in Request :
           /\ a.result = result
           /\ result = "ok" =>
                 /\ a.balance \in Reading
                 /\ a.balance = [who |-> Resolve(r.payload),
                                at |-> changes'[Resolve(r.payload)]]
           /\ q.answer = a /\ q.kind = r.kind /\ q.ok = r.ok
           /\ q.payload = r.payload /\ q.asked = r.asked
           /\ flying' = (flying \ {r}) \cup {q}
    BY ServeAnswer
  <2>2. UNCHANGED <<arrival, page, dialogs, sent, card, strayed>>
    BY ServeAnswer
  <2> SUFFICES ASSUME ~strayed PROVE ConfirmationsHonoured'
    BY <2>2 DEF ConfirmationsHonoured
  <2> DEFINE Origin(s) == IF s = q THEN r ELSE s
  <2>3. \A s \in flying' :
           /\ Origin(s) \in flying /\ Origin(s).kind = s.kind /\ Origin(s).ok = s.ok
           /\ Origin(s).payload = s.payload /\ Origin(s).asked = s.asked
    BY <2>1
  <2>4. \A s, t \in flying' : Origin(s) = Origin(t) => s = t
    BY <2>1
  <2> HIDE DEF Origin
  <2>5. \A s \in flying' : s.kind = "booking" => Resolve(s.payload) = s.asked
    BY <2>3 DEF ConfirmationsHonoured
  <2>6. ASSUME NEW s \in flying', NEW t \in flying', s.kind = "booking",
               t.kind = "booking", s.ok = t.ok
        PROVE  s = t
    <3>1. Origin(s) = Origin(t)
      BY <2>3, <2>6 DEF ConfirmationsHonoured
    <3> QED
      BY <2>4, <3>1
  <2> QED
    BY <2>5, <2>6 DEF ConfirmationsHonoured
<1>8. BalanceUpToDate'
  <2>1. PICK a \in Answer, q \in Request :
           /\ a.result = result
           /\ result = "ok" =>
                 /\ a.balance \in Reading
                 /\ a.balance = [who |-> Resolve(r.payload),
                                at |-> changes'[Resolve(r.payload)]]
           /\ q.answer = a /\ q.kind = r.kind /\ q.ok = r.ok
           /\ q.payload = r.payload /\ q.asked = r.asked
           /\ flying' = (flying \ {r}) \cup {q}
    BY ServeAnswer
  <2>2. UNCHANGED <<arrival, page, dialogs, sent, card, strayed>>
    BY ServeAnswer
  <2> QED
    BY <2>1 DEF BalanceUpToDate
<1> QED
  BY <1>1, <1>2, <1>3, <1>4, <1>5, <1>6, <1>7, <1>8

LEMMA CustomerFoundKeeps ==
    ASSUME Inv, NEW r \in flying, CustomerFound(r)
    PROVE  Inv'
<1> USE DEF Inv, CustomerFound, Answered
<1>1. TypeOK'
  <2>1. r.answer # None => r.answer \in Answer
    BY DEF TypeOK, Request
  <2>2. r.payload \in Payload \cup {None}
    BY DEF TypeOK, Request
  <2>3. r.answer.result = "ok" => r.answer.balance \in Reading
    BY DEF Answers
  <2> QED
    BY <2>2, <2>3, Fields DEF TypeOK, Reading
<1>2. Contents'
  <2>1. r.answer.balance # None
    BY DEF Answers
  <2> QED
    BY <2>1 DEF Contents
<1>3. Answers'
  BY DEF Answers
<1>4. PanelMatchesCurrent' /\ LoadingMeansBusy'
  <2>1. r.answer.balance \in Reading /\ r.answer.balance.who = Resolve(r.payload)
    BY DEF Answers
  <2>2. r.answer.balance.who # None
    BY <2>1 DEF Reading
  <2> QED
    BY <2>1, <2>2 DEF PanelMatchesCurrent, LoadingMeansBusy
<1>5. AwaitsArrival' /\ AwaitsDialog'
  BY DEF AwaitsArrival, AwaitsDialog
<1>6. AwaitsChange'
  BY DEF AwaitsChange, AwaitsDialog, AwaitsArrival
<1>7. ConfirmationsHonoured'
  BY DEF ConfirmationsHonoured
<1>8. BalanceUpToDate'
  <2> SUFFICES ASSUME ~strayed PROVE BalanceUpToDate'
    BY DEF BalanceUpToDate
  <2>1. r.answer.balance = [who |-> Resolve(r.payload), at |-> changes[Resolve(r.payload)]]
    BY DEF AwaitsChange
  <2>2. r.answer.balance.who = Resolve(r.payload)
    BY DEF Answers
  <2> QED
    BY <2>1, <2>2 DEF BalanceUpToDate
<1> QED
  BY <1>1, <1>2, <1>3, <1>4, <1>5, <1>6, <1>7, <1>8

LEMMA ScanFailedKeeps ==
    ASSUME Inv, NEW r \in flying, ScanFailed(r)
    PROVE  Inv'
<1> USE DEF Inv, ScanFailed, Answered
<1>1. TypeOK'
  BY Fields DEF TypeOK
<1>2. Contents'
  BY DEF Contents
<1>3. Answers'
  BY DEF Answers
<1>4. PanelMatchesCurrent' /\ LoadingMeansBusy'
  BY DEF PanelMatchesCurrent, LoadingMeansBusy
<1>5. AwaitsArrival' /\ AwaitsDialog'
  BY DEF AwaitsArrival, AwaitsDialog
<1>6. AwaitsChange'
  BY DEF AwaitsChange, AwaitsDialog, AwaitsArrival
<1>7. ConfirmationsHonoured'
  BY DEF ConfirmationsHonoured
<1>8. BalanceUpToDate'
  BY DEF BalanceUpToDate, AwaitsChange, AwaitsDialog
<1> QED
  BY <1>1, <1>2, <1>3, <1>4, <1>5, <1>6, <1>7, <1>8

LEMMA BookedKeeps ==
    ASSUME Inv, NEW r \in flying, Booked(r)
    PROVE  Inv'
<1> USE DEF Inv, Booked, Answered, NewBalance
<1>1. TypeOK'
  <2>1. r.answer # None => r.answer \in Answer
    BY DEF TypeOK, Request
  <2>2. r.payload \in Payload \cup {None}
    BY DEF TypeOK, Request
  <2>3. r.answer.result = "ok" => r.answer.balance \in Reading
    BY DEF Answers
  <2> QED
    BY <2>2, <2>3, Fields DEF TypeOK, Reading
<1>2. Contents'
  <2>1. r.answer.result = "ok" => r.answer.balance # None
    BY DEF Answers
  <2> QED
    BY <2>1 DEF Contents
<1>3. Answers'
  BY DEF Answers
<1>4. PanelMatchesCurrent' /\ LoadingMeansBusy'
  BY DEF PanelMatchesCurrent, LoadingMeansBusy
<1>5. AwaitsArrival' /\ AwaitsDialog'
  BY DEF AwaitsArrival, AwaitsDialog
<1>6. AwaitsChange'
  BY DEF AwaitsChange, AwaitsDialog, AwaitsArrival
<1>7. ConfirmationsHonoured'
  BY DEF ConfirmationsHonoured
<1>8. BalanceUpToDate'
  <2> SUFFICES ASSUME ~strayed, panel PROVE BalanceUpToDate'
    BY DEF BalanceUpToDate
  <2>1. balance # None
    BY DEF Contents
  <2>2. Resolve(r.payload) = shown
    BY DEF AwaitsChange
  <2>3. r.answer.result = "ok" =>
            r.answer.balance = [who |-> shown, at |-> changes[shown]]
    BY <2>2 DEF AwaitsChange
  <2> QED
    BY <2>1, <2>3 DEF BalanceUpToDate
<1> QED
  BY <1>1, <1>2, <1>3, <1>4, <1>5, <1>6, <1>7, <1>8

LEMMA ReversedKeeps ==
    ASSUME Inv, NEW r \in flying, Reversed(r)
    PROVE  Inv'
<1> USE DEF Inv, Reversed, Answered, NewBalance
<1>1. TypeOK'
  <2>1. r.answer # None => r.answer \in Answer
    BY DEF TypeOK, Request
  <2>2. r.payload \in Payload \cup {None}
    BY DEF TypeOK, Request
  <2>3. r.answer.result = "ok" => r.answer.balance \in Reading
    BY DEF Answers
  <2> QED
    BY <2>2, <2>3, Fields DEF TypeOK, Reading
<1>2. Contents'
  <2>1. r.answer.result = "ok" => r.answer.balance # None
    BY DEF Answers
  <2> QED
    BY <2>1 DEF Contents
<1>3. Answers'
  BY DEF Answers
<1>4. PanelMatchesCurrent' /\ LoadingMeansBusy'
  BY DEF PanelMatchesCurrent, LoadingMeansBusy
<1>5. AwaitsArrival' /\ AwaitsDialog'
  BY DEF AwaitsArrival, AwaitsDialog
<1>6. AwaitsChange'
  BY DEF AwaitsChange, AwaitsDialog, AwaitsArrival
<1>7. ConfirmationsHonoured'
  BY DEF ConfirmationsHonoured
<1>8. BalanceUpToDate'
  <2> SUFFICES ASSUME ~strayed, panel PROVE BalanceUpToDate'
    BY DEF BalanceUpToDate
  <2>1. balance # None
    BY DEF Contents
  <2>2. Resolve(r.payload) = shown
    BY DEF AwaitsChange
  <2>3. r.answer.result = "ok" =>
            r.answer.balance = [who |-> shown, at |-> changes[shown]]
    BY <2>2 DEF AwaitsChange
  <2> QED
    BY <2>1, <2>3 DEF BalanceUpToDate
<1> QED
  BY <1>1, <1>2, <1>3, <1>4, <1>5, <1>6, <1>7, <1>8

LEMMA ChangeFailedKeeps ==
    ASSUME Inv, NEW r \in flying, ChangeFailed(r)
    PROVE  Inv'
<1> USE DEF Inv, ChangeFailed, Answered
<1>1. TypeOK'
  BY DEF TypeOK
<1>2. Contents'
  BY DEF Contents
<1>3. Answers'
  BY DEF Answers
<1>4. PanelMatchesCurrent' /\ LoadingMeansBusy'
  BY DEF PanelMatchesCurrent, LoadingMeansBusy
<1>5. AwaitsArrival' /\ AwaitsDialog'
  BY DEF AwaitsArrival, AwaitsDialog
<1>6. AwaitsChange'
  BY DEF AwaitsChange, AwaitsDialog, AwaitsArrival
<1>7. ConfirmationsHonoured'
  BY DEF ConfirmationsHonoured
<1>8. BalanceUpToDate'
  BY DEF BalanceUpToDate, AwaitsChange, AwaitsDialog
<1> QED
  BY <1>1, <1>2, <1>3, <1>4, <1>5, <1>6, <1>7, <1>8

LEMMA NextInv == Inv /\ [Next]_vars => Inv'
<1> SUFFICES ASSUME Inv, [Next]_vars PROVE Inv'
  OBVIOUS
<1>1. ASSUME NEW c \in Customers, Scan(c) \/ ReverseTransaction(c) PROVE Inv'
  BY <1>1, ScanKeeps, ReverseTransactionKeeps
<1>2. CASE \/ TwoSecondsPass \/ Click \/ ClickRefused \/ Confirm \/ Cancel
           \/ Reset \/ Arrive
  BY <1>2, TwoSecondsPassKeeps, ClickKeeps, ClickRefusedKeeps, ConfirmKeeps,
     CancelKeeps, ResetKeeps, ArriveKeeps
<1>3. ASSUME NEW r \in flying, NEW result \in {"ok", "error", "uncertain"},
             NEW carried \in BOOLEAN, Serve(r, result, carried)
      PROVE  Inv'
  BY <1>3, ServeKeeps
<1>4. ASSUME NEW r \in flying,
             \/ CustomerFound(r) \/ ScanFailed(r) \/ Booked(r) \/ Reversed(r)
             \/ ChangeFailed(r)
      PROVE  Inv'
  BY <1>4, CustomerFoundKeeps, ScanFailedKeeps, BookedKeeps, ReversedKeeps,
     ChangeFailedKeeps
<1>5. CASE UNCHANGED vars
  BY <1>5 DEF vars, Inv, TypeOK, Contents, Answers, PanelMatchesCurrent,
     LoadingMeansBusy, AwaitsArrival, AwaitsDialog, AwaitsChange,
     ConfirmationsHonoured, BalanceUpToDate
<1> QED
  BY <1>1, <1>2, <1>3, <1>4, <1>5 DEF Next

THEOREM InvHolds == Spec => []Inv
BY InitInv, NextInv, PTL DEF Spec

\* Every variable keeps its type: the callbacks of register.js.
THEOREM TypeCorrect == Spec => []TypeOK
BY InvHolds, PTL DEF Inv

\* The buttons always book for the customer on the panel (handleScan).
THEOREM PanelAlwaysMatches == Spec => []PanelMatchesCurrent
BY InvHolds, PTL DEF Inv

\* No status of the page hangs (showStatus).
THEOREM StatusAlwaysEnds == Spec => []LoadingMeansBusy
BY InvHolds, PTL DEF Inv

\* Who waits for answers books what was confirmed, once (openConfirm).
THEOREM ConfirmationsAlwaysHonoured == Spec => []ConfirmationsHonoured
BY InvHolds, PTL DEF Inv

\* ... and is shown the balance of the last booking (earnButton, redeemButton).
THEOREM BalanceAlwaysUpToDate == Spec => []BalanceUpToDate
BY InvHolds, PTL DEF Inv
=============================================================================
