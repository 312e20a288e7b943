-------------------------- MODULE MoneyPathProofs --------------------------
(* What holds of MoneyPath for any number of applications, payments, requests *)
(* in flight and faults; and what holds of its two-stage flow when a request, *)
(* or a sweep, starts only after the one before it has ended: the rules of    *)
(* the rows however requests fail, and, where none fails, that the rows       *)
(* account for the money and the case lifecycle.                              *)
EXTENDS MoneyPath, TLAPS

USE NoAppAssumption

\* The invariant that is inductive with every endpoint exposed.
Safe == TypeOK /\ InFlight /\ WorkedOnImpliesCaptured

LEMMA PaymentIsSome == NoPay \notin Payments
  BY BoundAssumption DEF NoPay, Payments

\* An idle handler holds nothing.
LEMMA IdleIsACall == Idle \in Calls /\ Coherent(Idle) /\ BackedByCapture(Idle)
  BY DEF Idle, Calls, Steps, Keep, NoPay, Coherent, BackedByCapture, AppOps, PayOps, WorkedOn, Portions

\* What the three ways of describing a call put into its fields.
LEMMA AppCallIsACall ==
  ASSUME NEW step \in Steps, NEW op \in Operations, NEW a \in Apps,
         NEW to \in AppStatuses \cup {Keep}
  PROVE  /\ AppCall(step, op, a, to) \in Calls
         /\ AppCall(step, op, a, to).step = step
         /\ AppCall(step, op, a, to).op = op
         /\ AppCall(step, op, a, to).app = a
         /\ AppCall(step, op, a, to).pay = NoPay
         /\ AppCall(step, op, a, to).appTo = to
         /\ AppCall(step, op, a, to).payTo = Keep
         /\ AppCall(step, op, a, to).portions = {}
  BY DEF AppCall, Idle, Calls

LEMMA PayCallIsACall ==
  ASSUME TypeOK, NEW step \in Steps, NEW op \in Operations, NEW p \in Payments,
         NEW to \in PayStatuses \cup {Keep}
  PROVE  /\ PayCall(step, op, p, to) \in Calls
         /\ PayCall(step, op, p, to).step = step
         /\ PayCall(step, op, p, to).op = op
         /\ PayCall(step, op, p, to).app = owner[p]
         /\ PayCall(step, op, p, to).pay = p
         /\ PayCall(step, op, p, to).appTo = Keep
         /\ PayCall(step, op, p, to).payTo = to
         /\ PayCall(step, op, p, to).portions = {}
  BY DEF PayCall, Idle, Calls, TypeOK

LEMMA RefundCallIsACall ==
  ASSUME NEW c \in Calls, NEW p \in Payments, NEW portions \in SUBSET Portions
  PROVE  /\ RefundCall(c, p, portions) \in Calls
         /\ RefundCall(c, p, portions).step = c.step
         /\ RefundCall(c, p, portions).op = c.op
         /\ RefundCall(c, p, portions).app = c.app
         /\ RefundCall(c, p, portions).pay = p
         /\ RefundCall(c, p, portions).appTo = c.appTo
         /\ RefundCall(c, p, portions).payTo \in {"REFUNDED", "PARTIALLY_REFUNDED"}
         /\ RefundCall(c, p, portions).portions = portions
         /\ RefundCall(c, p, portions).todo = portions
  BY DEF RefundCall, Calls, PayStatuses

\* A request starts with a call that is coherent and backed.
Starts(h) ==
  \E c \in Calls : Begin(h, c) /\ Coherent(c) /\ BackedByCapture(c)

LEMMA AppRequestStarts ==
  ASSUME NEW h \in Handlers, NEW a \in Apps,
         NEW step \in {"check", "write"}, NEW op \in AppOps \cup {"createPayment"},
         NEW to \in AppStatuses \cup {Keep},
         op \in AppOps => to \in AppStatuses,
         op \in {"accept", "cancel"} => step = "check",
         to \in WorkedOn /\ op # "accept" => Charged(a),
         Begin(h, AppCall(step, op, a, to))
  PROVE  Starts(h)
<1> DEFINE c == AppCall(step, op, a, to)
<1>1. op \in Operations /\ step \in Steps
  BY DEF AppOps, Operations, Steps
<1>2. /\ c \in Calls
      /\ c.step = step /\ c.op = op /\ c.app = a /\ c.pay = NoPay /\ c.appTo = to
  BY <1>1, AppCallIsACall
<1> HIDE DEF c
<1>3. Coherent(c)
  BY <1>2 DEF Coherent, AppOps, PayOps
<1>4. BackedByCapture(c)
  BY <1>2 DEF BackedByCapture
<1> QED
  BY <1>2, <1>3, <1>4 DEF Starts, c

LEMMA PayRequestStarts ==
  ASSUME TypeOK, NEW h \in Handlers, NEW p \in Payments, Row(p),
         NEW step \in Steps, NEW op \in PayOps, NEW to \in PayStatuses,
         Begin(h, PayCall(step, op, p, to))
  PROVE  Starts(h)
<1> DEFINE c == PayCall(step, op, p, to)
<1>1. op \in Operations
  BY DEF PayOps, Operations
<1>2. /\ c \in Calls
      /\ c.step = step /\ c.op = op /\ c.app = owner[p] /\ c.pay = p
      /\ c.appTo = Keep /\ c.payTo = to
  BY <1>1, PayCallIsACall
<1>3. owner[p] \in Apps
  BY DEF TypeOK, Row
<1> HIDE DEF c
<1>4. Coherent(c)
  BY <1>2, <1>3, PaymentIsSome DEF Coherent, PayOps, AppOps
<1>5. BackedByCapture(c)
  BY <1>2 DEF BackedByCapture, WorkedOn, Keep
<1> QED
  BY <1>2, <1>4, <1>5 DEF Starts, c

LEMMA CustomerRequestStarts ==
  ASSUME Safe, NEW h \in Handlers, CustomerRequest(h)
  PROVE  Starts(h)
<1> USE DEF Safe
<1>1. ASSUME NEW a \in Apps, SubmitForReview(h, a) PROVE Starts(h)
  <2>1. Begin(h, AppCall("write", "submitForReview", a, "UNPAID"))
    BY <1>1 DEF SubmitForReview
  <2> QED BY <2>1, AppRequestStarts DEF AppOps, AppStatuses, WorkedOn
<1>2. ASSUME NEW a \in Apps, Submit(h, a) PROVE Starts(h)
  <2>1. Begin(h, AppCall("check", "submit", a, "SUBMITTED"))
    BY <1>2 DEF Submit
  <2> QED BY <2>1, AppRequestStarts DEF AppOps, AppStatuses, WorkedOn
<1>3. ASSUME NEW a \in Apps, CreatePayment(h, a) PROVE Starts(h)
  <2>1. Begin(h, AppCall("check", "createPayment", a, Keep))
    BY <1>3 DEF CreatePayment
  <2> QED BY <2>1, AppRequestStarts DEF AppOps, WorkedOn, Keep
<1>4. ASSUME NEW p \in Payments, NEW op \in {"initialize", "authorize", "confirmPayment"},
             NEW S, NEW next \in {"write", "provider"}, NEW to \in PayStatuses,
             StartOrExpire(h, op, p, S, next, to)
      PROVE  Starts(h)
  <2> DEFINE step == IF lapsed[p] THEN "expire" ELSE next
  <2>1. Row(p) /\ step \in Steps /\ op \in PayOps
    BY <1>4 DEF StartOrExpire, Row, Steps, PayOps
  <2>2. Begin(h, PayCall(step, op, p, to))
    BY <1>4 DEF StartOrExpire
  <2> HIDE DEF step
  <2> QED BY <2>1, <2>2, PayRequestStarts
<1>5. ASSUME NEW p \in Payments,
             Initialize(h, p) \/ ConfirmMockAuthorize(h, p) \/ ConfirmMockPayment(h, p)
      PROVE  Starts(h)
  BY <1>4, <1>5 DEF Initialize, ConfirmMockAuthorize, ConfirmMockPayment, PayStatuses
<1> QED
  BY <1>1, <1>2, <1>3, <1>5 DEF CustomerRequest

LEMMA PaymentRequestStarts ==
  ASSUME Safe, NEW h \in Handlers, PaymentRequest(h)
  PROVE  Starts(h)
<1> USE DEF Safe
<1>1. ASSUME NEW p \in Payments, NEW to \in PayStatuses,
             HandleCallback(h, p, to) \/ UpdateStatus(h, p, to)
      PROVE  Starts(h)
  <2>1. PICK op \in {"callback", "updateStatus"} :
          Row(p) /\ Begin(h, PayCall("write", op, p, to))
    BY <1>1 DEF HandleCallback, UpdateStatus, Row
  <2> QED BY <2>1, PayRequestStarts DEF PayOps, Steps
<1>2. ASSUME NEW p \in Payments, CapturePayment(h, p) \/ ReleasePayment(h, p)
      PROVE  Starts(h)
  <2>1. PICK op \in {"capture", "release"}, to \in PayStatuses :
          Row(p) /\ Begin(h, PayCall("check", op, p, to))
    BY <1>2 DEF CapturePayment, ReleasePayment, Row, PayStatuses
  <2> QED BY <2>1, PayRequestStarts DEF PayOps, Steps
<1>3. ASSUME NEW p \in Payments, NEW portions \in SUBSET Portions,
             SelectiveRefund(h, p, portions)
      PROVE  Starts(h)
  <2> DEFINE b == PayCall("provider", "refund", p, Keep)
             c == RefundCall(b, p, portions)
  <2>1. Row(p) /\ Begin(h, c)
    BY <1>3 DEF SelectiveRefund, Row
  <2>2. /\ b \in Calls
        /\ b.op = "refund" /\ b.app = owner[p] /\ b.appTo = Keep
    BY PayCallIsACall DEF Steps, Operations
  <2>3. owner[p] \in Apps
    BY <2>1 DEF TypeOK, Row
  <2> HIDE DEF b
  <2>4. /\ c \in Calls
        /\ c.op = "refund" /\ c.app = owner[p] /\ c.appTo = Keep /\ c.pay = p
        /\ c.payTo \in PayStatuses
    BY <2>2, RefundCallIsACall DEF PayStatuses
  <2> HIDE DEF c
  <2>5. Coherent(c)
    BY <2>3, <2>4, PaymentIsSome DEF Coherent, PayOps, AppOps
  <2>6. BackedByCapture(c)
    BY <2>4 DEF BackedByCapture, WorkedOn, Keep
  <2> QED BY <2>1, <2>4, <2>5, <2>6 DEF Starts
<1> QED
  BY <1>1, <1>2, <1>3 DEF PaymentRequest

LEMMA OperatorRequestStarts ==
  ASSUME Safe, NEW h \in Handlers, OperatorRequest(h)
  PROVE  Starts(h)
<1> USE DEF Safe
<1>1. ASSUME NEW a \in Apps, AcceptApplication(h, a) PROVE Starts(h)
  <2>1. Begin(h, AppCall("check", "accept", a, "PROCESSING"))
    BY <1>1 DEF AcceptApplication
  <2> QED BY <2>1, AppRequestStarts DEF AppOps, AppStatuses, WorkedOn
<1>2. ASSUME NEW a \in Apps, CancelApplication(h, a) PROVE Starts(h)
  <2>1. Begin(h, AppCall("check", "cancel", a, "CANCELLED"))
    BY <1>2 DEF CancelApplication
  <2> QED BY <2>1, AppRequestStarts DEF AppOps, AppStatuses, WorkedOn
<1>3. ASSUME NEW a \in Apps, ApproveApplication(h, a) PROVE Starts(h)
  <2>1. Begin(h, AppCall("write", "approve", a, "APPROVED")) /\ Charged(a)
    BY <1>3 DEF ApproveApplication, WorkedOnImpliesCaptured, WorkedOn
  <2> QED BY <2>1, AppRequestStarts DEF AppOps, AppStatuses
<1>4. ASSUME NEW a \in Apps, NEW portions \in SUBSET Portions,
             RejectApplication(h, a, portions)
      PROVE  Starts(h)
  <2> DEFINE step == IF portions = {} THEN "write" ELSE "check"
             b == AppCall(step, "reject", a, "REJECTED")
             c == [b EXCEPT !.portions = portions]
  <2>1. Begin(h, c) /\ Charged(a)
    BY <1>4 DEF RejectApplication, WorkedOnImpliesCaptured, WorkedOn
  <2>2. step \in Steps /\ step # "provider"
    BY DEF Steps
  <2> HIDE DEF step, c
  <2>0. "reject" \in Operations /\ "REJECTED" \in AppStatuses \cup {Keep}
    BY DEF Operations, AppStatuses
  <2>3. /\ b \in Calls
        /\ b.step = step /\ b.op = "reject" /\ b.app = a /\ b.pay = NoPay
        /\ b.appTo = "REJECTED"
    BY <2>0, <2>2, AppCallIsACall
  <2> HIDE DEF b
  <2>4. /\ c \in Calls
        /\ c.step = step /\ c.op = "reject" /\ c.app = a /\ c.pay = NoPay
        /\ c.appTo = "REJECTED"
    BY <2>3 DEF Calls, c
  <2>5. Coherent(c)
    BY <2>2, <2>4 DEF Coherent, PayOps, AppOps, AppStatuses
  <2>6. BackedByCapture(c)
    BY <2>1, <2>4 DEF BackedByCapture
  <2> QED BY <2>1, <2>4, <2>5, <2>6 DEF Starts
<1>5. ASSUME NEW a \in Apps, NEW to \in AppStatuses, ChangeStatus(h, a, to)
      PROVE  Starts(h)
  <2>1. Begin(h, AppCall("write", "changeStatus", a, to))
    BY <1>5 DEF ChangeStatus
  <2>2. to \in WorkedOn => Charged(a)
    BY <1>5 DEF ChangeStatus, StatusChanges, WorkedOnImpliesCaptured, WorkedOn
  <2> QED BY <2>1, <2>2, AppRequestStarts DEF AppOps
<1>6. ASSUME NEW a \in Apps, NEW to \in AppStatuses, RecomputeApplicationStatus(h, a, to)
      PROVE  Starts(h)
  <2>1. Begin(h, AppCall("write", "recompute", a, to)) /\ Charged(a)
    BY <1>6 DEF RecomputeApplicationStatus, WorkedOnImpliesCaptured
  <2> QED BY <2>1, AppRequestStarts DEF AppOps
<1>7. ASSUME NEW a \in Apps, IssueVisa(h, a) PROVE Starts(h)
  <2>1. Begin(h, AppCall("write", "issueVisa", a, "READY_TO_DOWNLOAD")) /\ Charged(a)
    BY <1>7 DEF IssueVisa, WorkedOnImpliesCaptured, WorkedOn
  <2> QED BY <2>1, AppRequestStarts DEF AppOps, AppStatuses
<1> QED
  BY <1>1, <1>2, <1>3, <1>4, <1>5, <1>6, <1>7 DEF OperatorRequest

LEMMA RequestStarts ==
  ASSUME Safe, NEW h \in Handlers, Request(h)
  PROVE  Starts(h)
  BY CustomerRequestStarts, PaymentRequestStarts, OperatorRequestStarts DEF Request

-----------------------------------------------------------------------------
(* What no step undoes.                                                       *)

Keeps ==
  \A p \in Payments : /\ Row(p) => owner'[p] = owner[p]
                      /\ captured[p] > 0 => captured'[p] > 0

LEMMA StepsKeep ==
  ASSUME Safe, [Next]_vars
  PROVE  Keeps
<1> USE DEF Safe
<1>0. (owner' = owner /\ captured' = captured) => Keeps
  BY DEF Keeps
<1>1. ASSUME NEW h \in Handlers, Request(h) PROVE Keeps
  BY <1>1, <1>0, RequestStarts DEF Starts, Begin, pays, ledger
<1>2. ASSUME NEW h \in Handlers, Check(h) PROVE Keeps
  <2>1. owner' = owner /\ captured' = captured
    BY <1>2 DEF Check, CheckSettled, CheckNoActivePayment,
                AssertManualPaymentActionAllowed, GetAuthorizedPayment,
                GetCapturedPayment, Checking, pays, ledger
  <2> QED BY <2>1, <1>0
<1>3. ASSUME NEW h \in Handlers, ProviderCapture(h) PROVE Keeps
  <2>1. owner' = owner /\ captured' = [captured EXCEPT ![call[h].pay] = AtMost2(@)]
    BY <1>3 DEF ProviderCapture, Calling, pays
  <2>2. captured \in [Payments -> 0..2]
    BY DEF TypeOK
  <2>3. \A p \in Payments : captured'[p] = captured[p] \/ captured'[p] = AtMost2(captured[p])
    BY <2>1, <2>2, Zenon
  <2>4. \A n \in 0..2 : n > 0 => AtMost2(n) > 0
    BY DEF AtMost2
  <2>5. \A p \in Payments : captured[p] > 0 => captured'[p] > 0
    BY <2>2, <2>3, <2>4
  <2> QED BY <2>1, <2>5 DEF Keeps
<1>4. ASSUME NEW h \in Handlers, Provider(h), ~ProviderCapture(h) PROVE Keeps
  <2>1. owner' = owner /\ captured' = captured
    BY <1>4 DEF Provider, ProviderAuthorize, ProviderRelease, ProviderRefund, Calling, pays
  <2> QED BY <2>1, <1>0
<1>5. ASSUME NEW h \in Handlers, InsertPayment(h) PROVE Keeps
  <2>1. captured' = captured
    BY <1>5 DEF InsertPayment, Writing, ledger
  <2>2. \A p \in Payments : Row(p) => owner'[p] = owner[p]
    BY <1>5 DEF InsertPayment, Row, TypeOK
  <2> QED BY <2>1, <2>2 DEF Keeps
<1>6. ASSUME NEW h \in Handlers, Write(h), ~InsertPayment(h) PROVE Keeps
  <2>1. owner' = owner /\ captured' = captured
    BY <1>6 DEF Write, ExpireLapsed, WriteUnpaid, WriteStatus, WritePayment, WriteFlip,
                WriteSync, WriteDecision, Writing, pays, ledger
  <2> QED BY <2>1, <1>0
<1>7. ASSUME NEW h \in Handlers, CallFails(h) PROVE Keeps
  BY <1>7, <1>0 DEF CallFails, pays, ledger
<1>8. ASSUME NEW a \in Apps, WindowCloses(a) \/ SweepExpire(a) \/ SweepSkips(a) PROVE Keeps
  BY <1>8, <1>0 DEF WindowCloses, SweepExpire, SweepSkips, pays, ledger
<1>9. CASE SweepRead \/ Restart \/ UNCHANGED vars
  BY <1>9, <1>0 DEF SweepRead, Restart, vars, pays, ledger
<1> QED
  BY <1>1, <1>2, <1>3, <1>4, <1>5, <1>6, <1>7, <1>8, <1>9 DEF Next

\* A captured payment stays behind its application.
LEMMA ChargedForGood ==
  ASSUME Keeps, NEW a \in Apps, Charged(a)
  PROVE  Charged(a)'
<1>1. PICK p \in Payments : owner[p] = a /\ captured[p] > 0
  BY DEF Charged
<1>2. owner'[p] = a /\ captured'[p] > 0
  BY <1>1 DEF Keeps, Row
<1> QED BY <1>2 DEF Charged, Payments

\* What a handler counts on stays true while others run.
LEMMA KeptInFlight ==
  ASSUME Keeps, NEW c \in Calls, Coherent(c), BackedByCapture(c)
  PROVE  Coherent(c)' /\ BackedByCapture(c)'
<1>1. c.pay # NoPay => owner'[c.pay] = c.app
  BY DEF Coherent, Keeps, Row, Calls
<1>2. Coherent(c)'
  BY <1>1 DEF Coherent, NoPay
<1>3. BackedByCapture(c)'
  BY ChargedForGood DEF BackedByCapture
<1> QED BY <1>2, <1>3

-----------------------------------------------------------------------------
(* A handler's step leaves it with a coherent and backed call.                *)

Advances(h) ==
  \E d \in Calls : Advance(h, d) /\ Coherent(d)' /\ BackedByCapture(d)'

LEMMA StaysCoherent ==
  ASSUME Keeps, NEW h \in Handlers, NEW d \in Calls, Advance(h, d),
         Coherent(d), BackedByCapture(d)
  PROVE  Advances(h)
  BY KeptInFlight DEF Advances

LEMMA FinishAdvances ==
  ASSUME Keeps, NEW h \in Handlers, Finish(h)
  PROVE  Advances(h)
  BY IdleIsACall, StaysCoherent DEF Finish, Advance

LEMMA CheckAdvances ==
  ASSUME Safe, Keeps, NEW h \in Handlers, Check(h)
  PROVE  Advances(h)
<1> DEFINE c == call[h]
<1>0. c \in Calls /\ Coherent(c) /\ BackedByCapture(c)
  BY DEF Safe, TypeOK, InFlight
<1>1. Advance(h, Idle) => Advances(h)
  BY FinishAdvances DEF Finish, Advance
<1>2. CASE CheckSettled(h)
  <2> DEFINE d == [c EXCEPT !.step = "write"]
  <2>1. c.op = "submit" /\ (Advance(h, Idle) \/ Advance(h, d))
    BY <1>2 DEF CheckSettled, Checking, At
  <2> HIDE DEF c
  <2>2. d \in Calls /\ d.step = "write" /\ d.op = c.op /\ d.app = c.app /\ d.pay = c.pay
        /\ d.appTo = c.appTo /\ d.payTo = c.payTo
    BY <1>0 DEF Calls, Steps
  <2> HIDE DEF d
  <2>3. Coherent(d) /\ BackedByCapture(d)
    BY <1>0, <2>1, <2>2 DEF Coherent, BackedByCapture
  <2> QED BY <1>1, <2>1, <2>2, <2>3, StaysCoherent
<1>3. CASE CheckNoActivePayment(h)
  <2>1. /\ c.op = "createPayment"
        /\ \/ Advance(h, Idle)
           \/ Advance(h, [c EXCEPT !.step = "write"])
           \/ \E p \in PaymentsIn(c.app, Open \cup {"PAID"}) :
                Advance(h, [c EXCEPT !.step = "expire", !.pay = p])
    BY <1>3 DEF CheckNoActivePayment, Checking, At
  <2> HIDE DEF c
  <2>2. ASSUME Advance(h, [c EXCEPT !.step = "write"]) PROVE Advances(h)
    <3> DEFINE d == [c EXCEPT !.step = "write"]
    <3>1. d \in Calls /\ d.step = "write" /\ d.op = c.op /\ d.app = c.app /\ d.pay = c.pay
          /\ d.appTo = c.appTo /\ d.payTo = c.payTo
      BY <1>0 DEF Calls, Steps
    <3>2. Advance(h, d)
      BY <2>2
    <3> HIDE DEF d
    <3>3. Coherent(d) /\ BackedByCapture(d)
      BY <1>0, <2>1, <3>1 DEF Coherent, BackedByCapture
    <3> QED BY <3>1, <3>2, <3>3, StaysCoherent
  <2>3. ASSUME NEW p \in PaymentsIn(c.app, Open \cup {"PAID"}),
               Advance(h, [c EXCEPT !.step = "expire", !.pay = p])
        PROVE  Advances(h)
    <3> DEFINE d == [c EXCEPT !.step = "expire", !.pay = p]
    <3>0. p \in Payments /\ owner[p] = c.app
      BY DEF PaymentsIn
    <3>1. d \in Calls /\ d.step = "expire" /\ d.op = c.op /\ d.app = c.app /\ d.pay = p
          /\ d.appTo = c.appTo /\ d.payTo = c.payTo
      BY <1>0, <3>0 DEF Calls, Steps
    <3>2. Advance(h, d)
      BY <2>3
    <3> HIDE DEF d
    <3>3. Coherent(d) /\ BackedByCapture(d)
      BY <1>0, <2>1, <3>0, <3>1 DEF Coherent, BackedByCapture, PayOps
    <3> QED BY <3>1, <3>2, <3>3, StaysCoherent
  <2> QED BY <1>1, <2>1, <2>2, <2>3
<1>4. ASSUME NEW op \in {"capture", "release"}, AssertManualPaymentActionAllowed(h, op)
      PROVE  Advances(h)
  <2> DEFINE d == [c EXCEPT !.step = "provider"]
  <2>1. c.op = op /\ (Advance(h, Idle) \/ Advance(h, d))
    BY <1>4 DEF AssertManualPaymentActionAllowed, Checking, At
  <2> HIDE DEF c
  <2>2. d \in Calls /\ d.step = "provider" /\ d.op = c.op /\ d.app = c.app /\ d.pay = c.pay
        /\ d.appTo = c.appTo /\ d.payTo = c.payTo
    BY <1>0 DEF Calls, Steps
  <2> HIDE DEF d
  <2>3. Coherent(d) /\ BackedByCapture(d)
    BY <1>0, <2>1, <2>2 DEF Coherent, BackedByCapture, PayOps
  <2> QED BY <1>1, <2>1, <2>2, <2>3, StaysCoherent
<1>5. ASSUME NEW op \in {"accept", "cancel"}, NEW to \in PayStatuses,
             GetAuthorizedPayment(h, op, to)
      PROVE  Advances(h)
  <2>1. /\ c.op = op
        /\ \/ Advance(h, Idle)
           \/ \E p \in Latest(PaymentsIn(c.app, {"AUTHORIZED"})) :
                Advance(h, [c EXCEPT !.step = "provider", !.pay = p, !.payTo = to])
    BY <1>5 DEF GetAuthorizedPayment, Checking, At
  <2> HIDE DEF c
  <2>2. ASSUME NEW p \in Latest(PaymentsIn(c.app, {"AUTHORIZED"})),
               Advance(h, [c EXCEPT !.step = "provider", !.pay = p, !.payTo = to])
        PROVE  Advances(h)
    <3> DEFINE d == [c EXCEPT !.step = "provider", !.pay = p, !.payTo = to]
    <3>0. p \in Payments /\ owner[p] = c.app
      BY DEF Latest, PaymentsIn
    <3>1. d \in Calls /\ d.step = "provider" /\ d.op = c.op /\ d.app = c.app /\ d.pay = p
          /\ d.appTo = c.appTo /\ d.payTo = to
      BY <1>0, <3>0 DEF Calls, Steps
    <3>2. Advance(h, d)
      BY <2>2
    <3> HIDE DEF d
    <3>3. Coherent(d)
      BY <1>0, <2>1, <3>0, <3>1, PaymentIsSome DEF Coherent
    <3>4. BackedByCapture(d)
      BY <1>0, <2>1, <3>1 DEF BackedByCapture
    <3> QED BY <3>1, <3>2, <3>3, <3>4, StaysCoherent
  <2> QED BY <1>1, <2>1, <2>2
<1>6. CASE GetCapturedPayment(h)
  <2>1. /\ c.op = "reject"
        /\ \/ Advance(h, Idle)
           \/ \E p \in Latest(PaymentsIn(c.app, Refundable)) :
                Advance(h, RefundCall([c EXCEPT !.step = "provider"], p, c.portions))
    BY <1>6 DEF GetCapturedPayment, Checking, At
  <2> HIDE DEF c
  <2>2. ASSUME NEW p \in Latest(PaymentsIn(c.app, Refundable)),
               Advance(h, RefundCall([c EXCEPT !.step = "provider"], p, c.portions))
        PROVE  Advances(h)
    <3> DEFINE b == [c EXCEPT !.step = "provider"]
               d == RefundCall(b, p, c.portions)
    <3>0. p \in Payments /\ owner[p] = c.app /\ c.portions \in SUBSET Portions
      BY <1>0 DEF Latest, PaymentsIn, Calls
    <3>1. b \in Calls /\ b.op = c.op /\ b.app = c.app /\ b.appTo = c.appTo
      BY <1>0 DEF Calls, Steps
    <3>2. Advance(h, d)
      BY <2>2
    <3> HIDE DEF b
    <3>3. d \in Calls /\ d.op = c.op /\ d.app = c.app /\ d.pay = p /\ d.appTo = c.appTo
          /\ d.payTo \in PayStatuses
      BY <3>0, <3>1, RefundCallIsACall DEF PayStatuses
    <3> HIDE DEF d
    <3>4. Coherent(d) /\ BackedByCapture(d)
      BY <1>0, <2>1, <3>0, <3>3, PaymentIsSome DEF Coherent, BackedByCapture
    <3> QED BY <3>2, <3>3, <3>4, StaysCoherent
  <2> QED BY <1>1, <2>1, <2>2
<1> QED
  BY <1>2, <1>3, <1>4, <1>5, <1>6 DEF Check, PayStatuses

LEMMA ProviderAdvances ==
  ASSUME Safe, Keeps, NEW h \in Handlers, Provider(h)
  PROVE  Advances(h)
<1>0. PICK c \in Calls : c = call[h] /\ Coherent(c) /\ BackedByCapture(c)
  BY DEF Safe, TypeOK, InFlight
<1>1. PICK step \in {"provider", "write"}, todo \in SUBSET Portions :
        /\ Advance(h, [c EXCEPT !.step = step, !.todo = todo])
        /\ c.step = "provider"
        /\ c.op = "accept" => ProviderCapture(h)
  <2>1. CASE ProviderRefund(h)
    <3> DEFINE portion == IF "government" \in c.todo THEN "government" ELSE "service"
               left == c.todo \ {portion}
    <3>1. /\ Advance(h, [c EXCEPT !.todo = left, !.step = IF left = {} THEN "write" ELSE @])
          /\ c.step = "provider" /\ c.op # "accept"
      BY <1>0, <2>1 DEF ProviderRefund, Calling, At
    <3>2. left \in SUBSET Portions
      BY <1>0 DEF Calls
    <3>3. [c EXCEPT !.todo = left, !.step = IF left = {} THEN "write" ELSE @]
            = [c EXCEPT !.step = IF left = {} THEN "write" ELSE "provider", !.todo = left]
      BY <1>0, <3>1 DEF Calls
    <3> HIDE DEF left
    <3> QED BY <3>1, <3>2, <3>3
  <2>2. CASE ~ProviderRefund(h)
    <3>1. /\ Advance(h, [c EXCEPT !.step = "write"])
          /\ c.step = "provider"
          /\ c.op = "accept" => ProviderCapture(h)
      BY <1>0, <2>2 DEF Provider, ProviderAuthorize, ProviderCapture, ProviderRelease, Calling, At
    <3>2. [c EXCEPT !.step = "write"] = [c EXCEPT !.step = "write", !.todo = c.todo]
      BY <1>0 DEF Calls
    <3>3. c.todo \in SUBSET Portions
      BY <1>0 DEF Calls
    <3> QED BY <3>1, <3>2, <3>3
  <2> QED BY <2>1, <2>2
<1>2. c.op = "accept" => Charged(c.app)'
  <2>1. SUFFICES ASSUME c.op = "accept" PROVE Charged(c.app)'
    OBVIOUS
  <2>2. c.pay \in Payments /\ c.pay # NoPay /\ owner[c.pay] = c.app /\ c.app \in Apps
    BY <1>0, <1>1, <2>1 DEF Coherent, Calls
  <2>3. owner'[c.pay] = c.app
    BY <2>2 DEF Keeps, Row
  <2>4. captured' = [captured EXCEPT ![c.pay] = AtMost2(captured[c.pay])]
    BY <1>0, <1>1, <2>1 DEF ProviderCapture
  <2>5. captured'[c.pay] > 0
    <3>1. captured \in [Payments -> 0 .. 2]
      BY DEF Safe, TypeOK
    <3>2. captured[c.pay] \in 0 .. 2 /\ captured'[c.pay] = AtMost2(captured[c.pay])
      BY <2>2, <2>4, <3>1
    <3> QED BY <3>2 DEF AtMost2
  <2> QED BY <2>2, <2>3, <2>5 DEF Charged, Payments
<1>3. PICK d \in Calls :
        /\ d = [c EXCEPT !.step = step, !.todo = todo]
        /\ d.step = step /\ d.op = c.op /\ d.app = c.app /\ d.pay = c.pay
        /\ d.appTo = c.appTo /\ d.payTo = c.payTo
  <2> DEFINE e == [c EXCEPT !.step = step, !.todo = todo]
  <2>1. /\ e \in Calls
        /\ e.step = step /\ e.op = c.op /\ e.app = c.app /\ e.pay = c.pay
        /\ e.appTo = c.appTo /\ e.payTo = c.payTo
    BY <1>0 DEF Calls, Steps
  <2>2. e = [c EXCEPT !.step = step, !.todo = todo]
    OBVIOUS
  <2> HIDE DEF e
  <2> QED BY <2>1, <2>2
<1>4. Advance(h, d)
  BY <1>1, <1>3
<1>5. Coherent(d)
  BY <1>0, <1>1, <1>3 DEF Coherent
<1>6. CASE c.op # "accept"
  <2>1. BackedByCapture(d)
    BY <1>0, <1>3, <1>6 DEF BackedByCapture
  <2> QED BY <1>3, <1>4, <1>5, <2>1, StaysCoherent
<1>7. CASE c.op = "accept"
  <2>1. c.app \in Apps
    BY <1>0, <1>7 DEF Coherent
  <2>2. BackedByCapture(d)'
    BY <1>2, <1>3, <1>7, <2>1 DEF BackedByCapture
  <2>3. Coherent(d)'
    <3>1. c.pay # NoPay => owner'[c.pay] = c.app
      BY <1>0 DEF Coherent, Keeps, Row, Calls
    <3> QED BY <1>3, <1>5, <3>1 DEF Coherent, NoPay
  <2> QED BY <1>3, <1>4, <2>2, <2>3 DEF Advances
<1> QED BY <1>6, <1>7

LEMMA WriteAdvances ==
  ASSUME Safe, Keeps, NEW h \in Handlers, Write(h)
  PROVE  Advances(h)
<1> DEFINE c == call[h]
<1>0. c \in Calls /\ Coherent(c) /\ BackedByCapture(c)
  BY DEF Safe, TypeOK, InFlight
<1>1. CASE ~ExpireLapsed(h)
  <2>1. Finish(h)
    BY <1>1 DEF Write, WriteUnpaid, WriteStatus, InsertPayment, WritePayment, WriteFlip,
                WriteSync, WriteDecision, Writing
  <2> QED BY <2>1, FinishAdvances
<1>2. CASE ExpireLapsed(h)
  <2> DEFINE d == [c EXCEPT !.step = "write", !.pay = NoPay]
  <2>1. Advance(h, Idle) \/ (c.op = "createPayment" /\ Advance(h, d))
    BY <1>2 DEF ExpireLapsed
  <2> HIDE DEF c
  <2>2. d \in Calls /\ d.step = "write" /\ d.op = c.op /\ d.app = c.app /\ d.pay = NoPay
        /\ d.appTo = c.appTo
    BY <1>0 DEF Calls, Steps
  <2> HIDE DEF d
  <2>3. c.op = "createPayment" => Coherent(d) /\ BackedByCapture(d)
    BY <1>0, <2>2 DEF Coherent, BackedByCapture, PayOps, AppOps
  <2>4. Advance(h, Idle) => Advances(h)
    BY FinishAdvances DEF Finish, Advance
  <2> QED BY <2>1, <2>2, <2>3, <2>4, StaysCoherent
<1> QED BY <1>1, <1>2

-----------------------------------------------------------------------------
(* The calls in flight after a step.                                          *)

CallsOK == call \in [Handlers -> Calls] /\ InFlight

LEMMA AdvanceKeepsCalls ==
  ASSUME Safe, Keeps, NEW h \in Handlers, Advances(h)
  PROVE  CallsOK'
<1>1. PICK d \in Calls :
        call' = [call EXCEPT ![h] = d] /\ Coherent(d)' /\ BackedByCapture(d)'
  BY DEF Advances, Advance
<1>2. call' \in [Handlers -> Calls]
  BY <1>1 DEF Safe, TypeOK
<1>3. ASSUME NEW g \in Handlers
      PROVE  (Coherent(call[g]) /\ BackedByCapture(call[g]))'
  <2>1. PICK e \in Calls : e = call[g] /\ Coherent(e) /\ BackedByCapture(e)
    BY DEF Safe, TypeOK, InFlight
  <2>2. Coherent(e)' /\ BackedByCapture(e)'
    BY <2>1, KeptInFlight
  <2>3. call'[g] = IF g = h THEN d ELSE e
    BY <1>1, <2>1 DEF Safe, TypeOK
  <2> QED BY <1>1, <2>2, <2>3 DEF Coherent, BackedByCapture
<1> QED BY <1>2, <1>3 DEF CallsOK, InFlight

LEMMA UnchangedCalls ==
  ASSUME Safe, Keeps, call' = call
  PROVE  CallsOK'
<1>1. ASSUME NEW g \in Handlers
      PROVE  (Coherent(call[g]) /\ BackedByCapture(call[g]))'
  <2>1. PICK e \in Calls : e = call[g] /\ Coherent(e) /\ BackedByCapture(e)
    BY DEF Safe, TypeOK, InFlight
  <2>2. Coherent(e)' /\ BackedByCapture(e)'
    BY <2>1, KeptInFlight
  <2> QED BY <2>1, <2>2 DEF Coherent, BackedByCapture
<1> QED BY <1>1 DEF Safe, TypeOK, CallsOK, InFlight

LEMMA CallsStayOK ==
  ASSUME Safe, [Next]_vars
  PROVE  CallsOK'
<1>0. Keeps
  BY StepsKeep
<1>1. ASSUME NEW h \in Handlers,
             Request(h) \/ Check(h) \/ Provider(h) \/ Write(h) \/ CallFails(h)
      PROVE  CallsOK'
  <2>1. CASE Request(h)
    <3>1. PICK c \in Calls : Begin(h, c) /\ Coherent(c) /\ BackedByCapture(c)
      BY <2>1, RequestStarts DEF Starts
    <3>2. Advance(h, c)
      BY <3>1 DEF Begin, Advance
    <3> QED BY <1>0, <3>1, <3>2, StaysCoherent, AdvanceKeepsCalls
  <2>2. CASE CallFails(h)
    BY <1>0, <2>2, FinishAdvances, AdvanceKeepsCalls DEF CallFails
  <2> QED
    BY <1>0, <1>1, <2>1, <2>2, CheckAdvances, ProviderAdvances, WriteAdvances,
       AdvanceKeepsCalls
<1>2. ASSUME NEW a \in Apps, WindowCloses(a) \/ SweepExpire(a) \/ SweepSkips(a)
      PROVE  CallsOK'
  BY <1>0, <1>2, UnchangedCalls DEF WindowCloses, SweepExpire, SweepSkips
<1>3. CASE SweepRead \/ UNCHANGED vars
  BY <1>0, <1>3, UnchangedCalls DEF SweepRead, vars
<1>4. CASE Restart
  <2>1. call' = [h \in Handlers |-> Idle]
    BY <1>4 DEF Restart
  <2>2. Coherent(Idle)' /\ BackedByCapture(Idle)'
    BY <1>0, IdleIsACall, KeptInFlight
  <2> QED BY <2>1, <2>2, IdleIsACall DEF CallsOK, InFlight
<1> QED
  BY <1>1, <1>2, <1>3, <1>4 DEF Next

-----------------------------------------------------------------------------
(* The database and the ledger after a step.                                  *)

DatabaseOK ==
  /\ status \in [Apps -> AppStatuses]
  /\ appPay \in [Apps -> PayStatuses]
  /\ window \in [Apps -> {"none", "ahead", "past"}]
  /\ owner \in [Payments -> Apps \cup {NoApp}]
  /\ payStatus \in [Payments -> PayStatuses]
  /\ marked \in [Payments -> SUBSET Portions]
  /\ lapsed \in [Payments -> BOOLEAN]

LedgerOK ==
  /\ held \in [Payments -> BOOLEAN]
  /\ captured \in [Payments -> 0 .. 2]
  /\ released \in [Payments -> 0 .. 2]
  /\ refunds \in [Payments -> [Portions -> 0 .. 2]]

LEMMA ProviderKeepsTypes ==
  ASSUME Safe, NEW h \in Handlers, Provider(h)
  PROVE  DatabaseOK' /\ LedgerOK'
<1> USE DEF Safe, TypeOK, LedgerOK, DatabaseOK
<1>0. \A n \in 0 .. 2 : AtMost2(n) \in 0 .. 2
  BY DEF AtMost2
<1>1. DatabaseOK'
  BY DEF Provider, ProviderAuthorize, ProviderCapture, ProviderRelease, ProviderRefund,
         Calling, apps, pays
<1>2. ASSUME ProviderAuthorize(h) PROVE LedgerOK'
  BY <1>2 DEF ProviderAuthorize
<1>3. ASSUME ProviderCapture(h) PROVE LedgerOK'
  BY <1>0, <1>3 DEF ProviderCapture
<1>4. ASSUME ProviderRelease(h) PROVE LedgerOK'
  BY <1>0, <1>4 DEF ProviderRelease
<1>5. ASSUME ProviderRefund(h) PROVE LedgerOK'
  <2>1. PICK p, f : refunds' = [refunds EXCEPT ![p] =
                                [refunds[p] EXCEPT ![f] = AtMost2(refunds[p][f])]]
    BY <1>5 DEF ProviderRefund
  <2>2. p \in Payments =>
          [refunds[p] EXCEPT ![f] = AtMost2(refunds[p][f])] \in [Portions -> 0 .. 2]
    <3>1. SUFFICES ASSUME p \in Payments
          PROVE [refunds[p] EXCEPT ![f] = AtMost2(refunds[p][f])] \in [Portions -> 0 .. 2]
      OBVIOUS
    <3>2. refunds[p] \in [Portions -> 0 .. 2]
      BY <3>1
    <3>3. f \in Portions => AtMost2(refunds[p][f]) \in 0 .. 2
      BY <1>0, <3>2
    <3> QED BY <3>2, <3>3
  <2>3. refunds' \in [Payments -> [Portions -> 0 .. 2]]
    BY <2>1, <2>2
  <2> QED BY <1>5, <2>3 DEF ProviderRefund
<1> QED BY <1>1, <1>2, <1>3, <1>4, <1>5 DEF Provider

LEMMA WriteKeepsTypes ==
  ASSUME Safe, NEW h \in Handlers, Write(h)
  PROVE  DatabaseOK' /\ LedgerOK'
<1> USE DEF Safe, TypeOK, DatabaseOK
<1>0. PICK c \in Calls : c = call[h] /\ Coherent(c)
  BY DEF InFlight
<1>1. LedgerOK'
  BY DEF Write, ExpireLapsed, WriteUnpaid, WriteStatus, InsertPayment, WritePayment,
         WriteFlip, WriteSync, WriteDecision, Writing, ledger, LedgerOK
<1>2. ASSUME ExpireLapsed(h) PROVE DatabaseOK'
  BY <1>2 DEF ExpireLapsed, apps, PayStatuses
<1>3. ASSUME WriteUnpaid(h) PROVE DatabaseOK'
  BY <1>0, <1>3 DEF WriteUnpaid, Writing, At, Coherent, AppOps, pays
<1>4. ASSUME WriteStatus(h) PROVE DatabaseOK'
  BY <1>0, <1>4 DEF WriteStatus, Writing, At, Coherent, AppOps, pays
<1>5. ASSUME InsertPayment(h) PROVE DatabaseOK'
  BY <1>0, <1>5 DEF InsertPayment, Writing, At, Coherent, apps
<1>6. ASSUME WritePayment(h) PROVE DatabaseOK'
  <2>1. c.payTo \in PayStatuses
    BY <1>0, <1>6 DEF WritePayment, Writing, At, Coherent, PayOps
  <2> QED BY <1>0, <1>6, <2>1 DEF WritePayment, apps
<1>7. ASSUME WriteFlip(h) PROVE DatabaseOK'
  <2>1. c.payTo \in PayStatuses
    BY <1>0, <1>7 DEF WriteFlip, Writing, At, Coherent, PayOps
  <2>2. payStatus' \in [Payments -> PayStatuses] /\ appPay' \in [Apps -> PayStatuses]
    BY <1>0, <1>7, <2>1 DEF WriteFlip
  <2>3. status' \in [Apps -> AppStatuses]
    BY <1>7 DEF WriteFlip, AppStatuses
  <2> QED BY <1>7, <2>2, <2>3 DEF WriteFlip
<1>8. ASSUME WriteSync(h) PROVE DatabaseOK'
  <2>1. c.payTo \in PayStatuses /\ c.portions \in SUBSET Portions
    BY <1>0, <1>8 DEF WriteSync, Writing, At, Coherent, PayOps, Calls
  <2> QED BY <1>0, <1>8, <2>1 DEF WriteSync
<1>9. ASSUME WriteDecision(h) PROVE DatabaseOK'
  <2>1. c.appTo \in AppStatuses /\ c.portions \in SUBSET Portions
    BY <1>0, <1>9 DEF WriteDecision, Writing, At, Coherent, AppOps, Calls
  <2>2. c.pay # NoPay => c.payTo \in PayStatuses
    BY <1>0, <1>9 DEF WriteDecision, Writing, At, Coherent
  <2>3. status' \in [Apps -> AppStatuses]
    BY <1>0, <1>9, <2>1 DEF WriteDecision
  <2>4. /\ payStatus' \in [Payments -> PayStatuses]
        /\ marked' \in [Payments -> SUBSET Portions]
        /\ appPay' \in [Apps -> PayStatuses]
    <3>1. CASE c.pay = NoPay
      BY <1>0, <1>9, <3>1 DEF WriteDecision
    <3>2. CASE c.pay # NoPay
      <4>1. /\ payStatus' = [payStatus EXCEPT ![c.pay] = c.payTo]
            /\ marked' = [marked EXCEPT ![c.pay] = marked[c.pay] \cup c.portions]
            /\ appPay' = [appPay EXCEPT ![c.app] = c.payTo]
        BY <1>0, <1>9, <3>2 DEF WriteDecision
      <4> QED BY <2>1, <2>2, <3>2, <4>1
    <3> QED BY <3>1, <3>2
  <2> QED BY <1>9, <2>3, <2>4 DEF WriteDecision
<1> QED
  BY <1>1, <1>2, <1>3, <1>4, <1>5, <1>6, <1>7, <1>8, <1>9 DEF Write

LEMMA TypesStayOK ==
  ASSUME Safe, [Next]_vars
  PROVE  DatabaseOK' /\ LedgerOK'
<1> USE DEF Safe, TypeOK, DatabaseOK, LedgerOK
<1>0. UNCHANGED <<apps, pays, ledger>> => DatabaseOK' /\ LedgerOK'
  BY DEF apps, pays, ledger
<1>1. ASSUME NEW h \in Handlers, Request(h) PROVE DatabaseOK' /\ LedgerOK'
  BY <1>0, <1>1, RequestStarts DEF Starts, Begin
<1>2. ASSUME NEW h \in Handlers, Check(h) PROVE DatabaseOK' /\ LedgerOK'
  <2>1. UNCHANGED <<apps, pays, ledger>>
    BY <1>2 DEF Check, CheckSettled, CheckNoActivePayment,
                AssertManualPaymentActionAllowed, GetAuthorizedPayment,
                GetCapturedPayment, Checking
  <2> QED BY <2>1, <1>0
<1>3. ASSUME NEW h \in Handlers, CallFails(h) PROVE DatabaseOK' /\ LedgerOK'
  BY <1>0, <1>3 DEF CallFails
<1>4. ASSUME NEW a \in Apps, WindowCloses(a) PROVE DatabaseOK' /\ LedgerOK'
  BY <1>4 DEF WindowCloses, ledger
<1>5. ASSUME NEW a \in Apps, SweepExpire(a) PROVE DatabaseOK' /\ LedgerOK'
  BY <1>5 DEF SweepExpire, ledger, AppStatuses, PayStatuses
<1>6. ASSUME NEW a \in Apps, SweepSkips(a) PROVE DatabaseOK' /\ LedgerOK'
  BY <1>0, <1>6 DEF SweepSkips
<1>7. CASE SweepRead \/ Restart \/ UNCHANGED vars
  BY <1>0, <1>7 DEF SweepRead, Restart, vars
<1> QED
  BY <1>1, <1>2, <1>3, <1>4, <1>5, <1>6, <1>7, ProviderKeepsTypes, WriteKeepsTypes DEF Next

-----------------------------------------------------------------------------
(* No case is worked on before its money is captured.                         *)

LEMMA WorkStaysBacked ==
  ASSUME Safe, [Next]_vars
  PROVE  WorkedOnImpliesCaptured'
<1> USE DEF Safe
<1>0. Keeps
  BY StepsKeep
<1>1. \A a \in Apps : status'[a] \in WorkedOn => status[a] \in WorkedOn \/ Charged(a)
  <2>1. ASSUME NEW h \in Handlers, Write(h)
        PROVE  \A a \in Apps : status'[a] \in WorkedOn =>
                 status[a] \in WorkedOn \/ Charged(a)
    <3>0. PICK c \in Calls : c = call[h] /\ Coherent(c) /\ BackedByCapture(c)
      BY DEF TypeOK, InFlight
    <3>1. ASSUME c.step = "write", status' = [status EXCEPT ![c.app] = c.appTo]
          PROVE  \A a \in Apps : status'[a] \in WorkedOn =>
                   status[a] \in WorkedOn \/ Charged(a)
      BY <3>0, <3>1 DEF BackedByCapture, TypeOK
    <3>2. CASE WriteUnpaid(h) \/ WriteStatus(h) \/ WriteDecision(h)
      BY <3>0, <3>1, <3>2 DEF WriteUnpaid, WriteStatus, WriteDecision, Writing, At
    <3>3. CASE WriteFlip(h)
      BY <3>3 DEF WriteFlip, WorkedOn, TypeOK
    <3>4. CASE ExpireLapsed(h) \/ InsertPayment(h) \/ WritePayment(h) \/ WriteSync(h)
      BY <3>4 DEF ExpireLapsed, InsertPayment, WritePayment, WriteSync, apps
    <3> QED BY <2>1, <3>2, <3>3, <3>4 DEF Write
  <2>2. ASSUME NEW b \in Apps, SweepExpire(b)
        PROVE  \A a \in Apps : status'[a] \in WorkedOn => status[a] \in WorkedOn
    BY <2>2 DEF SweepExpire, WorkedOn, TypeOK
  <2>3. ASSUME NEW h \in Handlers, Request(h) \/ Check(h) \/ Provider(h) \/ CallFails(h)
        PROVE  status' = status
    <3>1. CASE Request(h)
      BY <3>1, RequestStarts DEF Starts, Begin, apps
    <3>2. CASE Check(h)
      BY <3>2 DEF Check, CheckSettled, CheckNoActivePayment,
                  AssertManualPaymentActionAllowed, GetAuthorizedPayment,
                  GetCapturedPayment, Checking, apps
    <3>3. CASE Provider(h)
      BY <3>3 DEF Provider, ProviderAuthorize, ProviderCapture, ProviderRelease,
                  ProviderRefund, Calling, apps
    <3>4. CASE CallFails(h)
      BY <3>4 DEF CallFails, apps
    <3> QED BY <2>3, <3>1, <3>2, <3>3, <3>4
  <2>4. ASSUME NEW a \in Apps, WindowCloses(a) \/ SweepSkips(a)
        PROVE  status' = status
    BY <2>4 DEF WindowCloses, SweepSkips, apps
  <2>5. ASSUME SweepRead \/ Restart \/ UNCHANGED vars PROVE status' = status
    BY <2>5 DEF SweepRead, Restart, vars, apps
  <2> QED BY <2>1, <2>2, <2>3, <2>4, <2>5 DEF Next
<1>2. \A a \in Apps : status'[a] \in WorkedOn => Charged(a)
  BY <1>1 DEF WorkedOnImpliesCaptured
<1> QED BY <1>0, <1>2, ChargedForGood DEF WorkedOnImpliesCaptured

LEMMA InitIsSafe == Init => Safe
<1> SUFFICES ASSUME Init PROVE Safe
  OBVIOUS
<1>1. TypeOK
  <2>1. \A h \in Handlers : call[h] = Idle
    BY DEF Init
  <2>2. faults \in 0 .. MaxFaults
    BY BoundAssumption DEF Init
  <2>3. DatabaseOK
    BY DEF Init, DatabaseOK, AppStatuses, PayStatuses
  <2>4. LedgerOK
    BY DEF Init, LedgerOK
  <2>5. call \in [Handlers -> Calls] /\ overdue \in SUBSET Apps
    BY IdleIsACall DEF Init
  <2> QED BY <2>2, <2>3, <2>4, <2>5 DEF TypeOK, DatabaseOK, LedgerOK
<1>2. InFlight
  BY IdleIsACall DEF Init, InFlight
<1>3. WorkedOnImpliesCaptured
  BY DEF Init, WorkedOnImpliesCaptured, WorkedOn
<1> QED BY <1>1, <1>2, <1>3 DEF Safe

LEMMA SafeIsInductive ==
  ASSUME Safe, [Next]_vars
  PROVE  Safe'
<1>1. DatabaseOK' /\ LedgerOK'
  BY TypesStayOK
<1>2. CallsOK'
  BY CallsStayOK
<1>3. overdue' \in SUBSET Apps /\ faults' \in 0 .. MaxFaults
  <2> USE DEF Safe, TypeOK
  <2>1. ASSUME NEW h \in Handlers, Request(h) \/ Check(h) \/ Provider(h) \/ Write(h)
        PROVE  overdue' = overdue /\ faults' = faults
    <3>1. CASE Request(h)
      BY <3>1, RequestStarts DEF Starts, Begin
    <3>2. CASE Check(h)
      BY <3>2 DEF Check, CheckSettled, CheckNoActivePayment,
                  AssertManualPaymentActionAllowed, GetAuthorizedPayment,
                  GetCapturedPayment, Checking
    <3>3. CASE Provider(h)
      BY <3>3 DEF Provider, ProviderAuthorize, ProviderCapture, ProviderRelease,
                  ProviderRefund, Calling
    <3>4. CASE Write(h)
      BY <3>4 DEF Write, ExpireLapsed, WriteUnpaid, WriteStatus, InsertPayment,
                  WritePayment, WriteFlip, WriteSync, WriteDecision, Writing
    <3> QED BY <2>1, <3>1, <3>2, <3>3, <3>4
  <2>2. faults < MaxFaults /\ faults' = faults + 1 => faults' \in 0 .. MaxFaults
    BY BoundAssumption
  <2>3. ASSUME NEW h \in Handlers, CallFails(h)
        PROVE  overdue' = overdue /\ faults' \in 0 .. MaxFaults
    BY <2>2, <2>3 DEF CallFails
  <2>4. ASSUME NEW a \in Apps, WindowCloses(a) \/ SweepExpire(a) \/ SweepSkips(a)
        PROVE  overdue' \in SUBSET Apps /\ faults' \in 0 .. MaxFaults
    BY <2>2, <2>4 DEF WindowCloses, SweepExpire, SweepSkips
  <2>5. CASE SweepRead
    BY <2>5 DEF SweepRead
  <2>6. CASE Restart \/ UNCHANGED vars
    BY <2>2, <2>6 DEF Restart, vars
  <2> QED BY <2>1, <2>3, <2>4, <2>5, <2>6 DEF Next
<1>4. WorkedOnImpliesCaptured'
  BY WorkStaysBacked
<1> QED
  BY <1>1, <1>2, <1>3, <1>4 DEF Safe, TypeOK, CallsOK, DatabaseOK, LedgerOK

\* Every variable of the model keeps its type, and a request in flight always
\* holds rows that belong together and a value for what it is about to write.
THEOREM TypesAlwaysOK == Spec => []TypeOK
<1>1. Init => Safe
  BY InitIsSafe
<1>2. Safe /\ [Next]_vars => Safe'
  BY SafeIsInductive
<1>3. Safe => TypeOK
  BY DEF Safe
<1> QED
  BY <1>1, <1>2, <1>3, PTL DEF Spec

\* However many applications, payments, requests in flight and faults there
\* are, and whatever endpoint they use, the office works only on cases for
\* which the provider was asked to capture (acceptApplication is the only way
\* out of SUBMITTED).
THEOREM NoWorkWithoutCapture == Spec => []WorkedOnImpliesCaptured
<1>1. Init => Safe
  BY InitIsSafe
<1>2. Safe /\ [Next]_vars => Safe'
  BY SafeIsInductive
<1>3. Safe => WorkedOnImpliesCaptured
  BY DEF Safe
<1> QED
  BY <1>1, <1>2, <1>3, PTL DEF Spec

\* What the handlers rest on between a read and the write that follows from it
\* is never undone by another request, a fault or the sweep.
THEOREM RequestsStayBacked == Spec => []InFlight
<1>1. Init => Safe
  BY InitIsSafe
<1>2. Safe /\ [Next]_vars => Safe'
  BY SafeIsInductive
<1>3. Safe => InFlight
  BY DEF Safe
<1> QED
  BY <1>1, <1>2, <1>3, PTL DEF Spec

-----------------------------------------------------------------------------
(* What holds of the two-stage flow (authorize, then capture or release, then *)
(* refund): a status never reports money the provider was not asked to move.   *)

\* The invariant that is inductive when only the two-stage flow is exposed.
Reported == StatusHasItsCall /\ SubmittedWasHeld /\ InFlightTwoStage

-----------------------------------------------------------------------------
(* The provider's ledger only grows.                                          *)

Grows ==
  \A p \in Payments : /\ held[p] => held'[p]
                      /\ captured[p] > 0 => captured'[p] > 0
                      /\ released[p] > 0 => released'[p] > 0
                      /\ \A f \in Portions : refunds[p][f] > 0 => refunds'[p][f] > 0

LEMMA ProviderGrows ==
  ASSUME Safe, NEW h \in Handlers, Provider(h)
  PROVE  Grows
<1> USE DEF Safe, TypeOK
<1>0. \A n \in 0 .. 2 : AtMost2(n) > 0
  BY DEF AtMost2
<1>1. CASE ProviderAuthorize(h)
  BY <1>1 DEF ProviderAuthorize, Grows
<1>2. CASE ProviderCapture(h)
  BY <1>0, <1>2 DEF ProviderCapture, Grows
<1>3. CASE ProviderRelease(h)
  BY <1>0, <1>3 DEF ProviderRelease, Grows
<1>4. CASE ProviderRefund(h)
  <2>1. PICK x, g : refunds' = [refunds EXCEPT ![x] =
                                [refunds[x] EXCEPT ![g] = AtMost2(refunds[x][g])]]
    BY <1>4 DEF ProviderRefund
  <2>2. ASSUME NEW p \in Payments, NEW f \in Portions, refunds[p][f] > 0
        PROVE  refunds'[p][f] > 0
    <3>1. refunds[p] \in [Portions -> 0 .. 2] /\ refunds[p][f] \in 0 .. 2
      OBVIOUS
    <3>2. AtMost2(refunds[p][f]) > 0
      BY <1>0, <3>1
    <3>3. refunds'[p][f] = refunds[p][f] \/ refunds'[p][f] = AtMost2(refunds[p][f])
      BY <2>1, <3>1
    <3> QED BY <2>2, <3>2, <3>3
  <2> QED BY <1>4, <2>2 DEF ProviderRefund, Grows
<1> QED BY <1>1, <1>2, <1>3, <1>4 DEF Provider

LEMMA OnlyProviderCalls ==
  ASSUME Safe, [Next]_vars, \A h \in Handlers : ~Provider(h)
  PROVE  UNCHANGED ledger
<1>1. ASSUME NEW h \in Handlers, Request(h) PROVE UNCHANGED ledger
  BY <1>1, RequestStarts DEF Starts, Begin
<1>2. ASSUME NEW h \in Handlers, Check(h) PROVE UNCHANGED ledger
  BY <1>2 DEF Check, CheckSettled, CheckNoActivePayment,
              AssertManualPaymentActionAllowed, GetAuthorizedPayment,
              GetCapturedPayment, Checking
<1>3. ASSUME NEW h \in Handlers, Write(h) PROVE UNCHANGED ledger
  BY <1>3 DEF Write, ExpireLapsed, WriteUnpaid, WriteStatus, InsertPayment,
              WritePayment, WriteFlip, WriteSync, WriteDecision, Writing
<1>4. ASSUME NEW h \in Handlers, CallFails(h) PROVE UNCHANGED ledger
  BY <1>4 DEF CallFails
<1>5. ASSUME NEW a \in Apps, WindowCloses(a) \/ SweepExpire(a) \/ SweepSkips(a)
      PROVE  UNCHANGED ledger
  BY <1>5 DEF WindowCloses, SweepExpire, SweepSkips
<1>6. CASE SweepRead \/ Restart \/ UNCHANGED vars
  BY <1>6 DEF SweepRead, Restart, vars
<1> QED
  BY <1>1, <1>2, <1>3, <1>4, <1>5, <1>6 DEF Next

LEMMA StepsGrow ==
  ASSUME Safe, [Next]_vars
  PROVE  Grows
<1>1. CASE \A h \in Handlers : ~Provider(h)
  BY <1>1, OnlyProviderCalls DEF ledger, Grows
<1>2. CASE \E h \in Handlers : Provider(h)
  BY <1>2, ProviderGrows
<1> QED BY <1>1, <1>2

\* The calls a handler has behind it stay behind it while others run.
LEMMA CallsStayBehind ==
  ASSUME Keeps, Grows, NEW c \in Calls, Coherent(c), BackedByCalls(c)
  PROVE  BackedByCalls(c)'
<1>1. c.pay = NoPay \/ c.pay \in Payments
  BY DEF Calls
<1>2. c.op = "authorize" => c.pay \in Payments
  BY <1>1 DEF Coherent, PayOps
<1>3. c.op = "submit" /\ c.step = "write" =>
        \E p \in Payments : owner'[p] = c.app /\ held'[p]
  <2>1. SUFFICES ASSUME c.op = "submit", c.step = "write"
                 PROVE  \E p \in Payments : owner'[p] = c.app /\ held'[p]
    OBVIOUS
  <2>2. c.app \in Apps
    BY <2>1 DEF Coherent
  <2>3. PICK p \in Payments : owner[p] = c.app /\ held[p]
    BY <2>1 DEF BackedByCalls
  <2> QED BY <2>2, <2>3, NoAppAssumption DEF Keeps, Grows, Row
<1>4. c.portions \in SUBSET Portions
  BY DEF Calls
<1>5. ASSUME c.op \in {"refund", "reject"}, c.pay # NoPay
      PROVE  /\ captured'[c.pay] > 0
             /\ \A f \in c.portions : f \in c.todo \/ refunds'[c.pay][f] > 0
  BY <1>1, <1>4, <1>5 DEF BackedByCalls, Grows
<1>6. /\ c.op = "authorize" /\ c.step = "write" => held'[c.pay]
      /\ c.op \in {"capture", "accept"} /\ c.pay # NoPay =>
           held'[c.pay] /\ (c.step = "write" => captured'[c.pay] > 0)
      /\ c.op \in {"release", "cancel"} /\ c.pay # NoPay =>
           held'[c.pay] /\ (c.step = "write" => released'[c.pay] > 0)
  BY <1>1, <1>2 DEF BackedByCalls, Grows
<1> QED
  BY <1>3, <1>5, <1>6 DEF BackedByCalls, NoPay, Payments

-----------------------------------------------------------------------------
(* What a request of the two-stage flow starts with.                          *)

\* The calls a handler can be left with after a step.
Backs(h) ==
  \E d \in Calls : Advance(h, d) /\ BackedByCalls(d)'

LEMMA AppCallIsBacked ==
  ASSUME NEW step \in Steps, NEW op \in TwoStage, op \notin {"initialize", "authorize"},
         NEW a \in Apps, NEW to \in AppStatuses \cup {Keep},
         to = "SUBMITTED" => op = "submit",
         op = "submit" => step # "write"
  PROVE  BackedByCalls(AppCall(step, op, a, to))
<1> DEFINE c == AppCall(step, op, a, to)
<1>1. op \in Operations
  BY DEF TwoStage
<1>2. c.step = step /\ c.op = op /\ c.app = a /\ c.pay = NoPay /\ c.appTo = to
      /\ c.portions = {}
  BY <1>1, AppCallIsACall
<1> HIDE DEF c
<1>3. BackedByCalls(c)
  BY <1>2 DEF BackedByCalls
<1> QED BY <1>3 DEF c

LEMMA PayCallIsBacked ==
  ASSUME TypeOK, NEW step \in Steps, NEW p \in Payments, NEW op \in TwoStage, NEW to \in PayStatuses,
         \/ op = "initialize" /\ to = "PENDING"
         \/ op = "authorize" /\ to = "AUTHORIZED" /\ step # "write"
         \/ op = "capture" /\ to = "PAID" /\ step # "write" /\ held[p]
         \/ op = "release" /\ to = "CANCELLED" /\ step # "write" /\ held[p]
  PROVE  BackedByCalls(PayCall(step, op, p, to))
<1> DEFINE c == PayCall(step, op, p, to)
<1>1. op \in Operations
  BY DEF TwoStage
<1>2. /\ c.step = step /\ c.op = op /\ c.app = owner[p] /\ c.pay = p
      /\ c.appTo = Keep /\ c.payTo = to /\ c.portions = {}
  BY <1>1, PayCallIsACall
<1> HIDE DEF c
<1>3. BackedByCalls(c)
  BY <1>2 DEF BackedByCalls, Keep
<1> QED BY <1>3 DEF c

LEMMA RefundCallIsBacked ==
  ASSUME NEW b \in Calls, NEW p \in Payments, NEW portions \in SUBSET Portions,
         b.op \in {"refund", "reject"}, b.step = "provider", b.appTo # "SUBMITTED",
         captured[p] > 0
  PROVE  BackedByCalls(RefundCall(b, p, portions))
<1> DEFINE c == RefundCall(b, p, portions)
<1>1. /\ c.step = b.step /\ c.op = b.op /\ c.pay = p /\ c.appTo = b.appTo
      /\ c.payTo \in {"REFUNDED", "PARTIALLY_REFUNDED"}
      /\ c.portions = portions /\ c.todo = portions
  BY RefundCallIsACall
<1> HIDE DEF c
<1>2. BackedByCalls(c)
  BY <1>1 DEF BackedByCalls, TwoStage, Operations
<1> QED BY <1>2 DEF c

\* The call a request starts with, once it is known to be this one.
StartsWith(h, c) == Begin(h, c) /\ BackedByCalls(c)

LEMMA CustomerRequestBacks ==
  ASSUME Safe, Reported, Endpoints \subseteq TwoStage,
         NEW h \in Handlers, CustomerRequest(h)
  PROVE  \E c : StartsWith(h, c)
<1>1. ASSUME NEW a \in Apps, SubmitForReview(h, a) PROVE \E c : StartsWith(h, c)
  BY <1>1, AppCallIsBacked
     DEF SubmitForReview, StartsWith, TwoStage, Operations, Steps, AppStatuses
<1>2. ASSUME NEW a \in Apps, Submit(h, a) PROVE \E c : StartsWith(h, c)
  BY <1>2, AppCallIsBacked DEF Submit, StartsWith, TwoStage, Operations, Steps, AppStatuses
<1>3. ASSUME NEW a \in Apps, CreatePayment(h, a) PROVE \E c : StartsWith(h, c)
  BY <1>3, AppCallIsBacked DEF CreatePayment, StartsWith, TwoStage, Operations, Steps, Keep
<1>4. ASSUME NEW p \in Payments, Initialize(h, p) PROVE \E c : StartsWith(h, c)
  <2>1. PICK step \in Steps : Begin(h, PayCall(step, "initialize", p, "PENDING"))
    BY <1>4 DEF Initialize, StartOrExpire, Steps
  <2> QED BY <2>1, PayCallIsBacked DEF Safe, StartsWith, TwoStage, Operations, PayStatuses
<1>5. ASSUME NEW p \in Payments, ConfirmMockAuthorize(h, p) PROVE \E c : StartsWith(h, c)
  <2>1. PICK step \in Steps \ {"write"} :
          Begin(h, PayCall(step, "authorize", p, "AUTHORIZED"))
    BY <1>5 DEF ConfirmMockAuthorize, StartOrExpire, Steps
  <2> QED BY <2>1, PayCallIsBacked DEF Safe, StartsWith, TwoStage, Operations, PayStatuses
<1>6. ASSUME NEW p \in Payments, ConfirmMockPayment(h, p) PROVE FALSE
  <2>1. PICK c : Begin(h, c) /\ c.op = "confirmPayment"
    <3>1. PICK step \in Steps : Begin(h, PayCall(step, "confirmPayment", p, "PAID"))
      BY <1>6 DEF ConfirmMockPayment, StartOrExpire, Steps
    <3>2. PayCall(step, "confirmPayment", p, "PAID").op = "confirmPayment"
      <4>1. "confirmPayment" \in Operations /\ "PAID" \in PayStatuses \cup {Keep}
        BY DEF Operations, PayStatuses
      <4> QED BY <4>1, PayCallIsACall DEF Safe
    <3> QED BY <3>1, <3>2
  <2> QED BY <2>1 DEF Begin, TwoStage
<1> QED
  BY <1>1, <1>2, <1>3, <1>4, <1>5, <1>6 DEF CustomerRequest

LEMMA PaymentRequestBacks ==
  ASSUME Safe, Reported, Endpoints \subseteq TwoStage,
         NEW h \in Handlers, PaymentRequest(h)
  PROVE  \E c : StartsWith(h, c)
<1>1. ASSUME NEW p \in Payments, NEW to \in PayStatuses,
             HandleCallback(h, p, to) \/ UpdateStatus(h, p, to)
      PROVE  FALSE
  <2>1. PICK op \in {"callback", "updateStatus"} : Begin(h, PayCall("write", op, p, to))
    BY <1>1 DEF HandleCallback, UpdateStatus
  <2>2. PayCall("write", op, p, to).op = op
    <3>1. op \in Operations /\ "write" \in Steps /\ TypeOK
      BY DEF Safe, Operations, Steps
    <3> QED BY <3>1, PayCallIsACall
  <2> QED BY <2>1, <2>2 DEF Begin, TwoStage
<1>2. ASSUME NEW p \in Payments, CapturePayment(h, p) \/ ReleasePayment(h, p)
      PROVE  \E c : StartsWith(h, c)
  <2>1. held[p]
    BY <1>2 DEF CapturePayment, ReleasePayment, Reported, StatusHasItsCall
  <2>2. \/ Begin(h, PayCall("check", "capture", p, "PAID"))
        \/ Begin(h, PayCall("check", "release", p, "CANCELLED"))
    BY <1>2 DEF CapturePayment, ReleasePayment
  <2> QED
    BY <2>1, <2>2, PayCallIsBacked DEF Safe, StartsWith, TwoStage, Operations, Steps, PayStatuses
<1>3. ASSUME NEW p \in Payments, NEW portions \in SUBSET Portions,
             SelectiveRefund(h, p, portions)
      PROVE  \E c : StartsWith(h, c)
  <2>1. PICK b \in Calls :
          /\ Begin(h, RefundCall(b, p, portions))
          /\ b.op = "refund" /\ b.step = "provider" /\ b.appTo = Keep
    <3>1. Begin(h, RefundCall(PayCall("provider", "refund", p, Keep), p, portions))
      BY <1>3 DEF SelectiveRefund
    <3>2. "refund" \in Operations /\ "provider" \in Steps /\ TypeOK
      BY DEF Safe, Operations, Steps
    <3>3. /\ PayCall("provider", "refund", p, Keep) \in Calls
          /\ PayCall("provider", "refund", p, Keep).op = "refund"
          /\ PayCall("provider", "refund", p, Keep).step = "provider"
          /\ PayCall("provider", "refund", p, Keep).appTo = Keep
      BY <3>2, PayCallIsACall
    <3> QED BY <3>1, <3>3
  <2>2. captured[p] > 0
    BY <1>3 DEF SelectiveRefund, Reported, StatusHasItsCall
  <2>3. BackedByCalls(RefundCall(b, p, portions))
    BY <2>1, <2>2, RefundCallIsBacked DEF Keep
  <2> QED BY <2>1, <2>3 DEF StartsWith
<1> QED
  BY <1>1, <1>2, <1>3 DEF PaymentRequest

LEMMA OperatorRequestBacks ==
  ASSUME Safe, NEW h \in Handlers, OperatorRequest(h)
  PROVE  \E c : StartsWith(h, c)
<1>1. ASSUME NEW a \in Apps, AcceptApplication(h, a) PROVE \E c : StartsWith(h, c)
  BY <1>1, AppCallIsBacked
     DEF AcceptApplication, StartsWith, TwoStage, Operations, Steps, AppStatuses
<1>2. ASSUME NEW a \in Apps, CancelApplication(h, a) PROVE \E c : StartsWith(h, c)
  BY <1>2, AppCallIsBacked
     DEF CancelApplication, StartsWith, TwoStage, Operations, Steps, AppStatuses
<1>3. ASSUME NEW a \in Apps, ApproveApplication(h, a) PROVE \E c : StartsWith(h, c)
  BY <1>3, AppCallIsBacked
     DEF ApproveApplication, StartsWith, TwoStage, Operations, Steps, AppStatuses
<1>4. ASSUME NEW a \in Apps, NEW portions \in SUBSET Portions,
             RejectApplication(h, a, portions)
      PROVE  \E c : StartsWith(h, c)
  <2>1. PICK step \in Steps :
          Begin(h, [AppCall(step, "reject", a, "REJECTED") EXCEPT !.portions = portions])
    BY <1>4 DEF RejectApplication, Steps
  <2>2. PICK b \in Calls :
          /\ b = AppCall(step, "reject", a, "REJECTED")
          /\ b.op = "reject" /\ b.pay = NoPay /\ b.appTo = "REJECTED"
    <3>1. "reject" \in Operations /\ "REJECTED" \in AppStatuses \cup {Keep}
      BY DEF Operations, AppStatuses
    <3> QED BY <3>1, AppCallIsACall
  <2> DEFINE c == [b EXCEPT !.portions = portions]
  <2>3. c.op = "reject" /\ c.pay = NoPay /\ c.appTo = "REJECTED"
    BY <2>2 DEF Calls
  <2>4. Begin(h, c)
    BY <2>1, <2>2
  <2> HIDE DEF c
  <2>5. BackedByCalls(c)
    BY <2>3 DEF BackedByCalls, TwoStage, Operations
  <2> QED BY <2>4, <2>5 DEF StartsWith
<1>5. ASSUME NEW a \in Apps, NEW to \in AppStatuses, ChangeStatus(h, a, to)
      PROVE  \E c : StartsWith(h, c)
  <2>1. Begin(h, AppCall("write", "changeStatus", a, to)) /\ to # "SUBMITTED"
    BY <1>5 DEF ChangeStatus, StatusChanges
  <2> QED BY <2>1, AppCallIsBacked DEF StartsWith, TwoStage, Operations, Steps
<1>6. ASSUME NEW a \in Apps, NEW to \in AppStatuses, RecomputeApplicationStatus(h, a, to)
      PROVE  \E c : StartsWith(h, c)
  <2>1. Begin(h, AppCall("write", "recompute", a, to)) /\ to # "SUBMITTED"
    BY <1>6 DEF RecomputeApplicationStatus, WorkedOn
  <2> QED BY <2>1, AppCallIsBacked DEF StartsWith, TwoStage, Operations, Steps
<1>7. ASSUME NEW a \in Apps, IssueVisa(h, a) PROVE \E c : StartsWith(h, c)
  BY <1>7, AppCallIsBacked DEF IssueVisa, StartsWith, TwoStage, Operations, Steps, AppStatuses
<1> QED
  BY <1>1, <1>2, <1>3, <1>4, <1>5, <1>6, <1>7 DEF OperatorRequest

-----------------------------------------------------------------------------
(* What a handler's step leaves it with.                                      *)

LEMMA RestIsBacked ==
  ASSUME UNCHANGED <<pays, ledger>>, NEW c \in Calls, BackedByCalls(c)
  PROVE  BackedByCalls(c)'
  BY DEF pays, ledger, BackedByCalls, Payments, NoPay, TwoStage, Operations

LEMMA IdleIsBacked == Idle \in Calls /\ BackedByCalls(Idle) /\ BackedByCalls(Idle)'
  BY IdleIsACall DEF Idle, BackedByCalls, Keep, TwoStage, Operations

LEMMA CheckBacks ==
  ASSUME Safe, Reported, NEW h \in Handlers, Check(h)
  PROVE  Backs(h)
<1>0. PICK c \in Calls : c = call[h] /\ BackedByCalls(c)
  BY DEF Safe, TypeOK, Reported, InFlightTwoStage
<1>1. UNCHANGED <<pays, ledger>> /\ c.step = "check"
  BY <1>0 DEF Check, CheckSettled, CheckNoActivePayment, AssertManualPaymentActionAllowed,
              GetAuthorizedPayment, GetCapturedPayment, Checking, At
<1>2. ASSUME NEW d \in Calls, Advance(h, d), BackedByCalls(d) PROVE Backs(h)
  BY <1>1, <1>2, RestIsBacked DEF Backs
<1>3. Advance(h, Idle) => Backs(h)
  BY <1>2, IdleIsBacked
<1>4. CASE CheckSettled(h)
  <2>1. c.op = "submit" /\ c.app = call[h].app
    BY <1>0, <1>4 DEF CheckSettled, Checking, At
  <2>2. CASE PaymentsIn(c.app, Settled) = {}
    BY <1>0, <1>3, <1>4, <2>2 DEF CheckSettled
  <2>3. CASE PaymentsIn(c.app, Settled) # {}
    <3>1. PICK p \in Payments : owner[p] = c.app /\ payStatus[p] \in Settled
      BY <2>3 DEF PaymentsIn
    <3>2. held[p]
      BY <3>1 DEF Reported, StatusHasItsCall, Settled, Refundable
    <3>3. PICK d : d = [c EXCEPT !.step = "write"] /\ Advance(h, d)
      BY <1>0, <1>4, <2>3 DEF CheckSettled
    <3>4. d \in Calls /\ d.op = "submit" /\ d.app = c.app /\ d.appTo = c.appTo /\ d.portions = c.portions
      BY <1>0, <2>1, <3>3 DEF Calls, Steps
    <3>5. BackedByCalls(d)
      BY <1>0, <2>1, <3>1, <3>2, <3>4 DEF BackedByCalls
    <3> QED BY <1>2, <3>3, <3>4, <3>5
  <2> QED BY <2>2, <2>3
<1>5. CASE CheckNoActivePayment(h)
  <2>1. c.op = "createPayment"
    BY <1>0, <1>5 DEF CheckNoActivePayment, Checking, At
  <2>2. \/ Advance(h, Idle)
        \/ \E step \in Steps, p \in Payments \cup {NoPay} :
             Advance(h, [c EXCEPT !.step = step, !.pay = p])
    <3>1. \/ Advance(h, Idle)
          \/ Advance(h, [c EXCEPT !.step = "write"])
          \/ \E p \in Payments : Advance(h, [c EXCEPT !.step = "expire", !.pay = p])
      BY <1>0, <1>5 DEF CheckNoActivePayment, PaymentsIn
    <3>2. [c EXCEPT !.step = "write"] = [c EXCEPT !.step = "write", !.pay = c.pay]
          /\ c.pay \in Payments \cup {NoPay}
      BY <1>0 DEF Calls
    <3>3. "write" \in Steps /\ "expire" \in Steps
      BY DEF Steps
    <3> QED BY <3>1, <3>2, <3>3
  <2>3. ASSUME NEW step \in Steps, NEW p \in Payments \cup {NoPay},
               Advance(h, [c EXCEPT !.step = step, !.pay = p])
        PROVE  Backs(h)
    <3>1. PICK d : d = [c EXCEPT !.step = step, !.pay = p] /\ Advance(h, d)
      BY <2>3
    <3>2. d \in Calls /\ d.op = c.op /\ d.appTo = c.appTo /\ d.portions = c.portions
      BY <1>0, <3>1 DEF Calls
    <3>3. BackedByCalls(d)
      BY <1>0, <2>1, <3>2 DEF BackedByCalls
    <3> QED BY <1>2, <3>1, <3>2, <3>3
  <2> QED BY <1>3, <2>2, <2>3
<1>6. ASSUME NEW op \in {"capture", "release"}, AssertManualPaymentActionAllowed(h, op)
      PROVE  Backs(h)
  <2>1. c.op = op /\ (Advance(h, Idle) \/ Advance(h, [c EXCEPT !.step = "provider"]))
    BY <1>0, <1>6 DEF AssertManualPaymentActionAllowed, Checking, At
  <2>2. ASSUME Advance(h, [c EXCEPT !.step = "provider"]) PROVE Backs(h)
    <3>1. PICK d : d = [c EXCEPT !.step = "provider"] /\ Advance(h, d)
      BY <2>2
    <3>2. /\ d \in Calls /\ d.step = "provider" /\ d.op = c.op /\ d.pay = c.pay
          /\ d.payTo = c.payTo /\ d.appTo = c.appTo /\ d.portions = c.portions
      BY <1>0, <3>1 DEF Calls, Steps
    <3>3. BackedByCalls(d)
      BY <1>0, <2>1, <3>2 DEF BackedByCalls
    <3> QED BY <1>2, <3>1, <3>2, <3>3
  <2> QED BY <1>3, <2>1, <2>2
<1>7. ASSUME NEW op, NEW to, <<op, to>> \in {<<"accept", "PAID">>, <<"cancel", "CANCELLED">>},
             GetAuthorizedPayment(h, op, to)
      PROVE  Backs(h)
  <2>1. /\ c.op = op
        /\ \/ Advance(h, Idle)
           \/ \E p \in Latest(PaymentsIn(c.app, {"AUTHORIZED"})) :
                Advance(h, [c EXCEPT !.step = "provider", !.pay = p, !.payTo = to])
    BY <1>0, <1>7 DEF GetAuthorizedPayment, Checking, At
  <2>2. ASSUME NEW p \in Latest(PaymentsIn(c.app, {"AUTHORIZED"})),
               Advance(h, [c EXCEPT !.step = "provider", !.pay = p, !.payTo = to])
        PROVE  Backs(h)
    <3>1. p \in Payments /\ held[p]
      BY DEF Latest, PaymentsIn, Reported, StatusHasItsCall
    <3>2. PICK d : d = [c EXCEPT !.step = "provider", !.pay = p, !.payTo = to] /\ Advance(h, d)
      BY <2>2
    <3>3. to \in PayStatuses
      BY <1>7 DEF PayStatuses
    <3>4. /\ d \in Calls /\ d.step = "provider" /\ d.op = op /\ d.pay = p
          /\ d.payTo = to /\ d.appTo = c.appTo /\ d.portions = c.portions
      BY <1>0, <2>1, <3>1, <3>2, <3>3 DEF Calls, Steps
    <3>5. BackedByCalls(d)
      BY <1>0, <1>7, <2>1, <3>1, <3>4 DEF BackedByCalls
    <3> QED BY <1>2, <3>2, <3>4, <3>5
  <2> QED BY <1>3, <2>1, <2>2
<1>8. CASE GetCapturedPayment(h)
  <2>1. /\ c.op = "reject"
        /\ \/ Advance(h, Idle)
           \/ \E p \in Latest(PaymentsIn(c.app, Refundable)) :
                Advance(h, RefundCall([c EXCEPT !.step = "provider"], p, c.portions))
    BY <1>0, <1>8 DEF GetCapturedPayment, Checking, At
  <2>2. ASSUME NEW p \in Latest(PaymentsIn(c.app, Refundable)),
               Advance(h, RefundCall([c EXCEPT !.step = "provider"], p, c.portions))
        PROVE  Backs(h)
    <3>1. p \in Payments /\ captured[p] > 0 /\ c.portions \in SUBSET Portions
      BY <1>0 DEF Latest, PaymentsIn, Reported, StatusHasItsCall, Calls
    <3>2. PICK b : b = [c EXCEPT !.step = "provider"]
      OBVIOUS
    <3>3. b \in Calls /\ b.op = c.op /\ b.step = "provider" /\ b.appTo # "SUBMITTED"
      BY <1>0, <2>1, <3>2 DEF Calls, Steps, BackedByCalls
    <3>4. Advance(h, RefundCall(b, p, c.portions))
      BY <2>2, <3>2
    <3>5. RefundCall(b, p, c.portions) \in Calls
      BY <3>1, <3>3, RefundCallIsACall
    <3>6. BackedByCalls(RefundCall(b, p, c.portions))
      BY <2>1, <3>1, <3>3, RefundCallIsBacked
    <3> QED BY <1>2, <3>4, <3>5, <3>6
  <2> QED BY <1>3, <2>1, <2>2
<1> QED
  BY <1>4, <1>5, <1>6, <1>7, <1>8 DEF Check

\* A provider's step leaves the row with the call performed that the next step
\* rests on.
LEMMA ProviderBacks ==
  ASSUME Safe, Reported, Keeps, Grows, NEW h \in Handlers, Provider(h)
  PROVE  Backs(h)
<1>0. PICK c \in Calls : c = call[h] /\ Coherent(c) /\ BackedByCalls(c)
  BY DEF Safe, TypeOK, InFlight, Reported, InFlightTwoStage
<1>1. BackedByCalls(c)'
  BY <1>0, CallsStayBehind
<1>2. c.pay \in Payments /\ c.step = "provider"
  <2>1. c.step = "provider"
    BY <1>0 DEF Provider, ProviderAuthorize, ProviderCapture, ProviderRelease,
                ProviderRefund, Calling, At
  <2> QED BY <1>0, <2>1 DEF Coherent, Calls
<1> USE DEF Safe, TypeOK
<1>3. \A n \in 0 .. 2 : AtMost2(n) > 0
  BY DEF AtMost2
<1>4. ASSUME ProviderAuthorize(h) \/ ProviderCapture(h) \/ ProviderRelease(h)
      PROVE  Backs(h)
  <2>1. PICK d : d = [c EXCEPT !.step = "write"] /\ Advance(h, d)
    BY <1>0, <1>4 DEF ProviderAuthorize, ProviderCapture, ProviderRelease
  <2>2. /\ d \in Calls /\ d.step = "write" /\ d.op = c.op /\ d.pay = c.pay
        /\ d.payTo = c.payTo /\ d.appTo = c.appTo /\ d.portions = c.portions
    BY <1>0, <2>1 DEF Calls, Steps
  <2>3. \/ c.op = "authorize" /\ held'[c.pay]
        \/ c.op \in {"capture", "accept"} /\ captured'[c.pay] > 0
        \/ c.op \in {"release", "cancel"} /\ released'[c.pay] > 0
    <3>1. CASE ProviderAuthorize(h)
      BY <1>0, <1>2, <3>1 DEF ProviderAuthorize, Calling, At
    <3>2. CASE ProviderCapture(h)
      BY <1>0, <1>2, <1>3, <3>2 DEF ProviderCapture, Calling, At
    <3>3. CASE ProviderRelease(h)
      BY <1>0, <1>2, <1>3, <3>3 DEF ProviderRelease, Calling, At
    <3> QED BY <1>4, <3>1, <3>2, <3>3
  <2>4. BackedByCalls(d)'
    BY <1>1, <2>2, <2>3 DEF BackedByCalls, TwoStage, Operations
  <2> QED BY <2>1, <2>2, <2>4 DEF Backs
<1>5. ASSUME ProviderRefund(h) PROVE Backs(h)
  <2>1. PICK f, left :
          /\ left = c.todo \ {f}
          /\ f = (IF "government" \in c.todo THEN "government" ELSE "service")
    OBVIOUS
  <2>2. PICK step \in {"provider", "write"} :
          /\ step = "write" => left = {}
          /\ Advance(h, [c EXCEPT !.todo = left, !.step = step])
    BY <1>0, <1>2, <1>5, <2>1 DEF ProviderRefund
  <2>3. PICK d : d = [c EXCEPT !.todo = left, !.step = step] /\ Advance(h, d)
    BY <2>2
  <2>4. left \in SUBSET Portions /\ c.portions \in SUBSET Portions
    BY <1>0, <2>1 DEF Calls
  <2>5. /\ d \in Calls /\ d.step = step /\ d.op = c.op /\ d.pay = c.pay /\ d.app = c.app
        /\ d.payTo = c.payTo /\ d.appTo = c.appTo /\ d.portions = c.portions
        /\ d.todo = left
    BY <1>0, <2>3, <2>4 DEF Calls, Steps
  <2>6. c.op \in {"refund", "reject"}
    BY <1>0, <1>5 DEF ProviderRefund, Calling, At
  <2>7. refunds'[c.pay][f] > 0
    <3>1. f \in Portions /\ refunds[c.pay] \in [Portions -> 0 .. 2]
      BY <1>2, <2>1 DEF Portions
    <3>2. refunds' = [refunds EXCEPT ![c.pay] =
                        [refunds[c.pay] EXCEPT ![f] = AtMost2(refunds[c.pay][f])]]
      BY <1>0, <1>5, <2>1 DEF ProviderRefund
    <3>3. refunds'[c.pay] = [refunds[c.pay] EXCEPT ![f] = AtMost2(refunds[c.pay][f])]
      BY <1>2, <3>2
    <3>4. refunds'[c.pay][f] = AtMost2(refunds[c.pay][f])
      BY <3>1, <3>3
    <3>5. PICK n \in 0 .. 2 : n = refunds[c.pay][f]
      BY <3>1
    <3>6. AtMost2(n) > 0
      BY <1>3
    <3> QED BY <3>4, <3>5, <3>6
  <2>8. \A g \in c.portions : g \in left \/ refunds'[c.pay][g] > 0
    <3>1. \A g \in c.portions : g \in c.todo \/ refunds'[c.pay][g] > 0
      BY <1>1, <1>2, <2>6, PaymentIsSome DEF BackedByCalls, NoPay
    <3> QED BY <2>1, <2>7, <3>1
  <2>9. BackedByCalls(d)'
    BY <1>1, <2>2, <2>5, <2>6, <2>8 DEF BackedByCalls, TwoStage, Operations
  <2> QED BY <2>3, <2>5, <2>9 DEF Backs
<1> QED BY <1>4, <1>5 DEF Provider

LEMMA WriteBacks ==
  ASSUME Safe, Reported, NEW h \in Handlers, Write(h)
  PROVE  Backs(h)
<1>0. PICK c \in Calls : c = call[h] /\ BackedByCalls(c)
  BY DEF Safe, TypeOK, Reported, InFlightTwoStage
<1>1. Advance(h, Idle) => Backs(h)
  BY IdleIsBacked DEF Backs
<1>2. CASE ExpireLapsed(h)
  <2>1. ASSUME Advance(h, [c EXCEPT !.step = "write", !.pay = NoPay]), c.op = "createPayment"
        PROVE  Backs(h)
    <3>1. PICK d : d = [c EXCEPT !.step = "write", !.pay = NoPay] /\ Advance(h, d)
      BY <2>1
    <3>2. d \in Calls /\ d.op = c.op /\ d.appTo = c.appTo /\ d.portions = c.portions
      BY <1>0, <3>1 DEF Calls, Steps
    <3>3. BackedByCalls(d)'
      BY <1>0, <2>1, <3>2 DEF BackedByCalls, TwoStage, Operations
    <3> QED BY <3>1, <3>2, <3>3 DEF Backs
  <2> QED BY <1>0, <1>1, <1>2, <2>1 DEF ExpireLapsed
<1>3. CASE ~ExpireLapsed(h)
  <2>1. Finish(h)
    BY <1>3 DEF Write, WriteUnpaid, WriteStatus, InsertPayment, WritePayment, WriteFlip,
                WriteSync, WriteDecision, Writing
  <2> QED BY <1>1, <2>1 DEF Finish, Advance
<1> QED BY <1>2, <1>3

LEMMA RequestBacks ==
  ASSUME Safe, Reported, Endpoints \subseteq TwoStage, NEW h \in Handlers, Request(h)
  PROVE  Backs(h)
<1>1. PICK c : Begin(h, c) /\ BackedByCalls(c)
  BY CustomerRequestBacks, PaymentRequestBacks, OperatorRequestBacks DEF Request, StartsWith
<1>2. UNCHANGED <<pays, ledger>> /\ Advance(h, c)
  BY <1>1 DEF Begin, Advance
<1>3. c \in Calls
  <2>1. PICK d \in Calls : Begin(h, d)
    BY RequestStarts DEF Starts
  <2> QED BY <1>1, <2>1 DEF Begin, Safe, TypeOK
<1> QED BY <1>1, <1>2, <1>3, RestIsBacked DEF Backs

\* Whatever step is taken, every request keeps the provider's calls it needs.
LEMMA CallsStayBacked ==
  ASSUME Safe, Reported, Endpoints \subseteq TwoStage, [Next]_vars
  PROVE  InFlightTwoStage'
<1>0. Keeps /\ Grows
  BY StepsKeep, StepsGrow
<1>1. ASSUME NEW g \in Handlers PROVE BackedByCalls(call[g])' \/ call'[g] # call[g]
  <2>1. PICK e \in Calls : e = call[g] /\ Coherent(e) /\ BackedByCalls(e)
    BY DEF Safe, TypeOK, InFlight, Reported, InFlightTwoStage
  <2>2. BackedByCalls(e)'
    BY <1>0, <2>1, CallsStayBehind
  <2> QED BY <2>1, <2>2 DEF BackedByCalls
<1>2. ASSUME NEW h \in Handlers, Backs(h) PROVE InFlightTwoStage'
  <2>1. PICK d \in Calls : call' = [call EXCEPT ![h] = d] /\ BackedByCalls(d)'
    BY <1>2 DEF Backs, Advance
  <2>2. ASSUME NEW g \in Handlers PROVE BackedByCalls(call[g])'
    <3>1. CASE g = h
      <4>1. call'[g] = d
        BY <2>1, <3>1 DEF Safe, TypeOK
      <4> QED BY <2>1, <4>1 DEF BackedByCalls
    <3>2. CASE g # h
      <4>1. call'[g] = call[g]
        BY <2>1, <3>2 DEF Safe, TypeOK
      <4> QED BY <1>1, <4>1
    <3> QED BY <3>1, <3>2
  <2> QED BY <2>2 DEF InFlightTwoStage
<1>3. ASSUME NEW h \in Handlers, CallFails(h) PROVE InFlightTwoStage'
  BY <1>2, <1>3, IdleIsBacked DEF CallFails, Finish, Backs, Advance
<1>4. ASSUME call' = call PROVE InFlightTwoStage'
  BY <1>1, <1>4 DEF InFlightTwoStage
<1>5. ASSUME NEW a \in Apps, WindowCloses(a) \/ SweepExpire(a) \/ SweepSkips(a)
      PROVE  InFlightTwoStage'
  BY <1>4, <1>5 DEF WindowCloses, SweepExpire, SweepSkips
<1>6. CASE SweepRead \/ UNCHANGED vars
  BY <1>4, <1>6 DEF SweepRead, vars
<1>7. CASE Restart
  <2>1. \A g \in Handlers : call'[g] = Idle
    BY <1>7 DEF Restart
  <2> QED BY <2>1, IdleIsBacked DEF InFlightTwoStage, BackedByCalls
<1> QED
  BY <1>2, <1>3, <1>5, <1>6, <1>7, RequestBacks, CheckBacks, ProviderBacks, WriteBacks, <1>0
     DEF Next

-----------------------------------------------------------------------------
(* What the rows claim, and what the provider was asked for, after a step.    *)

\* The two halves of StatusHasItsCall.
InOrder(p) ==
  /\ captured[p] > 0 \/ released[p] > 0 => held[p]
  /\ \A f \in Portions : refunds[p][f] > 0 => captured[p] > 0

Truthful(p) ==
  /\ payStatus[p] = "AUTHORIZED" => held[p]
  /\ payStatus[p] \in Refundable \cup {"REFUNDED"} => captured[p] > 0
  /\ payStatus[p] = "CANCELLED" => released[p] > 0
  /\ \A f \in marked[p] : refunds[p][f] > 0

LEMMA Halves ==
  ASSUME TypeOK
  PROVE  StatusHasItsCall <=> \A p \in Payments : InOrder(p) /\ Truthful(p)
  BY DEF TypeOK, StatusHasItsCall, InOrder, Truthful

\* Nothing is taken or let go that was not held, nor returned that was not taken.
LEMMA LedgerStaysInOrder ==
  ASSUME Safe, Reported, [Next]_vars, NEW p \in Payments
  PROVE  InOrder(p)'
<1>0. Grows /\ InOrder(p)
  BY StepsGrow, Halves DEF Reported, Safe
<1>1. CASE \A h \in Handlers : ~Provider(h)
  BY <1>0, <1>1, OnlyProviderCalls DEF ledger, InOrder
<1>2. ASSUME NEW h \in Handlers, Provider(h) PROVE InOrder(p)'
  <2>0. PICK c \in Calls : c = call[h] /\ Coherent(c) /\ BackedByCalls(c)
    BY DEF Safe, TypeOK, InFlight, Reported, InFlightTwoStage
  <2>1. CASE ProviderAuthorize(h)
    BY <1>0, <2>1 DEF ProviderAuthorize, Grows, InOrder
  <2>2. CASE ProviderCapture(h) \/ ProviderRelease(h)
    <3>1. c.pay # p => captured'[p] = captured[p] /\ released'[p] = released[p]
      BY <2>0, <2>2 DEF ProviderCapture, ProviderRelease, Safe, TypeOK
    <3>2. c.pay = p => held[p]
      BY <2>0, <2>2, PaymentIsSome
         DEF ProviderCapture, ProviderRelease, Calling, At, BackedByCalls, Safe, TypeOK
    <3>3. held'[p] = held[p] /\ refunds' = refunds
      BY <2>2 DEF ProviderCapture, ProviderRelease
    <3> QED BY <1>0, <3>1, <3>2, <3>3 DEF InOrder, Grows
  <2>3. CASE ProviderRefund(h)
    <3>1. c.pay = p => captured[p] > 0
      BY <2>0, <2>3, PaymentIsSome DEF ProviderRefund, Calling, At, BackedByCalls
    <3>2. c.pay # p => refunds'[p] = refunds[p]
      BY <2>0, <2>3 DEF ProviderRefund, Safe, TypeOK
    <3>3. UNCHANGED <<held, captured, released>>
      BY <2>3 DEF ProviderRefund
    <3> QED BY <1>0, <3>1, <3>2, <3>3 DEF InOrder
  <2> QED BY <1>2, <2>1, <2>2, <2>3 DEF Provider
<1> QED BY <1>1, <1>2

\* What a write makes of a row is what its handler asked the provider for.
LEMMA WriteIsTruthful ==
  ASSUME Safe, Reported, NEW h \in Handlers, Write(h), NEW p \in Payments
  PROVE  Truthful(p)'
<1> USE DEF Safe, TypeOK
<1>0. PICK c \in Calls : c = call[h] /\ Coherent(c) /\ BackedByCalls(c)
  BY DEF InFlight, Reported, InFlightTwoStage
<1>1. Truthful(p) /\ UNCHANGED ledger
  BY Halves DEF Reported, Write, ExpireLapsed, WriteUnpaid, WriteStatus, InsertPayment,
                WritePayment, WriteFlip, WriteSync, WriteDecision, Writing
<1>2. ASSUME payStatus'[p] = payStatus[p], marked'[p] = marked[p] PROVE Truthful(p)'
  BY <1>1, <1>2 DEF Truthful, ledger
<1>3. ASSUME payStatus'[p] \in {"PENDING", "EXPIRED"}, marked'[p] = marked[p]
      PROVE  Truthful(p)'
  BY <1>1, <1>3 DEF Truthful, ledger, Refundable
<1>4. ASSUME c.pay = p, c.step = "write", payStatus'[p] = c.payTo, marked'[p] = marked[p],
             c.op \in {"authorize", "capture", "release", "accept", "cancel"}
      PROVE  Truthful(p)'
  <2>1. \/ payStatus'[p] = "AUTHORIZED" /\ held[p]
        \/ payStatus'[p] = "PAID" /\ captured[p] > 0
        \/ payStatus'[p] = "CANCELLED" /\ released[p] > 0
    BY <1>0, <1>4, PaymentIsSome DEF BackedByCalls
  <2> QED BY <1>1, <1>4, <2>1 DEF Truthful, ledger, Refundable
<1>5. ASSUME c.pay = p, c.step = "write", payStatus'[p] = c.payTo,
             marked'[p] = marked[p] \cup c.portions, c.op \in {"refund", "reject"}
      PROVE  Truthful(p)'
  <2>1. /\ payStatus'[p] \in {"REFUNDED", "PARTIALLY_REFUNDED"}
        /\ captured[p] > 0
        /\ \A f \in c.portions : refunds[p][f] > 0
    BY <1>0, <1>5, PaymentIsSome DEF BackedByCalls
  <2> QED BY <1>1, <1>5, <2>1 DEF Truthful, ledger
<1>6. CASE WriteUnpaid(h) \/ WriteStatus(h) \/ InsertPayment(h)
  BY <1>2, <1>6 DEF WriteUnpaid, WriteStatus, InsertPayment, pays
<1>7. CASE ExpireLapsed(h)
  BY <1>2, <1>3, <1>7 DEF ExpireLapsed
<1>8. CASE WritePayment(h)
  <2>1. c.payTo = "PENDING" /\ marked' = marked
    BY <1>0, <1>8 DEF WritePayment, Writing, At, BackedByCalls, TwoStage
  <2> QED BY <1>0, <1>2, <1>3, <1>8, <2>1 DEF WritePayment
<1>9. CASE WriteFlip(h)
  <2>1. c.step = "write" /\ c.op \in {"authorize", "capture"} /\ marked' = marked
    BY <1>0, <1>9 DEF WriteFlip, Writing, At, BackedByCalls, TwoStage
  <2> QED BY <1>0, <1>2, <1>4, <1>9, <2>1 DEF WriteFlip
<1>10. ASSUME c.step = "write", c.op \in {"release", "refund", "accept", "cancel", "reject"},
              payStatus' = [payStatus EXCEPT ![c.pay] = c.payTo],
              marked' = [marked EXCEPT ![c.pay] = @ \cup c.portions],
              c.op \in {"refund", "reject"} \/ c.portions = {}
       PROVE  Truthful(p)'
  <2>1. CASE c.pay # p
    BY <1>2, <1>10, <2>1
  <2>2. CASE c.pay = p
    <3>1. payStatus'[p] = c.payTo /\ marked'[p] = marked[p] \cup c.portions
      BY <1>10, <2>2
    <3>2. c.portions = {} => marked'[p] = marked[p]
      BY <3>1
    <3> QED BY <1>4, <1>5, <1>10, <2>2, <3>1, <3>2
  <2> QED BY <2>1, <2>2
<1>11. CASE WriteSync(h) \/ WriteDecision(h)
  <2>1. c.op \in {"refund", "reject"} \/ c.portions = {}
    BY <1>0 DEF BackedByCalls
  <2>2. c.step = "write" /\ c.op \in {"release", "refund", "accept", "cancel", "reject"}
    BY <1>0, <1>11 DEF WriteSync, WriteDecision, Writing, At
  <2>3. \/ UNCHANGED <<payStatus, marked>>
        \/ /\ payStatus' = [payStatus EXCEPT ![c.pay] = c.payTo]
           /\ marked' = [marked EXCEPT ![c.pay] = @ \cup c.portions]
    BY <1>0, <1>11 DEF WriteSync, WriteDecision
  <2> QED BY <1>2, <1>10, <2>1, <2>2, <2>3
<1> QED BY <1>6, <1>7, <1>8, <1>9, <1>11 DEF Write

LEMMA RowsStayTruthful ==
  ASSUME Safe, Reported, [Next]_vars, NEW p \in Payments
  PROVE  Truthful(p)'
<1>0. Grows /\ Truthful(p)
  BY StepsGrow, Halves DEF Reported, Safe
<1>1. ASSUME payStatus' = payStatus, marked' = marked PROVE Truthful(p)'
  <2>1. marked[p] \in SUBSET Portions
    BY DEF Safe, TypeOK
  <2> QED BY <1>0, <1>1, <2>1 DEF Truthful, Grows
<1>2. ASSUME NEW h \in Handlers, Request(h) \/ Check(h) \/ Provider(h) \/ CallFails(h)
      PROVE  Truthful(p)'
  <2>1. CASE Request(h)
    BY <1>1, <2>1, RequestStarts DEF Starts, Begin, pays
  <2>2. CASE Check(h)
    BY <1>1, <2>2 DEF Check, CheckSettled, CheckNoActivePayment,
                      AssertManualPaymentActionAllowed, GetAuthorizedPayment,
                      GetCapturedPayment, Checking, pays
  <2>3. CASE Provider(h)
    BY <1>1, <2>3 DEF Provider, ProviderAuthorize, ProviderCapture, ProviderRelease,
                      ProviderRefund, Calling, pays
  <2>4. CASE CallFails(h)
    BY <1>1, <2>4 DEF CallFails, pays
  <2> QED BY <1>2, <2>1, <2>2, <2>3, <2>4
<1>3. ASSUME NEW a \in Apps, SweepExpire(a) PROVE Truthful(p)'
  <2>1. /\ marked' = marked /\ UNCHANGED ledger
        /\ payStatus'[p] = payStatus[p] \/ payStatus'[p] = "EXPIRED"
    BY <1>3 DEF SweepExpire
  <2> QED BY <1>0, <2>1 DEF Truthful, ledger, Refundable
<1>4. ASSUME NEW a \in Apps, WindowCloses(a) \/ SweepSkips(a) PROVE Truthful(p)'
  BY <1>1, <1>4 DEF WindowCloses, SweepSkips, pays
<1>5. CASE SweepRead \/ Restart \/ UNCHANGED vars
  BY <1>1, <1>5 DEF SweepRead, Restart, vars, pays
<1> QED BY <1>2, <1>3, <1>4, <1>5, WriteIsTruthful DEF Next

\* An application that becomes SUBMITTED has a payment that is held.
LEMMA WriteSubmitsHeld ==
  ASSUME Safe, Reported, NEW h \in Handlers, Write(h),
         NEW a \in Apps, status'[a] = "SUBMITTED", status[a] # "SUBMITTED"
  PROVE  \E p \in Payments : owner[p] = a /\ held[p]
<1> USE DEF Safe, TypeOK
<1>0. PICK c \in Calls : c = call[h] /\ Coherent(c) /\ BackedByCalls(c)
  BY DEF InFlight, Reported, InFlightTwoStage
<1>1. CASE WriteUnpaid(h) \/ WriteStatus(h) \/ WriteDecision(h)
  <2>1. c.step = "write" /\ status' = [status EXCEPT ![c.app] = c.appTo]
    BY <1>0, <1>1 DEF WriteUnpaid, WriteStatus, WriteDecision, Writing, At
  <2>2. c.app = a /\ c.appTo = "SUBMITTED"
    BY <2>1
  <2> QED BY <1>0, <2>1, <2>2 DEF BackedByCalls
<1>2. CASE WriteFlip(h)
  <2>1. c.app = a
    BY <1>0, <1>2 DEF WriteFlip
  <2>2. c.step = "write" /\ c.op \in {"authorize", "capture"}
    BY <1>0, <1>2 DEF WriteFlip, Writing, At, BackedByCalls, TwoStage
  <2>3. c.pay \in Payments /\ owner[c.pay] = a
    BY <1>0, <2>1, <2>2 DEF Coherent, PayOps, Calls
  <2>4. held[c.pay]
    BY <1>0, <2>2, <2>3, PaymentIsSome DEF BackedByCalls
  <2> QED BY <2>3, <2>4
<1>3. CASE ExpireLapsed(h) \/ InsertPayment(h) \/ WritePayment(h) \/ WriteSync(h)
  BY <1>3 DEF ExpireLapsed, InsertPayment, WritePayment, WriteSync, apps
<1> QED BY <1>1, <1>2, <1>3 DEF Write

LEMMA SubmittedStaysHeld ==
  ASSUME Safe, Reported, [Next]_vars
  PROVE  SubmittedWasHeld'
<1>0. Keeps /\ Grows
  BY StepsKeep, StepsGrow
<1>1. ASSUME NEW a \in Apps, status'[a] = "SUBMITTED", status[a] # "SUBMITTED"
      PROVE  \E p \in Payments : owner[p] = a /\ held[p]
  <2>1. ASSUME NEW h \in Handlers, Request(h) \/ Check(h) \/ Provider(h) \/ CallFails(h)
        PROVE  status' = status
    <3>1. CASE Request(h)
      BY <3>1, RequestStarts DEF Starts, Begin, apps
    <3>2. CASE Check(h)
      BY <3>2 DEF Check, CheckSettled, CheckNoActivePayment,
                  AssertManualPaymentActionAllowed, GetAuthorizedPayment,
                  GetCapturedPayment, Checking, apps
    <3>3. CASE Provider(h)
      BY <3>3 DEF Provider, ProviderAuthorize, ProviderCapture, ProviderRelease,
                  ProviderRefund, Calling, apps
    <3>4. CASE CallFails(h)
      BY <3>4 DEF CallFails, apps
    <3> QED BY <2>1, <3>1, <3>2, <3>3, <3>4
  <2>2. ASSUME NEW b \in Apps, SweepExpire(b) PROVE status'[a] \in {status[a], "EXPIRED"}
    BY <2>2 DEF SweepExpire, Safe, TypeOK
  <2>3. ASSUME NEW b \in Apps, WindowCloses(b) \/ SweepSkips(b) PROVE status' = status
    BY <2>3 DEF WindowCloses, SweepSkips, apps
  <2>4. ASSUME SweepRead \/ Restart \/ UNCHANGED vars PROVE status' = status
    BY <2>4 DEF SweepRead, Restart, vars, apps
  <2> QED BY <1>1, <2>1, <2>2, <2>3, <2>4, WriteSubmitsHeld DEF Next
<1>2. ASSUME NEW a \in Apps, status'[a] = "SUBMITTED"
      PROVE  \E p \in Payments : owner'[p] = a /\ held'[p]
  <2>1. PICK p \in Payments : owner[p] = a /\ held[p]
    BY <1>1, <1>2 DEF Reported, SubmittedWasHeld
  <2> QED BY <1>0, <2>1, NoAppAssumption DEF Keeps, Grows, Row
<1> QED BY <1>2 DEF SubmittedWasHeld, Payments

LEMMA InitIsReported == Init => Reported
<1> SUFFICES ASSUME Init PROVE Reported
  OBVIOUS
<1>1. StatusHasItsCall
  BY DEF Init, StatusHasItsCall, Refundable, Portions
<1>2. SubmittedWasHeld
  BY DEF Init, SubmittedWasHeld
<1>3. InFlightTwoStage
  BY IdleIsBacked DEF Init, InFlightTwoStage
<1> QED BY <1>1, <1>2, <1>3 DEF Reported

LEMMA ReportedIsInductive ==
  ASSUME Safe, Reported, Endpoints \subseteq TwoStage, [Next]_vars
  PROVE  Safe' /\ Reported'
<1>1. Safe'
  BY SafeIsInductive
<1>2. \A p \in Payments : (InOrder(p) /\ Truthful(p))'
  BY LedgerStaysInOrder, RowsStayTruthful
<1>3. StatusHasItsCall'
  <2>1. TypeOK'
    BY <1>1 DEF Safe
  <2>2. \A p \in Payments : marked'[p] \in SUBSET Portions
    BY <2>1 DEF TypeOK, Payments
  <2> QED BY <1>2, <2>2 DEF StatusHasItsCall, InOrder, Truthful, Payments
<1> QED BY <1>1, <1>3, CallsStayBacked, SubmittedStaysHeld DEF Reported

LEMMA AlwaysReported ==
  ASSUME Endpoints \subseteq TwoStage
  PROVE  Spec => [](Safe /\ Reported)
<1>1. Init => Safe /\ Reported
  BY InitIsSafe, InitIsReported
<1>2. Safe /\ Reported /\ [Next]_vars => (Safe /\ Reported)'
  BY ReportedIsInductive
<1> QED BY <1>1, <1>2, PTL DEF Spec

\* Where only the two-stage flow is exposed, no payment ever reads AUTHORIZED,
\* PAID, CANCELLED or refunded without the provider's call that makes it true,
\* whatever requests overlap, fail or are lost in a restart.
THEOREM StatusesAreTrue ==
  ASSUME Endpoints \subseteq TwoStage
  PROVE  Spec => []StatusHasItsCall
<1>1. Safe /\ Reported => StatusHasItsCall
  BY DEF Reported
<1> QED BY <1>1, AlwaysReported, PTL

\* There, an application waits for the first decision only if an authorization
\* was granted for one of its payments.
THEOREM SubmittedOnlyHeld ==
  ASSUME Endpoints \subseteq TwoStage
  PROVE  Spec => []SubmittedWasHeld
<1>1. Safe /\ Reported => SubmittedWasHeld
  BY DEF Reported
<1> QED BY <1>1, AlwaysReported, PTL

\* There, every request in flight has the provider's calls behind it before it
\* writes the status that reports them.
THEOREM WritesStayBacked ==
  ASSUME Endpoints \subseteq TwoStage
  PROVE  Spec => []InFlightTwoStage
<1>1. Safe /\ Reported => InFlightTwoStage
  BY DEF Reported
<1> QED BY <1>1, AlwaysReported, PTL

-----------------------------------------------------------------------------
(* One request at a time.                                                     *)

Serial == Overlap = FALSE /\ Endpoints \subseteq TwoStage

-----------------------------------------------------------------------------
(* The rows.                                                                  *)

\* A payment in one of these was captured; in one of those, authorized.
Taken == Refundable \cup {"REFUNDED"}
Moved == Taken \cup {"AUTHORIZED", "CANCELLED"}

\* The statuses a request takes a payment from, and the one it gives it.
From(op) ==
  CASE op \in {"createPayment", "initialize", "authorize"} -> Open
    [] op \in {"capture", "release", "accept", "cancel"} -> {"AUTHORIZED"}
    [] OTHER -> Refundable

Named(marks) ==
  CASE marks = {} -> "PAID" [] marks = Portions -> "REFUNDED" [] OTHER -> "PARTIALLY_REFUNDED"

To(op, marks) ==
  CASE op = "createPayment" -> Keep
    [] op = "initialize" -> "PENDING"
    [] op = "authorize" -> "AUTHORIZED"
    [] op \in {"capture", "accept"} -> "PAID"
    [] op \in {"release", "cancel"} -> "CANCELLED"
    [] OTHER -> Named(marks)

Refunding == {"refund", "reject"}

\* Where a request can stand, with a payment in hand and without.
WithPayment(op, step) ==
  \/ op \in {"createPayment", "initialize", "authorize"} /\ step = "expire"
  \/ op = "initialize" /\ step = "write"
  \/ op \in {"capture", "release"} /\ step = "check"
  \/ /\ op \in {"authorize", "capture", "release", "accept", "cancel", "refund", "reject"}
     /\ step \in {"provider", "write"}

WithoutPayment(op, step) ==
  \/ op \in {"submit", "createPayment", "accept", "cancel", "reject"} /\ step = "check"
  \/ /\ op \in {"submitForReview", "createPayment", "approve", "reject", "changeStatus",
                "recompute", "issueVisa"}
     /\ step = "write"

\* The payment in hand still is what it was when it was read.
PaymentFits(c) ==
  c.pay # NoPay =>
    /\ WithPayment(c.op, c.step)
    /\ c.app \in Apps /\ owner[c.pay] = c.app
    /\ payStatus[c.pay] \in From(c.op)
    /\ c.payTo = To(c.op, marked[c.pay] \cup c.portions)
    /\ c.portions \cap marked[c.pay] = {}
    /\ c.op \in Refunding => c.portions # {}
    /\ c.todo \subseteq c.portions /\ (c.step = "write" => c.todo = {})
    /\ c.op \in Refunding /\ c.step = "provider" => c.todo # {}

\* ... and so is the application.
Ready(op, step, a, to) ==
  /\ op = "submitForReview" => status[a] = "DRAFT" /\ to = "UNPAID"
  /\ op = "submit" => status[a] \in {"DRAFT", "UNPAID"}
  /\ op = "createPayment" => status[a] \in {"UNPAID", "SUBMITTED"}
  /\ op = "accept" => status[a] = "SUBMITTED" /\ to = "PROCESSING"
  /\ op = "cancel" => status[a] = "SUBMITTED" /\ to = "CANCELLED"
  /\ op \in {"approve", "reject", "recompute", "issueVisa"} =>
       status[a] \in WorkedOn /\ to \in WorkedOn
  /\ op = "changeStatus" =>
       \/ status[a] \in WorkedOn /\ to \in WorkedOn
       \/ status[a] \in {"DRAFT", "UNPAID"} /\ to = "CANCELLED"
  /\ op \in {"capture", "release"} /\ step # "check" => status[a] # "SUBMITTED"

ApplicationFits(c) ==
  c.op # "none" =>
    /\ c.pay = NoPay => WithoutPayment(c.op, c.step)
    /\ c.app \in Apps
    /\ Ready(c.op, c.step, c.app, c.appTo)
    /\ c.op \notin Refunding => c.portions = {} /\ c.todo = {}
    /\ c.op = "reject" /\ c.step = "check" => c.portions # {}
    /\ c.op = "createPayment" => c.payTo = Keep
    /\ c.op = "createPayment" /\ c.step = "write" => PaymentsIn(c.app, Open) = {}

Fits(c) ==
  /\ c.step = "idle" <=> c = Idle
  /\ c.op = "none" <=> c = Idle
  /\ PaymentFits(c) /\ ApplicationFits(c)

\* What runs, runs alone; the sweep's rows are overdue until it reaches them.
Alone ==
  /\ \A g, h \in Handlers : call[g] # Idle /\ call[h] # Idle => g = h
  /\ overdue # {} => \A h \in Handlers : call[h] = Idle
  /\ \A a \in overdue : Overdue(a)

\* What the status of an application says of its payments.
RowsOf(a) ==
  /\ status[a] = "DRAFT" => PaymentsIn(a, PayStatuses) = {}
  /\ status[a] = "UNPAID" => PaymentsIn(a, Moved) = {}
  /\ status[a] = "SUBMITTED" => PaymentsIn(a, {"AUTHORIZED"}) # {} /\ PaymentsIn(a, Taken) = {}
  /\ status[a] = "EXPIRED" => PaymentsIn(a, Open \cup Moved) = {}

Mirrors(a) ==
  \/ appPay[a] = "PENDING"
  \/ appPay[a] = "EXPIRED" /\ status[a] = "EXPIRED"
  \/ appPay[a] \notin Open /\ PaymentsIn(a, {appPay[a]}) # {}

Fresh == \A p \in Payments : ~Row(p) => payStatus[p] = "CREATED" /\ marked[p] = {}

Rows ==
  /\ \A a \in Apps : RowsOf(a) /\ Mirrors(a)
  /\ OneActivePayment /\ Fresh

RowsOK == Alone /\ (\A h \in Handlers : Fits(call[h])) /\ Rows

-----------------------------------------------------------------------------
(* The ledger.                                                                *)

\* Status s and marks m of payment p say what the provider did, portions r refunded.
Agrees(s, m, r, p) ==
  /\ held[p] = (s \in Moved)
  /\ captured[p] = IF s \in Taken THEN 1 ELSE 0
  /\ released[p] = IF s = "CANCELLED" THEN 1 ELSE 0
  /\ s \in Taken => s = Named(m)
  /\ s \notin Taken => m = {}
  /\ \A f \in Portions : refunds[p][f] = IF f \in r THEN 1 ELSE 0

AtRest(p) == Agrees(payStatus[p], marked[p], marked[p], p)

\* ... and of a payment in hand, once what is done is written.
Accounts(c) ==
  c.pay # NoPay =>
    IF c.step = "write"
    THEN Agrees(c.payTo, marked[c.pay] \cup c.portions, marked[c.pay] \cup c.portions, c.pay)
    ELSE Agrees(payStatus[c.pay], marked[c.pay], marked[c.pay] \cup (c.portions \ c.todo), c.pay)

Accounted ==
  /\ \A h \in Handlers : Accounts(call[h])
  /\ \A p \in Payments : AtRest(p) \/ \E h \in Handlers : call[h].pay = p

-----------------------------------------------------------------------------
(* The rows seen by a call: what it fits does not change with it.             *)

LEMMA Vocabulary ==
  /\ Taken = {"PAID", "PARTIALLY_REFUNDED", "REFUNDED"}
  /\ Moved = {"PAID", "PARTIALLY_REFUNDED", "REFUNDED", "AUTHORIZED", "CANCELLED"}
  BY DEF Taken, Moved, Refundable

LEMMA SameRowsFit ==
  ASSUME UNCHANGED <<status, appPay, owner, payStatus, marked>>, NEW c
  PROVE  Fits(c)' <=> Fits(c)
<1>1. PaymentFits(c)' <=> PaymentFits(c)
  BY DEF PaymentFits
<1>2. \A a, S : PaymentsIn(a, S)' = PaymentsIn(a, S)
  BY DEF PaymentsIn
<1>3. ApplicationFits(c)' <=> ApplicationFits(c)
  BY <1>2 DEF ApplicationFits, Ready
<1> QED BY <1>1, <1>3 DEF Fits

LEMMA SameRowsStay ==
  ASSUME UNCHANGED <<status, appPay, owner, payStatus, marked>>
  PROVE  Rows => Rows'
<1>1. \A a, S : PaymentsIn(a, S)' = PaymentsIn(a, S)
  BY DEF PaymentsIn
<1>2. \A a \in Apps : RowsOf(a) => RowsOf(a)'
  BY <1>1 DEF RowsOf
<1>3. \A a \in Apps : Mirrors(a) => Mirrors(a)'
  <2> SUFFICES ASSUME NEW a \in Apps, Mirrors(a) PROVE Mirrors(a)'
    OBVIOUS
  <2>1. PaymentsIn(a, {appPay[a]})' = PaymentsIn(a, {appPay[a]})
    BY DEF PaymentsIn
  <2> QED BY <2>1 DEF Mirrors
<1>4. OneActivePayment => OneActivePayment'
  BY DEF OneActivePayment, Row
<1>5. Fresh => Fresh'
  BY DEF Fresh, Row
<1> QED BY <1>2, <1>3, <1>4, <1>5 DEF Rows

\* An idle call fits any rows.
LEMMA IdleFits == Fits(Idle) /\ Fits(Idle)'
<1>1. /\ Idle.step = "idle" /\ Idle.op = "none" /\ Idle.pay = NoPay
  BY DEF Idle
<1> QED BY <1>1 DEF Fits, PaymentFits, ApplicationFits

\* With nothing running, a request finds everybody idle.
LEMMA QuietIsIdle ==
  ASSUME Serial, RowsOK, NEW h \in Handlers, NEW c, Begin(h, c)
  PROVE  overdue = {} /\ \A g \in Handlers : call[g] = Idle
  BY DEF Serial, Begin, Quiet, RowsOK, Fits

-----------------------------------------------------------------------------
(* A request starts with a call that fits the rows it has read and has done   *)
(* nothing yet.                                                               *)

Untouched(c) ==
  c.pay # NoPay => c.todo = c.portions /\ (c.step = "write" => c.op = "initialize")

Opens(h) == \E c \in Calls : Begin(h, c) /\ c # Idle /\ Fits(c) /\ Untouched(c)

LEMMA AppRequestOpens ==
  ASSUME NEW h \in Handlers, NEW a \in Apps,
         NEW step \in {"check", "write"}, NEW op \in Operations,
         NEW to \in AppStatuses \cup {Keep},
         op # "reject" \/ step = "write", op = "createPayment" => step = "check",
         WithoutPayment(op, step), Ready(op, step, a, to),
         Begin(h, AppCall(step, op, a, to))
  PROVE  Opens(h)
<1> DEFINE c == AppCall(step, op, a, to)
<1>1. /\ c \in Calls /\ c.step = step /\ c.op = op /\ c.app = a /\ c.pay = NoPay
      /\ c.appTo = to /\ c.payTo = Keep /\ c.portions = {}
  BY AppCallIsACall DEF Steps
<1>2. c.todo = {}
  BY DEF AppCall, Idle
<1> HIDE DEF c
<1>3. op # "none" /\ step # "idle"
  BY DEF Operations
<1>4. c # Idle
  BY <1>1, <1>3 DEF Idle
<1>5. Fits(c)
  BY <1>1, <1>2, <1>3, <1>4 DEF Fits, PaymentFits, ApplicationFits, Refunding
<1>6. Untouched(c)
  BY <1>1 DEF Untouched
<1> QED BY <1>1, <1>4, <1>5, <1>6 DEF Opens, c

LEMMA PayRequestOpens ==
  ASSUME Safe, RowsOK, NEW h \in Handlers, NEW p \in Payments, Row(p),
         NEW step \in Steps, NEW op \in {"initialize", "authorize", "capture", "release"},
         NEW to \in PayStatuses, to = To(op, marked[p]),
         WithPayment(op, step), step # "write" \/ op = "initialize", step # "provider" \/ op = "authorize",
         payStatus[p] \in From(op),
         Begin(h, PayCall(step, op, p, to))
  PROVE  Opens(h)
<1> DEFINE c == PayCall(step, op, p, to)
<1>1. /\ c \in Calls /\ c.step = step /\ c.op = op /\ c.app = owner[p] /\ c.pay = p
      /\ c.appTo = Keep /\ c.payTo = to /\ c.portions = {}
  BY PayCallIsACall DEF Safe, Operations
<1>2. c.todo = {}
  BY DEF PayCall, Idle
<1>3. owner[p] \in Apps
  BY DEF Safe, TypeOK, Row
<1>4. p # NoPay /\ marked[p] \cup {} = marked[p]
  BY PaymentIsSome
<1> HIDE DEF c
<1>5. op # "none" /\ step # "idle"
  BY DEF WithPayment
<1>6. c # Idle
  BY <1>1, <1>5 DEF Idle
<1>7. PaymentFits(c)
  BY <1>1, <1>2, <1>3, <1>4 DEF PaymentFits, Refunding
<1>8. ApplicationFits(c)
  BY <1>1, <1>2, <1>3, <1>4, <1>5 DEF ApplicationFits, Refunding, Ready, WithPayment
<1>9. Fits(c) /\ Untouched(c)
  BY <1>1, <1>2, <1>5, <1>6, <1>7, <1>8 DEF Fits, Untouched
<1> QED BY <1>1, <1>6, <1>9 DEF Opens, c

LEMMA CustomerRequestOpens ==
  ASSUME Serial, Safe, RowsOK, NEW h \in Handlers, CustomerRequest(h)
  PROVE  Opens(h)
<1>1. ASSUME NEW a \in Apps, SubmitForReview(h, a) PROVE Opens(h)
  <2>1. status[a] = "DRAFT" /\ Begin(h, AppCall("write", "submitForReview", a, "UNPAID"))
    BY <1>1 DEF SubmitForReview
  <2>2. Ready("submitForReview", "write", a, "UNPAID")
    BY <2>1 DEF Ready
  <2> QED BY <2>1, <2>2, AppRequestOpens DEF WithoutPayment, Operations, AppStatuses
<1>2. ASSUME NEW a \in Apps, Submit(h, a) PROVE Opens(h)
  <2>1. /\ status[a] \in {"DRAFT", "UNPAID"}
        /\ Begin(h, AppCall("check", "submit", a, "SUBMITTED"))
    BY <1>2 DEF Submit
  <2>2. Ready("submit", "check", a, "SUBMITTED")
    BY <2>1 DEF Ready
  <2> QED BY <2>1, <2>2, AppRequestOpens DEF WithoutPayment, Operations, AppStatuses
<1>3. ASSUME NEW a \in Apps, CreatePayment(h, a) PROVE Opens(h)
  <2>1. /\ status[a] \in {"UNPAID", "SUBMITTED"}
        /\ Begin(h, AppCall("check", "createPayment", a, Keep))
    BY <1>3 DEF CreatePayment
  <2>2. Ready("createPayment", "check", a, Keep)
    BY <2>1 DEF Ready
  <2> QED BY <2>1, <2>2, AppRequestOpens DEF WithoutPayment, Operations
<1>4. ASSUME NEW p \in Payments, Initialize(h, p) \/ ConfirmMockAuthorize(h, p)
      PROVE  Opens(h)
  <2>1. PICK op \in {"initialize", "authorize"} : 
          /\ Row(p) /\ payStatus[p] \in Open
          /\ Begin(h, PayCall(IF lapsed[p] THEN "expire"
                              ELSE IF op = "initialize" THEN "write" ELSE "provider",
                              op, p, IF op = "initialize" THEN "PENDING" ELSE "AUTHORIZED"))
    BY <1>4 DEF Initialize, ConfirmMockAuthorize, StartOrExpire, Row, Open
  <2> DEFINE step == IF lapsed[p] THEN "expire"
                     ELSE IF op = "initialize" THEN "write" ELSE "provider"
             to == IF op = "initialize" THEN "PENDING" ELSE "AUTHORIZED"
  <2>2. /\ step \in Steps /\ to \in PayStatuses /\ to = To(op, marked[p])
        /\ WithPayment(op, step) /\ (step # "write" \/ op = "initialize")
        /\ (step # "provider" \/ op = "authorize")
        /\ payStatus[p] \in From(op)
    BY <2>1 DEF Steps, PayStatuses, To, WithPayment, From
  <2>3. Begin(h, PayCall(step, op, p, to))
    BY <2>1
  <2> HIDE DEF step, to
  <2> QED BY <2>1, <2>2, <2>3, PayRequestOpens
<1>5. ASSUME NEW p \in Payments PROVE ~ConfirmMockPayment(h, p)
  <2>1. "confirmPayment" \notin Endpoints
    BY DEF Serial, TwoStage
  <2>2. \A step : PayCall(step, "confirmPayment", p, "PAID").op = "confirmPayment"
    BY DEF PayCall, Idle
  <2> QED BY <2>1, <2>2 DEF ConfirmMockPayment, StartOrExpire, Begin
<1> QED BY <1>1, <1>2, <1>3, <1>4, <1>5 DEF CustomerRequest

LEMMA NamedMarks ==
  ASSUME NEW c \in Calls, NEW p, NEW portions \in SUBSET Portions, portions # {}
  PROVE  RefundCall(c, p, portions).payTo = Named(marked[p] \cup portions)
<1>1. RefundCall(c, p, portions).payTo =
        IF marked[p] \cup portions = Portions THEN "REFUNDED" ELSE "PARTIALLY_REFUNDED"
  BY DEF RefundCall, Calls
<1>2. marked[p] \cup portions # {} /\ Portions # {}
  BY DEF Portions
<1> QED BY <1>1, <1>2 DEF Named

LEMMA PaymentRequestOpens ==
  ASSUME Serial, Safe, RowsOK, NEW h \in Handlers, PaymentRequest(h)
  PROVE  Opens(h)
<1>1. ASSUME NEW p \in Payments, NEW to \in PayStatuses
      PROVE  ~HandleCallback(h, p, to) /\ ~UpdateStatus(h, p, to)
  <2>1. "callback" \notin Endpoints /\ "updateStatus" \notin Endpoints
    BY DEF Serial, TwoStage
  <2>2. \A step, op : PayCall(step, op, p, to).op = op
    BY DEF PayCall, Idle
  <2> QED BY <2>1, <2>2 DEF HandleCallback, UpdateStatus, Begin
<1>2. ASSUME NEW p \in Payments, CapturePayment(h, p) \/ ReleasePayment(h, p)
      PROVE  Opens(h)
  <2>1. PICK op \in {"capture", "release"} :
          /\ Row(p) /\ payStatus[p] = "AUTHORIZED"
          /\ Begin(h, PayCall("check", op, p, IF op = "capture" THEN "PAID" ELSE "CANCELLED"))
    BY <1>2 DEF CapturePayment, ReleasePayment, Row
  <2> DEFINE to == IF op = "capture" THEN "PAID" ELSE "CANCELLED"
  <2>2. /\ to \in PayStatuses /\ to = To(op, marked[p])
        /\ WithPayment(op, "check") /\ payStatus[p] \in From(op)
    BY <2>1 DEF PayStatuses, To, WithPayment, From
  <2>3. Begin(h, PayCall("check", op, p, to))
    BY <2>1
  <2> HIDE DEF to
  <2> QED BY <2>1, <2>2, <2>3, PayRequestOpens DEF Steps
<1>3. ASSUME NEW p \in Payments, NEW portions \in SUBSET Portions,
             SelectiveRefund(h, p, portions)
      PROVE  Opens(h)
  <2> DEFINE b == PayCall("provider", "refund", p, Keep)
             c == RefundCall(b, p, portions)
  <2>1. /\ Row(p) /\ Begin(h, c) /\ payStatus[p] \in Refundable
        /\ portions # {} /\ portions \cap marked[p] = {}
    BY <1>3 DEF SelectiveRefund, Row
  <2>2. b \in Calls /\ b.step = "provider" /\ b.op = "refund" /\ b.app = owner[p]
    BY PayCallIsACall DEF Safe, Steps, Operations
  <2>3. owner[p] \in Apps /\ p # NoPay
    BY <2>1, PaymentIsSome DEF Safe, TypeOK, Row
  <2> HIDE DEF b
  <2>4. /\ c \in Calls /\ c.step = "provider" /\ c.op = "refund" /\ c.app = owner[p]
        /\ c.pay = p /\ c.portions = portions /\ c.todo = portions
    BY <2>2, RefundCallIsACall
  <2>5. c.payTo = Named(marked[p] \cup portions)
    BY <2>1, <2>2, NamedMarks
  <2> HIDE DEF c
  <2>6. c # Idle
    BY <2>4 DEF Idle
  <2>7. PaymentFits(c)
    BY <2>1, <2>3, <2>4, <2>5 DEF PaymentFits, WithPayment, From, To
  <2>8. ApplicationFits(c)
    BY <2>3, <2>4 DEF ApplicationFits, Refunding, Ready
  <2>9. Fits(c) /\ Untouched(c)
    BY <2>4, <2>6, <2>7, <2>8 DEF Fits, Untouched
  <2> QED BY <2>1, <2>4, <2>6, <2>9 DEF Opens
<1> QED BY <1>1, <1>2, <1>3 DEF PaymentRequest

LEMMA OperatorRequestOpens ==
  ASSUME Serial, Safe, RowsOK, NEW h \in Handlers, OperatorRequest(h)
  PROVE  Opens(h)
<1>1. ASSUME NEW a \in Apps, NEW op \in {"accept", "cancel"}, NEW to \in AppStatuses,
             status[a] = "SUBMITTED", to = IF op = "accept" THEN "PROCESSING" ELSE "CANCELLED",
             Begin(h, AppCall("check", op, a, to))
      PROVE  Opens(h)
  <2>1. Ready(op, "check", a, to)
    BY <1>1 DEF Ready
  <2> QED BY <1>1, <2>1, AppRequestOpens DEF WithoutPayment, Operations
<1>2. ASSUME NEW a \in Apps, AcceptApplication(h, a) \/ CancelApplication(h, a)
      PROVE  Opens(h)
  BY <1>1, <1>2 DEF AcceptApplication, CancelApplication, AppStatuses
<1>3. ASSUME NEW a \in Apps, NEW op \in {"approve", "recompute", "issueVisa"},
             NEW to \in WorkedOn, status[a] \in WorkedOn,
             Begin(h, AppCall("write", op, a, to))
      PROVE  Opens(h)
  <2>1. Ready(op, "write", a, to)
    BY <1>3 DEF Ready
  <2> QED BY <1>3, <2>1, AppRequestOpens DEF WithoutPayment, Operations, WorkedOn, AppStatuses
<1>4. ASSUME NEW a \in Apps, ApproveApplication(h, a) \/ IssueVisa(h, a) PROVE Opens(h)
  BY <1>3, <1>4 DEF ApproveApplication, IssueVisa, WorkedOn
<1>5. ASSUME NEW a \in Apps, NEW to \in AppStatuses, RecomputeApplicationStatus(h, a, to)
      PROVE  Opens(h)
  BY <1>3, <1>5 DEF RecomputeApplicationStatus
<1>6. ASSUME NEW a \in Apps, NEW to \in AppStatuses, ChangeStatus(h, a, to)
      PROVE  Opens(h)
  <2>1. /\ \/ status[a] \in WorkedOn /\ to \in WorkedOn
           \/ status[a] \in {"DRAFT", "UNPAID"} /\ to = "CANCELLED"
        /\ Begin(h, AppCall("write", "changeStatus", a, to))
    BY <1>6 DEF ChangeStatus, StatusChanges, WorkedOn
  <2>2. Ready("changeStatus", "write", a, to)
    BY <2>1 DEF Ready
  <2> QED BY <2>1, <2>2, AppRequestOpens DEF WithoutPayment, Operations
<1>7. ASSUME NEW a \in Apps, NEW portions \in SUBSET Portions,
             RejectApplication(h, a, portions)
      PROVE  Opens(h)
  <2> DEFINE step == IF portions = {} THEN "write" ELSE "check"
             b == AppCall(step, "reject", a, "REJECTED")
             c == [b EXCEPT !.portions = portions]
  <2>1. Begin(h, c) /\ status[a] = "PROCESSING"
    BY <1>7 DEF RejectApplication
  <2>2. /\ step \in {"check", "write"} /\ (step = "check" => portions # {})
        /\ step \in Steps
    BY DEF Steps
  <2> HIDE DEF step, c
  <2>0. "reject" \in Operations /\ "REJECTED" \in AppStatuses \cup {Keep}
    BY DEF Operations, AppStatuses
  <2>3. /\ b \in Calls /\ b.step = step /\ b.op = "reject" /\ b.app = a /\ b.pay = NoPay
        /\ b.appTo = "REJECTED"
    BY <2>0, <2>2, AppCallIsACall
  <2> HIDE DEF b
  <2>4. /\ c \in Calls /\ c.step = step /\ c.op = "reject" /\ c.app = a /\ c.pay = NoPay
        /\ c.appTo = "REJECTED" /\ c.portions = portions
    BY <2>3 DEF Calls, c
  <2>5. c # Idle
    BY <2>4 DEF Idle
  <2>6. Ready("reject", step, a, "REJECTED")
    BY <2>1 DEF Ready, WorkedOn
  <2>7. Fits(c) /\ Untouched(c)
    BY <2>2, <2>4, <2>5, <2>6
       DEF Fits, PaymentFits, ApplicationFits, WithoutPayment, Refunding, Untouched
  <2> QED BY <2>1, <2>4, <2>5, <2>7 DEF Opens
<1> QED BY <1>2, <1>4, <1>5, <1>6, <1>7 DEF OperatorRequest

LEMMA RequestOpens ==
  ASSUME Serial, Safe, RowsOK, NEW h \in Handlers, Request(h)
  PROVE  Opens(h)
  BY CustomerRequestOpens, PaymentRequestOpens, OperatorRequestOpens DEF Request

-----------------------------------------------------------------------------
(* The second read moves the call on to a payment that fits it, or ends it.   *)

Moves(h) == \E d \in Calls : Advance(h, d) /\ Fits(d) /\ Untouched(d)

LEMMA IdleMoves ==
  ASSUME NEW h \in Handlers, Advance(h, Idle)
  PROVE  Moves(h)
<1>1. Untouched(Idle)
  BY DEF Untouched, Idle
<1> QED BY <1>1, IdleIsACall, IdleFits DEF Moves

LEMMA CheckOfAPaymentMoves ==
  ASSUME Safe, RowsOK, NEW h \in Handlers, NEW op \in {"capture", "release"},
         AssertManualPaymentActionAllowed(h, op)
  PROVE  Moves(h)
<1> DEFINE c == call[h]
           d == [c EXCEPT !.step = "provider"]
<1>1. c \in Calls /\ Fits(c)
  BY DEF Safe, TypeOK, RowsOK
<1>2. /\ c.op = op /\ c.step = "check"
      /\ Advance(h, Idle) \/ (status[c.app] # "SUBMITTED" /\ Advance(h, d))
  BY DEF AssertManualPaymentActionAllowed, Checking, At
<1> HIDE DEF c
<1>3. /\ d \in Calls /\ d.step = "provider" /\ d.op = c.op /\ d.app = c.app /\ d.pay = c.pay
      /\ d.appTo = c.appTo /\ d.payTo = c.payTo /\ d.portions = c.portions /\ d.todo = c.todo
  BY <1>1 DEF Calls, Steps
<1> HIDE DEF d
<1>4. c # Idle /\ c.op # "none"
  BY <1>1, <1>2 DEF Idle
<1>5. c.pay # NoPay /\ c.portions = {} /\ c.todo = {}
  BY <1>1, <1>2, <1>4 DEF Fits, ApplicationFits, WithoutPayment, Refunding
<1>6. d # Idle
  BY <1>3 DEF Idle
<1>7. PaymentFits(d) /\ Untouched(d)
  BY <1>1, <1>2, <1>3, <1>5 DEF Fits, PaymentFits, WithPayment, Refunding, Untouched
<1>8. ASSUME status[c.app] # "SUBMITTED" PROVE ApplicationFits(d)
  BY <1>1, <1>2, <1>3, <1>4, <1>5, <1>8 DEF Fits, ApplicationFits, Ready
<1>9. status[c.app] # "SUBMITTED" => Fits(d)
  BY <1>2, <1>3, <1>4, <1>6, <1>7, <1>8 DEF Fits
<1> QED BY <1>2, <1>3, <1>7, <1>9, IdleMoves DEF Moves

LEMMA CheckOfAnApplicationMoves ==
  ASSUME Safe, RowsOK, NEW h \in Handlers,
         \/ CheckSettled(h) \/ CheckNoActivePayment(h) \/ GetCapturedPayment(h)
         \/ GetAuthorizedPayment(h, "accept", "PAID")
         \/ GetAuthorizedPayment(h, "cancel", "CANCELLED")
  PROVE  Moves(h)
<1>0. PICK c \in Calls : c = call[h] /\ Fits(c)
  BY DEF Safe, TypeOK, RowsOK
<1>1. c.step = "check" /\ c.op \in {"submit", "createPayment", "reject", "accept", "cancel"}
  BY <1>0 DEF CheckSettled, CheckNoActivePayment, GetCapturedPayment, GetAuthorizedPayment,
              Checking, At
<1>2. c # Idle /\ c.op # "none"
  BY <1>1 DEF Idle
<1>3. c.pay = NoPay
  BY <1>0, <1>1 DEF Fits, PaymentFits, WithPayment
<1>4. c.app \in Apps /\ Ready(c.op, "check", c.app, c.appTo)
  BY <1>0, <1>1, <1>2 DEF Fits, ApplicationFits
<1>5. CASE CheckSettled(h)
  <2>1. c.op = "submit"
    BY <1>0, <1>5 DEF CheckSettled, Checking, At
  <2>2. status[c.app] \in {"DRAFT", "UNPAID"}
    BY <1>4, <2>1 DEF Ready
  <2>3. RowsOf(c.app)
    BY <1>4 DEF RowsOK, Rows
  <2>4. PaymentsIn(c.app, Settled) = {}
    BY <2>2, <2>3, Vocabulary DEF RowsOf, PaymentsIn, Settled, PayStatuses
  <2> QED BY <1>0, <1>5, <2>4, IdleMoves DEF CheckSettled
<1>6. CASE CheckNoActivePayment(h)
  <2>1. c.op = "createPayment"
    BY <1>0, <1>6 DEF CheckNoActivePayment, Checking, At
  <2>2. c.payTo = Keep /\ c.portions = {} /\ c.todo = {}
    BY <1>0, <1>2, <2>1 DEF Fits, ApplicationFits, Refunding
  <2>3. \/ Advance(h, Idle)
        \/ /\ PaymentsIn(c.app, Open \cup {"PAID"}) = {}
           /\ Advance(h, [c EXCEPT !.step = "write"])
        \/ \E p \in PaymentsIn(c.app, Open \cup {"PAID"}) :
             /\ payStatus[p] # "PAID"
             /\ Advance(h, [c EXCEPT !.step = "expire", !.pay = p])
    BY <1>0, <1>6 DEF CheckNoActivePayment
  <2>4. ASSUME PaymentsIn(c.app, Open \cup {"PAID"}) = {},
               Advance(h, [c EXCEPT !.step = "write"])
        PROVE  Moves(h)
    <3> DEFINE d == [c EXCEPT !.step = "write"]
    <3>1. /\ d \in Calls /\ d.step = "write" /\ d.op = c.op /\ d.app = c.app /\ d.pay = c.pay
          /\ d.appTo = c.appTo /\ d.payTo = c.payTo /\ d.portions = c.portions
          /\ d.todo = c.todo
      BY <1>0 DEF Calls, Steps
    <3>2. Advance(h, d)
      BY <2>4
    <3> HIDE DEF d
    <3>3. PaymentsIn(c.app, Open) = {}
      BY <2>4 DEF PaymentsIn
    <3>4. d # Idle
      BY <3>1 DEF Idle
    <3>5. Fits(d) /\ Untouched(d)
      BY <1>2, <1>3, <1>4, <2>1, <2>2, <3>1, <3>3, <3>4
         DEF Fits, PaymentFits, ApplicationFits, WithoutPayment, Ready, Untouched
    <3> QED BY <3>1, <3>2, <3>5 DEF Moves
  <2>5. ASSUME NEW p \in PaymentsIn(c.app, Open \cup {"PAID"}), payStatus[p] # "PAID",
               Advance(h, [c EXCEPT !.step = "expire", !.pay = p])
        PROVE  Moves(h)
    <3> DEFINE d == [c EXCEPT !.step = "expire", !.pay = p]
    <3>0. p \in Payments /\ owner[p] = c.app /\ payStatus[p] \in Open
      BY <2>5 DEF PaymentsIn
    <3>1. /\ d \in Calls /\ d.step = "expire" /\ d.op = c.op /\ d.app = c.app /\ d.pay = p
          /\ d.appTo = c.appTo /\ d.payTo = c.payTo /\ d.portions = c.portions
          /\ d.todo = c.todo
      BY <1>0, <3>0 DEF Calls, Steps
    <3>2. Advance(h, d)
      BY <2>5
    <3> HIDE DEF d
    <3>3. d # Idle
      BY <3>1 DEF Idle
    <3>4. PaymentFits(d) /\ Untouched(d)
      BY <1>4, <2>1, <2>2, <3>0, <3>1 DEF PaymentFits, WithPayment, From, To, Refunding, Untouched
    <3>5. ApplicationFits(d)
      BY <1>2, <1>4, <2>1, <2>2, <3>0, <3>1, PaymentIsSome DEF ApplicationFits, Ready
    <3>6. Fits(d)
      BY <1>2, <3>1, <3>3, <3>4, <3>5 DEF Fits
    <3> QED BY <3>1, <3>2, <3>4, <3>6 DEF Moves
  <2> QED BY <2>3, <2>4, <2>5, IdleMoves
<1>7. ASSUME NEW op \in {"accept", "cancel"}, NEW to \in PayStatuses,
             to = To(op, {}), GetAuthorizedPayment(h, op, to)
      PROVE  Moves(h)
  <2>1. c.op = op
    BY <1>0, <1>7 DEF GetAuthorizedPayment, Checking, At
  <2>2. c.portions = {} /\ c.todo = {}
    BY <1>0, <1>2, <2>1 DEF Fits, ApplicationFits, Refunding
  <2>3. \/ Advance(h, Idle)
        \/ \E p \in Latest(PaymentsIn(c.app, {"AUTHORIZED"})) :
             Advance(h, [c EXCEPT !.step = "provider", !.pay = p, !.payTo = to])
    BY <1>0, <1>7 DEF GetAuthorizedPayment
  <2>4. ASSUME NEW p \in Latest(PaymentsIn(c.app, {"AUTHORIZED"})),
               Advance(h, [c EXCEPT !.step = "provider", !.pay = p, !.payTo = to])
        PROVE  Moves(h)
    <3> DEFINE d == [c EXCEPT !.step = "provider", !.pay = p, !.payTo = to]
    <3>0. p \in Payments /\ owner[p] = c.app /\ payStatus[p] = "AUTHORIZED"
      BY <2>4 DEF PaymentsIn, Latest
    <3>1. /\ d \in Calls /\ d.step = "provider" /\ d.op = c.op /\ d.app = c.app /\ d.pay = p
          /\ d.appTo = c.appTo /\ d.payTo = to /\ d.portions = c.portions
          /\ d.todo = c.todo
      BY <1>0, <3>0 DEF Calls, Steps
    <3>2. Advance(h, d)
      BY <2>4
    <3> HIDE DEF d
    <3>3. d # Idle
      BY <3>1 DEF Idle
    <3>4. PaymentFits(d) /\ Untouched(d)
      <4>1. to = To(op, marked[p] \cup {})
        BY <1>7 DEF To
      <4> QED BY <1>4, <2>1, <2>2, <3>0, <3>1, <4>1
                 DEF PaymentFits, WithPayment, From, Refunding, Untouched
    <3>5. ApplicationFits(d)
      BY <1>2, <1>4, <2>1, <2>2, <3>0, <3>1, PaymentIsSome DEF ApplicationFits, Ready
    <3>6. Fits(d)
      BY <1>2, <3>1, <3>3, <3>4, <3>5 DEF Fits
    <3> QED BY <3>1, <3>2, <3>4, <3>6 DEF Moves
  <2> QED BY <2>3, <2>4, IdleMoves
<1>8. CASE GetAuthorizedPayment(h, "accept", "PAID")
           \/ GetAuthorizedPayment(h, "cancel", "CANCELLED")
  BY <1>7, <1>8 DEF To, PayStatuses
<1>9. CASE GetCapturedPayment(h)
  <2>1. c.op = "reject"
    BY <1>0, <1>9 DEF GetCapturedPayment, Checking, At
  <2>2. c.portions # {} /\ c.portions \in SUBSET Portions
    BY <1>0, <1>1, <1>2, <2>1 DEF Fits, ApplicationFits, Calls
  <2> DEFINE b == [c EXCEPT !.step = "provider"]
  <2>3. \/ Advance(h, Idle)
        \/ \E p \in Latest(PaymentsIn(c.app, Refundable)) :
             /\ c.portions \cap marked[p] = {}
             /\ Advance(h, RefundCall(b, p, c.portions))
    BY <1>0, <1>9 DEF GetCapturedPayment
  <2>4. /\ b \in Calls /\ b.step = "provider" /\ b.op = c.op /\ b.app = c.app
        /\ b.appTo = c.appTo
    BY <1>0 DEF Calls, Steps
  <2> HIDE DEF b
  <2>5. ASSUME NEW p \in Latest(PaymentsIn(c.app, Refundable)),
               c.portions \cap marked[p] = {}, Advance(h, RefundCall(b, p, c.portions))
        PROVE  Moves(h)
    <3> DEFINE d == RefundCall(b, p, c.portions)
    <3>0. p \in Payments /\ owner[p] = c.app /\ payStatus[p] \in Refundable
      BY <2>5 DEF PaymentsIn, Latest
    <3>1. /\ d \in Calls /\ d.step = "provider" /\ d.op = c.op /\ d.app = c.app /\ d.pay = p
          /\ d.appTo = c.appTo /\ d.portions = c.portions /\ d.todo = c.portions
      BY <2>2, <2>4, <3>0, RefundCallIsACall
    <3>2. d.payTo = Named(marked[p] \cup c.portions)
      BY <2>2, <2>4, NamedMarks
    <3>3. Advance(h, d)
      BY <2>5
    <3> HIDE DEF d
    <3>4. d # Idle
      BY <3>1 DEF Idle
    <3>5. PaymentFits(d) /\ Untouched(d)
      BY <1>4, <2>1, <2>2, <2>5, <3>0, <3>1, <3>2
         DEF PaymentFits, WithPayment, From, To, Refunding, Untouched
    <3>6. ApplicationFits(d)
      BY <1>2, <1>4, <2>1, <3>0, <3>1, PaymentIsSome DEF ApplicationFits, Ready, Refunding
    <3>7. Fits(d)
      BY <1>2, <3>1, <3>4, <3>5, <3>6 DEF Fits
    <3> QED BY <3>1, <3>3, <3>5, <3>7 DEF Moves
  <2> QED BY <2>3, <2>5, IdleMoves
<1> QED BY <1>5, <1>6, <1>8, <1>9

LEMMA CheckMoves ==
  ASSUME Safe, RowsOK, NEW h \in Handlers, Check(h)
  PROVE  Moves(h) /\ call[h].step = "check" /\ UNCHANGED <<apps, pays, ledger, overdue, faults>>
<1>1. Moves(h)
  BY CheckOfAPaymentMoves, CheckOfAnApplicationMoves DEF Check
<1>2. call[h].step = "check" /\ UNCHANGED <<apps, pays, ledger, overdue, faults>>
  BY DEF Check, CheckSettled, CheckNoActivePayment, AssertManualPaymentActionAllowed,
         GetAuthorizedPayment, GetCapturedPayment, Checking, At
<1> QED BY <1>1, <1>2

-----------------------------------------------------------------------------
(* A call to the provider leaves the rows alone, and the ledger of every      *)
(* payment but the one in hand.                                               *)

SameLedger(p) ==
  /\ held'[p] = held[p] /\ captured'[p] = captured[p]
  /\ released'[p] = released[p] /\ refunds'[p] = refunds[p]

Asks(h) ==
  \E d \in Calls :
    /\ Advance(h, d) /\ Fits(d)
    /\ Accounts(call[h]) => Accounts(d)'
    /\ \A p \in Payments : p # call[h].pay => SameLedger(p)
    /\ d.pay = call[h].pay

LEMMA NothingMarked == Named({}) = "PAID"
  BY DEF Named, Portions

LEMMA SettlementAsks ==
  ASSUME Safe, RowsOK, NEW h \in Handlers,
         ProviderAuthorize(h) \/ ProviderCapture(h) \/ ProviderRelease(h)
  PROVE  Asks(h)
<1>0. PICK c \in Calls : c = call[h] /\ Fits(c)
  BY DEF Safe, TypeOK, RowsOK
<1>1. /\ c.step = "provider" /\ c.op \in {"authorize", "capture", "accept", "release", "cancel"}
      /\ UNCHANGED <<apps, pays>>
  BY <1>0 DEF ProviderAuthorize, ProviderCapture, ProviderRelease, Calling, At
<1>2. c # Idle /\ c.op # "none" /\ c.op \notin Refunding
  BY <1>1 DEF Idle, Refunding
<1>3. c.pay # NoPay /\ c.portions = {} /\ c.todo = {}
  BY <1>0, <1>1, <1>2 DEF Fits, ApplicationFits, WithoutPayment
<1>4. /\ c.pay \in Payments /\ c.app \in Apps /\ owner[c.pay] = c.app
      /\ payStatus[c.pay] \in From(c.op) /\ c.payTo = To(c.op, marked[c.pay] \cup {})
  BY <1>0, <1>3 DEF Fits, PaymentFits, Calls
<1> DEFINE d == [c EXCEPT !.step = "write"]
<1>5. Advance(h, d)
  BY <1>0 DEF ProviderAuthorize, ProviderCapture, ProviderRelease
<1>6. /\ d \in Calls /\ d.step = "write" /\ d.op = c.op /\ d.app = c.app /\ d.pay = c.pay
      /\ d.appTo = c.appTo /\ d.payTo = c.payTo /\ d.portions = {} /\ d.todo = {}
  BY <1>0, <1>3 DEF Calls, Steps
<1> HIDE DEF d
<1>7. Fits(d)
  <2>1. d # Idle
    BY <1>6 DEF Idle
  <2>2. PaymentFits(d)
    BY <1>0, <1>1, <1>2, <1>3, <1>6 DEF Fits, PaymentFits, WithPayment
  <2>3. ApplicationFits(d)
    BY <1>0, <1>1, <1>2, <1>3, <1>6 DEF Fits, ApplicationFits, Ready
  <2> QED BY <1>2, <1>6, <2>1, <2>2, <2>3 DEF Fits
<1>8. \A p \in Payments : p # c.pay => SameLedger(p)
  BY <1>0 DEF Safe, TypeOK, SameLedger, ProviderAuthorize, ProviderCapture, ProviderRelease
<1>9. ASSUME Accounts(c) PROVE Accounts(d)'
  <2>1. Agrees(payStatus[c.pay], marked[c.pay], marked[c.pay], c.pay)
    <3>1. marked[c.pay] \cup ({} \ {}) = marked[c.pay]
      OBVIOUS
    <3> QED BY <1>1, <1>3, <1>9, <3>1 DEF Accounts
  <2>2. payStatus[c.pay] \notin Taken /\ marked[c.pay] = {}
    <3>1. payStatus[c.pay] \in Open \cup {"AUTHORIZED"}
      BY <1>1, <1>4 DEF From
    <3>2. payStatus[c.pay] \notin Taken
      BY <3>1, Vocabulary DEF Open
    <3> QED BY <2>1, <3>2 DEF Agrees
  <2>3. /\ marked'[c.pay] = {} /\ Named({}) = "PAID"
        /\ \A f \in Portions : refunds[c.pay][f] = 0
        /\ captured[c.pay] = 0
    <3>1. marked'[c.pay] = {}
      BY <1>1, <2>2 DEF pays
    <3>2. captured[c.pay] = 0
      BY <2>1, <2>2 DEF Agrees
    <3>3. \A f \in Portions : refunds[c.pay][f] = 0
      BY <2>1, <2>2 DEF Agrees
    <3> QED BY <3>1, <3>2, <3>3, NothingMarked
  <2>4. Agrees(c.payTo, {}, {}, c.pay)'
    <3>1. CASE ProviderAuthorize(h)
      <4>1. c.op = "authorize"
        BY <1>0, <3>1 DEF ProviderAuthorize, Calling, At
      <4>2. payStatus[c.pay] \notin Moved /\ c.payTo = "AUTHORIZED"
        BY <1>4, <4>1, Vocabulary DEF From, To, Open
      <4>3. released[c.pay] = 0
        BY <2>1, <4>2, Vocabulary DEF Agrees
      <4>4. /\ held'[c.pay] = TRUE /\ captured' = captured /\ released' = released
            /\ refunds' = refunds
        BY <1>0, <1>4, <3>1 DEF ProviderAuthorize, Safe, TypeOK
      <4> QED BY <2>3, <4>2, <4>3, <4>4, Vocabulary DEF Agrees
    <3>2. CASE ProviderCapture(h)
      <4>1. c.op \in {"capture", "accept"}
        BY <1>0, <3>2 DEF ProviderCapture, Calling, At
      <4>2. payStatus[c.pay] = "AUTHORIZED" /\ c.payTo = "PAID"
        BY <1>4, <4>1 DEF From, To
      <4>3. released[c.pay] = 0 /\ held[c.pay] = TRUE
        BY <2>1, <4>2, Vocabulary DEF Agrees
      <4>4. /\ captured'[c.pay] = 1 /\ held' = held /\ released' = released
            /\ refunds' = refunds
        BY <1>0, <1>4, <2>3, <3>2 DEF ProviderCapture, Safe, TypeOK, AtMost2
      <4> QED BY <2>3, <4>2, <4>3, <4>4, Vocabulary DEF Agrees
    <3>3. CASE ProviderRelease(h)
      <4>1. c.op \in {"release", "cancel"}
        BY <1>0, <3>3 DEF ProviderRelease, Calling, At
      <4>2. payStatus[c.pay] = "AUTHORIZED" /\ c.payTo = "CANCELLED"
        BY <1>4, <4>1 DEF From, To
      <4>3. released[c.pay] = 0 /\ held[c.pay] = TRUE
        BY <2>1, <4>2, Vocabulary DEF Agrees
      <4>4. /\ released'[c.pay] = 1 /\ held' = held /\ captured' = captured
            /\ refunds' = refunds
        BY <1>0, <1>4, <4>3, <3>3 DEF ProviderRelease, Safe, TypeOK, AtMost2
      <4> QED BY <2>3, <4>2, <4>3, <4>4, Vocabulary DEF Agrees
    <3> QED BY <3>1, <3>2, <3>3
  <2>5. marked'[c.pay] \cup {} = {}
    BY <2>3
  <2> QED BY <1>6, <2>4, <2>5 DEF Accounts
<1> QED BY <1>0, <1>5, <1>6, <1>7, <1>8, <1>9 DEF Asks

LEMMA RefundAsks ==
  ASSUME Safe, RowsOK, NEW h \in Handlers, ProviderRefund(h)
  PROVE  Asks(h)
<1>0. PICK c \in Calls : c = call[h] /\ Fits(c)
  BY DEF Safe, TypeOK, RowsOK
<1>1. c.step = "provider" /\ c.op \in Refunding /\ UNCHANGED <<apps, pays>>
  BY <1>0 DEF ProviderRefund, Calling, At, Refunding
<1>2. c # Idle /\ c.op # "none"
  BY <1>1 DEF Idle, Refunding
<1>3. c.pay # NoPay
  BY <1>0, <1>1, <1>2 DEF Fits, ApplicationFits, WithoutPayment, Refunding
<1>4. /\ c.pay \in Payments /\ payStatus[c.pay] \in Refundable
      /\ c.payTo = Named(marked[c.pay] \cup c.portions)
      /\ c.portions \in SUBSET Portions /\ c.portions \cap marked[c.pay] = {}
      /\ c.todo # {} /\ c.todo \subseteq c.portions
  BY <1>0, <1>1, <1>3 DEF Fits, PaymentFits, Calls, Refunding, From, To
<1> DEFINE portion == IF "government" \in c.todo THEN "government" ELSE "service"
           left == c.todo \ {portion}
           step == IF left = {} THEN "write" ELSE "provider"
           d == [c EXCEPT !.todo = left, !.step = step]
<1>5. portion \in c.todo /\ portion \in Portions
  BY <1>4 DEF Portions
<1>6. Advance(h, d)
  <2>1. d = [c EXCEPT !.todo = left, !.step = IF left = {} THEN "write" ELSE c.step]
    BY <1>1
  <2> QED BY <1>0, <2>1 DEF ProviderRefund
<1>7. /\ step = "write" \/ (step = "provider" /\ left # {})
      /\ step = "write" => left = {}
      /\ left = c.todo \ {portion}
  OBVIOUS
<1>8. /\ d \in Calls /\ d.step = step /\ d.op = c.op /\ d.app = c.app /\ d.pay = c.pay
      /\ d.appTo = c.appTo /\ d.payTo = c.payTo /\ d.portions = c.portions /\ d.todo = left
  <2>1. step \in Steps /\ left \in SUBSET Portions
    BY <1>4, <1>7 DEF Steps
  <2> HIDE DEF step, left
  <2> QED BY <1>0, <2>1 DEF Calls
<1>9. refunds' = [refunds EXCEPT ![c.pay] =
                    [refunds[c.pay] EXCEPT ![portion] = AtMost2(refunds[c.pay][portion])]]
      /\ UNCHANGED <<held, captured, released>>
  BY <1>0 DEF ProviderRefund
<1> HIDE DEF d, step, left, portion
<1>10. Fits(d)
  <2>1. d # Idle
    BY <1>8, <1>2, <1>7 DEF Idle
  <2>2. PaymentFits(d)
    <3>1. WithPayment(d.op, d.step)
      BY <1>1, <1>7, <1>8 DEF WithPayment, Refunding
    <3> QED BY <1>0, <1>1, <1>3, <1>4, <1>7, <1>8, <3>1 DEF Fits, PaymentFits
  <2>3. ApplicationFits(d)
    BY <1>0, <1>1, <1>2, <1>3, <1>7, <1>8 DEF Fits, ApplicationFits, Ready, Refunding
  <2> QED BY <1>2, <1>7, <1>8, <2>1, <2>2, <2>3 DEF Fits
<1>11. \A p \in Payments : p # c.pay => SameLedger(p)
  BY <1>9 DEF Safe, TypeOK, SameLedger
<1>12. ASSUME Accounts(c) PROVE Accounts(d)'
  <2> DEFINE done == marked[c.pay] \cup (c.portions \ c.todo)
             now == marked[c.pay] \cup (c.portions \ left)
  <2>1. Agrees(payStatus[c.pay], marked[c.pay], done, c.pay)
    BY <1>1, <1>3, <1>12 DEF Accounts
  <2>2. portion \notin done /\ now = done \cup {portion}
    BY <1>4, <1>5, <1>7
  <2>3. refunds[c.pay] \in [Portions -> 0 .. 2]
    BY <1>4 DEF Safe, TypeOK
  <2>4. refunds[c.pay][portion] = 0
    BY <1>5, <2>1, <2>2 DEF Agrees
  <2>5. refunds'[c.pay] = [refunds[c.pay] EXCEPT ![portion] = 1]
    BY <1>4, <1>9, <2>4 DEF Safe, TypeOK, AtMost2
  <2>6. \A f \in Portions : refunds'[c.pay][f] = IF f \in now THEN 1 ELSE 0
    BY <2>1, <2>2, <2>3, <2>5 DEF Agrees
  <2>7. payStatus[c.pay] \in Taken /\ payStatus[c.pay] \in Moved /\ payStatus[c.pay] # "CANCELLED"
    BY <1>4, Vocabulary DEF Refundable
  <2>8. held'[c.pay] = TRUE /\ captured'[c.pay] = 1 /\ released'[c.pay] = 0
    BY <1>9, <2>1, <2>7 DEF Agrees
  <2>9. CASE step = "provider"
    <3>1. d.step # "write" /\ payStatus' = payStatus /\ marked' = marked
      BY <1>1, <1>8, <2>9 DEF pays
    <3>2. payStatus[c.pay] = Named(marked[c.pay])
      BY <2>1, <2>7 DEF Agrees
    <3>3. Agrees(payStatus[c.pay], marked[c.pay], now, c.pay)'
      BY <1>8, <2>6, <2>7, <2>8, <3>1, <3>2 DEF Agrees
    <3> QED BY <1>3, <1>8, <3>1, <3>3 DEF Accounts
  <2>10. CASE step = "write"
    <3> DEFINE m == marked[c.pay] \cup c.portions
    <3>1. now = m
      BY <1>7, <2>10
    <3>2. c.payTo = Named(m) /\ Named(m) \in Taken /\ Named(m) \in Moved /\ Named(m) # "CANCELLED"
      BY <1>4, Vocabulary DEF Named
    <3>3. marked' = marked
      BY <1>1 DEF pays
    <3>4. Agrees(c.payTo, m, m, c.pay)'
      BY <2>6, <2>8, <3>1, <3>2, <3>3 DEF Agrees
    <3> QED BY <1>8, <2>10, <3>3, <3>4 DEF Accounts
  <2> QED BY <1>7, <2>9, <2>10
<1> QED BY <1>0, <1>6, <1>8, <1>10, <1>11, <1>12 DEF Asks

LEMMA ProviderAsks ==
  ASSUME Safe, RowsOK, NEW h \in Handlers, Provider(h)
  PROVE  Asks(h) /\ call[h].step = "provider" /\ UNCHANGED <<apps, pays, overdue, faults>>
<1>1. Asks(h)
  BY SettlementAsks, RefundAsks DEF Provider
<1>2. call[h].step = "provider" /\ UNCHANGED <<apps, pays, overdue, faults>>
  BY DEF Provider, ProviderAuthorize, ProviderCapture, ProviderRelease, ProviderRefund,
         Calling, At
<1> QED BY <1>1, <1>2

-----------------------------------------------------------------------------
(* The transactions: what each leaves behind fits its application.            *)

\* One payment of application a goes to status s, and a's own fields with it.
LEMMA PaymentWritten ==
  ASSUME Safe, Rows, NEW a \in Apps, NEW p \in Payments, owner[p] = a, NEW s \in PayStatuses,
         owner' = owner, payStatus' = [payStatus EXCEPT ![p] = s],
         s \in Open => payStatus[p] \in Open,
         \A q \in Payments \ {p} : marked'[q] = marked[q],
         \A b \in Apps \ {a} : status'[b] = status[b] /\ appPay'[b] = appPay[b],
         RowsOf(a)', Mirrors(a)'
  PROVE  Rows'
<1>1. payStatus'[p] = s /\ \A q \in Payments \ {p} : payStatus'[q] = payStatus[q]
  BY DEF Safe, TypeOK
<1>2. ASSUME NEW b \in Apps, b # a PROVE RowsOf(b)' /\ Mirrors(b)'
  <2>1. \A S : PaymentsIn(b, S)' = PaymentsIn(b, S)
    BY <1>1, <1>2 DEF PaymentsIn
  <2>2. status'[b] = status[b] /\ appPay'[b] = appPay[b] /\ RowsOf(b) /\ Mirrors(b)
    BY <1>2 DEF Rows
  <2>3. RowsOf(b)'
    BY <2>1, <2>2 DEF RowsOf
  <2>4. PaymentsIn(b, {appPay[b]})' = PaymentsIn(b, {appPay[b]})
    BY <1>1, <1>2, <2>2 DEF PaymentsIn
  <2>5. Mirrors(b)'
    BY <2>2, <2>4 DEF Mirrors
  <2> QED BY <2>3, <2>5
<1>3. OneActivePayment'
  BY <1>1 DEF Rows, OneActivePayment, Row
<1>4. Fresh'
  <2>1. Row(p)
    BY NoAppAssumption DEF Row
  <2> QED BY <1>1, <2>1 DEF Rows, Fresh, Row
<1> QED BY <1>2, <1>3, <1>4 DEF Rows

\* A payment nobody has paid changes status and stays unpaid.
LEMMA OpenRewritten ==
  ASSUME Safe, Rows, NEW a \in Apps, NEW p \in Payments, owner[p] = a,
         payStatus[p] \in Open, NEW s \in {"PENDING", "EXPIRED"},
         UNCHANGED <<apps, owner, marked>>, payStatus' = [payStatus EXCEPT ![p] = s]
  PROVE  Rows'
<1>1. \A q \in Payments : payStatus'[q] = IF q = p THEN s ELSE payStatus[q]
  BY DEF Safe, TypeOK
<1>2. status' = status /\ appPay' = appPay
  BY DEF apps
<1>3. RowsOf(a) /\ Mirrors(a)
  BY DEF Rows
<1>4. PaymentsIn(a, PayStatuses)' = PaymentsIn(a, PayStatuses)
  BY <1>1 DEF PaymentsIn, PayStatuses, Open
<1>5. ASSUME NEW S \in SUBSET PayStatuses, S \cap (Open \cup {"EXPIRED"}) = {}
      PROVE  PaymentsIn(a, S)' = PaymentsIn(a, S)
  <2>1. s \notin S /\ payStatus[p] \notin S
    BY <1>5 DEF Open
  <2> QED BY <1>1, <2>1 DEF PaymentsIn
<1>6. /\ PaymentsIn(a, Moved)' = PaymentsIn(a, Moved)
      /\ PaymentsIn(a, {"AUTHORIZED"})' = PaymentsIn(a, {"AUTHORIZED"})
      /\ PaymentsIn(a, Taken)' = PaymentsIn(a, Taken)
  BY <1>5, Vocabulary DEF PayStatuses, Open
<1>7. status[a] # "EXPIRED"
  BY <1>3 DEF RowsOf, PaymentsIn
<1>8. RowsOf(a)'
  BY <1>2, <1>3, <1>4, <1>6, <1>7 DEF RowsOf
<1>9. Mirrors(a)'
  <2>1. CASE appPay[a] = "PENDING"
    BY <1>2, <2>1 DEF Mirrors
  <2>2. CASE appPay[a] # "PENDING"
    <3>1. PICK q \in Payments : owner[q] = a /\ payStatus[q] = appPay[a] /\ appPay[a] \notin Open
      BY <1>3, <1>7, <2>2 DEF Mirrors, PaymentsIn
    <3>2. payStatus'[q] = appPay[a]
      BY <1>1, <3>1
    <3> QED BY <1>2, <3>1, <3>2 DEF Mirrors, PaymentsIn, Payments
  <2> QED BY <2>1, <2>2
<1>10. s \in PayStatuses
  BY DEF PayStatuses
<1> QED BY <1>2, <1>8, <1>9, <1>10, PaymentWritten

\* An authorized or captured payment changes status, its application follows,
\* and the application is past the first decision.
LEMMA MoneyMoved ==
  ASSUME Safe, Rows, NEW a \in Apps, NEW p \in Payments, owner[p] = a,
         NEW s \in PayStatuses, s \notin Open, owner' = owner,
         NEW t \in WorkedOn \cup {"CANCELLED"},
         payStatus' = [payStatus EXCEPT ![p] = s],
         appPay' = [appPay EXCEPT ![a] = s],
         status' = [status EXCEPT ![a] = t],
         \A q \in Payments \ {p} : marked'[q] = marked[q]
  PROVE  Rows'
<1>1. payStatus'[p] = s /\ appPay'[a] = s /\ status'[a] = t
  BY DEF Safe, TypeOK
<1>2. RowsOf(a)'
  BY <1>1 DEF RowsOf, WorkedOn
<1>3. Mirrors(a)'
  <2>1. p \in PaymentsIn(a, {appPay[a]})'
    BY <1>1 DEF PaymentsIn
  <2> QED BY <1>1, <2>1 DEF Mirrors
<1>4. \A b \in Apps \ {a} : status'[b] = status[b] /\ appPay'[b] = appPay[b]
  BY DEF Safe, TypeOK
<1> QED BY <1>2, <1>3, <1>4, PaymentWritten

\* An unpaid payment is authorized: its application leaves UNPAID.
LEMMA MoneyHeld ==
  ASSUME Safe, Rows, NEW a \in Apps, NEW p \in Payments, owner[p] = a,
         payStatus[p] \in Open, owner' = owner, marked' = marked,
         payStatus' = [payStatus EXCEPT ![p] = "AUTHORIZED"],
         appPay' = [appPay EXCEPT ![a] = "AUTHORIZED"],
         status' = [status EXCEPT ![a] = IF @ = "UNPAID" THEN "SUBMITTED" ELSE @]
  PROVE  Rows'
<1>1. /\ \A q \in Payments : payStatus'[q] = IF q = p THEN "AUTHORIZED" ELSE payStatus[q]
      /\ appPay'[a] = "AUTHORIZED"
      /\ status'[a] = IF status[a] = "UNPAID" THEN "SUBMITTED" ELSE status[a]
  BY DEF Safe, TypeOK
<1>2. RowsOf(a)
  BY DEF Rows
<1>3. status[a] # "DRAFT" /\ status[a] # "EXPIRED"
  BY <1>2 DEF RowsOf, PaymentsIn, Open, PayStatuses
<1>4. p \in PaymentsIn(a, {"AUTHORIZED"})'
  BY <1>1 DEF PaymentsIn
<1>5. PaymentsIn(a, Taken)' \subseteq PaymentsIn(a, Taken)
  BY <1>1, Vocabulary DEF PaymentsIn
<1>6. status[a] \in {"UNPAID", "SUBMITTED"} => PaymentsIn(a, Taken) = {}
  BY <1>2, Vocabulary DEF RowsOf, PaymentsIn
<1>7. RowsOf(a)'
  BY <1>1, <1>3, <1>4, <1>5, <1>6 DEF RowsOf
<1>8. Mirrors(a)'
  <2>1. p \in PaymentsIn(a, {appPay[a]})'
    BY <1>1 DEF PaymentsIn
  <2> QED BY <1>1, <2>1 DEF Mirrors, Open
<1>9. \A b \in Apps \ {a} : status'[b] = status[b] /\ appPay'[b] = appPay[b]
  BY DEF Safe, TypeOK
<1> QED BY <1>7, <1>8, <1>9, PaymentWritten DEF PayStatuses, Open

\* Only the application's status is written.
LEMMA StatusWritten ==
  ASSUME Safe, Rows, NEW a \in Apps, NEW t \in WorkedOn \cup {"CANCELLED", "UNPAID"},
         status[a] # "EXPIRED", t = "UNPAID" => status[a] = "DRAFT",
         status' = [status EXCEPT ![a] = t],
         UNCHANGED <<appPay, owner, payStatus, marked>>
  PROVE  Rows'
<1>1. \A b, S : PaymentsIn(b, S)' = PaymentsIn(b, S)
  BY DEF PaymentsIn
<1>2. status'[a] = t /\ \A b \in Apps \ {a} : status'[b] = status[b]
  BY DEF Safe, TypeOK
<1>3. ASSUME NEW b \in Apps PROVE RowsOf(b)'
  <2>1. RowsOf(b)
    BY DEF Rows
  <2>2. t = "UNPAID" => PaymentsIn(a, Moved) = {}
    BY DEF Rows, RowsOf, PaymentsIn, PayStatuses, Safe, TypeOK
  <2> QED BY <1>1, <1>2, <2>1, <2>2 DEF RowsOf, WorkedOn
<1>4. ASSUME NEW b \in Apps PROVE Mirrors(b)'
  <2>1. Mirrors(b)
    BY DEF Rows
  <2>2. PaymentsIn(b, {appPay[b]})' = PaymentsIn(b, {appPay[b]})
    BY DEF PaymentsIn
  <2> QED BY <1>2, <2>1, <2>2 DEF Mirrors
<1>5. OneActivePayment' /\ Fresh'
  BY DEF Rows, OneActivePayment, Fresh, Row
<1> QED BY <1>3, <1>4, <1>5 DEF Rows

\* What a handler about to write has in hand.
LEMMA InHand ==
  ASSUME Safe, RowsOK, NEW h \in Handlers, NEW c \in Calls, c = call[h],
         c.step \in {"write", "expire"}
  PROVE  /\ c # Idle /\ c.op # "none" /\ c.app \in Apps
         /\ Ready(c.op, c.step, c.app, c.appTo)
         /\ c.op \notin Refunding => c.portions = {}
         /\ c.pay = NoPay => WithoutPayment(c.op, c.step)
         /\ c.pay # NoPay => /\ WithPayment(c.op, c.step)
                             /\ c.pay \in Payments /\ owner[c.pay] = c.app
                             /\ payStatus[c.pay] \in From(c.op)
                             /\ c.payTo = To(c.op, marked[c.pay] \cup c.portions)
<1>1. Fits(c) /\ c # Idle /\ c.op # "none"
  BY DEF RowsOK, Fits, Idle
<1> QED BY <1>1 DEF Fits, PaymentFits, ApplicationFits, Calls


LEMMA WriteKeepsRows ==
  ASSUME Safe, RowsOK, NEW h \in Handlers, Write(h)
  PROVE  Rows'
<1>0. PICK c \in Calls : c = call[h]
  BY DEF Safe, TypeOK
<1>1. Rows /\ \A a \in Apps : RowsOf(a)
  BY DEF RowsOK, Rows
<1>2. c.step \in {"write", "expire"}
  BY <1>0 DEF Write, ExpireLapsed, WriteUnpaid, WriteStatus, InsertPayment, WritePayment,
              WriteFlip, WriteSync, WriteDecision, Writing, At
<1>3. /\ c.app \in Apps /\ Ready(c.op, c.step, c.app, c.appTo)
      /\ c.op \notin Refunding => c.portions = {}
      /\ c.pay = NoPay => WithoutPayment(c.op, c.step)
      /\ c.pay # NoPay => /\ WithPayment(c.op, c.step)
                          /\ c.pay \in Payments /\ owner[c.pay] = c.app
                          /\ payStatus[c.pay] \in From(c.op)
                          /\ c.payTo = To(c.op, marked[c.pay] \cup c.portions)
  BY <1>0, <1>2, InHand
<1>4. ASSUME c.pay # NoPay, payStatus[c.pay] \in Moved
      PROVE  status[c.app] \in WorkedOn \cup {"SUBMITTED", "CANCELLED"}
  <2>1. status[c.app] \in AppStatuses /\ RowsOf(c.app) /\ owner[c.pay] = c.app /\ c.pay \in Payments
    BY <1>1, <1>3, <1>4 DEF Safe, TypeOK
  <2>2. Moved \subseteq PayStatuses
    BY Vocabulary DEF PayStatuses
  <2>3. \A S : Moved \subseteq S => PaymentsIn(c.app, S) # {}
    BY <1>4, <2>1 DEF PaymentsIn
  <2>4. status[c.app] \notin {"DRAFT", "UNPAID", "EXPIRED"}
    BY <2>1, <2>2, <2>3 DEF RowsOf
  <2> QED BY <2>1, <2>4 DEF AppStatuses, WorkedOn
<1>5. CASE ExpireLapsed(h)
  <2>1. c.step = "expire" /\ payStatus' = [payStatus EXCEPT ![c.pay] = "EXPIRED"]
        /\ UNCHANGED <<apps, owner, marked>>
    BY <1>0, <1>5 DEF ExpireLapsed
  <2>2. c.pay # NoPay
    BY <1>3, <2>1 DEF WithoutPayment
  <2>3. payStatus[c.pay] \in Open
    BY <1>3, <2>1, <2>2 DEF WithPayment, From
  <2> QED BY <1>1, <1>3, <2>1, <2>2, <2>3, OpenRewritten
<1>6. CASE WritePayment(h)
  <2>1. /\ c.step = "write" /\ c.op = "initialize"
        /\ payStatus' = [payStatus EXCEPT ![c.pay] = c.payTo]
        /\ UNCHANGED <<apps, owner, marked>>
    <3>1. c.step = "write" /\ c.op \in {"initialize", "callback", "updateStatus"}
      BY <1>0, <1>6 DEF WritePayment, Writing, At
    <3>2. c.op = "initialize"
      BY <1>3, <3>1 DEF WithPayment, WithoutPayment
    <3> QED BY <1>0, <1>6, <3>1, <3>2 DEF WritePayment
  <2>2. c.pay # NoPay
    BY <1>3, <2>1 DEF WithoutPayment
  <2>3. payStatus[c.pay] \in Open /\ c.payTo = "PENDING"
    BY <1>3, <2>1, <2>2 DEF From, To
  <2> QED BY <1>1, <1>3, <2>1, <2>2, <2>3, OpenRewritten
<1>7. CASE WriteUnpaid(h) \/ WriteStatus(h)
  <2>1. /\ c.step = "write"
        /\ c.op \in {"submitForReview", "submit", "approve", "changeStatus", "recompute", "issueVisa"}
        /\ status' = [status EXCEPT ![c.app] = c.appTo]
        /\ UNCHANGED <<appPay, owner, payStatus, marked>>
    BY <1>0, <1>7 DEF WriteUnpaid, WriteStatus, Writing, At, pays
  <2>2. c.op # "submit"
    BY <1>3, <2>1 DEF WithoutPayment, WithPayment
  <2>3. /\ c.appTo \in WorkedOn \cup {"CANCELLED", "UNPAID"}
        /\ status[c.app] # "EXPIRED"
        /\ c.appTo = "UNPAID" => status[c.app] = "DRAFT"
    BY <1>3, <2>1, <2>2 DEF Ready, WorkedOn
  <2> QED BY <1>1, <1>3, <2>1, <2>3, StatusWritten
<1>8. CASE InsertPayment(h)
  <2>1. PICK p \in Payments :
          owner[p] = NoApp /\ owner' = [owner EXCEPT ![p] = call[h].app]
    BY <1>8 DEF InsertPayment
  <2>2. /\ c.step = "write" /\ c.op = "createPayment"
        /\ UNCHANGED <<apps, payStatus, marked>>
    BY <1>0, <1>8 DEF InsertPayment, Writing, At
  <2>3. PaymentsIn(c.app, Open) = {}
    <3>1. Fits(c) /\ c.op # "none"
      BY <1>0, <2>2 DEF RowsOK
    <3> QED BY <2>2, <3>1 DEF Fits, ApplicationFits
  <2>4. payStatus[p] = "CREATED" /\ payStatus' = payStatus /\ marked' = marked
        /\ status' = status /\ appPay' = appPay
    BY <1>1, <2>1, <2>2 DEF Rows, Fresh, Row, apps
  <2>5. \A q \in Payments : owner'[q] = IF q = p THEN c.app ELSE owner[q]
    BY <1>0, <2>1 DEF Safe, TypeOK
  <2>6. status[c.app] \in {"UNPAID", "SUBMITTED"}
    BY <1>3, <2>2 DEF Ready
  <2>7. \A a \in Apps, S \in SUBSET PayStatuses :
          "CREATED" \notin S => PaymentsIn(a, S)' = PaymentsIn(a, S)
    <3> TAKE a \in Apps, S \in SUBSET PayStatuses
    <3> HAVE "CREATED" \notin S
    <3> QED BY <2>1, <2>4, <2>5, NoAppAssumption DEF PaymentsIn
  <2>8. ASSUME NEW a \in Apps PROVE RowsOf(a)'
    <3>1. RowsOf(a)
      BY <1>1
    <3>2. /\ PaymentsIn(a, Moved)' = PaymentsIn(a, Moved)
          /\ PaymentsIn(a, {"AUTHORIZED"})' = PaymentsIn(a, {"AUTHORIZED"})
          /\ PaymentsIn(a, Taken)' = PaymentsIn(a, Taken)
      BY <2>7, Vocabulary DEF PayStatuses
    <3>3. CASE a = c.app
      BY <2>4, <2>6, <3>1, <3>2, <3>3 DEF RowsOf
    <3>4. CASE a # c.app
      <4>1. \A S : PaymentsIn(a, S)' = PaymentsIn(a, S)
        BY <2>1, <2>4, <2>5, <3>4, NoAppAssumption DEF PaymentsIn
      <4> QED BY <2>4, <3>1, <4>1 DEF RowsOf
    <3> QED BY <3>3, <3>4
  <2>9. ASSUME NEW a \in Apps PROVE Mirrors(a)'
    <3>1. Mirrors(a) /\ appPay[a] \in PayStatuses
      BY <1>1 DEF Rows, Safe, TypeOK
    <3>2. appPay[a] \notin Open =>
            PaymentsIn(a, {appPay[a]})' = PaymentsIn(a, {appPay[a]})
      BY <2>1, <2>4, <2>5, NoAppAssumption DEF PaymentsIn, Open
    <3> QED BY <2>4, <3>1, <3>2 DEF Mirrors
  <2>10. OneActivePayment'
    <3>1. \A q \in Payments : owner[q] = c.app => payStatus[q] \notin Open
      BY <2>3 DEF PaymentsIn
    <3> QED BY <1>1, <2>4, <2>5, <3>1 DEF Rows, OneActivePayment, Row
  <2>11. Fresh'
    BY <1>1, <1>3, <2>4, <2>5, NoAppAssumption DEF Rows, Fresh, Row
  <2> QED BY <2>8, <2>9, <2>10, <2>11 DEF Rows
<1>9. CASE WriteFlip(h)
  <2>1. /\ c.step = "write"
        /\ c.op \in {"authorize", "capture", "confirmPayment", "callback", "updateStatus"}
    BY <1>0, <1>9 DEF WriteFlip, Writing, At
  <2>2. c.op \in {"authorize", "capture"}
    BY <1>3, <2>1 DEF WithPayment, WithoutPayment
  <2>3. c.pay # NoPay
    BY <1>3, <2>2 DEF WithoutPayment
  <2>4. /\ payStatus' = [payStatus EXCEPT ![c.pay] = c.payTo]
        /\ appPay' = [appPay EXCEPT ![c.app] = c.payTo]
        /\ status' = [status EXCEPT ![c.app] = IF @ = "UNPAID" THEN "SUBMITTED" ELSE @]
        /\ owner' = owner /\ marked' = marked
    BY <1>0, <1>9, <2>2 DEF WriteFlip
  <2>5. CASE c.op = "authorize"
    <3>1. payStatus[c.pay] \in Open /\ c.payTo = "AUTHORIZED"
      BY <1>3, <2>3, <2>5 DEF From, To
    <3> QED BY <1>1, <1>3, <2>3, <2>4, <3>1, MoneyHeld
  <2>6. CASE c.op = "capture"
    <3>1. payStatus[c.pay] = "AUTHORIZED" /\ c.payTo = "PAID" /\ status[c.app] # "SUBMITTED"
      BY <1>3, <2>1, <2>3, <2>6 DEF From, To, Ready
    <3>2. status[c.app] \in WorkedOn \cup {"CANCELLED"}
      BY <1>4, <2>3, <3>1, Vocabulary
    <3>3. status' = [status EXCEPT ![c.app] = status[c.app]]
      BY <2>4, <3>2 DEF WorkedOn
    <3>4. c.payTo \in PayStatuses /\ c.payTo \notin Open
      BY <3>1 DEF PayStatuses, Open
    <3> QED BY <1>1, <1>3, <2>3, <2>4, <3>2, <3>3, <3>4, MoneyMoved
  <2> QED BY <2>2, <2>5, <2>6
<1>10. CASE WriteSync(h)
  <2>1. c.step = "write" /\ c.op \in {"release", "refund"}
    BY <1>0, <1>10 DEF WriteSync, Writing, At
  <2>2. c.pay # NoPay
    BY <1>3, <2>1 DEF WithoutPayment
  <2>3. /\ payStatus' = [payStatus EXCEPT ![c.pay] = c.payTo]
        /\ appPay' = [appPay EXCEPT ![c.app] = c.payTo]
        /\ status' = status /\ owner' = owner
        /\ marked' = [marked EXCEPT ![c.pay] = @ \cup c.portions]
    BY <1>0, <1>10 DEF WriteSync
  <2>4. /\ payStatus[c.pay] \in Moved /\ c.payTo \in PayStatuses /\ c.payTo \notin Open
        /\ status[c.app] # "SUBMITTED"
    <3>1. CASE c.op = "release"
      BY <1>3, <2>1, <2>2, <3>1, Vocabulary DEF From, To, PayStatuses, Open, Ready
    <3>2. CASE c.op = "refund"
      <4>1. payStatus[c.pay] \in Refundable /\ c.payTo = Named(marked[c.pay] \cup c.portions)
        BY <1>3, <2>2, <3>2 DEF From, To
      <4>2. c.payTo \in PayStatuses \ Open
        BY <4>1 DEF Named, PayStatuses, Open
      <4>3. status[c.app] # "SUBMITTED"
        BY <1>1, <1>3, <2>2, <4>1, Vocabulary DEF RowsOf, PaymentsIn, Refundable
      <4> QED BY <4>1, <4>2, <4>3, Vocabulary DEF Refundable
    <3> QED BY <2>1, <3>1, <3>2
  <2>5. status[c.app] \in WorkedOn \cup {"CANCELLED"}
    BY <1>4, <2>2, <2>4
  <2>6. status' = [status EXCEPT ![c.app] = status[c.app]]
    BY <2>3 DEF Safe, TypeOK
  <2>7. \A q \in Payments \ {c.pay} : marked'[q] = marked[q]
    BY <2>3 DEF Safe, TypeOK
  <2> QED BY <1>1, <1>3, <2>2, <2>3, <2>4, <2>5, <2>6, <2>7, MoneyMoved
<1>11. CASE WriteDecision(h)
  <2>1. c.step = "write" /\ c.op \in {"accept", "cancel", "reject"}
        /\ status' = [status EXCEPT ![c.app] = c.appTo] /\ owner' = owner
    BY <1>0, <1>11 DEF WriteDecision, Writing, At
  <2>2. c.appTo \in WorkedOn \cup {"CANCELLED"} /\ status[c.app] # "EXPIRED"
    BY <1>3, <2>1 DEF Ready, WorkedOn
  <2>3. CASE c.pay = NoPay
    <3>1. UNCHANGED <<appPay, owner, payStatus, marked>>
      BY <1>0, <1>11, <2>3 DEF WriteDecision
    <3>2. c.appTo # "UNPAID"
      BY <2>2 DEF WorkedOn
    <3> QED BY <1>1, <1>3, <2>1, <2>2, <3>1, <3>2, StatusWritten
  <2>4. CASE c.pay # NoPay
    <3>1. /\ payStatus' = [payStatus EXCEPT ![c.pay] = c.payTo]
          /\ appPay' = [appPay EXCEPT ![c.app] = c.payTo]
          /\ marked' = [marked EXCEPT ![c.pay] = @ \cup c.portions]
      BY <1>0, <1>11, <2>4 DEF WriteDecision
    <3>2. c.payTo \in PayStatuses \ Open
      BY <1>3, <2>1, <2>4 DEF To, Named, PayStatuses, Open
    <3>3. \A q \in Payments \ {c.pay} : marked'[q] = marked[q]
      BY <3>1 DEF Safe, TypeOK
    <3> QED BY <1>1, <1>3, <2>1, <2>2, <2>4, <3>1, <3>2, <3>3, MoneyMoved
  <2> QED BY <2>3, <2>4
<1> QED
  BY <1>5, <1>6, <1>7, <1>8, <1>9, <1>10, <1>11 DEF Write

LEMMA WriteLeaves ==
  ASSUME Safe, RowsOK, NEW h \in Handlers, Write(h)
  PROVE  /\ call[h] # Idle /\ UNCHANGED <<ledger, overdue, faults>>
         /\ \E d \in Calls : Advance(h, d) /\ Fits(d)' /\ d.pay = NoPay
<1>0. PICK c \in Calls : c = call[h]
  BY DEF Safe, TypeOK
<1>1. c.step \in {"write", "expire"} /\ UNCHANGED <<ledger, overdue, faults>>
  BY <1>0 DEF Write, ExpireLapsed, WriteUnpaid, WriteStatus, InsertPayment, WritePayment,
              WriteFlip, WriteSync, WriteDecision, Writing, At
<1>2. call[h] # Idle
  BY <1>0, <1>1 DEF Idle
<1>3. ASSUME Advance(h, Idle)
      PROVE  \E d \in Calls : Advance(h, d) /\ Fits(d)' /\ d.pay = NoPay
  <2>1. Idle.pay = NoPay
    BY DEF Idle
  <2> QED BY <1>3, <2>1, IdleIsACall, IdleFits
<1>4. CASE ~ExpireLapsed(h)
  <2>1. Advance(h, Idle)
    BY <1>4 DEF Write, WriteUnpaid, WriteStatus, InsertPayment, WritePayment, WriteFlip,
                WriteSync, WriteDecision, Writing, Finish, Advance
  <2> QED BY <1>1, <1>2, <1>3, <2>1
<1>5. CASE ExpireLapsed(h) /\ c.op # "createPayment"
  <2>1. Advance(h, Idle)
    BY <1>0, <1>5 DEF ExpireLapsed
  <2> QED BY <1>1, <1>2, <1>3, <2>1
<1>6. CASE ExpireLapsed(h) /\ c.op = "createPayment"
  <2> DEFINE d == [c EXCEPT !.step = "write", !.pay = NoPay]
  <2>1. /\ c.step = "expire" /\ Advance(h, d)
        /\ payStatus' = [payStatus EXCEPT ![c.pay] = "EXPIRED"]
        /\ status' = status /\ owner' = owner
    BY <1>0, <1>6 DEF ExpireLapsed, apps
  <2>2. /\ c.app \in Apps /\ Ready(c.op, "expire", c.app, c.appTo)
        /\ c.pay = NoPay => WithoutPayment(c.op, "expire")
        /\ c.pay # NoPay => /\ c.pay \in Payments /\ owner[c.pay] = c.app
                            /\ payStatus[c.pay] \in From(c.op)
    BY <1>0, <2>1, InHand
  <2>3. Fits(c) /\ c.op # "none"
    BY <1>0, <1>6 DEF RowsOK
  <2>4. c.payTo = Keep /\ c.portions = {} /\ c.todo = {}
    BY <1>6, <2>3 DEF Fits, ApplicationFits, Refunding
  <2>5. c.pay \in Payments /\ owner[c.pay] = c.app /\ payStatus[c.pay] \in Open
    BY <1>6, <2>2 DEF WithoutPayment, From
  <2>6. \A q \in Payments : owner[q] = c.app /\ payStatus[q] \in Open => q = c.pay
    BY <2>2, <2>5, NoAppAssumption DEF RowsOK, Rows, OneActivePayment, Row
  <2>7. PaymentsIn(c.app, Open)' = {}
    BY <2>1, <2>6 DEF PaymentsIn, Open, Safe, TypeOK
  <2>8. Ready(c.op, "write", c.app, c.appTo)'
    BY <1>6, <2>1, <2>2 DEF Ready
  <2>9. /\ d \in Calls /\ d.step = "write" /\ d.op = c.op /\ d.app = c.app /\ d.pay = NoPay
        /\ d.appTo = c.appTo /\ d.payTo = c.payTo /\ d.portions = c.portions
        /\ d.todo = c.todo
    BY <1>0 DEF Calls, Steps
  <2> HIDE DEF d
  <2>10. d # Idle
    BY <2>9 DEF Idle
  <2>11. Fits(d)'
    BY <1>6, <2>2, <2>4, <2>7, <2>8, <2>9, <2>10
       DEF Fits, PaymentFits, ApplicationFits, WithoutPayment
  <2> QED BY <1>1, <1>2, <2>1, <2>9, <2>11
<1> QED BY <1>4, <1>5, <1>6

-----------------------------------------------------------------------------
(* One step.                                                                  *)

\* A handler's step: it was alone, or starts alone, and stays so.
LEMMA HandlerStaysAlone ==
  ASSUME Safe, RowsOK, NEW h \in Handlers, NEW d \in Calls,
         call[h] # Idle \/ (overdue = {} /\ \A g \in Handlers : call[g] = Idle),
         Advance(h, d), Fits(d)', overdue' = overdue, Rows'
  PROVE  RowsOK'
<1>1. overdue = {} /\ \A g \in Handlers : g # h => call[g] = Idle
  BY DEF RowsOK, Alone
<1>2. \A g \in Handlers : call'[g] = IF g = h THEN d ELSE Idle
  BY <1>1 DEF Advance, Safe, TypeOK
<1>3. Alone'
  BY <1>1, <1>2 DEF Alone
<1>4. ASSUME NEW g \in Handlers PROVE Fits(call[g])'
  BY <1>2, IdleFits DEF Fits, PaymentFits, ApplicationFits
<1> QED BY <1>3, <1>4 DEF RowsOK

LEMMA SweepKeepsRows ==
  ASSUME Safe, RowsOK, NEW a \in Apps, SweepExpire(a)
  PROVE  RowsOK'
<1>0. a \in overdue /\ Overdue(a) /\ \A h \in Handlers : call[h] = Idle
  BY DEF SweepExpire, RowsOK, Alone
<1>1. /\ \A b \in Apps : /\ status'[b] = IF b = a THEN "EXPIRED" ELSE status[b]
                         /\ appPay'[b] = IF b = a THEN "EXPIRED" ELSE appPay[b]
      /\ \A p \in Payments : payStatus'[p] = IF owner[p] = a /\ payStatus[p] \in Open
                                             THEN "EXPIRED" ELSE payStatus[p]
      /\ overdue' = overdue \ {a} /\ UNCHANGED <<window, owner, marked, call>>
  BY DEF SweepExpire, PaymentsIn, Safe, TypeOK
<1>2. PaymentsIn(a, Moved) = {}
  BY <1>0 DEF Overdue, RowsOK, Rows, RowsOf
<1>3. \A b, S : b # a => PaymentsIn(b, S)' = PaymentsIn(b, S)
  BY <1>1 DEF PaymentsIn
<1>4. RowsOf(a)' /\ Mirrors(a)'
  <2>1. PaymentsIn(a, Open \cup Moved)' = {}
    BY <1>1, <1>2, Vocabulary DEF PaymentsIn, Open
  <2> QED BY <1>1, <2>1 DEF RowsOf, Mirrors
<1>5. ASSUME NEW b \in Apps, b # a PROVE RowsOf(b)' /\ Mirrors(b)'
  <2>1. RowsOf(b) /\ Mirrors(b) /\ status'[b] = status[b] /\ appPay'[b] = appPay[b]
    BY <1>1, <1>5 DEF RowsOK, Rows
  <2>2. PaymentsIn(b, {appPay[b]})' = PaymentsIn(b, {appPay[b]})
    BY <1>1, <1>5, <2>1 DEF PaymentsIn
  <2>3. RowsOf(b)'
    BY <1>3, <1>5, <2>1 DEF RowsOf
  <2>4. Mirrors(b)'
    BY <2>1, <2>2 DEF Mirrors
  <2> QED BY <2>3, <2>4
<1>6. OneActivePayment' /\ Fresh'
  BY <1>1, NoAppAssumption DEF RowsOK, Rows, OneActivePayment, Fresh, Row, Open
<1>7. Rows'
  BY <1>4, <1>5, <1>6 DEF Rows
<1>8. Alone'
  <2>1. \A b \in overdue : b # a => Overdue(b)'
    BY <1>1, <1>3 DEF RowsOK, Alone, Overdue, Safe, TypeOK
  <2> QED BY <1>0, <1>1, <2>1 DEF Alone
<1>9. \A h \in Handlers : Fits(call[h])'
  BY <1>0, <1>1, IdleFits DEF Fits, PaymentFits, ApplicationFits
<1> QED BY <1>7, <1>8, <1>9 DEF RowsOK

LEMMA RowsAreInductive ==
  ASSUME Serial, Safe, RowsOK, [Next]_vars
  PROVE  RowsOK'
<1>1. ASSUME NEW h \in Handlers, Request(h) PROVE RowsOK'
  <2>1. PICK c \in Calls : Begin(h, c) /\ Fits(c)
    BY <1>1, RequestOpens DEF Opens
  <2>2. /\ UNCHANGED <<status, appPay, owner, payStatus, marked>> /\ overdue' = overdue
        /\ Advance(h, c)
    BY <2>1 DEF Begin, Advance, apps, pays
  <2>3. overdue = {} /\ \A g \in Handlers : call[g] = Idle
    BY <2>1, QuietIsIdle
  <2>4. Fits(c)' /\ Rows'
    BY <2>1, <2>2, SameRowsFit, SameRowsStay DEF RowsOK
  <2> QED BY <2>2, <2>3, <2>4, HandlerStaysAlone
<1>2. ASSUME NEW h \in Handlers, Check(h) \/ Provider(h) PROVE RowsOK'
  <2>1. PICK d \in Calls : Advance(h, d) /\ Fits(d)
    BY <1>2, CheckMoves, ProviderAsks DEF Moves, Asks
  <2>2. /\ UNCHANGED <<status, appPay, owner, payStatus, marked>> /\ overdue' = overdue
        /\ call[h] # Idle
    BY <1>2, CheckMoves, ProviderAsks DEF apps, pays, Idle
  <2>3. Fits(d)' /\ Rows'
    BY <2>1, <2>2, SameRowsFit, SameRowsStay DEF RowsOK
  <2> QED BY <2>1, <2>2, <2>3, HandlerStaysAlone
<1>3. ASSUME NEW h \in Handlers, Write(h) PROVE RowsOK'
  BY <1>3, WriteLeaves, WriteKeepsRows, HandlerStaysAlone
<1>4. ASSUME NEW h \in Handlers, CallFails(h) PROVE RowsOK'
  <2>1. /\ UNCHANGED <<status, appPay, owner, payStatus, marked>> /\ overdue' = overdue
        /\ Advance(h, Idle) /\ call[h] # Idle
    BY <1>4 DEF CallFails, Finish, Advance, apps, pays, Idle
  <2>2. Rows'
    BY <2>1, SameRowsStay DEF RowsOK
  <2> QED BY <2>1, <2>2, IdleFits, IdleIsACall, HandlerStaysAlone
<1>5. ASSUME UNCHANGED <<status, appPay, owner, payStatus, marked>>, call' = call, Alone'
      PROVE  RowsOK'
  <2>1. Rows'
    BY <1>5, SameRowsStay DEF RowsOK
  <2>2. ASSUME NEW h \in Handlers PROVE Fits(call[h])'
    <3>1. PICK c \in Calls : c = call[h] /\ Fits(c)
      BY DEF Safe, TypeOK, RowsOK
    <3>2. Fits(c)' /\ call'[h] = c
      BY <1>5, <3>1, SameRowsFit
    <3> QED BY <3>2 DEF Fits, PaymentFits, ApplicationFits
  <2> QED BY <1>5, <2>1, <2>2 DEF RowsOK
<1>6. ASSUME NEW a \in Apps, WindowCloses(a) PROVE RowsOK'
  <2>1. \A b \in overdue : Overdue(b) => Overdue(b)'
    BY <1>6 DEF WindowCloses, Overdue, PaymentsIn, Safe, TypeOK
  <2>2. Alone'
    BY <1>6, <2>1 DEF WindowCloses, RowsOK, Alone
  <2> QED BY <1>5, <1>6, <2>2 DEF WindowCloses
<1>7. CASE SweepRead
  <2>1. UNCHANGED <<status, appPay, window, owner, payStatus, marked, call>>
    BY <1>7 DEF SweepRead, apps, pays
  <2>2. \A h \in Handlers : call[h] = Idle
    BY <1>7 DEF SweepRead, Serial, Quiet, RowsOK, Fits
  <2>3. \A b \in overdue' : Overdue(b)'
    BY <1>7, <2>1 DEF SweepRead, Overdue, PaymentsIn
  <2>4. Alone'
    BY <2>1, <2>2, <2>3 DEF Alone
  <2> QED BY <1>5, <2>1, <2>4
<1>8. CASE (\E a \in Apps : SweepSkips(a)) \/ UNCHANGED vars
  <2>1. UNCHANGED <<status, appPay, window, owner, payStatus, marked, call>>
        /\ overdue' \subseteq overdue
    BY <1>8 DEF SweepSkips, vars, apps, pays
  <2>2. \A b \in overdue' : Overdue(b)'
    BY <2>1 DEF RowsOK, Alone, Overdue, PaymentsIn
  <2>3. Alone'
    BY <2>1, <2>2 DEF RowsOK, Alone
  <2> QED BY <1>5, <2>1, <2>3
<1>9. CASE Restart
  <2>1. /\ UNCHANGED <<status, appPay, owner, payStatus, marked>> /\ overdue' = {}
        /\ \A h \in Handlers : call'[h] = Idle
    BY <1>9 DEF Restart, apps, pays
  <2>2. Rows'
    BY <2>1, SameRowsStay DEF RowsOK
  <2>3. Alone' /\ \A h \in Handlers : Fits(call[h])'
    BY <2>1, IdleFits DEF Alone, Fits, PaymentFits, ApplicationFits
  <2> QED BY <2>2, <2>3 DEF RowsOK
<1> QED
  BY <1>1, <1>2, <1>3, <1>4, <1>6, <1>7, <1>8, <1>9, SweepKeepsRows DEF Next

LEMMA InitRowsAreOK == Init => RowsOK
<1> SUFFICES ASSUME Init PROVE RowsOK
  OBVIOUS
<1>1. \A h \in Handlers : call[h] = Idle
  BY DEF Init
<1>2. \A p \in Payments : owner[p] = NoApp /\ payStatus[p] = "CREATED" /\ marked[p] = {}
  BY DEF Init
<1>3. \A a \in Apps : status[a] = "DRAFT" /\ appPay[a] = "PENDING"
  BY DEF Init
<1>4. \A a \in Apps : \A S : PaymentsIn(a, S) = {}
  BY <1>2, NoAppAssumption DEF PaymentsIn
<1>5. Rows
  BY <1>2, <1>3, <1>4 DEF Rows, RowsOf, Mirrors, OneActivePayment, Fresh, Row
<1>6. Alone
  BY <1>1 DEF Init, Alone
<1> QED BY <1>1, <1>5, <1>6, IdleFits DEF RowsOK

LEMMA RowsAlwaysOK ==
  ASSUME Serial
  PROVE  Spec => [](Safe /\ RowsOK)
<1>1. Init => Safe /\ RowsOK
  BY InitIsSafe, InitRowsAreOK
<1>2. Safe /\ RowsOK /\ [Next]_vars => (Safe /\ RowsOK)'
  BY SafeIsInductive, RowsAreInductive
<1> QED
  BY <1>1, <1>2, PTL DEF Spec

\* One request at a time and whatever fails, the duplicate prevention rule of
\* payments.create holds: no two unfinished payments of one application.
THEOREM OneUnfinishedPayment ==
  ASSUME Serial
  PROVE  Spec => []OneActivePayment
<1>1. RowsOK => OneActivePayment
  BY DEF RowsOK, Rows
<1> QED BY <1>1, RowsAlwaysOK, PTL

\* One request at a time and whatever fails, application.paymentStatus tells
\* the truth: it is the status of one of the application's own payments.
THEOREM ApplicationTellsTheTruth ==
  ASSUME Serial
  PROVE  Spec => []AppMirrorsAPayment
<1>1. RowsOK => AppMirrorsAPayment
  BY DEF RowsOK, Rows, Mirrors, AppMirrorsAPayment
<1> QED BY <1>1, RowsAlwaysOK, PTL

\* One request at a time and whatever fails, no submitted application is
\* stranded: both decisions find the authorized payment they require.
THEOREM NobodyIsStranded ==
  ASSUME Serial
  PROVE  Spec => []SubmittedCanBeDecided
<1>1. RowsOK => SubmittedCanBeDecided
  BY DEF RowsOK, Rows, RowsOf, SubmittedCanBeDecided
<1> QED BY <1>1, RowsAlwaysOK, PTL

Terminal == {"EXPIRED", "CANCELLED", "REFUNDED"}

LEMMA WriteLeavesTerminal ==
  ASSUME Safe, RowsOK, NEW h \in Handlers, Write(h),
         NEW p \in Payments, payStatus[p] \in Terminal
  PROVE  payStatus'[p] = payStatus[p]
<1>0. PICK c \in Calls : c = call[h]
  BY DEF Safe, TypeOK
<1>1. c.step \in {"write", "expire"}
  BY <1>0 DEF Write, ExpireLapsed, WriteUnpaid, WriteStatus, InsertPayment, WritePayment,
              WriteFlip, WriteSync, WriteDecision, Writing, At
<1>2. c.pay # NoPay => payStatus[c.pay] \in From(c.op)
  BY <1>0, <1>1, InHand
<1>3. c.pay # p
  BY <1>2, PaymentIsSome DEF From, Terminal, Open, Refundable
<1>4. \/ payStatus' = payStatus
      \/ payStatus' = [payStatus EXCEPT ![c.pay] = "EXPIRED"]
      \/ payStatus' = [payStatus EXCEPT ![c.pay] = c.payTo]
  BY <1>0 DEF Write, ExpireLapsed, WriteUnpaid, WriteStatus, InsertPayment, WritePayment,
              WriteFlip, WriteSync, WriteDecision, pays
<1> QED BY <1>3, <1>4 DEF Safe, TypeOK

LEMMA OnlyWritesWrite ==
  ASSUME Safe, RowsOK, Serial, [Next]_vars, \A h \in Handlers : ~Write(h),
         \A a \in Apps : ~SweepExpire(a)
  PROVE  UNCHANGED <<status, appPay, owner, payStatus, marked>>
<1>1. ASSUME NEW h \in Handlers, Request(h)
      PROVE  UNCHANGED <<status, appPay, owner, payStatus, marked>>
  BY <1>1, RequestOpens DEF Opens, Begin, apps, pays
<1>2. ASSUME NEW h \in Handlers, Check(h) \/ Provider(h) \/ CallFails(h)
      PROVE  UNCHANGED <<status, appPay, owner, payStatus, marked>>
  BY <1>2, CheckMoves, ProviderAsks DEF CallFails, apps, pays
<1>3. ASSUME NEW a \in Apps, WindowCloses(a) \/ SweepSkips(a)
      PROVE  UNCHANGED <<status, appPay, owner, payStatus, marked>>
  BY <1>3 DEF WindowCloses, SweepSkips, apps, pays
<1>4. CASE SweepRead \/ Restart \/ UNCHANGED vars
  BY <1>4 DEF SweepRead, Restart, vars, apps, pays
<1> QED BY <1>1, <1>2, <1>3, <1>4 DEF Next

\* One request at a time and whatever fails, a payment that is EXPIRED,
\* CANCELLED or REFUNDED stays that (the table of isValidTransition, which the
\* two-stage flow writes past).
THEOREM TerminalIsForGood ==
  ASSUME Serial
  PROVE  Spec => TerminalPaymentsStay
<1> DEFINE Stays == \A p \in Payments : Row(p) /\ payStatus[p] \in Terminal
                                          => payStatus'[p] = payStatus[p]
<1>1. Safe /\ RowsOK /\ [Next]_vars => Stays
  <2> SUFFICES ASSUME Safe, RowsOK, [Next]_vars, NEW p \in Payments,
                      payStatus[p] \in Terminal
               PROVE  payStatus'[p] = payStatus[p]
    OBVIOUS
  <2>1. CASE \E h \in Handlers : Write(h)
    BY <2>1, WriteLeavesTerminal
  <2>2. CASE \E a \in Apps : SweepExpire(a)
    BY <2>2 DEF SweepExpire, PaymentsIn, Open, Terminal, Safe, TypeOK
  <2>3. CASE (\A h \in Handlers : ~Write(h)) /\ (\A a \in Apps : ~SweepExpire(a))
    BY <2>3, OnlyWritesWrite
  <2> QED BY <2>1, <2>2, <2>3
<1>2. Safe /\ RowsOK /\ [Next]_vars => [Stays]_vars
  BY <1>1
<1>3. Spec => [][Stays]_vars
  BY <1>2, RowsAlwaysOK, PTL DEF Spec
<1> QED BY <1>3 DEF TerminalPaymentsStay, Terminal

-----------------------------------------------------------------------------
(* Where no request fails, the rows account for the provider's ledger.        *)

Faultless == Serial /\ MaxFaults = 0

LEMMA SameLedgerAgrees ==
  ASSUME UNCHANGED <<payStatus, marked, ledger>>
  PROVE  /\ \A c \in Calls : Accounts(c)' <=> Accounts(c)
         /\ \A p \in Payments : AtRest(p)' <=> AtRest(p)
<1>1. \A s, m, r, p : Agrees(s, m, r, p)' <=> Agrees(s, m, r, p)
  BY DEF Agrees, ledger
<1> QED BY <1>1 DEF Accounts, AtRest

\* Only the payment in hand can be ahead of its row.
LEMMA OthersAtRest ==
  ASSUME Safe, RowsOK, Accounted, NEW h \in Handlers, call[h] # Idle,
         NEW p \in Payments, p # call[h].pay
  PROVE  AtRest(p)
<1>1. \A g \in Handlers : g # h => call[g].pay = NoPay
  BY DEF RowsOK, Alone, Idle
<1> QED BY <1>1, PaymentIsSome DEF Accounted

LEMMA AllAtRest ==
  ASSUME Safe, RowsOK, Accounted, NEW p \in Payments,
         \/ \A g \in Handlers : call[g] = Idle
         \/ \E h \in Handlers : call[h].step = "check"
  PROVE  AtRest(p)
<1>1. CASE \A g \in Handlers : call[g] = Idle
  BY <1>1, PaymentIsSome DEF Accounted, Idle
<1>2. ASSUME NEW h \in Handlers, call[h].step = "check" PROVE AtRest(p)
  <2>0. PICK c \in Calls : c = call[h] /\ Fits(c) /\ Accounts(c)
    BY DEF Safe, TypeOK, RowsOK, Accounted
  <2>1. c # Idle
    BY <1>2, <2>0 DEF Idle
  <2>2. CASE p # c.pay
    BY <2>0, <2>1, <2>2, OthersAtRest
  <2>3. CASE p = c.pay
    <3>1. c.portions = {}
      BY <1>2, <2>0, <2>1, <2>3, PaymentIsSome
         DEF Fits, PaymentFits, ApplicationFits, WithPayment, Refunding
    <3>2. marked[p] \cup (c.portions \ c.todo) = marked[p]
      BY <3>1
    <3> QED BY <1>2, <2>0, <2>3, <3>2, PaymentIsSome DEF Accounts, AtRest
  <2> QED BY <2>2, <2>3
<1> QED BY <1>1, <1>2

LEMMA UntouchedAccounts ==
  ASSUME NEW c \in Calls, Fits(c), Untouched(c), c.pay # NoPay => AtRest(c.pay)
  PROVE  Accounts(c)
<1> SUFFICES ASSUME c.pay # NoPay PROVE Accounts(c)
  BY DEF Accounts
<1>1. CASE c.step = "write"
  <2>1. /\ c.op = "initialize" /\ c.portions = {}
        /\ payStatus[c.pay] \in Open /\ c.payTo = "PENDING"
    BY <1>1 DEF Untouched, Fits, PaymentFits, From, To
  <2>2. payStatus[c.pay] \notin Moved /\ payStatus[c.pay] \notin Taken
        /\ payStatus[c.pay] # "CANCELLED"
        /\ c.payTo \notin Moved /\ c.payTo \notin Taken /\ c.payTo # "CANCELLED"
    BY <2>1, Vocabulary DEF Open
  <2>3. marked[c.pay] \cup c.portions = marked[c.pay]
    BY <2>1
  <2> QED BY <1>1, <2>2, <2>3 DEF Accounts, AtRest, Agrees
<1>2. CASE c.step # "write"
  <2>1. marked[c.pay] \cup (c.portions \ c.todo) = marked[c.pay]
    BY DEF Untouched
  <2> QED BY <1>2, <2>1 DEF Accounts, AtRest
<1> QED BY <1>1, <1>2

LEMMA HandlerAccounts ==
  ASSUME Safe, RowsOK, NEW h \in Handlers, NEW d \in Calls,
         call[h] # Idle \/ \A g \in Handlers : call[g] = Idle,
         Advance(h, d), Accounts(d)',
         \A p \in Payments : p # d.pay => AtRest(p)'
  PROVE  Accounted'
<1>1. \A g \in Handlers : call'[g] = IF g = h THEN d ELSE Idle
  BY DEF Advance, Safe, TypeOK, RowsOK, Alone
<1>2. ASSUME NEW g \in Handlers PROVE Accounts(call[g])'
  <2>1. CASE g = h
    BY <1>1, <2>1 DEF Accounts
  <2>2. CASE g # h
    BY <1>1, <2>2 DEF Accounts, Idle
  <2> QED BY <2>1, <2>2
<1>3. ASSUME NEW p \in Payments PROVE (AtRest(p) \/ \E g \in Handlers : call[g].pay = p)'
  BY <1>1
<1> QED BY <1>2, <1>3 DEF Accounted, Payments

\* What a transaction writes is what the provider did.
LEMMA WriteAccounts ==
  ASSUME Safe, RowsOK, Accounted, NEW h \in Handlers, Write(h), NEW p \in Payments
  PROVE  AtRest(p)'
<1>0. PICK c \in Calls : c = call[h] /\ Accounts(c)
  BY DEF Safe, TypeOK, Accounted
<1>1. c.step \in {"write", "expire"} /\ UNCHANGED ledger
  BY <1>0 DEF Write, ExpireLapsed, WriteUnpaid, WriteStatus, InsertPayment, WritePayment,
              WriteFlip, WriteSync, WriteDecision, Writing, At
<1>2. /\ c # Idle
      /\ c.op \notin Refunding => c.portions = {}
      /\ c.pay = NoPay => WithoutPayment(c.op, c.step)
      /\ c.pay # NoPay => /\ WithPayment(c.op, c.step) /\ c.pay \in Payments
                          /\ payStatus[c.pay] \in From(c.op)
  BY <1>0, <1>1, InHand
<1>3. \A s, m, r, q : Agrees(s, m, r, q)' <=> Agrees(s, m, r, q)
  BY <1>1 DEF Agrees, ledger
<1>4. p # c.pay => AtRest(p)
  BY <1>0, <1>2, OthersAtRest
<1>5. ASSUME payStatus'[p] = payStatus[p], marked'[p] = marked[p], p # c.pay
      PROVE  AtRest(p)'
  BY <1>3, <1>4, <1>5 DEF AtRest
<1>6. CASE ExpireLapsed(h)
  <2>1. /\ c.step = "expire" /\ marked' = marked
        /\ payStatus' = [payStatus EXCEPT ![c.pay] = "EXPIRED"]
    BY <1>0, <1>6 DEF ExpireLapsed
  <2>2. CASE p = c.pay
    <3>1. payStatus[p] \in Open /\ c.portions = {}
      BY <1>2, <2>1, <2>2, PaymentIsSome DEF WithPayment, From, Refunding
    <3>2. Agrees(payStatus[p], marked[p], marked[p], p)
      <4>1. marked[p] \cup (c.portions \ c.todo) = marked[p]
        BY <3>1
      <4> QED BY <1>0, <2>1, <2>2, <4>1, PaymentIsSome DEF Accounts
    <3>3. Agrees("EXPIRED", marked[p], marked[p], p)
      BY <3>1, <3>2, Vocabulary DEF Agrees, Open
    <3>4. payStatus'[p] = "EXPIRED" /\ marked'[p] = marked[p]
      BY <2>1, <2>2 DEF Safe, TypeOK
    <3> QED BY <1>3, <3>3, <3>4 DEF AtRest
  <2>3. CASE p # c.pay
    BY <1>5, <2>1, <2>3 DEF Safe, TypeOK
  <2> QED BY <2>2, <2>3
<1>7. CASE WriteUnpaid(h) \/ WriteStatus(h) \/ InsertPayment(h)
  <2>1. /\ payStatus' = payStatus /\ marked' = marked
        /\ c.step = "write"
        /\ c.op \in {"submitForReview", "submit", "createPayment", "approve", "changeStatus",
                     "recompute", "issueVisa"}
    BY <1>0, <1>7 DEF WriteUnpaid, WriteStatus, InsertPayment, Writing, At, pays
  <2>2. c.pay = NoPay
    BY <1>2, <2>1 DEF WithPayment
  <2> QED BY <1>5, <2>1, <2>2, PaymentIsSome
<1>8. CASE WritePayment(h) \/ WriteFlip(h) \/ WriteSync(h) \/ WriteDecision(h)
  <2>1. c.step = "write" /\ c.op \notin {"callback", "confirmPayment", "updateStatus"}
    <3>1. c.step = "write"
      BY <1>0, <1>8 DEF WritePayment, WriteFlip, WriteSync, WriteDecision, Writing, At
    <3> QED BY <1>2, <3>1 DEF WithPayment, WithoutPayment
  <2>2. CASE c.pay = NoPay
    <3>1. c.op = "reject"
      BY <1>0, <1>2, <1>8, <2>2
         DEF WritePayment, WriteFlip, WriteSync, WriteDecision, Writing, At, WithoutPayment
    <3>2. payStatus' = payStatus /\ marked' = marked
      BY <1>0, <1>8, <2>2, <3>1
         DEF WritePayment, WriteFlip, WriteSync, WriteDecision, Writing, At
    <3> QED BY <1>5, <2>2, <3>2, PaymentIsSome
  <2>3. CASE c.pay # NoPay
    <3>1. /\ payStatus' = [payStatus EXCEPT ![c.pay] = c.payTo]
          /\ marked' = [marked EXCEPT ![c.pay] = marked[c.pay] \cup c.portions]
      <4>1. CASE WritePayment(h) \/ WriteFlip(h)
        <5>1. payStatus' = [payStatus EXCEPT ![c.pay] = c.payTo] /\ marked' = marked
              /\ c.op \notin Refunding
          BY <1>0, <4>1 DEF WritePayment, WriteFlip, Writing, At, Refunding
        <5>2. marked[c.pay] \cup c.portions = marked[c.pay]
          BY <1>2, <5>1
        <5> QED BY <1>2, <2>3, <5>1, <5>2 DEF Safe, TypeOK
      <4>2. CASE WriteSync(h) \/ WriteDecision(h)
        BY <1>0, <2>3, <4>2 DEF WriteSync, WriteDecision
      <4> QED BY <1>8, <4>1, <4>2
    <3>2. CASE p = c.pay
      <4> DEFINE m == marked[p] \cup c.portions
      <4>1. Agrees(c.payTo, m, m, p)
        BY <1>0, <2>1, <2>3, <3>2 DEF Accounts
      <4>2. payStatus'[p] = c.payTo /\ marked'[p] = m
        BY <1>2, <2>3, <3>1, <3>2 DEF Safe, TypeOK
      <4> QED BY <1>3, <4>1, <4>2 DEF AtRest
    <3>3. CASE p # c.pay
      BY <1>5, <3>1, <3>3 DEF Safe, TypeOK
    <3> QED BY <3>2, <3>3
  <2> QED BY <2>2, <2>3
<1> QED BY <1>6, <1>7, <1>8 DEF Write

LEMMA AccountedIsInductive ==
  ASSUME Faultless, Safe, RowsOK, Accounted, [Next]_vars
  PROVE  Accounted'
<1>0. Serial
  BY DEF Faultless
<1>1. ASSUME NEW h \in Handlers, Request(h) PROVE Accounted'
  <2>1. PICK c \in Calls : Begin(h, c) /\ Fits(c) /\ Untouched(c)
    BY <1>0, <1>1, RequestOpens DEF Opens
  <2>2. \A g \in Handlers : call[g] = Idle
    BY <1>0, <2>1, QuietIsIdle
  <2>3. \A p \in Payments : AtRest(p)
    BY <2>2, AllAtRest
  <2>4. Accounts(c)
    BY <2>1, <2>3, UntouchedAccounts DEF Calls
  <2>5. UNCHANGED <<payStatus, marked, ledger>> /\ Advance(h, c)
    BY <2>1 DEF Begin, Advance, pays
  <2>6. Accounts(c)' /\ \A p \in Payments : AtRest(p)'
    BY <2>3, <2>4, <2>5, SameLedgerAgrees
  <2> QED BY <2>2, <2>5, <2>6, HandlerAccounts
<1>2. ASSUME NEW h \in Handlers, Check(h) PROVE Accounted'
  <2>1. PICK d \in Calls : Advance(h, d) /\ Fits(d) /\ Untouched(d)
    BY <1>2, CheckMoves DEF Moves
  <2>2. call[h].step = "check" /\ UNCHANGED <<payStatus, marked, ledger>>
    BY <1>2, CheckMoves DEF pays
  <2>3. \A p \in Payments : AtRest(p)
    BY <2>2, AllAtRest
  <2>4. Accounts(d)
    BY <2>1, <2>3, UntouchedAccounts DEF Calls
  <2>5. Accounts(d)' /\ \A p \in Payments : AtRest(p)'
    BY <2>2, <2>3, <2>4, SameLedgerAgrees
  <2>6. call[h] # Idle
    BY <2>2 DEF Idle
  <2> QED BY <2>1, <2>5, <2>6, HandlerAccounts
<1>3. ASSUME NEW h \in Handlers, Provider(h) PROVE Accounted'
  <2>1. PICK d \in Calls :
          /\ Advance(h, d) /\ d.pay = call[h].pay
          /\ Accounts(call[h]) => Accounts(d)'
          /\ \A p \in Payments : p # call[h].pay => SameLedger(p)
    BY <1>3, ProviderAsks DEF Asks
  <2>2. call[h] # Idle /\ payStatus' = payStatus /\ marked' = marked
    BY <1>3, ProviderAsks DEF Idle, pays
  <2>3. Accounts(d)'
    BY <2>1 DEF Accounted
  <2>4. ASSUME NEW p \in Payments, p # d.pay PROVE AtRest(p)'
    <3>1. AtRest(p) /\ SameLedger(p)
      BY <2>1, <2>2, <2>4, OthersAtRest
    <3> QED BY <2>2, <3>1 DEF AtRest, Agrees, SameLedger
  <2> QED BY <2>1, <2>2, <2>3, <2>4, HandlerAccounts
<1>4. ASSUME NEW h \in Handlers, Write(h) PROVE Accounted'
  <2>1. PICK d \in Calls : Advance(h, d) /\ d.pay = NoPay
    BY <1>4, WriteLeaves
  <2>2. Accounts(d)'
    BY <2>1 DEF Accounts, NoPay
  <2> QED BY <1>4, <2>1, <2>2, WriteLeaves, WriteAccounts, HandlerAccounts
<1>5. ASSUME UNCHANGED <<payStatus, marked, ledger, call>> PROVE Accounted'
  <2>1. ASSUME NEW g \in Handlers PROVE Accounts(call[g])'
    <3>1. PICK c \in Calls : c = call[g] /\ Accounts(c)
      BY DEF Safe, TypeOK, Accounted
    <3>2. Accounts(c)' /\ call'[g] = c
      BY <1>5, <3>1, SameLedgerAgrees
    <3> QED BY <3>2 DEF Accounts
  <2> QED BY <1>5, <2>1, SameLedgerAgrees DEF Accounted, Payments
<1>6. ASSUME NEW a \in Apps, SweepExpire(a) PROVE Accounted'
  <2>0. \A g \in Handlers : call[g] = Idle /\ call'[g] = Idle
    BY <1>6 DEF RowsOK, Alone, SweepExpire
  <2>1. ASSUME NEW p \in Payments PROVE AtRest(p)'
    <3>1. AtRest(p)
      BY <2>0, AllAtRest
    <3>2. /\ payStatus'[p] = payStatus[p] \/ (payStatus[p] \in Open /\ payStatus'[p] = "EXPIRED")
          /\ marked' = marked /\ UNCHANGED ledger
      BY <1>6 DEF SweepExpire, PaymentsIn
    <3> QED BY <3>1, <3>2, Vocabulary DEF AtRest, Agrees, ledger, Open
  <2>2. \A g \in Handlers : Accounts(call[g])'
    BY <2>0 DEF Accounts, Idle
  <2> QED BY <2>1, <2>2 DEF Accounted, Payments
<1>7. ~(\E h \in Handlers : CallFails(h)) /\ ~(\E a \in Apps : SweepSkips(a)) /\ ~Restart
  <2>1. ~(faults < MaxFaults)
    BY DEF Safe, TypeOK, Faultless
  <2> QED BY <2>1 DEF CallFails, SweepSkips, Restart
<1>8. CASE (\E a \in Apps : WindowCloses(a)) \/ SweepRead \/ UNCHANGED vars
  <2>1. UNCHANGED <<payStatus, marked, ledger, call>>
    BY <1>8 DEF WindowCloses, SweepRead, vars, pays
  <2> QED BY <1>5, <2>1
<1> QED BY <1>1, <1>2, <1>3, <1>4, <1>6, <1>7, <1>8 DEF Next

LEMMA InitIsAccounted == Init => Accounted
<1> SUFFICES ASSUME Init PROVE Accounted
  OBVIOUS
<1>1. \A h \in Handlers : Accounts(call[h])
  BY DEF Init, Accounts, Idle
<1>2. ASSUME NEW p \in Payments PROVE AtRest(p)
  <2>1. /\ payStatus[p] = "CREATED" /\ marked[p] = {} /\ held[p] = FALSE
        /\ captured[p] = 0 /\ released[p] = 0 /\ \A f \in Portions : refunds[p][f] = 0
    BY DEF Init
  <2>2. "CREATED" \notin Moved /\ "CREATED" \notin Taken
    BY Vocabulary
  <2>3. held[p] = ("CREATED" \in Moved)
    <3>1. ("CREATED" \in Moved) = FALSE
      BY <2>2
    <3> QED BY <2>1, <3>1
  <2>4. Agrees("CREATED", {}, {}, p)
    <3>1. /\ captured[p] = IF "CREATED" \in Taken THEN 1 ELSE 0
          /\ released[p] = IF "CREATED" = "CANCELLED" THEN 1 ELSE 0
          /\ \A f \in Portions : refunds[p][f] = IF f \in {} THEN 1 ELSE 0
      BY <2>1, <2>2
    <3> QED BY <2>2, <2>3, <3>1, Zenon DEF Agrees
  <2> QED BY <2>1, <2>4 DEF AtRest
<1> QED BY <1>1, <1>2 DEF Accounted

LEMMA AlwaysAccounted ==
  ASSUME Faultless
  PROVE  Spec => [](Safe /\ RowsOK /\ Accounted)
<1>0. Serial
  BY DEF Faultless
<1>1. Init => Safe /\ RowsOK /\ Accounted
  BY InitIsSafe, InitRowsAreOK, InitIsAccounted
<1>2. Safe /\ RowsOK /\ Accounted /\ [Next]_vars => (Safe /\ RowsOK /\ Accounted)'
  BY <1>0, SafeIsInductive, RowsAreInductive, AccountedIsInductive
<1> QED
  BY <1>1, <1>2, PTL DEF Spec

\* One request at a time and no failures: a held payment is settled once.
THEOREM HoldsAreSettledOnce ==
  ASSUME Faultless
  PROVE  Spec => []SettledOnce
<1>1. ASSUME Safe, RowsOK, Accounted, NEW p \in Payments
      PROVE  captured[p] + released[p] <= 1
  <2>1. PICK s, m, r : Agrees(s, m, r, p)
    <3>1. CASE AtRest(p)
      BY <3>1 DEF AtRest
    <3>2. ASSUME NEW h \in Handlers, call[h].pay = p
          PROVE  \E s, m, r : Agrees(s, m, r, p)
      <4>1. Accounts(call[h])
        BY <1>1 DEF Accounted
      <4> QED BY <3>2, <4>1, PaymentIsSome DEF Accounts
    <3> QED BY <1>1, <3>1, <3>2 DEF Accounted
  <2> QED BY <2>1, Vocabulary DEF Agrees
<1>2. Safe /\ RowsOK /\ Accounted => SettledOnce
  BY <1>1 DEF SettledOnce
<1> QED BY <1>2, AlwaysAccounted, PTL

\* ... and no portion is refunded twice: what assertRefundablePortions says,
\* and what overlapping refunds break.
THEOREM PortionsAreRefundedOnce ==
  ASSUME Faultless
  PROVE  Spec => []RefundedOnce
<1>1. ASSUME Safe, RowsOK, Accounted, NEW p \in Payments, NEW f \in Portions
      PROVE  refunds[p][f] <= 1
  <2>1. PICK s, m, r : Agrees(s, m, r, p)
    <3>1. CASE AtRest(p)
      BY <3>1 DEF AtRest
    <3>2. ASSUME NEW h \in Handlers, call[h].pay = p
          PROVE  \E s, m, r : Agrees(s, m, r, p)
      <4>1. Accounts(call[h])
        BY <1>1 DEF Accounted
      <4> QED BY <3>2, <4>1, PaymentIsSome DEF Accounts
    <3> QED BY <1>1, <3>1, <3>2 DEF Accounted
  <2> QED BY <2>1 DEF Agrees
<1>2. Safe /\ RowsOK /\ Accounted => RefundedOnce
  BY <1>1 DEF RefundedOnce
<1> QED BY <1>2, AlwaysAccounted, PTL

LEMMA QuietIsAtRest ==
  ASSUME Safe, RowsOK, Accounted, Quiet, NEW p \in Payments
  PROVE  AtRest(p)
<1>1. \A g \in Handlers : call[g] = Idle
  BY DEF Quiet, RowsOK, Fits
<1> QED BY <1>1, AllAtRest

\* ... and, at rest, the payment rows account for every hold, capture, release
\* and refund at the provider.
THEOREM RowsAccountForTheMoney ==
  ASSUME Faultless
  PROVE  Spec => []LedgerIsRecorded
<1>1. ASSUME Safe, RowsOK, Accounted, Quiet, NEW p \in Payments, held[p]
      PROVE  /\ captured[p] + released[p] = 0 => payStatus[p] = "AUTHORIZED"
             /\ released[p] > 0 => payStatus[p] = "CANCELLED"
             /\ captured[p] > 0 => payStatus[p] = Named(marked[p])
             /\ \A f \in Portions : refunds[p][f] > 0 => f \in marked[p]
  <2>1. AtRest(p)
    BY <1>1, QuietIsAtRest
  <2>2. payStatus[p] \in Moved
    BY <1>1, <2>1 DEF AtRest, Agrees
  <2> QED BY <2>1, <2>2, Vocabulary DEF AtRest, Agrees
<1>2. Safe /\ RowsOK /\ Accounted => LedgerIsRecorded
  BY <1>1 DEF LedgerIsRecorded, Named
<1> QED BY <1>2, AlwaysAccounted, PTL

\* ... and an application that ran out of time has nothing on hold: its
\* customer may be told that no charge was made.
THEOREM NoHoldRunsOut ==
  ASSUME Faultless
  PROVE  Spec => []ExpiredHoldsNothing
<1>1. ASSUME Safe, RowsOK, Accounted, Quiet, NEW a \in Apps, status[a] = "EXPIRED",
             NEW p \in Payments, owner[p] = a
      PROVE  ~held[p]
  <2>1. AtRest(p)
    BY <1>1, QuietIsAtRest
  <2>2. payStatus[p] \notin Moved
    BY <1>1 DEF RowsOK, Rows, RowsOf, PaymentsIn
  <2> QED BY <2>1, <2>2 DEF AtRest, Agrees
<1>2. Safe /\ RowsOK /\ Accounted => ExpiredHoldsNothing
  BY <1>1 DEF ExpiredHoldsNothing
<1> QED BY <1>2, AlwaysAccounted, PTL

-----------------------------------------------------------------------------
(* The case lifecycle, step by step.                                          *)

heldFor == [a \in Apps |-> \E p \in Payments : owner[p] = a /\ held[p]]
chargedFor == [a \in Apps |-> Charged(a)]

LEMMA SameMoney ==
  /\ UNCHANGED <<owner, held>> => heldFor' = heldFor
  /\ UNCHANGED <<owner, captured>> => chargedFor' = chargedFor
  BY DEF heldFor, chargedFor, Charged

\* A payment at rest that is not in Moved is not held, nor in Taken captured.
LEMMA RestTells ==
  ASSUME NEW p \in Payments, AtRest(p)
  PROVE  /\ held[p] <=> payStatus[p] \in Moved
         /\ captured[p] > 0 <=> payStatus[p] \in Taken
<1>1. held[p] = (payStatus[p] \in Moved)
  BY DEF AtRest, Agrees
<1>2. captured[p] = IF payStatus[p] \in Taken THEN 1 ELSE 0
  BY DEF AtRest, Agrees
<1>3. held[p] <=> payStatus[p] \in Moved
  BY <1>1, Zenon
<1>4. captured[p] > 0 <=> payStatus[p] \in Taken
  BY <1>2
<1> QED BY <1>3, <1>4

LEMMA ProviderRefines ==
  ASSUME Safe, RowsOK, Accounted, NEW h \in Handlers, Provider(h)
  PROVE  [Case!Next]_(Case!vars)
<1>0. PICK c \in Calls : c = call[h] /\ Fits(c) /\ Accounts(c)
  BY DEF Safe, TypeOK, RowsOK, Accounted
<1>1. c.step = "provider" /\ UNCHANGED <<status, owner>>
  BY <1>0, ProviderAsks DEF apps, pays
<1>2. c # Idle /\ c.op # "none"
  BY <1>0, <1>1 DEF Idle, Fits
<1>3. c.pay # NoPay
  BY <1>0, <1>1, <1>2 DEF Fits, ApplicationFits, WithoutPayment
<1>4. /\ c.pay \in Payments /\ c.app \in Apps /\ owner[c.pay] = c.app
      /\ payStatus[c.pay] \in From(c.op)
      /\ RowsOf(c.app)
  BY <1>0, <1>3 DEF Fits, PaymentFits, Calls, RowsOK, Rows
<1>5. CASE ProviderAuthorize(h)
  <2>1. c.op = "authorize"
    BY <1>0, <1>5 DEF ProviderAuthorize, Calling, At
  <2>2. payStatus[c.pay] \in Open
    BY <1>4, <2>1 DEF From
  <2>3. status[c.app] \notin {"DRAFT", "EXPIRED"}
    BY <1>4, <2>2 DEF RowsOf, PaymentsIn, PayStatuses, Open
  <2>4. /\ \A p \in Payments : held'[p] = IF p = c.pay THEN TRUE ELSE held[p]
        /\ captured' = captured
    BY <1>0, <1>5 DEF ProviderAuthorize, Safe, TypeOK
  <2>5. chargedFor' = chargedFor
    BY <1>1, <2>4, SameMoney
  <2>6. heldFor' = [heldFor EXCEPT ![c.app] = TRUE]
    <3>1. held'[c.pay] /\ \A p \in Payments : p # c.pay => held'[p] = held[p]
      BY <1>4, <2>4
    <3>2. ASSUME NEW a \in Apps, a # c.app
          PROVE  (\E p \in Payments : owner'[p] = a /\ held'[p])
                   = (\E p \in Payments : owner[p] = a /\ held[p])
      BY <1>1, <1>4, <3>1, <3>2
    <3>3. (\E p \in Payments : owner'[p] = c.app /\ held'[p]) = TRUE
      BY <1>1, <1>4, <3>1
    <3>4. heldFor' = [a \in Apps |-> \E p \in Payments : owner'[p] = a /\ held'[p]]
      BY DEF heldFor
    <3>5. \A a \in Apps : a # c.app => heldFor'[a] = heldFor[a]
      BY <3>2, <3>4, Zenon DEF heldFor
    <3>6. heldFor'[c.app] = TRUE
      BY <1>4, <3>3, <3>4, Zenon
    <3>7. heldFor = [a \in Apps |-> heldFor[a]] /\ heldFor' = [a \in Apps |-> heldFor'[a]]
      BY <3>4, Zenon DEF heldFor
    <3> QED BY <1>4, <3>5, <3>6, <3>7
  <2>7. Case!Hold(c.app)
    BY <1>1, <2>3, <2>5, <2>6 DEF Case!Hold, heldFor, chargedFor
  <2> QED BY <1>4, <2>7 DEF Case!Next
<1>6. CASE ProviderCapture(h)
  <2>1. c.op \in {"capture", "accept"}
    BY <1>0, <1>6 DEF ProviderCapture, Calling, At
  <2>2. payStatus[c.pay] = "AUTHORIZED"
    BY <1>4, <2>1 DEF From
  <2>3. status[c.app] \notin {"DRAFT", "UNPAID", "EXPIRED"}
    BY <1>4, <2>2, Vocabulary DEF RowsOf, PaymentsIn, PayStatuses
  <2>4. held[c.pay]
    <3>1. \E m, r : Agrees("AUTHORIZED", m, r, c.pay)
      BY <1>0, <1>1, <1>3, <2>2 DEF Accounts
    <3> QED BY <3>1, Vocabulary DEF Agrees
  <2>5. /\ \A p \in Payments : captured'[p] = IF p = c.pay THEN AtMost2(captured[p]) ELSE captured[p]
        /\ held' = held
    BY <1>0, <1>6 DEF ProviderCapture, Safe, TypeOK
  <2>6. captured'[c.pay] > 0
    BY <1>4, <2>5 DEF AtMost2, Safe, TypeOK
  <2>7. heldFor' = heldFor /\ heldFor[c.app] = TRUE
    BY <1>1, <1>4, <2>4, <2>5, SameMoney DEF heldFor
  <2>8. chargedFor' = [chargedFor EXCEPT ![c.app] = TRUE]
    <3>1. \A p \in Payments : p # c.pay => captured'[p] = captured[p]
      BY <1>4, <2>5
    <3>2. chargedFor' = [a \in Apps |-> \E p \in Payments : owner'[p] = a /\ captured'[p] > 0]
      BY DEF chargedFor, Charged
    <3>3. chargedFor = [a \in Apps |-> \E p \in Payments : owner[p] = a /\ captured[p] > 0]
      BY DEF chargedFor, Charged
    <3>4. ASSUME NEW a \in Apps, a # c.app
          PROVE  (\E p \in Payments : owner'[p] = a /\ captured'[p] > 0)
                   = (\E p \in Payments : owner[p] = a /\ captured[p] > 0)
      BY <1>1, <1>4, <3>1, <3>4
    <3>5. (\E p \in Payments : owner'[p] = c.app /\ captured'[p] > 0) = TRUE
      BY <1>1, <1>4, <2>6
    <3>6. \A a \in Apps : a # c.app => chargedFor'[a] = chargedFor[a]
      BY <3>2, <3>3, <3>4, Zenon
    <3>7. chargedFor'[c.app] = TRUE
      BY <1>4, <3>2, <3>5, Zenon
    <3>8. chargedFor = [a \in Apps |-> chargedFor[a]] /\ chargedFor' = [a \in Apps |-> chargedFor'[a]]
      BY <3>2, <3>3, Zenon
    <3> QED BY <1>4, <3>6, <3>7, <3>8
  <2>9. Case!Charge(c.app)
    BY <1>1, <2>3, <2>7, <2>8 DEF Case!Charge, heldFor, chargedFor
  <2> QED BY <1>4, <2>9 DEF Case!Next
<1>7. CASE ProviderRelease(h) \/ ProviderRefund(h)
  <2>1. held' = held /\ captured' = captured
    BY <1>7 DEF ProviderRelease, ProviderRefund
  <2>2. heldFor' = heldFor /\ chargedFor' = chargedFor
    BY <1>1, <2>1, SameMoney
  <2> QED BY <1>1, <2>2 DEF Case!vars, heldFor, chargedFor
<1> QED BY <1>5, <1>6, <1>7 DEF Provider

\* A transition of the application alone.
LEMMA MoveRefines ==
  ASSUME NEW a \in Apps, NEW from, NEW to, status[a] \in from,
         status' = [status EXCEPT ![a] = to], heldFor' = heldFor, chargedFor' = chargedFor
  PROVE  Case!Move(a, from, to)
  BY DEF Case!Move, heldFor, chargedFor

LEMMA WriteRefines ==
  ASSUME Safe, RowsOK, Accounted, NEW h \in Handlers, Write(h)
  PROVE  [Case!Next]_(Case!vars)
<1>0. PICK c \in Calls : c = call[h] /\ Fits(c) /\ Accounts(c)
  BY DEF Safe, TypeOK, RowsOK, Accounted
<1>1. c.step \in {"write", "expire"} /\ UNCHANGED ledger
  BY <1>0 DEF Write, ExpireLapsed, WriteUnpaid, WriteStatus, InsertPayment, WritePayment,
              WriteFlip, WriteSync, WriteDecision, Writing, At
<1>2. /\ c # Idle /\ c.op # "none" /\ c.app \in Apps
      /\ Ready(c.op, c.step, c.app, c.appTo)
      /\ c.pay = NoPay => WithoutPayment(c.op, c.step)
      /\ c.pay # NoPay => /\ WithPayment(c.op, c.step)
                          /\ c.pay \in Payments /\ owner[c.pay] = c.app
                          /\ payStatus[c.pay] \in From(c.op)
                          /\ c.payTo = To(c.op, marked[c.pay] \cup c.portions)
  BY <1>0, <1>1, InHand
<1>3. RowsOf(c.app)
  BY <1>2 DEF RowsOK, Rows
<1>4. \A p \in Payments : p # c.pay => AtRest(p)
  BY <1>0, <1>2, OthersAtRest
<1>5. owner' = owner => heldFor' = heldFor /\ chargedFor' = chargedFor
  BY <1>1, SameMoney DEF ledger
<1>6. ASSUME status' = status, heldFor' = heldFor, chargedFor' = chargedFor
      PROVE  [Case!Next]_(Case!vars)
  BY <1>6 DEF Case!vars, heldFor, chargedFor
<1>7. ASSUME status[c.app] \in WorkedOn, c.appTo \in WorkedOn, owner' = owner,
             status' = [status EXCEPT ![c.app] = c.appTo]
      PROVE  [Case!Next]_(Case!vars)
  <2>1. Case!Move(c.app, WorkedOn, c.appTo)
    BY <1>2, <1>5, <1>7, MoveRefines
  <2>2. Case!Work(c.app)
    BY <1>7, <2>1 DEF Case!Work, Case!WorkedOn, WorkedOn
  <2> QED BY <1>2, <2>2 DEF Case!Next
<1>8. CASE ExpireLapsed(h) \/ WritePayment(h) \/ WriteSync(h)
  <2>1. status' = status /\ owner' = owner
    BY <1>8 DEF ExpireLapsed, WritePayment, WriteSync, apps
  <2> QED BY <1>5, <1>6, <2>1
<1>9. CASE InsertPayment(h)
  <2>1. PICK p \in Payments :
          owner[p] = NoApp /\ owner' = [owner EXCEPT ![p] = call[h].app]
    BY <1>9 DEF InsertPayment
  <2>2. c.step = "write" /\ c.op = "createPayment" /\ status' = status
    BY <1>0, <1>9 DEF InsertPayment, Writing, At, apps
  <2>3. c.pay = NoPay
    BY <1>2, <2>2 DEF WithPayment
  <2>4. ~held[p] /\ ~(captured[p] > 0)
    <3>1. AtRest(p) /\ payStatus[p] = "CREATED"
      BY <1>4, <2>1, <2>3, PaymentIsSome DEF RowsOK, Rows, Fresh, Row
    <3> QED BY <3>1, RestTells, Vocabulary
  <2>5. \A q \in Payments : q # p => owner'[q] = owner[q]
    BY <2>1 DEF Safe, TypeOK
  <2>6. heldFor' = heldFor /\ chargedFor' = chargedFor
    BY <1>1, <2>1, <2>4, <2>5, NoAppAssumption DEF heldFor, chargedFor, Charged, ledger
  <2> QED BY <1>6, <2>2, <2>6
<1>10. CASE WriteUnpaid(h)
  <2>1. /\ c.step = "write" /\ c.op = "submitForReview" /\ owner' = owner
        /\ status' = [status EXCEPT ![c.app] = c.appTo]
    BY <1>0, <1>10 DEF WriteUnpaid, Writing, At, pays
  <2>2. status[c.app] = "DRAFT" /\ c.appTo = "UNPAID"
    BY <1>2, <2>1 DEF Ready
  <2>3. Case!Move(c.app, {"DRAFT"}, "UNPAID")
    BY <1>2, <1>5, <2>1, <2>2 DEF Case!Move, heldFor, chargedFor
  <2>4. Case!RequestReview(c.app)
    BY <2>3 DEF Case!RequestReview
  <2> QED BY <1>2, <2>4 DEF Case!Next
<1>11. CASE WriteStatus(h)
  <2>1. /\ c.step = "write" /\ owner' = owner
        /\ c.op \in {"submit", "approve", "changeStatus", "recompute", "issueVisa"}
        /\ status' = [status EXCEPT ![c.app] = c.appTo]
    BY <1>0, <1>11 DEF WriteStatus, Writing, At, pays
  <2>2. c.pay = NoPay /\ c.op # "submit"
    BY <1>2, <2>1 DEF WithPayment, WithoutPayment
  <2>3. \/ status[c.app] \in WorkedOn /\ c.appTo \in WorkedOn
        \/ status[c.app] \in {"DRAFT", "UNPAID"} /\ c.appTo = "CANCELLED"
    BY <1>2, <2>1, <2>2 DEF Ready
  <2>4. ASSUME status[c.app] \in {"DRAFT", "UNPAID"}, c.appTo = "CANCELLED"
        PROVE  [Case!Next]_(Case!vars)
    <3>1. \A p \in Payments : owner[p] = c.app => ~held[p]
      <4> SUFFICES ASSUME NEW p \in Payments, owner[p] = c.app PROVE ~held[p]
        OBVIOUS
      <4>1. AtRest(p)
        BY <1>4, <2>2, PaymentIsSome
      <4>2. payStatus[p] \notin Moved
        BY <1>3, <2>4, Vocabulary DEF RowsOf, PaymentsIn, PayStatuses
      <4> QED BY <4>1, <4>2, RestTells
    <3>2. ~heldFor[c.app]
      BY <1>2, <3>1 DEF heldFor
    <3>3. Case!Move(c.app, {"DRAFT", "UNPAID"}, "CANCELLED")
      BY <1>2, <1>5, <2>1, <2>4 DEF Case!Move, heldFor, chargedFor
    <3>4. Case!GiveUp(c.app)
      BY <3>2, <3>3 DEF Case!GiveUp, heldFor
    <3> QED BY <1>2, <3>4 DEF Case!Next
  <2> QED BY <1>7, <2>1, <2>3, <2>4
<1>12. CASE WriteFlip(h)
  <2>1. /\ c.step = "write" /\ owner' = owner
        /\ c.op \in {"authorize", "capture", "confirmPayment", "callback", "updateStatus"}
    BY <1>0, <1>12 DEF WriteFlip, Writing, At
  <2>2. c.op \in {"authorize", "capture"} /\ c.pay # NoPay
    BY <1>2, <2>1 DEF WithPayment, WithoutPayment
  <2>3. status' = [status EXCEPT ![c.app] = IF @ = "UNPAID" THEN "SUBMITTED" ELSE @]
    BY <1>0, <1>12, <2>2 DEF WriteFlip
  <2>4. CASE status[c.app] # "UNPAID"
    <3>1. status' = status
      BY <2>3, <2>4 DEF Safe, TypeOK
    <3> QED BY <1>5, <1>6, <2>1, <3>1
  <2>5. CASE status[c.app] = "UNPAID"
    <3>1. status' = [status EXCEPT ![c.app] = "SUBMITTED"]
      BY <2>3, <2>5
    <3>2. c.payTo \in Moved
      BY <1>2, <2>2, Vocabulary DEF To
    <3>3. held[c.pay]
      <4>1. \E m, r : Agrees(c.payTo, m, r, c.pay)
        BY <1>0, <2>1, <2>2 DEF Accounts
      <4> QED BY <3>2, <4>1 DEF Agrees
    <3>4. heldFor[c.app]
      BY <1>2, <2>2, <3>3 DEF heldFor
    <3>5. Case!Move(c.app, {"UNPAID"}, "SUBMITTED")
      BY <1>2, <1>5, <2>1, <2>5, <3>1 DEF Case!Move, heldFor, chargedFor
    <3>6. Case!Pay(c.app)
      BY <3>4, <3>5 DEF Case!Pay, heldFor
    <3> QED BY <1>2, <3>6 DEF Case!Next
  <2> QED BY <2>4, <2>5
<1>13. CASE WriteDecision(h)
  <2>1. /\ c.step = "write" /\ c.op \in {"accept", "cancel", "reject"} /\ owner' = owner
        /\ status' = [status EXCEPT ![c.app] = c.appTo]
    BY <1>0, <1>13 DEF WriteDecision, Writing, At
  <2>2. ASSUME c.op \in {"accept", "cancel"}
        PROVE  c.pay # NoPay /\ \E m, r : Agrees(c.payTo, m, r, c.pay)
    <3>1. c.pay # NoPay
      BY <1>2, <2>1, <2>2 DEF WithoutPayment
    <3> QED BY <1>0, <2>1, <3>1 DEF Accounts
  <2>3. CASE c.op = "reject"
    <3>1. status[c.app] \in WorkedOn /\ c.appTo \in WorkedOn
      BY <1>2, <2>3 DEF Ready
    <3> QED BY <1>7, <2>1, <3>1
  <2>4. CASE c.op = "accept"
    <3>1. status[c.app] = "SUBMITTED" /\ c.appTo = "PROCESSING" /\ c.payTo = "PAID"
      BY <1>2, <2>2, <2>4 DEF Ready, To
    <3>2. captured[c.pay] > 0
      BY <2>2, <2>4, <3>1, Vocabulary DEF Agrees
    <3>3. chargedFor[c.app]
      BY <1>2, <2>2, <2>4, <3>2 DEF chargedFor, Charged
    <3>4. Case!Move(c.app, {"SUBMITTED"}, "PROCESSING")
      BY <1>2, <1>5, <2>1, <3>1 DEF Case!Move, heldFor, chargedFor
    <3>5. Case!Accept(c.app)
      BY <3>3, <3>4 DEF Case!Accept, chargedFor
    <3> QED BY <1>2, <3>5 DEF Case!Next
  <2>5. CASE c.op = "cancel"
    <3>1. status[c.app] = "SUBMITTED" /\ c.appTo = "CANCELLED" /\ c.payTo = "CANCELLED"
      BY <1>2, <2>2, <2>5 DEF Ready, To
    <3>2. \A p \in Payments : owner[p] = c.app => ~(captured[p] > 0)
      <4> SUFFICES ASSUME NEW p \in Payments, owner[p] = c.app PROVE ~(captured[p] > 0)
        OBVIOUS
      <4>1. CASE p = c.pay
        BY <2>2, <2>5, <3>1, <4>1, Vocabulary DEF Agrees
      <4>2. CASE p # c.pay
        <5>1. payStatus[p] \notin Taken
          BY <1>3, <3>1 DEF RowsOf, PaymentsIn
        <5> QED BY <1>4, <4>2, <5>1, RestTells
      <4> QED BY <4>1, <4>2
    <3>3. ~chargedFor[c.app]
      BY <1>2, <3>2 DEF chargedFor, Charged
    <3>4. Case!Move(c.app, {"SUBMITTED"}, "CANCELLED")
      BY <1>2, <1>5, <2>1, <3>1 DEF Case!Move, heldFor, chargedFor
    <3>5. Case!Refuse(c.app)
      BY <3>3, <3>4 DEF Case!Refuse, chargedFor
    <3> QED BY <1>2, <3>5 DEF Case!Next
  <2> QED BY <2>1, <2>3, <2>4, <2>5
<1> QED
  BY <1>8, <1>9, <1>10, <1>11, <1>12, <1>13 DEF Write

LEMMA SweepRefines ==
  ASSUME Safe, RowsOK, Accounted, NEW a \in Apps, SweepExpire(a)
  PROVE  [Case!Next]_(Case!vars)
<1>1. /\ status[a] = "UNPAID" /\ \A h \in Handlers : call[h] = Idle
      /\ status' = [status EXCEPT ![a] = "EXPIRED"]
      /\ UNCHANGED <<owner, held, captured>>
  BY DEF SweepExpire, RowsOK, Alone, Overdue, ledger
<1>2. \A p \in Payments : owner[p] = a => ~held[p]
  <2> SUFFICES ASSUME NEW p \in Payments, owner[p] = a PROVE ~held[p]
    OBVIOUS
  <2>1. AtRest(p)
    BY <1>1, AllAtRest
  <2>2. payStatus[p] \notin Moved
    BY <1>1 DEF RowsOK, Rows, RowsOf, PaymentsIn
  <2> QED BY <2>1, <2>2, RestTells
<1>3. ~heldFor[a]
  BY <1>2 DEF heldFor
<1>4. heldFor' = heldFor /\ chargedFor' = chargedFor
  BY <1>1, SameMoney
<1>5. Case!Move(a, {"UNPAID"}, "EXPIRED")
  BY <1>1, <1>4 DEF Case!Move, heldFor, chargedFor
<1>6. Case!RunOut(a)
  BY <1>3, <1>5 DEF Case!RunOut, heldFor
<1> QED BY <1>6 DEF Case!Next

LEMMA StepsRefine ==
  ASSUME Faultless, Safe, RowsOK, Accounted, [Next]_vars
  PROVE  [Case!Next]_(Case!vars)
<1>0. Serial
  BY DEF Faultless
<1>1. ASSUME UNCHANGED <<status, owner, held, captured>>
      PROVE  [Case!Next]_(Case!vars)
  <2>1. heldFor' = heldFor /\ chargedFor' = chargedFor
    BY <1>1, SameMoney
  <2> QED BY <1>1, <2>1 DEF Case!vars, heldFor, chargedFor
<1>2. ASSUME NEW h \in Handlers, Request(h) PROVE [Case!Next]_(Case!vars)
  <2>1. UNCHANGED <<status, owner, held, captured>>
    BY <1>0, <1>2, RequestOpens DEF Opens, Begin, apps, pays, ledger
  <2> QED BY <1>1, <2>1
<1>3. ASSUME NEW h \in Handlers, Check(h) PROVE [Case!Next]_(Case!vars)
  <2>1. UNCHANGED <<status, owner, held, captured>>
    BY <1>3, CheckMoves DEF apps, pays, ledger
  <2> QED BY <1>1, <2>1
<1>4. CASE (\E h \in Handlers : CallFails(h))
           \/ (\E a \in Apps : WindowCloses(a) \/ SweepSkips(a))
           \/ SweepRead \/ Restart \/ UNCHANGED vars
  <2>1. UNCHANGED <<status, owner, held, captured>>
    BY <1>4 DEF CallFails, WindowCloses, SweepSkips, SweepRead, Restart, vars, apps, pays, ledger
  <2> QED BY <1>1, <2>1
<1> QED
  BY <1>2, <1>3, <1>4, ProviderRefines, WriteRefines, SweepRefines DEF Next

\* One request at a time and no failures, the portal is a CaseLifecycle: no
\* status is skipped, nothing is worked on uncharged, no cancelled case comes
\* back, and a case runs out of time only when nothing is held for it.
THEOREM CaseLifecycleHolds ==
  ASSUME Faultless
  PROVE  Spec => ImplementsCaseLifecycle
<1>1. Init => Case!Init
  <2> SUFFICES ASSUME Init PROVE Case!Init
    OBVIOUS
  <2>1. \A p \in Payments : owner[p] = NoApp
    BY DEF Init
  <2> QED BY <2>1, NoAppAssumption DEF Init, Case!Init, Charged
<1>2. Safe /\ RowsOK /\ Accounted /\ [Next]_vars => [Case!Next]_(Case!vars)
  BY StepsRefine
<1> QED
  BY <1>1, <1>2, AlwaysAccounted, PTL DEF Spec, ImplementsCaseLifecycle, Case!Spec
=============================================================================
