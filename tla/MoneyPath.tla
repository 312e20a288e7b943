------------------------------ MODULE MoneyPath ------------------------------
(* The life of an application and of the money held, taken and returned for   *)
(* it: ApplicationsService, PaymentsService, the status writes of             *)
(* ApplicantsService and the payment-window sweep, over one database, with    *)
(* the payment provider outside it.                                           *)
(*                                                                            *)
(* A request handler is a sequence of awaits: it reads rows, decides, calls   *)
(* the provider, and writes in a transaction that looks at nothing but the    *)
(* values the handler already holds.  Each await is a step here, so that two  *)
(* handlers, or a handler and the sweep, interleave where the code lets them. *)
(* A request the code answers with an error and no write is not a step.       *)
(*                                                                            *)
(* X_Bug next to an operator X is X with a mistake in it that a property has  *)
(* to notice; nothing below uses it.                                          *)
EXTENDS VisaStatus, Integers, FiniteSets

CONSTANTS
  Apps,          \* applications
  NoApp,         \* the owner of a payment row that does not exist yet
  Handlers,      \* requests that can be in flight at the same time
  MaxPayments,   \* bound: payment rows there can be
  Endpoints,     \* the operations that are exposed
  Overlap,       \* FALSE: a request or a sweep starts only when nothing runs
  SweepBatch,    \* SWEEP_BATCH of the sweep
  MaxFaults      \* bound: declined calls, failed writes and restarts

\* Everything a client, an operator, an administrator or the provider can start.
Operations == {"submitForReview", "submit", "createPayment", "initialize",
               "authorize", "confirmPayment", "callback", "updateStatus",
               "capture", "release", "refund", "accept", "cancel", "approve",
               "reject", "changeStatus", "recompute", "issueVisa"}

\* The two-stage flow proper: authorize, then capture or release, then refund.
\* Left out are the retired one-step confirmation, the provider's callbacks and
\* the administrator's status override, which write a payment's status without
\* asking the provider for anything.
TwoStage == Operations \ {"confirmPayment", "callback", "updateStatus"}

Payments == 1 .. MaxPayments    \* in the order of their createdAt
NoPay == 0
Keep == "KEEP"                  \* the handler leaves this status alone

ASSUME NoAppAssumption == NoApp \notin Apps
ASSUME BoundAssumption ==
  /\ MaxPayments \in Nat
  /\ MaxFaults \in Nat
  /\ SweepBatch \in Nat \ {0}
ASSUME EndpointAssumption == Endpoints \subseteq Operations /\ Overlap \in BOOLEAN

VARIABLES
  status,     \* application.currentStatus
  appPay,     \* application.paymentStatus
  window,     \* application.paymentDeadlineAt: not set, ahead, or past
  owner,      \* payment.applicationId
  payStatus,  \* payment.paymentStatus
  marked,     \* the portions whose ...FeeRefundedAt is set
  lapsed,     \* payment.expiresAt is past
  held,       \* provider: an authorization was granted
  captured,   \* provider: captures performed (2 stands for two or more)
  released,   \* provider: releases performed (likewise)
  refunds,    \* provider: refunds performed per portion (likewise)
  call,       \* what each handler is in the middle of
  overdue,    \* rows the sweep fetched and has not reached yet
  faults      \* faults so far

apps   == <<status, appPay, window>>
pays   == <<owner, payStatus, marked, lapsed>>
ledger == <<held, captured, released, refunds>>
vars   == <<apps, pays, ledger, call, overdue, faults>>

Steps == {"idle", "check", "expire", "provider", "write"}

\* What a handler holds between two awaits: the rows it picked and the values
\* it is going to write.
Calls == [step : Steps, op : Operations \cup {"none"}, app : Apps \cup {NoApp},
          pay : Payments \cup {NoPay}, appTo : AppStatuses \cup {Keep},
          payTo : PayStatuses \cup {Keep}, portions : SUBSET Portions,
          todo : SUBSET Portions]

Idle == [step |-> "idle", op |-> "none", app |-> NoApp, pay |-> NoPay,
         appTo |-> Keep, payTo |-> Keep, portions |-> {}, todo |-> {}]

TypeOK ==
  /\ status \in [Apps -> AppStatuses]
  /\ appPay \in [Apps -> PayStatuses]
  /\ window \in [Apps -> {"none", "ahead", "past"}]
  /\ owner \in [Payments -> Apps \cup {NoApp}]
  /\ payStatus \in [Payments -> PayStatuses]
  /\ marked \in [Payments -> SUBSET Portions]
  /\ lapsed \in [Payments -> BOOLEAN]
  /\ held \in [Payments -> BOOLEAN]
  /\ captured \in [Payments -> 0 .. 2]
  /\ released \in [Payments -> 0 .. 2]
  /\ refunds \in [Payments -> [Portions -> 0 .. 2]]
  /\ call \in [Handlers -> Calls]
  /\ overdue \in SUBSET Apps
  /\ faults \in 0 .. MaxFaults

\* applications.create leaves a DRAFT whose paymentStatus is the column default.
Init ==
  /\ status = [a \in Apps |-> "DRAFT"]
  /\ appPay = [a \in Apps |-> "PENDING"]
  /\ window = [a \in Apps |-> "none"]
  /\ owner = [p \in Payments |-> NoApp]
  /\ payStatus = [p \in Payments |-> "CREATED"]
  /\ marked = [p \in Payments |-> {}]
  /\ lapsed = [p \in Payments |-> FALSE]
  /\ held = [p \in Payments |-> FALSE]
  /\ captured = [p \in Payments |-> 0]
  /\ released = [p \in Payments |-> 0]
  /\ refunds = [p \in Payments |-> [f \in Portions |-> 0]]
  /\ call = [h \in Handlers |-> Idle]
  /\ overdue = {}
  /\ faults = 0

-----------------------------------------------------------------------------
(* Reading the database and moving a handler along.                           *)

\* The application's payment rows in one of the statuses S.
PaymentsIn(a, S) == {p \in Payments : owner[p] = a /\ payStatus[p] \in S}

\* findFirst ... orderBy createdAt desc
Latest(P) == {p \in P : \A q \in P : q <= p}

AtMost2(n) == IF n < 2 THEN n + 1 ELSE 2

Quiet == overdue = {} /\ \A h \in Handlers : call[h].step = "idle"

\* A request arrives and its first read has passed the guards.
Begin(h, c) ==
  /\ call[h].step = "idle"
  /\ c.op \in Endpoints
  /\ Overlap \/ Quiet
  /\ call' = [call EXCEPT ![h] = c]
  /\ UNCHANGED <<apps, pays, ledger, overdue, faults>>

AppCall(step, op, a, to) ==
  [Idle EXCEPT !.step = step, !.op = op, !.app = a, !.appTo = to]

PayCall(step, op, p, to) ==
  [Idle EXCEPT !.step = step, !.op = op, !.app = owner[p], !.pay = p, !.payTo = to]

RefundCall_NoPartial(c, p, portions) ==
  [c EXCEPT !.pay = p, !.portions = portions, !.todo = portions,
            !.payTo = IF marked[p] \cup portions = Portions THEN "REFUNDED" ELSE @]

RefundCall_AlwaysFull(c, p, portions) ==
  [c EXCEPT !.pay = p, !.portions = portions, !.todo = portions, !.payTo = "REFUNDED"]

RefundCall(c, p, portions) ==
  [c EXCEPT !.pay = p, !.portions = portions, !.todo = portions,
            !.payTo = IF marked[p] \cup portions = Portions
                      THEN "REFUNDED" ELSE "PARTIALLY_REFUNDED"]

At(h, step, ops) == call[h].step = step /\ call[h].op \in ops

Finish(h) == call' = [call EXCEPT ![h] = Idle]

-----------------------------------------------------------------------------
(* The customer: submit, pay.                                                 *)

SubmitForReview(h, a) ==
  /\ status[a] = "DRAFT"
  /\ Begin(h, AppCall("write", "submitForReview", a, "UNPAID"))

Submit(h, a) ==
  /\ status[a] \in {"UNPAID", "DRAFT"}
  /\ Begin(h, AppCall("check", "submit", a, "SUBMITTED"))

CreatePayment(h, a) ==
  /\ status[a] \in {"UNPAID", "SUBMITTED"}
  /\ Begin(h, AppCall("check", "createPayment", a, Keep))

\* A started payment whose expiresAt is past is expired on the way, and the
\* request then fails.
StartOrExpire(h, op, p, S, next, to) ==
  /\ owner[p] # NoApp
  /\ payStatus[p] \in S
  /\ Begin(h, PayCall(IF lapsed[p] THEN "expire" ELSE next, op, p, to))

Initialize_AnyUnpaid(h, p) ==
  StartOrExpire(h, "initialize", p, PayStatuses \ Settled, "write", "PENDING")

Initialize(h, p) ==
  StartOrExpire(h, "initialize", p, {"CREATED", "PENDING"}, "write", "PENDING")

ConfirmMockAuthorize(h, p) ==
  StartOrExpire(h, "authorize", p, Open, "provider", "AUTHORIZED")

ConfirmMockPayment(h, p) ==
  StartOrExpire(h, "confirmPayment", p, Open, "write", "PAID")

-----------------------------------------------------------------------------
(* The provider's callback and the administrator's status override: both      *)
(* validate the transition against the row they read.                         *)

HandleCallback(h, p, to) ==
  /\ owner[p] # NoApp
  /\ to \in CallbackStatuses \cap Transitions[payStatus[p]]
  /\ Begin(h, PayCall("write", "callback", p, to))

UpdateStatus(h, p, to) ==
  /\ owner[p] # NoApp
  /\ to \in Transitions[payStatus[p]]
  /\ Begin(h, PayCall("write", "updateStatus", p, to))

-----------------------------------------------------------------------------
(* The administrator's manual capture, release and refund.                    *)

CapturePayment_Again(h, p) ==
  /\ owner[p] # NoApp
  /\ payStatus[p] \in Settled
  /\ Begin(h, PayCall("check", "capture", p, "PAID"))

CapturePayment(h, p) ==
  /\ owner[p] # NoApp
  /\ payStatus[p] = "AUTHORIZED"
  /\ Begin(h, PayCall("check", "capture", p, "PAID"))

ReleasePayment(h, p) ==
  /\ owner[p] # NoApp
  /\ payStatus[p] = "AUTHORIZED"
  /\ Begin(h, PayCall("check", "release", p, "CANCELLED"))

SelectiveRefund(h, p, portions) ==
  /\ owner[p] # NoApp
  /\ payStatus[p] \in Refundable
  /\ portions # {}
  /\ portions \cap marked[p] = {}
  /\ Begin(h, RefundCall(PayCall("provider", "refund", p, Keep), p, portions))

-----------------------------------------------------------------------------
(* The operator: first decision (accept, cancel), second decision (approve,   *)
(* reject), and the status writes that follow.                                *)

AcceptApplication(h, a) ==
  /\ status[a] = "SUBMITTED"
  /\ Begin(h, AppCall("check", "accept", a, "PROCESSING"))

CancelApplication(h, a) ==
  /\ status[a] = "SUBMITTED"
  /\ Begin(h, AppCall("check", "cancel", a, "CANCELLED"))

ApproveApplication_Submitted(h, a) ==
  /\ status[a] \in {"SUBMITTED", "PROCESSING"}
  /\ Begin(h, AppCall("write", "approve", a, "APPROVED"))

ApproveApplication(h, a) ==
  /\ status[a] = "PROCESSING"
  /\ Begin(h, AppCall("write", "approve", a, "APPROVED"))

\* Refunding nothing is allowed, and then no payment is looked at.
RejectApplication(h, a, portions) ==
  /\ status[a] = "PROCESSING"
  /\ Begin(h, [AppCall(IF portions = {} THEN "write" ELSE "check",
                       "reject", a, "REJECTED") EXCEPT !.portions = portions])

ChangeStatus(h, a, to) ==
  /\ <<status[a], to>> \in StatusChanges
  /\ Begin(h, AppCall("write", "changeStatus", a, to))

\* applicants.updateStatus: the aggregate of the applicants' statuses is "to".
RecomputeApplicationStatus(h, a, to) ==
  /\ status[a] \in WorkedOn
  /\ to \in WorkedOn \ {status[a]}
  /\ Begin(h, AppCall("write", "recompute", a, to))

\* issueVisa for the last applicant who had none; issuing a visa while others
\* still wait changes nothing here.
IssueVisa(h, a) ==
  /\ status[a] \in {"APPROVED", "READY_TO_DOWNLOAD"}
  /\ Begin(h, AppCall("write", "issueVisa", a, "READY_TO_DOWNLOAD"))

-----------------------------------------------------------------------------
(* The second read of a handler that reads two rows.  A check that fails is   *)
(* an error response.                                                         *)

Checking(h, op) == At(h, "check", {op}) /\ UNCHANGED <<apps, pays, ledger, overdue, faults>>

Advance(h, c) == call' = [call EXCEPT ![h] = c]

CheckSettled_Started(h) ==
  /\ Checking(h, "submit")
  /\ Advance(h, IF PaymentsIn(call[h].app, Settled \cup Open) # {}
                THEN [call[h] EXCEPT !.step = "write"] ELSE Idle)

\* submit: is there an authorized or captured payment?
CheckSettled(h) ==
  /\ Checking(h, "submit")
  /\ Advance(h, IF PaymentsIn(call[h].app, Settled) # {}
                THEN [call[h] EXCEPT !.step = "write"] ELSE Idle)

CheckNoActivePayment_PaidOnly(h) ==
  /\ Checking(h, "createPayment")
  /\ Advance(h, IF PaymentsIn(call[h].app, {"PAID"}) = {}
                THEN [call[h] EXCEPT !.step = "write"] ELSE Idle)

\* createPayment: the duplicate prevention rule.  findFirst has no order, so
\* any of the matching rows may be the one that decides.
CheckNoActivePayment(h) ==
  LET existing == PaymentsIn(call[h].app, Open \cup {"PAID"})
  IN /\ Checking(h, "createPayment")
     /\ \/ /\ existing = {}
           /\ Advance(h, [call[h] EXCEPT !.step = "write"])
        \/ \E p \in existing :
             Advance(h, IF payStatus[p] # "PAID" /\ lapsed[p]
                        THEN [call[h] EXCEPT !.step = "expire", !.pay = p] ELSE Idle)

AssertManualPaymentActionAllowed_Always(h, op) ==
  /\ op \in {"capture", "release"}
  /\ Checking(h, op)
  /\ Advance(h, [call[h] EXCEPT !.step = "provider"])

\* assertManualPaymentActionAllowed: not while the first decision is open.
AssertManualPaymentActionAllowed(h, op) ==
  /\ op \in {"capture", "release"}
  /\ Checking(h, op)
  /\ Advance(h, IF status[call[h].app] = "SUBMITTED"
                THEN Idle ELSE [call[h] EXCEPT !.step = "provider"])

GetAuthorizedPayment_NoProvider(h, op, to) ==
  /\ Checking(h, op)
  /\ \E p \in Latest(PaymentsIn(call[h].app, {"AUTHORIZED"})) :
       Advance(h, [call[h] EXCEPT !.step = "write", !.pay = p, !.payTo = to])

\* getAuthorizedPaymentForApplication, for accept and cancel.
GetAuthorizedPayment(h, op, to) ==
  LET authorized == PaymentsIn(call[h].app, {"AUTHORIZED"})
  IN /\ Checking(h, op)
     /\ \/ /\ authorized = {}
           /\ Advance(h, Idle)
        \/ \E p \in Latest(authorized) :
             Advance(h, [call[h] EXCEPT !.step = "provider", !.pay = p, !.payTo = to])

\* getCapturedPaymentForApplication and assertRefundablePortions, for reject.
GetCapturedPayment(h) ==
  LET paid == PaymentsIn(call[h].app, Refundable)
  IN /\ Checking(h, "reject")
     /\ \/ /\ paid = {}
           /\ Advance(h, Idle)
        \/ \E p \in Latest(paid) :
             Advance(h, IF call[h].portions \cap marked[p] = {}
                        THEN RefundCall([call[h] EXCEPT !.step = "provider"],
                                        p, call[h].portions)
                        ELSE Idle)

\* A lapsed payment becomes EXPIRED; only createPayment goes on after that.
ExpireLapsed(h) ==
  /\ call[h].step = "expire"
  /\ payStatus' = [payStatus EXCEPT ![call[h].pay] = "EXPIRED"]
  /\ Advance(h, IF call[h].op = "createPayment"
                THEN [call[h] EXCEPT !.step = "write", !.pay = NoPay] ELSE Idle)
  /\ UNCHANGED <<apps, owner, marked, lapsed, ledger, overdue, faults>>

-----------------------------------------------------------------------------
(* The calls to the provider, which no transaction can undo.  A refund of     *)
(* both portions is two calls, government first.                              *)

Calling(h, ops) == At(h, "provider", ops) /\ UNCHANGED <<apps, pays, overdue, faults>>

ProviderAuthorize(h) ==
  /\ Calling(h, {"authorize"})
  /\ held' = [held EXCEPT ![call[h].pay] = TRUE]
  /\ Advance(h, [call[h] EXCEPT !.step = "write"])
  /\ UNCHANGED <<captured, released, refunds>>

ProviderCapture_Excused(h) ==
  /\ Calling(h, {"capture", "accept"})
  /\ captured' = [captured EXCEPT ![call[h].pay] = IF released[call[h].pay] > 0 THEN @ ELSE AtMost2(@)]
  /\ Advance(h, [call[h] EXCEPT !.step = "write"])
  /\ UNCHANGED <<held, released, refunds>>

ProviderCapture(h) ==
  /\ Calling(h, {"capture", "accept"})
  /\ captured' = [captured EXCEPT ![call[h].pay] = AtMost2(@)]
  /\ Advance(h, [call[h] EXCEPT !.step = "write"])
  /\ UNCHANGED <<held, released, refunds>>

ProviderRelease(h) ==
  /\ Calling(h, {"release", "cancel"})
  /\ released' = [released EXCEPT ![call[h].pay] = AtMost2(@)]
  /\ Advance(h, [call[h] EXCEPT !.step = "write"])
  /\ UNCHANGED <<held, captured, refunds>>

ProviderRefund_FirstOnly(h) ==
  LET portion == IF "government" \in call[h].todo THEN "government" ELSE "service"
  IN /\ Calling(h, {"refund", "reject"})
     /\ refunds' = [refunds EXCEPT ![call[h].pay][portion] = AtMost2(@)]
     /\ Advance(h, [call[h] EXCEPT !.step = "write"])
     /\ UNCHANGED <<held, captured, released>>

ProviderRefund(h) ==
  LET portion == IF "government" \in call[h].todo THEN "government" ELSE "service"
      left == call[h].todo \ {portion}
  IN /\ Calling(h, {"refund", "reject"})
     /\ refunds' = [refunds EXCEPT ![call[h].pay][portion] = AtMost2(@)]
     /\ Advance(h, [call[h] EXCEPT !.todo = left,
                                   !.step = IF left = {} THEN "write" ELSE @])
     /\ UNCHANGED <<held, captured, released>>

-----------------------------------------------------------------------------
(* The transactions.  None of them looks again at what the reads had seen.    *)

Writing(h, ops) ==
  At(h, "write", ops) /\ Finish(h) /\ UNCHANGED <<ledger, overdue, faults>>

\* The payment window opens with the UNPAID status.
WriteUnpaid(h) ==
  /\ Writing(h, {"submitForReview"})
  /\ status' = [status EXCEPT ![call[h].app] = call[h].appTo]
  /\ window' = [window EXCEPT ![call[h].app] = "ahead"]
  /\ UNCHANGED <<appPay, pays>>

WriteStatus(h) ==
  /\ Writing(h, {"submit", "approve", "changeStatus", "recompute", "issueVisa"})
  /\ status' = [status EXCEPT ![call[h].app] = call[h].appTo]
  /\ UNCHANGED <<appPay, window, pays>>

\* The next row; its expiresAt is the application's deadline.
InsertPayment(h) ==
  /\ Writing(h, {"createPayment"})
  /\ \E p \in Payments :
       /\ owner[p] = NoApp
       /\ \A q \in Payments : q < p => owner[q] # NoApp
       /\ owner' = [owner EXCEPT ![p] = call[h].app]
       /\ lapsed' = [lapsed EXCEPT ![p] = window[call[h].app] = "past"]
  /\ UNCHANGED <<apps, payStatus, marked>>

\* A status the application does not follow.
WritePayment(h) ==
  /\ Writing(h, {"initialize", "callback", "updateStatus"})
  /\ call[h].payTo # "PAID"
  /\ payStatus' = [payStatus EXCEPT ![call[h].pay] = call[h].payTo]
  /\ UNCHANGED <<apps, owner, marked, lapsed>>

WriteFlip_StaysUnpaid(h) ==
  LET c == call[h]
  IN /\ Writing(h, {"authorize", "capture", "confirmPayment", "callback", "updateStatus"})
     /\ c.payTo = "PAID" \/ c.op = "authorize"
     /\ payStatus' = [payStatus EXCEPT ![c.pay] = c.payTo]
     /\ appPay' = [appPay EXCEPT ![c.app] = c.payTo]
     /\ UNCHANGED <<status, window, owner, marked, lapsed>>

\* updateApplicationAfterPayment: the application takes the payment's status,
\* and an UNPAID one is SUBMITTED.  updatePaymentStatusInternal does nothing to
\* a payment that already has the status.
WriteFlip(h) ==
  LET c == call[h]
      again == c.op \in {"confirmPayment", "callback"} /\ payStatus[c.pay] = c.payTo
  IN /\ Writing(h, {"authorize", "capture", "confirmPayment", "callback", "updateStatus"})
     /\ c.payTo = "PAID" \/ c.op = "authorize"
     /\ payStatus' = [payStatus EXCEPT ![c.pay] = c.payTo]
     /\ appPay' = [appPay EXCEPT ![c.app] = IF again THEN @ ELSE c.payTo]
     /\ status' = [status EXCEPT ![c.app] =
                     IF @ = "UNPAID" /\ ~again THEN "SUBMITTED" ELSE @]
     /\ UNCHANGED <<window, owner, marked, lapsed>>

WriteSync_PaymentOnly(h) ==
  LET c == call[h]
  IN /\ Writing(h, {"release", "refund"})
     /\ payStatus' = [payStatus EXCEPT ![c.pay] = c.payTo]
     /\ marked' = [marked EXCEPT ![c.pay] = @ \cup c.portions]
     /\ UNCHANGED <<apps, owner, lapsed>>

\* syncApplicationPaymentStatus: the application takes the payment's status and
\* stays where it is.
WriteSync(h) ==
  LET c == call[h]
  IN /\ Writing(h, {"release", "refund"})
     /\ payStatus' = [payStatus EXCEPT ![c.pay] = c.payTo]
     /\ marked' = [marked EXCEPT ![c.pay] = @ \cup c.portions]
     /\ appPay' = [appPay EXCEPT ![c.app] = c.payTo]
     /\ UNCHANGED <<status, window, owner, lapsed>>

\* accept, cancel, reject: payment and application in one transaction.
WriteDecision(h) ==
  LET c == call[h]
  IN /\ Writing(h, {"accept", "cancel", "reject"})
     /\ status' = [status EXCEPT ![c.app] = c.appTo]
     /\ IF c.pay = NoPay
        THEN UNCHANGED <<payStatus, marked, appPay>>
        ELSE /\ payStatus' = [payStatus EXCEPT ![c.pay] = c.payTo]
             /\ marked' = [marked EXCEPT ![c.pay] = @ \cup c.portions]
             /\ appPay' = [appPay EXCEPT ![c.app] = c.payTo]
     /\ UNCHANGED <<window, owner, lapsed>>

-----------------------------------------------------------------------------
(* Time, the payment-window sweep, and what can fail.                         *)

\* The deadline passes, for the application and for the payments that took
\* their expiresAt from it.
WindowCloses(a) ==
  /\ window[a] = "ahead"
  /\ window' = [window EXCEPT ![a] = "past"]
  /\ lapsed' = [p \in Payments |-> lapsed[p] \/ owner[p] = a]
  /\ UNCHANGED <<status, appPay, owner, payStatus, marked, ledger, call, overdue, faults>>

\* expiryPass, the query: overdue, and no payment authorized or captured.
Overdue(a) ==
  /\ status[a] = "UNPAID"
  /\ window[a] = "past"
  /\ PaymentsIn(a, Settled) = {}

SweepRead_Unstarted ==
  LET due == {a \in Apps : Overdue(a) /\ PaymentsIn(a, Open) = {}}
  IN /\ overdue = {}
     /\ Overlap \/ Quiet
     /\ overdue' \in (SUBSET due) \ {{}}
     /\ Cardinality(overdue') <= SweepBatch
     /\ UNCHANGED <<apps, pays, ledger, call, faults>>

\* sweep: one at a time (the running guard); no order is asked for, so a batch
\* is any SWEEP_BATCH of the rows.
SweepRead ==
  LET due == {a \in Apps : Overdue(a)}
  IN /\ overdue = {}
     /\ Overlap \/ Quiet
     /\ overdue' \in (SUBSET due) \ {{}}
     /\ Cardinality(overdue') <= SweepBatch
     /\ overdue' = due \/ Cardinality(overdue') = SweepBatch
     /\ UNCHANGED <<apps, pays, ledger, call, faults>>

\* One row of the batch: the application and its started payments expire, in
\* one transaction that does not repeat the query.
SweepExpire(a) ==
  /\ a \in overdue
  /\ overdue' = overdue \ {a}
  /\ status' = [status EXCEPT ![a] = "EXPIRED"]
  /\ appPay' = [appPay EXCEPT ![a] = "EXPIRED"]
  /\ payStatus' = [p \in Payments |-> IF p \in PaymentsIn(a, Open)
                                      THEN "EXPIRED" ELSE payStatus[p]]
  /\ UNCHANGED <<window, owner, marked, lapsed, ledger, call, faults>>

\* The row's transaction fails; the loop goes on with the next row.
SweepSkips(a) ==
  /\ faults < MaxFaults
  /\ faults' = faults + 1
  /\ a \in overdue
  /\ overdue' = overdue \ {a}
  /\ UNCHANGED <<apps, pays, ledger, call>>

\* The provider declines, or a query fails: the request ends where it is.
CallFails(h) ==
  /\ faults < MaxFaults
  /\ faults' = faults + 1
  /\ call[h].step # "idle"
  /\ Finish(h)
  /\ UNCHANGED <<apps, pays, ledger, overdue>>

\* The process stops: every request and the sweep's batch are lost.
Restart ==
  /\ faults < MaxFaults
  /\ faults' = faults + 1
  /\ ~Quiet
  /\ call' = [h \in Handlers |-> Idle]
  /\ overdue' = {}
  /\ UNCHANGED <<apps, pays, ledger>>

-----------------------------------------------------------------------------

CustomerRequest(h) ==
  \/ \E a \in Apps : SubmitForReview(h, a) \/ Submit(h, a) \/ CreatePayment(h, a)
  \/ \E p \in Payments : \/ Initialize(h, p)
                         \/ ConfirmMockAuthorize(h, p)
                         \/ ConfirmMockPayment(h, p)

PaymentRequest(h) ==
  \E p \in Payments :
    \/ \E to \in PayStatuses : HandleCallback(h, p, to) \/ UpdateStatus(h, p, to)
    \/ CapturePayment(h, p)
    \/ ReleasePayment(h, p)
    \/ \E portions \in SUBSET Portions : SelectiveRefund(h, p, portions)

OperatorRequest(h) ==
  \E a \in Apps :
    \/ AcceptApplication(h, a)
    \/ CancelApplication(h, a)
    \/ ApproveApplication(h, a)
    \/ \E portions \in SUBSET Portions : RejectApplication(h, a, portions)
    \/ \E to \in AppStatuses : ChangeStatus(h, a, to) \/ RecomputeApplicationStatus(h, a, to)
    \/ IssueVisa(h, a)

Check(h) ==
  \/ CheckSettled(h)
  \/ CheckNoActivePayment(h)
  \/ \E op \in {"capture", "release"} : AssertManualPaymentActionAllowed(h, op)
  \/ GetAuthorizedPayment(h, "accept", "PAID")
  \/ GetAuthorizedPayment(h, "cancel", "CANCELLED")
  \/ GetCapturedPayment(h)

Provider(h) ==
  ProviderAuthorize(h) \/ ProviderCapture(h) \/ ProviderRelease(h) \/ ProviderRefund(h)

Write(h) ==
  \/ ExpireLapsed(h)
  \/ WriteUnpaid(h)
  \/ WriteStatus(h)
  \/ InsertPayment(h)
  \/ WritePayment(h)
  \/ WriteFlip(h)
  \/ WriteSync(h)
  \/ WriteDecision(h)

Request(h) == CustomerRequest(h) \/ PaymentRequest(h) \/ OperatorRequest(h)

Next ==
  \/ \E h \in Handlers : Request(h) \/ Check(h) \/ Provider(h) \/ Write(h) \/ CallFails(h)
  \/ \E a \in Apps : WindowCloses(a) \/ SweepExpire(a) \/ SweepSkips(a)
  \/ SweepRead
  \/ Restart

Spec == Init /\ [][Next]_vars

\* The sweep's timer keeps firing, and its loop visits every row it fetched.
\* Nothing is assumed of customers, operators or the provider.
Fairness == WF_vars(SweepRead) /\ \A a \in Apps : WF_vars(SweepExpire(a))

FairSpec == Spec /\ Fairness

-----------------------------------------------------------------------------
(* Properties of every schedule, with faults and restarts.                    *)

Row(p) == owner[p] # NoApp

Charged(a) == \E p \in Payments : owner[p] = a /\ captured[p] > 0

\* The office never works on a case for which the provider was not asked to
\* capture: a case in PROCESSING or beyond has a captured payment, whatever
\* requests overlap, fail or are lost.  (APPROVABLE_STATUSES and
\* RECOMPUTABLE_STATUSES rest on it.)
WorkedOnImpliesCaptured ==
  \A a \in Apps : status[a] \in WorkedOn => Charged(a)

\* In the two-stage flow a payment never claims money the provider was not
\* asked to move: AUTHORIZED was held, PAID and what follows it was captured,
\* CANCELLED was released, a portion marked as refunded was refunded; and
\* nothing is captured or released that was not held, nor refunded that was
\* not captured.
StatusHasItsCall ==
  \A p \in Payments :
    /\ payStatus[p] = "AUTHORIZED" => held[p]
    /\ payStatus[p] \in Refundable \cup {"REFUNDED"} => captured[p] > 0
    /\ payStatus[p] = "CANCELLED" => released[p] > 0
    /\ captured[p] > 0 \/ released[p] > 0 => held[p]
    /\ \A f \in Portions : /\ f \in marked[p] => refunds[p][f] > 0
                           /\ refunds[p][f] > 0 => captured[p] > 0

\* In the two-stage flow an application waits for the first decision only if
\* an authorization was granted for it (the payment gate of submit, and
\* updateApplicationAfterPayment).
SubmittedWasHeld ==
  \A a \in Apps : status[a] = "SUBMITTED" => \E p \in Payments : owner[p] = a /\ held[p]

-----------------------------------------------------------------------------
(* What the handlers in flight may count on.  Nothing is locked between a     *)
(* read and the write that follows from it, so these are the facts about the  *)
(* database and the ledger that no other request, fault or sweep can undo:    *)
(* rows keep their application, and the provider's calls stay performed.      *)

AppOps == {"submitForReview", "submit", "accept", "cancel", "approve", "reject",
           "changeStatus", "recompute", "issueVisa"}

PayOps == {"initialize", "authorize", "confirmPayment", "callback", "updateStatus",
           "capture", "release", "refund"}

\* The rows a handler holds belong together, and it has a value for whatever it
\* is about to write.
Coherent(c) ==
  /\ c.op # "none" => c.app \in Apps
  /\ c.pay # NoPay => c.app \in Apps /\ owner[c.pay] = c.app
  /\ c.op \in AppOps => c.appTo \in AppStatuses
  /\ c.op \in PayOps => c.pay # NoPay
  /\ c.pay # NoPay /\ c.op # "createPayment" => c.payTo \in PayStatuses
  /\ c.op \in {"accept", "cancel"} /\ c.step = "write" => c.pay # NoPay
  /\ c.step = "provider" => c.pay # NoPay

\* A handler about to let work start or go on has a captured payment behind it.
BackedByCapture(c) ==
  c.appTo \in WorkedOn /\ (c.op = "accept" => c.step = "write")
    => c.app \in Apps /\ Charged(c.app)

\* A request in flight writes nothing that would put an application to work
\* uncaptured, whatever another request did since its reads: the facts it rests on
\* cannot have become false.
InFlight == \A h \in Handlers : Coherent(call[h]) /\ BackedByCapture(call[h])

\* In the two-stage flow, the provider's calls a handler has behind it before it
\* writes the status that reports them.
BackedByCalls(c) ==
  /\ c.op \in TwoStage \cup {"none"}
  /\ c.op = "initialize" => c.payTo = "PENDING"
  /\ c.op = "authorize" => c.payTo = "AUTHORIZED" /\ (c.step = "write" => held[c.pay])
  /\ c.op \in {"capture", "accept"} /\ c.pay # NoPay =>
       /\ c.payTo = "PAID"
       /\ held[c.pay]
       /\ c.step = "write" => captured[c.pay] > 0
  /\ c.op \in {"release", "cancel"} /\ c.pay # NoPay =>
       /\ c.payTo = "CANCELLED"
       /\ held[c.pay]
       /\ c.step = "write" => released[c.pay] > 0
  /\ c.op \in {"refund", "reject"} /\ c.pay # NoPay =>
       /\ c.payTo \in {"REFUNDED", "PARTIALLY_REFUNDED"}
       /\ captured[c.pay] > 0
       /\ \A f \in c.portions : f \in c.todo \/ refunds[c.pay][f] > 0
       /\ c.step = "write" => c.todo = {}
  /\ c.portions # {} => c.op \in {"refund", "reject"}
  /\ c.appTo = "SUBMITTED" => c.op = "submit"
  /\ c.op = "submit" /\ c.step = "write" =>
       \E p \in Payments : owner[p] = c.app /\ held[p]

\* Whatever overlaps it, a request of the two-stage flow writes a status only
\* with the provider's calls behind it that the status reports.
InFlightTwoStage == \A h \in Handlers : BackedByCalls(call[h])

-----------------------------------------------------------------------------
(* Properties of one request at a time: what create, the sweep and the        *)
(* operator's actions promise when their reads are not stale.                 *)

\* The duplicate prevention rule of payments.create: an application has at
\* most one payment that is CREATED, PENDING or PROCESSING.
OneActivePayment ==
  \A p, q \in Payments :
    Row(p) /\ owner[p] = owner[q] /\ {payStatus[p], payStatus[q]} \subseteq Open => p = q

\* A held payment is settled once: captured or released, never both or twice.
SettledOnce == \A p \in Payments : captured[p] + released[p] <= 1

\* assertRefundablePortions: "Reject a double refund of the same portion."
RefundedOnce == \A p \in Payments, f \in Portions : refunds[p][f] <= 1

\* At rest the payment rows account for all the money: an authorization not
\* captured or released is AUTHORIZED, a capture not refunded in full is PAID or
\* PARTIALLY_REFUNDED, and REFUNDED means both portions went back.
LedgerIsRecorded ==
  Quiet => \A p \in Payments : Row(p) /\ held[p] =>
    /\ captured[p] + released[p] = 0 => payStatus[p] = "AUTHORIZED"
    /\ released[p] > 0 => payStatus[p] = "CANCELLED"
    /\ captured[p] > 0 => payStatus[p] = CASE marked[p] = {} -> "PAID"
                                           [] marked[p] = Portions -> "REFUNDED"
                                           [] OTHER -> "PARTIALLY_REFUNDED"
    /\ \A f \in Portions : refunds[p][f] > 0 => f \in marked[p]

\* At rest application.paymentStatus is the status of one of the application's
\* own payments, except for the default PENDING (recordPaymentAction: "keep
\* application.paymentStatus truthful") and for the EXPIRED of a customer who
\* never started to pay.
AppMirrorsAPayment ==
  Quiet => \A a \in Apps :
    \/ appPay[a] = "PENDING"
    \/ appPay[a] = "EXPIRED" /\ status[a] = "EXPIRED"
    \/ PaymentsIn(a, {appPay[a]}) # {}

\* At rest, for the sweep: "an authorized/captured payment must never be expired: the
\* customer would get 'no charge was made' while the hold stays live".
ExpiredHoldsNothing ==
  Quiet => \A a \in Apps : status[a] = "EXPIRED" =>
    \A p \in Payments : owner[p] = a /\ held[p] => released[p] > 0

\* changeStatus cancels only before payment, "otherwise the application would
\* read CANCELLED while the customer's money is still held or already taken".
CancelledHoldsNothing ==
  Quiet => \A a \in Apps : status[a] = "CANCELLED" =>
    \A p \in Payments : owner[p] = a /\ held[p] => released[p] > 0

\* assertManualPaymentActionAllowed: moving the money behind the first decision
\* "STRANDS the application, because both actions require an AUTHORIZED payment
\* and would then fail forever".  At rest, whoever waits for it can be decided.
SubmittedCanBeDecided ==
  Quiet => \A a \in Apps : status[a] = "SUBMITTED" => PaymentsIn(a, {"AUTHORIZED"}) # {}

\* isValidTransition: EXPIRED, CANCELLED and REFUNDED are terminal.
TerminalPaymentsStay ==
  [][\A p \in Payments : Row(p) /\ payStatus[p] \in {"EXPIRED", "CANCELLED", "REFUNDED"}
       => payStatus'[p] = payStatus[p]]_vars

\* The case lifecycle, with "held" and "charged" read off the provider's ledger.
Case == INSTANCE CaseLifecycle WITH
          Cases <- Apps,
          held <- [a \in Apps |-> \E p \in Payments : owner[p] = a /\ held[p]],
          charged <- [a \in Apps |-> Charged(a)]

\* One request at a time, the whole of MoneyPath is a CaseLifecycle: no status
\* is skipped, nothing is worked on uncharged, cancelled cases are not revived,
\* and a case runs out of time only when nothing is held for it.
ImplementsCaseLifecycle == Case!Spec

-----------------------------------------------------------------------------
\* An application whose window closed unpaid does not stay UNPAID: the sweep
\* gets to it, however rows fail and batches are lost before, unless the
\* customer's payment is taken first.
OverdueIsSettled ==
  \A a \in Apps : Overdue(a) ~> status[a] # "UNPAID" \/ PaymentsIn(a, Settled) # {}
=============================================================================
