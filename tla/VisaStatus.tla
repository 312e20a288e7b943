----------------------------- MODULE VisaStatus -----------------------------
(* The status vocabularies of the portal and the tables the services look    *)
(* statuses up in: what a payment may become (PaymentsService), and what an  *)
(* operator may make of an application (ApplicationsService,                  *)
(* ApplicantsService).  Constant-level only; the state is in MoneyPath.       *)

\* enum ApplicationStatus
AppStatuses == {"DRAFT", "UNPAID", "SUBMITTED", "PROCESSING", "APPROVED",
                "READY_TO_DOWNLOAD", "REJECTED", "CANCELLED", "EXPIRED"}

\* enum PaymentStatus
PayStatuses == {"CREATED", "PENDING", "PROCESSING", "AUTHORIZED", "PAID", "FAILED",
                "EXPIRED", "CANCELLED", "REFUNDED", "PARTIALLY_REFUNDED"}

\* The two fee portions a refund can return; the expedited fee is not one of them.
Portions == {"government", "service"}

\* activePaymentStatuses: the payment has been started and nothing is held yet.
Open == {"CREATED", "PENDING", "PROCESSING"}

\* What counts as "the customer has paid" for submit and for the timeout sweep.
Settled == {"AUTHORIZED", "PAID"}

\* A captured payment some of which can still go back.
Refundable == {"PAID", "PARTIALLY_REFUNDED"}

\* RECOMPUTABLE_STATUSES: the statuses an operator owns.
WorkedOn == {"PROCESSING", "APPROVED", "REJECTED", "READY_TO_DOWNLOAD"}

\* isValidTransition: what a payment in status "from" may become.
Transitions ==
  [ CREATED            |-> {"PENDING", "AUTHORIZED", "EXPIRED", "CANCELLED"},
    PENDING            |-> {"PROCESSING", "AUTHORIZED", "PAID", "FAILED",
                            "EXPIRED", "CANCELLED"},
    PROCESSING         |-> {"PAID", "FAILED"},
    AUTHORIZED         |-> {"PAID", "CANCELLED", "EXPIRED"},
    PAID               |-> {"REFUNDED", "PARTIALLY_REFUNDED"},
    FAILED             |-> {"PENDING"},
    EXPIRED            |-> {},
    CANCELLED          |-> {},
    REFUNDED           |-> {},
    PARTIALLY_REFUNDED |-> {"REFUNDED"} ]

\* statusMap of handleCallback: the statuses a provider's callback can ask for.
CallbackStatuses == {"PENDING", "PROCESSING", "PAID", "FAILED", "CANCELLED"}

\* TRANSITIONS of changeStatus, with APPROVABLE_STATUSES expanded: the pairs
\* <<from, to>> the generic endpoint performs.
StatusChanges == { <<"PROCESSING", "APPROVED">>,
                   <<"APPROVED", "READY_TO_DOWNLOAD">>,
                   <<"DRAFT", "CANCELLED">>,
                   <<"UNPAID", "CANCELLED">> }
=============================================================================
