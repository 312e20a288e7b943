# Verification of the e-visa portal backend

The backend (NestJS, Prisma, PostgreSQL; `src/src/modules`) runs a visa case
from a customer's draft to an issued visa, with a two-stage payment in the
middle: the customer's card is *authorized* when the case is submitted, the
operator's first decision *captures* the money (accept) or *releases* it
(cancel), and a later rejection may *refund* parts of it. This directory holds
TLA+ models of that code, TLC configurations that check them, and theorems
about them that TLAPS proves.

## 1. Inventory

Paths are below `src/src/modules`.

| Component | State it keeps | Operations that change it | What makes it correct |
|---|---|---|---|
| `payments/` | rows of `Payment` (status, amounts, refund marks, `expiresAt`), status history, transactions, callbacks, reconciliation | create, initialize, confirm-mock(-authorize), callback, status override, capture, release, refund | one active payment per application; money moved once; the row never claims a provider call that was not made; terminal statuses stay |
| `payments/providers/` | the gateway (a mock today) | authorize, capture, release, refund, callbacks | external: can decline, cannot be rolled back |
| `applications/` | `Application.currentStatus`, `.paymentStatus`, `.paymentDeadlineAt`, assignee, notes, reference code, fees | create, submitForReview, submit, accept, cancel, approve, reject, changeStatus, assign, notes, estimated time | nobody works on an unpaid case; a cancelled or expired case holds no money; the first decision can always be taken |
| `applications/payment-timeout.service.ts` | a timer, a `running` flag | warning pass, expiry pass | an overdue unpaid application is expired, however rows fail; one that was paid never is |
| `applicants/` | applicant statuses, codes, issued visas | create, update, delete, updateStatus, issueVisa | the application's status follows its applicants and never leaves the paid part of the lifecycle |
| `applications/application-completeness*`, `application-fees.ts`, `templateBindings/`, `bindingNationalityFees/` | form values, fee tables | pure functions, recalculateTotalFee | the amount charged is the amount of the applicants there are |
| `notifications/` (telegram, emitter, e-mail outbox) | `NotificationEvent`, `Notification`, an in-memory failure window | send, retry queue, retry, process | an event is not lost and not repeated without need; attempts are bounded |
| `jobs/` | `Job`, `JobExecution` | create, retry, cancel | retries are bounded; a job that was completed or cancelled is not cancelled again, and comes back by a counted retry only |
| `settings/` | singleton row, maintenance cache | updateSettings, getMaintenanceState | a change is seen on the next request, unless it went past the cache, and then within the cache's lifetime |
| `auth/`, `sessions/` | `User`, `Session`, `PasswordResetToken` | login, refresh, logout, revoke, password change and reset | a reset token is used once; a revoked session stays revoked; a reset ends the sessions of the old password |
| `users/`, `roles/`, `permissions/`, `accessControl/` | users, roles, permissions, overrides, the compiled permission rows | create, update, activate, delete, assign, the permission matrix | effective permissions = role + grants - denies; the organisation cannot lock itself out |
| `portalAuth/`, `portalSessions/` | `OtpCode`, `PortalIdentity`, `PortalSession` | sendOtp, verifyOtp, refresh, logout | one session of one code; only the newest code opens; cooldown and hourly limit |
| `otp/` | `OtpCode` | none has a caller | - |
| `resultFiles/`, `documents/`, `storage/` | file rows and stored objects | upload, delete, hard delete, signed links | no row is shown whose object is gone |
| `templates/`, `templateSections/`, `templateFields/`, `formRenderer/` | forms | create, duplicate, update, delete, reorder, the back-fill at start | system fields stay; a field stays in its form |
| `templateBindings/`, `bindingNationalityFees/`, `countries/`, `countryPages/`, `visaTypes/`, `publicSelection/` | what is on sale and where it is shown | create, update, delete, bulk upsert and copy | what is offered can be quoted, booked and filled in; what is on sale has a page; a deletion does not end an offer under the customer |
| `contentPages/`, `faqItems/`, `helpArticles/`, `homepageSlides/`, `contactInfo/`, `countrySections/`, `countryPageImages/`, `paymentPageConfigs/` | texts, categories, pictures, numbers that order them | create, update, delete, reorder | nothing is left under a deleted category; an order that was given stays one, until rows come in from elsewhere |
| `email/`, `emailTemplates/` | `EmailTemplate`, `EmailLog` | template edits, render, send, log | an occasion has one letter, and its outcome is in the log; a second occasion takes requests that overlap |
| `applications/portal-token.service.ts`, `files/` | signed links (no rows) | sign, verify | a link opens what it was signed for, as long as it was signed for |
| `auditLogs/`, `paymentTransactions/`, `dashboard/`, `customerPortal/`, `tracking/`, `health/`, `geoLookup/` | append-only or read-only | - | - |
| `prisma/seed.ts` | a script of 2831 lines written for an earlier schema | - | - |

How they interact. Every HTTP request is an `async` handler of one Node
process over one database; several run at once and interleave at every
`await`. Controllers call services, services call each other directly
(`applications` calls `payments` for the money of a decision), and e-mails and
notifications are sent after the transaction. Nothing locks rows between a
read and the transaction that follows from it, transactions do not look again at
what was read, and a call to the provider sits between the two. The timeout
sweep is a timer in the same process.

The hard behaviours, with their lines, are the `hazards` of `PROJECT.json`.

## 2. What is modelled

| Module | Content | Proofs |
|---|---|---|
| `VisaStatus` | the status vocabularies and tables of the services | |
| `CaseLifecycle` | abstract specification: what the portal promises of one case | |
| `MoneyPath` | payments, applications, the expiry sweep and the provider's ledger | `MoneyPathProofs` |
| `EventDelivery` | abstract specification: what an operator may rely on when reading the rows of notification events | |
| `TelegramDelivery` | operator notifications: first attempt, retry queue, Telegram | `TelegramProofs` |
| `AdminAccess` | users, roles, permissions, administrator sessions, reset links | `AccessProofs` |
| `PortalAccess` | codes and sessions of a customer's address | `AccessProofs` |
| `Casework` | a case before payment: people, prices, codes; the desk that works on it | `CaseProofs` |
| `StoredFiles` | documents, visas, result files, pictures, the video of an article | `DocumentProofs` |
| `Backoffice` | settings and their cache, notifications, jobs | `BackofficeProofs` |
| `LetterLog` | abstract specification: what a reader of the e-mail log may rely on | |
| `Correspondence` | e-mail templates, letters of a case, their log, the warning pass | `BackofficeProofs` |
| `VisaIssue` | decisions on applicants, visas issued and replaced, links to them | `DocumentProofs` |
| `FormTemplates` | forms, their sections and fields | `CatalogueProofs` |
| `Offering` | what a destination sells by these forms and where it is shown | `CatalogueProofs` |
| `Content` | questions, articles, categories, pages, the single rows | `CatalogueProofs` |
| `Ordering` | the numbers that order a list | `CatalogueProofs` |
| `MCOffice` | instance for TLC: seven components side by side | `OfficeProofs` |
| `MCCatalogue` | instance for TLC: the three of the catalogue side by side | `CatalogueProofs` |
| `MCMoneyPath`, `MCTelegramDelivery` | instances for TLC | |

`Offering` extends `FormTemplates`: a binding refers to a form, and deleting a
form looks at the bindings. `MoneyPath` uses `VisaStatus` and implements
`CaseLifecycle`; `TelegramDelivery` implements `EventDelivery`, and
`Correspondence` `LetterLog`. The other modules share no variable: `MCOffice` and
`MCCatalogue` put several of them side by side and follow one per behaviour.

The same conventions hold everywhere. A request is cut where the code awaits
something another request can get between: usually a step that reads and checks
(`UpdateUser`, `DeleteFaqCategory`), which leaves in `call[h]` (`task`, `work`,
`errand`, `post`, `doing`, `draft`, `sorting`) what the handler will write, and a
step that writes (`SaveUser`, `DropFaqCategory`). A Prisma `$transaction` is one
step. A unique index is a guard of the write. A request can fail at each of its
steps; a failure is interesting only once something was written, so some modules
count faults from there. A variable that starts as "the set of operations
offered" (`offered`, `caseOffer`, ...) restricts a behaviour to operations that
can disturb each other and keeps the instances small; a member `"overlap"` of it,
or a flag beside it, lets requests overlap where otherwise one follows another.
Variables that record what happened and exist in no table are named here, since
properties are conditioned on them: `raced` and `portalRaced` (two requests of
the component have overlapped), `crossed` (a submission overlapped with a change
of the price), `unpriced` (a submission found no active fee), `torn` (a file
removal was interrupted), `calls` (how often there was an occasion for a letter),
`stale` (occasions that came of a write on what had changed since it was read),
`excused` (letters that a failure or a stop cut off), `broken` and `overruled` (an
issue was interrupted; an operator set the status after it was complete), `formerly`
(addresses that were corrected), `late` (rows filed under a category that was
deleted or being deleted), `muddled` (since the list was put in order, a row was
numbered by hand or came in from another category, or requests overlapped),
`current` (when a maintenance mode was last in force), `missed` (a change of it
went past the cache), `mails` and `handed` (what the mail server got).

### MoneyPath

State and code:

| Variable | Code |
|---|---|
| `status`, `appPay` | `application.currentStatus`, `application.paymentStatus` |
| `window` | `application.paymentDeadlineAt`: not set, ahead or past |
| `owner`, `payStatus`, `marked`, `lapsed` | a `Payment` row: `applicationId`, `paymentStatus`, the `...FeeRefundedAt` marks, whether `expiresAt` is past |
| `held`, `captured`, `released`, `refunds` | the provider's own books: the calls it performed. The code keeps no such state; the properties compare the database with it |
| `call[h]` | the local variables of the request handler `h`: what it read and what it is about to write |
| `overdue` | the rows the running sweep has fetched and not yet visited |
| `faults` | a bound |

A handler is cut where the code awaits something another request can get
between:

1. the request (`SubmitForReview`, `AcceptApplication`, `CapturePayment`, ...):
   the first read and its guards;
2. `check`: the second row, for handlers that read two (`CheckSettled`,
   `CheckNoActivePayment`, `GetAuthorizedPayment`, `GetCapturedPayment`,
   `AssertManualPaymentActionAllowed`);
3. `expire`: `updatePaymentStatusInternal` on a payment found lapsed;
4. `provider`: one action per provider call (a refund of both portions is two);
5. `write`: the transaction (`WriteFlip` is `updateApplicationAfterPayment`,
   `WriteSync` is `syncApplicationPaymentStatus`, `WriteDecision` the
   transactions of accept, cancel and reject, ...).

An error response is a return to `Idle`. `CallFails` ends a request at any step
(the provider declines, a query fails), `Restart` loses all of them and the
sweep's batch.

`Endpoints` is the set of operations that can be called. `TwoStage` leaves out
the retired one-step confirmation (`confirmMockPayment`, kept in the service but
routed to `confirmMockAuthorize` by the controller), the provider's callbacks and
the administrator's status override: these write a payment's status without a
provider call, so what a status says about the provider can only be claimed
without them. `Overlap = FALSE` lets a request or a sweep start only when nothing
else runs; it separates what the code promises one request at a time from
what survives any interleaving.

What is abstracted, and why it does not matter to the properties:

- amounts: refunds are per portion (government, service), which is all the code
  can refund;
- time: a deadline is ahead or past; a payment's `expiresAt` is the
  application's deadline and lapses with it;
- history, transaction and audit rows, e-mails, event notifications: written
  with or after the status and never read by the handlers here;
- a transaction is one step; the re-read of the row inside
  `updatePaymentStatusInternal` and `updateApplicationAfterPayment` is in it;
- `completeness`, maintenance mode, assignee and file checks are guards on data
  outside the model: they can pass, so the model lets them;
- applicants: `RecomputeApplicationStatus` writes any aggregate the
  applicants can have, `IssueVisa` is the last missing visa; `VisaIssue` has the
  applicants themselves;
- payments are numbered in the order of `createdAt`.

The operators named `X_Bug` (or `X_` and what it does instead, like
`AddEntry_ByCount`) are variants of `X` with a plausible mistake. No specification
uses them; replacing `X` by one must break the property it is listed with in
`PROJECT.json`, which shows that the property depends on the code.

### CaseLifecycle

The promise made to a customer, with two facts about money (`held`, `charged`)
and nine statuses: submitted only with money held, worked on only once charged,
given up only before money is held, out of time only with nothing held.
`MoneyPath` implements it with `held` and `charged` read off the provider's
ledger (`ImplementsCaseLifecycle`).

### EventDelivery

What the rows of `notification_events` promise, whatever runs of the bot are behind
them: an event that was skipped never leaves the portal; a row reads sent only after
the message arrived, and failed only after it was refused for good or `Limit`
attempts were counted; a row that was closed is never pending again. It promises no
more: a row may go from failed to sent and back, and a message may arrive without
its row ever saying so, since runs of the bot overlap. `TelegramDelivery` implements
it with `row` and `count` read off the row and `arrived` and `barred` off Telegram
(`ImplementsEventDelivery`).

### TelegramDelivery

`notifications/telegram.service.ts`, with the switches of
`notification-emitter.service.ts` in front of it. An event is a row of
`notification_events`; `send()` attempts it once, and a timer runs
`processRetryQueue` every 30 seconds. Nothing keeps a tick from running beside
the next tick, or beside a first attempt, so each execution is a *runner*.

| Variable | Code |
|---|---|
| `status`, `attempts` | `NotificationEvent.status`, `.attemptCount`; the events are numbered in the order of `createdAt` |
| `age` | how many of the `RETRY_DELAYS_MS`, which all count from `createdAt`, are over |
| `accepted`, `refused` | what Telegram did with the message; not in the code, the properties compare the rows with it |
| `run[r]` | the local variables of `send` and `processRetryQueue`: the row in hand, the answer, the rest of `candidates` and the `attemptCount` that was read with them |
| `faults` | a bound |

A runner is cut where the code awaits: the query (`Tick`) or the insert
(`Send`), the loop's decision about its next row (`NextRow`), the call to
Telegram (`Post`), and the updates (`RecordSent`, `RecordFailed`, and for
`markPendingRetry` its two: `RecordRetry`, `GiveUp`). A call that times out or
answers 5xx may have delivered the message. A missing bot or chat id ends like
a final refusal (`markFailed`) and is one here. `RunFails` is a failed query,
which ends the whole tick; `Restart` loses every runner. Left out: the wording
and its escaping, the limiter of one message a second and chat (a delay before
`Post`), and the emitter's window of login failures.

### AdminAccess

`users.service.ts`, `roles.service.ts`, `permissions.service.ts`,
`access-control.service.ts`, `auth.service.ts`, `sessions.service.ts` and the
check of a token in `jwt.strategy.ts`.

| Variable | Code |
|---|---|
| `account`, `roleOf`, `override` | `User.isActive`/`deletedAt`, `User.roleId`, `UserPermission` rows |
| `roleState`, `key`, `grants`, `perms` | `Role` rows and their keys, `RolePermission`, `Permission` |
| `session`, `token`, `password`, `lastReset` | `Session`, `PasswordResetToken`, and the how manieth password a user has, whether it was set or reset |
| `call[h]` | what a request has checked and is about to write |

`Permissions(u)` is what a request is checked against, `EffectivePermissions(u)`
what the matrix shows; they are two pieces of code. Root, its role and the
permissions of the seed are constants. Two refresh tokens signed within one second
are equal; the model takes them to differ.

### PortalAccess

`portal-auth.service.ts` and `portal-sessions.service.ts`, for one address. A code
is a row with an age (`age`: within the cooldown, within the hour, lapsed) and a
mark (`used`); a session carries the code it descends from through every refresh
(`login`). `step[h]` is where a request stands, `item[h]` the code or session in
its hands. Two codes of one address are taken to differ.

### Casework

`applications.service.ts` and `applicants.service.ts` before payment, with what
`payments.service.ts` computes and `application-fees.ts`.

| Variable | Code |
|---|---|
| `booking` | `Application`: stage, reference code, entry, express, stored total |
| `person` | `Applicant`: whose, code, main applicant, deleted |
| `bill` | the `Payment` of an application made last, and the references of them all |
| `fees` | the entries for which the nationality has an active `BindingNationalityFee` row |
| `assigned`, `estimate`, `note` | the desk: operator, estimated days, internal notes |
| `task[h]` | a request: what it read, what it is about to write, its attempt at a code |

An amount is what it is computed from (the entry, the number of people, express),
never a decimal. Codes are numbers; `ScanCodes` takes the highest there is in the
rows the query sees, `Inserted` fails on the unique index and starts again.

`FeeChanges` withdraws or restores a fee at any time. `recalculateTotalFee` and
`update` then find none and leave the stored total as it is, and the submission goes on
(`unpriced`); `payments.create` computes the amount anew by the first active fee of the
nationality, and refuses while there is none. An edit of a fee's amount is left
out: a price is what it was computed from, and no property compares amounts of
two moments.

### StoredFiles

Every place where a row points at an object in storage: `documents`,
`resultFiles`, the visa's file in `applicants.service.ts`, slides, hero and
inline pictures, images of a page, the video of an article. `stored` is the set of
objects there are; the rows are in `kind`, `row` and `article`; the steps of
storing and of writing, and of removing, are separate as they are in the code.

### Backoffice

`settings.service.ts` (the row, and the cached maintenance mode with its five
seconds), `notifications.service.ts` (a notification processed in four steps:
fetch, mark, mail, write the outcome) and `jobs.service.ts`. `current` and `mails`
are not in the code; the properties compare with them. `notifications.send`,
`notifications.queue` and `jobs.create` have no caller in the repository, but are
operations of their services and modelled.

### LetterLog

What the e-mail log and the mail server promise about a letter and an address,
whatever requests, sweeps and failures are behind them: nobody is written to before
there is an occasion; the mail server gets the letter at most once, and only while its
one row is pending; the mark in the row is final, and false only where a failure came
between. A letter here is that of one occasion: a second occasion for the same kind,
which requests that overlap can make, has a letter of its own. It does not promise
that a letter arrives, or that its row is ever marked. `Correspondence` implements it
(`ImplementsLetterLog`): `called` is read off the count of occasions (`Called`), `row`
off `entry` (a second row would show as "twice", which is no step of `LetterLog`),
and `given` and `lapsed` are its `handed` and `excused`.

### Correspondence

Letters about one application to two addresses: `email.service.ts`,
`email-log.service.ts`, `email-template.service.ts`,
`email-templates.service.ts`, the senders in `applications.service.ts` and
`payments.service.ts`, and both passes of `payment-timeout.service.ts`.

| Variable | Code |
|---|---|
| `progress`, `pay`, `window`, `warned` | of the application: status, its payment, the deadline, `paymentWarningSentAt` |
| `template` | `EmailTemplate` rows |
| `entry`, `handed` | the `EmailLog` row for a letter and an address; the mail server |
| `post[h]` | a request or a letter under way, with what it read |
| `sweep` | where the sweep stands between its queries, the stamp and the letter |

An occasion for a letter is three steps, because the code awaits between them: the
check of what was read (`CheckOccasion`: `submitForReview`, `confirmMockAuthorize`,
`acceptApplication` and `cancelApplication`, `changeStatus`), the write by id, which looks at nothing
again (`ApplicationCreated`, `PaymentSucceeded`, `StatusChanged`, `OperatorWrites`),
and the start of the letter (`LetterStarts`). So two requests that checked the same row
both write and both have their letter: `Occasions` are pairs of a kind and a number,
and `MaxCalls` bounds the number. Between the write and the letter lie the history of
the status (`applications.service.ts:584`) or the look-up of the payment
(`payments.service.ts:1833`); a failure there, or a stop, loses the letter
(`QueryFails` at `"start"`, `MailRestart`) and puts its pairs in `excused`. After an accept
or a cancellation there is only the audit log, which swallows its failures
(`audit-logs.service.ts:49`).

A letter is rendered (from a row, or a default in the code), logged, handed to the
mail server and marked, one step each, address by address. A behaviour starts
where the first letter it is about is due. `raw_email`, the custom message, has
neither a template nor a default, so it always ends as failed in the log. The letter
that goes out when a visa is released is of the kind `"status"` in the code's terms and has
its own model in `VisaIssue`.

### VisaIssue

`approve`, `reject`, `updateStatus`, `issueVisa` with replacement,
`resendReadyEmail` and the letters' links (`portal-token.service.ts`), the links
to files (`files.controller.ts`, `getSignedUrl`) and the deletion of a visa's
file. `standing` and `fate` are the statuses of the application and its applicants,
`visa` the rows of visas, `address` the addresses as typed and `Plain` their
lower case; `hour` is a clock for links.

### FormTemplates and Offering

Forms as rows: `template`, `section`, `field`, with the back-fill of system fields
that runs when the service starts. What a field asks, its options and its
translations play no part. `Offering` is one destination and one visa type:
`country`, `visaType`, `entry`, `binding` with its form and validity, `fee`,
`page`, and `booked`, the form of an application made under the binding. What the
public sees is computed by operators that stand for one predicate of the code
each: `DestinationListed` and `EntryListed` (the selection), `Quoted` (the price
preview), `Accepted` (the creation of an application), `FormShown` (the renderer),
`OnGrid`, `CardEntries`, `Eligible` (the country pages). They repeat each other in
the code, and not exactly (section 6). `OnOffer` is what a customer sees to the end, in
the selection or on the page; the properties say that it can be booked, and how it may
end.

### Content and Ordering

`Content` has the questions of the FAQ and the articles of the help under their
categories, the content pages with their date of publication, and the rows there
should be one of (`contactInfo`, the payment page). `Ordering` is the numbering
common to seven lists, which add, delete and reorder by seven different rules
(`Pairs`, `Counted`, exactly the rows there are, or nothing checked): `list` says
which is followed. Questions and articles can change their category (`ChangeCategory`)
or be moved by the forced deletion of theirs (`RescueRows`); they keep their numbers, so a
row comes into the list from `"elsewhere"` with any number.

## 3. What the runs check

All runs use `CHECK_DEADLOCK FALSE`: a case that was issued, rejected, cancelled
or expired legitimately stops, and so does a bounded instance in which every row
has been used.

| Run | Question | Result |
|---|---|---|
| `serial` | one request or sweep at a time, three payment rows | `TypeOK`, `OneActivePayment`, `SettledOnce`, `LedgerIsRecorded`, `AppMirrorsAPayment`, `ExpiredHoldsNothing`, `SubmittedCanBeDecided`, `TerminalPaymentsStay` hold, and the model implements `CaseLifecycle` |
| `overlap` | two requests and the sweep interleave at every await | `WorkedOnImpliesCaptured`, `StatusHasItsCall`, `SubmittedWasHeld` hold, and `InFlight`: nothing another request does takes away what a request in flight relies on |
| `sweep` | two applications, batches of one, one fault or restart, every endpoint | `OverdueIsSettled` (liveness) holds |
| `late_hold` | can a cancelled application hold money? | yes: finding 1 |
| `sweep_vs_hold` | can an expired application hold money? | yes: finding 2 |
| `double_refund` | can a portion be refunded twice? | yes: finding 3 |
| `telegram` | two runners over two events, one failure or restart | `AttemptsBounded`, `PendingIsTried` (liveness) hold, and the model implements `EventDelivery` |
| `telegram_lost` | is every pending event with the retry queue, or about to be given up? | no: finding 4 |
| `office` | two requests overlap in one of seven components, one fails half-way | the components' types; administrators: `RootKeepsAccess`, `PermissionsAgree`, `SessionsAreCurrent`, `RevokedForGood`; customers: `HourlyBounded`, `OneSessionPerCode`, `OnlyNewestCode`; cases: `OneAmount`, `RetriesAreRaces`; files: `FilesBehindRows`; services: `MaintenanceIsFresh`, `RetriesBounded`; letters: `ToldOnce`; visas: `ReadyWhenAllIssued`, `LinksAreGood` hold; and the letters implement `LetterLog` |
| `catalogue` | requests in every order, overlapping where unique keys, the page of a country or a category decide | forms and what is sold: `SystemFieldsGuarded`, `OfferedCanBeBooked`, `PageFollowsBinding`, `DeletionsSpareOffers`; content: `StragglersAreLate`; lists: `PlacesAreDistinct` hold |
| `fields_move` | does a field stay in its form? | no: finding 5 |
| `entry_price` | is the customer charged the price of the entry chosen? | no: finding 6 |

Bounds. Payment rows: three in `serial` (a customer whose payment failed or
expired may start another; three cover an old, a dead and a live one), one in the
runs with overlap, where the interesting thing is two handlers on the same row.
Handlers: two, because every disagreement in this code is between a reader and
one other writer. Applications: one, or two when the sweep's batch has to
choose. The provider's counters stop at 2, which stands for "twice or more".
`MaxFaults` is 1 in `sweep`: one skipped row, failed call or restart; the
theorems below hold for any number.

`telegram` has the real `MAX_ATTEMPTS` (3). Its batch of one against two events
stands for 10 against more: which rows are chosen, and whether a row can starve
behind an older one, shows with one. Two runners are a first attempt and a tick,
or two ticks; one fault is enough to lose a batch or to stop between two
updates.

`office` and `catalogue` follow one component per behaviour, so that one run asks
its questions of all of them without multiplying their states, and within a
component one of the sets of operations listed in `MCOffice` and `MCCatalogue`.
A set holds the operations that read what another of the set writes; failures
(`"fails"`) and restarts (`"restart"`) are explored in the sets that list them,
where a request leaves something half done. Requests are
interchangeable in both (`MCSymmetry`; no liveness is checked there). Their
bounds:

- administrators: Root and one more user, the super role and one more, two
  permissions: enough for one administrator to take from the other, and for a role
  to be deleted while it is being given. Two sessions, two tokens, one change of a
  password;
- customers: an hourly limit of two, two codes, two open sessions at most;
- cases: two applications (one of them a row the sweep deleted when it still did
  that, whose code is taken), two people, two attempts at a code, two payments.
  `office` has one entry; with two, the amounts differ, which is finding 6 and
  `entry_price`. The fee is withdrawn and restored in one of the sets of operations;
- files: two, so that a replacement and a deletion meet; one fault;
- settings: a cache good for one tick and a clock of two, so that a slow read
  outlives it; one restart; a retry limit of one;
- letters: two addresses; two rows of templates; two occasions at most for each letter
  (`MaxCalls`), which is what two overlapping requests can make; one fault. Requests overlap
  in the sets that list `"overlap"`: two submissions, two authorizations, an accept and a
  cancellation with an operator's change of the status, with a failure between the
  write and the letter in the first two;
- visas: two applicants, a mailbox that differs from another only in case, two
  visas, a day of two ticks (the short-lived links last one); applicants are `DRAFT`
  as `submit` leaves them and operators approve or reject them (`Verdicts`); once a
  case is worked on, applicants are not deleted;
- forms: two of them, three sections, three fields, one system field; one item in
  each `reorderFields` call: each item is moved by itself in the code;
- offering: one destination, one visa type, two nationalities, one entry;
- content: the category that takes over and one more, one question, two articles, one slug;
- lists: three rows, numbers up to two, of which some may lie in another category;
  requests overlap for entries only, whose rule is the strictest.

Fairness (`FairSpec`, run `sweep`): weak fairness of `SweepRead` and of every
`SweepExpire(a)`. The timer is set in `onModuleInit` and fires for the life of
the process, again after a restart; the loop of `expiryPass` visits each fetched
row and its `try/catch` goes on after a failure. Nothing is assumed of customers,
operators or the provider. With a batch of one, two overdue applications and no
order in the query, the liveness result depends on each visited row leaving
the query's result.

In `TelegramDelivery` the fairness is that of the timer (`Tick`), of every
step of a runner, because each await ends (the call to Telegram after ten
seconds at the latest), and of time (`Older`). Telegram may refuse for ever:
`PendingIsTried` promises attempts, not delivery.

### Findings

1. **A cancelled application can be held** (`late_hold`). `changeStatus` cancels
   an UNPAID application and leaves its open payment alone; the payment can
   still be authorized, because `confirmMockAuthorize` looks only at the payment
   row. The application stays CANCELLED with a live hold.
2. **An expired application can be held** (`sweep_vs_hold`). The sweep's query
   excludes held payments, the row's transaction does not, and an authorization
   can land in between.
3. **A portion can be refunded twice** (`double_refund`). The refund marks are
   checked before the provider call and written after it.
4. **A pending event can be forgotten** (`telegram_lost`). `markPendingRetry`
   counts the attempt in one update and sets `failed` in a second; without the
   second the row stays pending with its attempts used up, and the retry queue
   does not select it again.

5. **A field changes its form** (`fields_move`). `reorderFields` compares the forms
   of the target sections with each other and loads the fields by id, so a field of
   another form comes along.
6. **The wrong entry is charged** (`entry_price`). `payments.create` charges the
   first fee row that fits the nationality, whichever entry the customer chose.

Each is a disagreement between the code and one of its own comments, quoted in
`PROJECT.json`.

## 4. What is proved

For every set of applications and handlers, every number of payment rows, faults
and batch size:

| Theorem | Statement | Assumption |
|---|---|---|
| `TypesAlwaysOK` | `Spec => []TypeOK` | the constants' assumptions |
| `NoWorkWithoutCapture` | `Spec => []WorkedOnImpliesCaptured` | the same; every endpoint, any overlap |
| `RequestsStayBacked` | `Spec => []InFlight` | the same |
| `StatusesAreTrue` | `Spec => []StatusHasItsCall` | `Endpoints \subseteq TwoStage` |
| `SubmittedOnlyHeld` | `Spec => []SubmittedWasHeld` | the same |
| `WritesStayBacked` | `Spec => []InFlightTwoStage` | the same; proved only, no run repeats it |

`WorkedOnImpliesCaptured` is not inductive: `WriteStatus` and `WriteDecision`
write what a handler decided several steps ago. The strengthening is `Safe ==
TypeOK /\ InFlight /\ WorkedOnImpliesCaptured`, where `InFlight` says of every
handler that holds a status of `WorkedOn` that its application has been charged
by the time it writes it. The argument is that nothing takes away what a handler
relied on: payment rows keep their application and the provider's counters
never fall (`StepsKeep`, `ChargedForGood`), so a handler that has not moved
stays backed (`KeptInFlight`), and each step of the one that moves is one lemma
(`RequestStarts`, `CheckAdvances`, `ProviderAdvances`, `WriteAdvances`).

The second part of `MoneyPathProofs` repeats the argument for every call a status
reports. Its
invariant is `Safe /\ Reported`, where `Reported` joins `StatusHasItsCall`,
`SubmittedWasHeld` and `InFlightTwoStage`; `StepsGrow` is the monotonicity
fact, and there is a lemma for each group of actions.

Its third part, for every set of applications and handlers and every number of
payment rows:

| Theorem | Statement | Hypothesis |
|---|---|---|
| `OneUnfinishedPayment` | `Spec => []OneActivePayment` | `Serial` |
| `ApplicationTellsTheTruth` | `Spec => []AppMirrorsAPayment` | `Serial` |
| `NobodyIsStranded` | `Spec => []SubmittedCanBeDecided` | `Serial` |
| `TerminalIsForGood` | `Spec => TerminalPaymentsStay` | `Serial` |
| `HoldsAreSettledOnce` | `Spec => []SettledOnce` | `Faultless` |
| `PortionsAreRefundedOnce` | `Spec => []RefundedOnce` | `Faultless` |
| `RowsAccountForTheMoney` | `Spec => []LedgerIsRecorded` | `Faultless` |
| `NoHoldRunsOut` | `Spec => []ExpiredHoldsNothing` | `Faultless` |
| `CaseLifecycleHolds` | `Spec => ImplementsCaseLifecycle` | `Faultless` |

`Serial` is `Overlap = FALSE` and two-stage endpoints, with any number of failed
calls and restarts; `Faultless` is `Serial` without them. They are the weakest the
code allows: the runs `late_hold`, `sweep_vs_hold` and `double_refund` are the
counterexamples under overlap, and a failure between a provider call and the
transaction that records it leaves the provider's books ahead of the row whatever
else happens.

The invariants of `serial` talk of states between requests and say nothing of what
a request has read. `RowsOK` adds it: what runs, runs alone (`Alone`), so it still
fits the rows it read (`Fits`: an accept in flight has a submitted application and
its authorized payment, and so on for each kind of write). One lemma per step says
that a request opened, checked or moved on still fits (`RequestOpens`, `CheckMoves`,
`ProviderAsks`), and one that a write that fits keeps the rows in order
(`WriteKeepsRows`, with a case for each write). Faults need nothing more: they
only make a request idle. For money, `Accounted` adds that the row of a payment
nobody has in hand agrees with the provider's ledger (`AtRest`), and that of the
one in hand will once its request has written (`Accounts`); a provider call moves a
payment from the first to the second and the write moves it back
(`HandlerAccounts`, `WriteAccounts`).

The refinement is proved step by step from the two: a provider call is a step of
`CaseLifecycle` on `held` and `charged` or a stutter (`ProviderRefines`), a write one
on the status, where the mapped facts about money follow from `Accounted`
(`WriteRefines`), the sweep expires what holds nothing (`SweepRefines`), and what
only moves a request is a stutter (`StepsRefine`).

For every number of runners, events, attempts, batch size and faults, from the
assumptions on the constants:

| Theorem | Statement |
|---|---|
| `TelegramTypes` | `Spec => []TypeOK` |
| `SentIsTrue` | `Spec => []SentWasAccepted` (proved only; no run repeats it) |
| `FailedIsTrue` | `Spec => []FailedWasTried` (the same; `EventDelivery` contains both) |
| `AttemptsStayBounded` | `Spec => []AttemptsBounded` |
| `DeliveryHolds` | `Spec => ImplementsEventDelivery` |

`AttemptsBounded` counts, besides the attempts of a row, the runners that hold
it (in their batch or in their hands) and may still count one: together fewer
than `MAX_ATTEMPTS` plus the number of runners. A runner takes a row only while
its attempts are not used up, when the bound holds whoever holds it
(`BoundKept`), and lets it go with the attempt it counts (`BoundCounted`). The
invariant `IInv` adds what a runner relies on between two awaits (`Backed`: the
answer it got is Telegram's, the count that makes it give up is in the row) and
that a new row has no attempts; `Grows` says that no step takes any of it back.

The refinement needs one thing more: that whatever a runner holds, or has still in its
batch, is a row the bot has to do with, neither missing nor skipped (`Announced`,
part of `Backed`). With it every step is mapped: an answer of Telegram to `Arrive` or
`Bar`, an update to `Confirm`, `Count`, `Reject` or `GiveUp`, whose guards are what
`Backed` says of the runner that writes, and what only moves a runner to a stutter.

`AccessProofs`, first part, for every set of users, roles, permissions and requests, and any
number of faults:

| Theorem | Statement |
|---|---|
| `AdminTypes` | `AdminSpec => []AdminTypeOK` |
| `RootIsSafe` | `AdminSpec => []RootKeepsAccess` |
| `MatrixIsTrue` | `AdminSpec => []PermissionsAgree` |
| `RevocationLasts` | `AdminSpec => RevokedForGood` |
| `SessionsStayCurrent` | `AdminSpec => []SessionsAreCurrent` |

The invariant `AccessOK` joins what the rights are (`RootHolds`: Root has the super role,
which has the permissions of the seed; `GrantsHold`: whatever a role or an override
names is there, and no override allows what it denies) with `CallsOK`: what a request
has checked before its write (`Checked`) still holds when it writes, because
rows are never taken away (`RowsStay`) and no operation writes to Root, the super
role or its key; and the session or token it has in hand is a row (`Refers`). There is
one lemma for each operation that writes.

`SessionsAreCurrent` is about behaviours in which no two requests have overlapped and
none has failed half-way, and is not inductive there either: a login in flight has
checked the password and the account, and a deactivation writes the user first and
closes the sessions next. `CurrentAlone` says that a request in flight is the only
one, that a login in flight was let in with what is there now (`LetIn`), and that an
open session is that of an active user or of one whose sessions are closed next
(`Closing`).

`AccessProofs`, second part, for every number of requests, codes and sessions:

| Theorem | Statement |
|---|---|
| `PortalTypes` | `PortalSpec => []PortalTypeOK` |
| `LimitHolds` | `PortalSpec => []HourlyBounded` |
| `SessionsAreSingle` | `PortalSpec => []OneSessionPerCode` |
| `OldCodesAreDead` | `PortalSpec => []OnlyNewestCode` |

`HourlyBounded` is inductive with the types, by the cardinalities of the codes of the
hour and of the requests about to store one (`Storing`): a request joins
`Storing` only while the codes of the hour are below the limit, and all others
together are fewer than there are requests. The other two need what the steps of one
request at a time keep (`Alone`): before a code is stored no other can be used
(`Cleared`), a session descends from a used code (`Spent`), and nothing descends from
the code a request has just been trusted with (`Unshared`).

`BackofficeProofs`, for every number of requests, rows, retries and restarts:

| Theorem | Statement |
|---|---|
| `BackTypes` | `BackSpec => []BackTypeOK` |
| `MaintenanceStaysFresh` | `BackSpec => []MaintenanceIsFresh` |
| `RetriesStayBounded` | `BackSpec => []RetriesBounded` |

`MaintenanceIsFresh` says nothing of reads under way, one of which fills the cache
next; `ModeInv` adds that what a read has fetched, and what the cache holds, was in
force when that read began or later, and the cache is stamped with that moment.
`RetryInv` counts a retry in flight as done, and of every notification the mails that
its sendings may still make (`MailsDue`).

The same module, for every set of templates, addresses and requests:

| Theorem | Statement |
|---|---|
| `LetterTypes` | `CorrespondenceSpec => []CorrespondenceTypeOK` |
| `EveryoneIsToldOnce` | `CorrespondenceSpec => []ToldOnce` |
| `LogHolds` | `CorrespondenceSpec => ImplementsLetterLog` |

`ToldOnce` says that an occasion comes again only behind a stale write, and nothing of why;
`OccasionsOK` says it of the application: once there was an occasion, the application and its
payment are where no request finds what it looks for, unless a request wrote there on
what had changed since (`Reopens` names which can bring which occasion back). A request
that writes on what is still so has found it, so there was no occasion before; if what it
read has changed, the write itself puts the letter in `stale`. The warning needs no such
clause: the stamp is never taken back, and one sweep runs at a time (`SweepOK`). Of the
log and the mail server `ToldOnce` says what they have of a letter before its occasion and
after it, and nothing of a letter on its way. `MailOK` adds, for each step of a sending, what
there is of it at the address in hand and at those to come (`Reached`), that the letter of
one occasion is on its way only once (`Apart`) and that there is nothing of one whose
occasion has not come (`Untold`). That installed templates stay is a matter of the requests that have
passed the check of their key (`Installed`). The assumption that the templates which the
migrations install are finitely many makes the initial state exist: each gets a row of
its own (`RowsSuffice`).

The refinement takes the same invariant: whoever has a letter in hand finds
its row pending (`Reached`), and a letter under way was called for (`UnderwayIsCalled`). A query that
logs a letter is `Enter`, a call of the mail server `Give` or a stutter, and a mark
`Close` (`EntersLog`, `GivesLetter`, `ClosesRow`); that other letters keep their rows
meanwhile follows from `Apart`. An occasion and a failure are `Call` and `Lapse`, and
requests about templates are stutters (`StepsKeepLog`).

`CaseProofs`, for every number of applications, people, payments, operators and
requests, which may overlap and fail anywhere:

| Theorem | Statement |
|---|---|
| `CaseTypes` | `CaseSpec => []CaseTypeOK` |
| `OneAmountHolds` | `CaseSpec => []OneAmount` |
| `RetriesComeFromRaces` | `CaseSpec => []RetriesAreRaces` |

`OneAmountHolds` says of the amount charged that it is for the people there are, and of the
stored total the same unless the submission found no active fee and left the total there
was. An amount is computed in one step, stored in a second and charged by another request, so
`OneAmount` alone says nothing of the steps between. `CaseOK` says that an
application that is submitted, or about to be, and was not crossed by a change of its price has
nobody left who is about to change it (`FinalPrices`), that what is stored and what is
billed is then for the people there are (`RightAmounts`), and that an amount in a
request's hands is too (`TaskOK`). For the reference codes, a request that looks for one
has lost a race for every try but the present, and for this one already if the code it
is about to use has been taken since (`Raced`): a search starts behind the largest
code there is, deleted rows included (`CodesAreNew`, for which the largest must exist:
`CodesBounded`).

`DocumentProofs`, for every number of files, applicants, visas and requests, however they
overlap and wherever they stop:

| Theorem | Statement |
|---|---|
| `FileTypes` | `FileSpec => []FileTypeOK` |
| `FilesAreThere` | `FileSpec => []FilesBehindRows` |
| `VisaIssueTypes` | `VisaIssueSpec => []VisaIssueTypeOK` |
| `ReadyOnceAllAreIssued` | `VisaIssueSpec => []ReadyWhenAllIssued` |
| `LinksStayGood` | `VisaIssueSpec => []LinksAreGood` |

An upload names a file only after its object is stored, a deletion takes the name away and
then the object, and `hardDelete` the object and then the row; in between only the
request knows. `FilesOK` says what it
has in hand (`HandOK`), that nobody else stores the same file or takes it for an old
one (`FilesApart`), and that a file nobody stored is not named (`FreshFiles`); `BehindNames`
is the property with the removals under way taken out.

`IssueOK` has the same shape: what a request has read and is about to write (`DutyOK`),
of links that they were asked for in time, also those being signed. `Completed` says of the
application that the issue which stored the last visa has still to look at the others
(`Finishing`): whoever comes second sees both, so one of two issues that overlap sets the
status. For an application without applicants all would have a visa and nobody looks; hence
the assumption `Travellers # {}`, which the code makes in its own guard
(`app.applicants.length > 0`, `applicants.service.ts:1168`) and which a submitted
application meets (`applications.service.ts:766`).

`CatalogueProofs`, for every number of requests, forms, sections, fields, entries,
nationalities, categories, questions, articles and rows:

| Theorem | Statement |
|---|---|
| `CatTypes` | `CatSpec => []CatTypeOK` |
| `PageFollows` | `CatSpec => []PageFollowsBinding` |
| `OffersAreSpared` | `CatSpec => DeletionsSpareOffers` |
| `OfferedIsBooked` | `CatSpec => []OfferedCanBeBooked` |
| `SystemFieldsStay` | `CatSpec => SystemFieldsGuarded` |
| `NothingIsLeftBehind` | `ContentSpec => []StragglersAreLate` |
| `OrderLasts` | `OrderingSpec => []PlacesAreDistinct` |

`PageFollowsBinding` is inductive
once requests have their types (`CatOK`): the step that stores a binding turns its request
into one that makes the page, and only a fault ends that. The other three are about
behaviours in which no two requests have overlapped. `CatAlone` says that what the one
request in flight has checked before its write is still so (`Checked`: the section holds no
system field, the form has no binding that stays, the form to bind is live) and that a
live binding refers to a live form (`BoundIsLive`); under overlap either fails,
as a form can be deleted between the check of a binding and its write. The constants'
assumption that there are system fields at all (`SystemKeys # {}`, the list of
`system-default-fields.ts:75` is not empty) gives rows that no field has taken yet a key.

A deletion that has counted no row leaves behind what is filed before it is done: so
the invariant `Shelved` counts as a straggler what such a deletion *will* leave
behind (`Straggler`), adds that the category that takes over is never deleted
(`RescueStays`), and shows that stragglers are late. For the lists (`Ordered`): what is added at the end of a
list must be behind every row when it is written, not when it was computed; it is,
because a request that is `alone` was alone since then (`AloneOK`). A row that comes in from
another category spoils the order (`muddled`), as it does in the code; one that leaves
does not.

`OfficeProofs` and the end of `CatalogueProofs` take the parts together, for the two
modules that run `office` and `catalogue`, whose initial states and steps let one
component move while the others stay as they are:

| Theorem | Statement |
|---|---|
| `OfficeIsItsParts` | `MCOffice`'s `Spec` implies `AdminSpec`, `PortalSpec`, `CaseSpec`, `FileSpec`, `BackSpec`, `CorrespondenceSpec` and `VisaIssueSpec` |
| `OfficeTypes` | `Spec => []TypeOK` |
| `OfficeAdmits` | `Spec` implies the four properties of administrators and the three of customers |
| `OfficeServes` | `Spec` implies those of cases, files, services, letters and visas, and `ImplementsLetterLog` |
| `CatalogueIsItsParts` | `MCCatalogue`'s `Spec` implies `CatSpec`, `ContentSpec` and `OrderingSpec` |
| `CatalogueHolds` | `Spec` implies all that the run `catalogue` checks |

So what the two runs explore are behaviours of the components' own specifications, and
every property they check on an instance holds for all values of the constants.

Steps are kept small enough that none depends on a prover's patience: half of the
default time is enough for every one.

Only model-checked: the liveness properties `OverdueIsSettled` and `PendingIsTried`, because
the prover knows no `ENABLED`, and what recursive definitions compute, because the
induction theorems take an operator as a parameter. Every other
property of a passing run is stated by a theorem. What the runs add to the theorems is
that the situations the properties are about do occur within the bounds.

## 5. Not modelled

- `application-completeness*`: a pure function over form values; `submit` takes it
  as a guard that can pass.
- `prisma/seed.ts`: does not fit the present schema (it was written for an earlier one);
  `AdminAccess` takes from it which role and permissions are the seed's. `otp/`: no
  caller.
- The rows nobody decides by: status history, payment transactions, stored callbacks
  and their duplicate detection, reconciliation, audit logs, exports, listings,
  dashboards, the customer portal, tracking.
- In modelled services: `templates.update` of `isActive`, `documents.review`,
  `findByApplication` and the history of estimates, the resume token, the merge of
  form values, renaming a category, preview tokens, the settings that are read where
  they are used, the emitter's window of login failures (a counter that decides when
  an alert is worth sending). Codes, reset links and test messages go through the
  same `EmailService` as letters, and no code reads whether they arrived.
- Wording, translations, formats, DTO validation, decimals, upload limits,
  infrastructure.

## 6. Met while modelling

Where the code differs from what one would expect and no text of the repository
promises otherwise, or the difference needs no run to be seen:

- `verifyOtp` reads an unused code and marks it in a second query: two requests with
  one code both get a session. Hence `OneSessionPerCode` and `OnlyNewestCode` are
  claimed of requests that do not overlap.
- `contentPages.create` after a soft delete hits the unique index on the slug;
  `updateArticle` with a link beside an uploaded video hits a check of the database;
  questions of the FAQ may be filed under keys that are deleted or do not exist.
- Two first reads of the contact details make two rows; a payment page set inactive
  makes the next read create a fresh default.
- `deleteInternalNote` has a comment about its author, and checks nobody.
- The reorderings of country sections and of form sections compare counts only: one
  id may come twice.
- The header of the payment timeout says that a warning is sent and then stamped; the
  code stamps first. It speaks of soft-deleted rows; the code sets EXPIRED, and
  `application.deletedAt` is never set.
- `applicants.resultFileName` and `.resultStorageKey` are never written, so tracking
  always says that no result is available.
- `approve` and `reject` leave the applicants `DRAFT`: a later `updateStatus` of one
  computes the aggregate and takes the application back to PROCESSING.
- Letters repeat where requests overlap: `submitForReview` checks the status at
  `applications.service.ts:527` and writes by id at 564 before its letter (609);
  `confirmMockAuthorize` checks at `payments.service.ts:1126-1136` and has its letter at 1189
  after the provider and the transaction; `acceptApplication` checks at 1418 and writes at
  1473. Two of a kind that overlap each send theirs. A letter is lost without a
  row in the log where the history of the status (584, 1330) or the look-up of the payment
  (`payments.service.ts:1833`) fails after the status was written. `ToldOnce` claims neither:
  it says that there is no other way.
- `applications.service.ts:551-552` says "make sure the stored total matches before the
  application becomes payable"; where no active fee is found `recalculateTotalFee` (2055)
  returns without a word, as `update` does (441-457), the total stays as it was and the
  submission goes on. What is charged is computed anew (`payments.service.ts:501`), so
  `OneAmount` makes no exception there for a missing fee; it does for the stored total.
- `settings.service.ts:46-50` says that the cache is dropped on any change, so that a new
  mode is in force on the next request. The first save, which creates the row (142-180), does
  not drop it; and a read that had fetched the old row can fill the cache after it was
  dropped. `MaintenanceIsFresh` claims the comment's promise for every other change, and for
  these that the old mode lasts no longer than the cache.
- `auth.service.ts:449-453` says that a change of one's own password revokes all other
  sessions; the code (497-505) revokes none. `SessionsAreCurrent` therefore counts resets
  only, which do end them.
- `getDestinationsForNationality` (`public-selection.service.ts:290-322`) has no condition on
  the visa type, although its comment (273-277) and `destination-sellability.ts:3-16` speak of
  one definition of what is on sale: a destination can be in the list of countries with no
  visa type to choose behind it. `OnOffer` asks for what a customer sees to the end.
- A question or an article that changes category keeps its number
  (`faq-items.service.ts:157`, `help-articles.service.ts:756`), and so do the rows that
  the forced deletion of a category moves (495-500, 541-545), so that two rows of a list can
  share a place, with nobody numbering by hand and no overlap; `faq-items.service.ts:90`
  wants new items not to reorder a category, of which a move is the other case.
- `templates.service.ts:195-196` says that a clone's fields "already include any system
  fields"; `duplicate` does not copy `isSystem`, so those of a clone are not locked, and the
  back-fill at the next start, which finds them by their keys (379-380), leaves them so.
- `jobs.service.ts:92` retries a job that was cancelled.
- Two overlapping `issueVisa` of one applicant leave two visas that are not marked
  replaced; the link to a replaced visa works until it ends by itself, up to a day.
- `hardDelete` may remove the visa of an application that is READY_TO_DOWNLOAD.
- The previous operator in an assignment's history may be out of date.

## 7. What remains

1. The composition of `MoneyPath` with `Casework`: an amount computed in one and
   charged in the other.
2. Callbacks with their stored rows and duplicate detection, reconciliation.
