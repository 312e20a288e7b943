--------------------------- MODULE Correspondence ----------------------------
(* The letters about one application: the templates administrators keep, the  *)
(* occasions on which the code writes, EmailService with its log, and the     *)
(* sweep that warns before the payment window closes.  A query, or a call of  *)
(* the mail server, is one step; letters are on their way while the           *)
(* application goes on.  A check that comes before the write it is for is a   *)
(* step of its own.  (X_Bug is X with a plausible mistake.)                   *)
EXTENDS Integers, FiniteSets

CONSTANTS
  MailRequests,   \* requests and letters under way there can be at a time
  TemplateRows,   \* rows of templates there can be
  MailSystemKeys,     \* the keys the code asks for and protects
  OwnKeys,        \* other keys administrators choose
  InstalledKeys,  \* the system keys the migrations make templates for
  DefaultKeys,    \* those the code has a default for
  KeyOf,          \* the key of every letter
  Addresses,      \* the account's address and the applicants', each once
  MaxCalls,       \* bound: how often there is an occasion for one letter
  MaxMailFaults,  \* bound: failures of the database and stops of the process
  MailOffers      \* the sets of operations to explore, and whether there are failures or
                  \* requests overlap, one per behaviour

TemplateKeys == MailSystemKeys \cup OwnKeys
LetterKinds == {"created", "paid", "status", "custom", "warning", "expired"}
Occasions == LetterKinds \X (1 .. MaxCalls)  \* <<l, n>>: that of the n-th occasion for l
Pairs == Occasions \X Addresses
Sweeper == "sweeper"
Senders == MailRequests \cup {Sweeper}

ASSUME CorrespondenceAssumption ==
  /\ KeyOf \in [LetterKinds -> MailSystemKeys]
  /\ InstalledKeys \subseteq MailSystemKeys /\ DefaultKeys \subseteq MailSystemKeys
  /\ MailSystemKeys \cap OwnKeys = {}
  /\ Sweeper \notin MailRequests
  /\ MaxMailFaults \in Nat /\ MaxCalls \in Nat \ {0}
  /\ IsFiniteSet(TemplateRows) /\ IsFiniteSet(InstalledKeys)
  /\ Cardinality(InstalledKeys) <= Cardinality(TemplateRows)

VARIABLES
  template,  \* rows of templates: state, key, active
  progress,  \* of the application: draft, unpaid, submitted, processing, decided or expired
  pay,       \* its payment: none, open (CREATED .. PROCESSING), held, captured or over
  window,    \* until the deadline: open, closing (the last hour), over
  warned,    \* paymentWarningSentAt is set
  calls,     \* how often there was an occasion for a letter
  stale,     \* letters whose write went ahead when what its request had read had changed
  entry,     \* the row of the e-mail log for a letter and an address: none, its status, or twice
  handed,    \* how often the mail server was given that letter for that address
  excused,   \* pairs of them that a failure or a stop kept from their end
  post,      \* what is under way
  sweep,     \* where the sweep stands
  mailOffer, mailFaults

books == <<progress, pay, window, warned, calls, stale>>
mailbox == <<entry, handed, excused>>
mailVars == <<template, books, mailbox, post, sweep, mailOffer, mailFaults>>

Still == [op |-> "still"]
MailOps == {"create", "update", "delete", "occasion", "letter"}

CorrespondenceTypeOK ==
  /\ template \in [TemplateRows -> [state : {"none", "live", "deleted"}, key : TemplateKeys, active : BOOLEAN]]
  /\ progress \in {"draft", "unpaid", "submitted", "processing", "decided", "expired"}
  /\ pay \in {"none", "open", "held", "captured", "over"}
  /\ window \in {"open", "closing", "over"} /\ warned \in BOOLEAN
  /\ calls \in [LetterKinds -> 0 .. MaxCalls] /\ stale \subseteq LetterKinds
  /\ entry \in [Pairs -> {"none", "pending", "sent", "failed", "twice"}]
  /\ handed \in [Pairs -> Nat]
  /\ excused \subseteq Pairs
  /\ \A h \in Senders : post[h].op \in MailOps \cup {"still"}
  /\ sweep \in {"idle", "stamp", "warn", "look", "expire", "tell"}
  /\ mailOffer \in MailOffers /\ mailFaults \in 0 .. MaxMailFaults

\* A behaviour starts where the first letter that is offered is due, those before it sent.
Told ==
  IF "created" \in mailOffer THEN {}
  ELSE IF mailOffer \cap {"paid", "warning"} # {} THEN {"created"}
  ELSE IF "status" \in mailOffer THEN {"created", "paid"} ELSE {"created", "paid", "status"}

\* Every installed key has its row; no other key has one.
CorrespondenceInit ==
  /\ LET row == CHOOSE f \in [InstalledKeys -> TemplateRows] : \A j, k \in InstalledKeys : f[j] = f[k] => j = k
     IN template = [r \in TemplateRows |->
          IF \E k \in InstalledKeys : row[k] = r
          THEN [state |-> "live", key |-> CHOOSE k \in InstalledKeys : row[k] = r, active |-> TRUE]
          ELSE [state |-> "none", key |-> CHOOSE k \in TemplateKeys : TRUE, active |-> TRUE]]
  /\ mailOffer \in MailOffers
  /\ progress = IF Told = {} THEN "draft" ELSE IF "paid" \notin Told THEN "unpaid"
                ELSE IF "status" \notin Told THEN "submitted" ELSE "processing"
  /\ pay = IF "paid" \notin Told THEN "none" ELSE IF "status" \notin Told THEN "held" ELSE "captured"
  /\ window = "open" /\ warned = FALSE
  /\ calls = [l \in LetterKinds |-> IF l \in Told THEN 1 ELSE 0] /\ stale = {}
  /\ entry = [p \in Pairs |-> IF p[1][2] <= calls[p[1][1]] THEN "sent" ELSE "none"]
  /\ handed = [p \in Pairs |-> IF p[1][2] <= calls[p[1][1]] THEN 1 ELSE 0]
  /\ excused = {}
  /\ post = [h \in Senders |-> Still]
  /\ sweep = "idle" /\ mailFaults = 0

Occupy(h, p) ==
  /\ post[h] = Still
  /\ post' = [post EXCEPT ![h] = p]
  /\ UNCHANGED <<mailOffer, mailFaults>>

Go(h, p) == post' = [post EXCEPT ![h] = p] /\ UNCHANGED <<mailOffer, mailFaults>>

-----------------------------------------------------------------------------
(* EmailTemplatesService.  Deleted rows keep their keys.                      *)

KeyTaken(k) == \E r \in TemplateRows : template[r].state # "none" /\ template[r].key = k

CreateTemplate(h) ==
  \E k \in TemplateKeys :
    /\ "template" \in mailOffer /\ ~KeyTaken(k)
    /\ Occupy(h, [op |-> "create", key |-> k])
    /\ UNCHANGED <<template, books, mailbox, sweep>>

InsertTemplate(h) ==
  LET k == post[h].key
  IN /\ post[h].op = "create"
     /\ \/ KeyTaken(k) /\ UNCHANGED template
        \/ /\ ~KeyTaken(k)
           /\ \E r \in TemplateRows :
                /\ template[r].state = "none"
                /\ template' = [template EXCEPT ![r] = [state |-> "live", key |-> k, active |-> TRUE]]
     /\ Go(h, Still)
     /\ UNCHANGED <<books, mailbox, sweep>>

\* Another key, of a template that is not the system's, or switched on or off.
UpdateTemplate(h) ==
  \E r \in TemplateRows :
    /\ "template" \in mailOffer /\ template[r].state = "live"
    /\ \/ \E k \in TemplateKeys :
            /\ template[r].key \notin MailSystemKeys /\ ~KeyTaken(k)
            /\ Occupy(h, [op |-> "update", row |-> r, set |-> [key |-> k]])
       \/ \E on \in BOOLEAN : Occupy(h, [op |-> "update", row |-> r, set |-> [active |-> on]])
    /\ UNCHANGED <<template, books, mailbox, sweep>>

\* By id, of the fields that were sent; the key is unique.
SaveTemplate(h) ==
  LET p == post[h]
  IN /\ p.op = "update"
     /\ IF "key" \in DOMAIN p.set
        THEN template' = IF KeyTaken(p.set.key) THEN template
                         ELSE [template EXCEPT ![p.row].key = p.set.key]
        ELSE template' = [template EXCEPT ![p.row].active = p.set.active]
     /\ Go(h, Still)
     /\ UNCHANGED <<books, mailbox, sweep>>

DeleteTemplate(h) ==
  \E r \in TemplateRows :
    /\ "template" \in mailOffer /\ template[r].state = "live"
    /\ template[r].key \notin MailSystemKeys
    /\ Occupy(h, [op |-> "delete", row |-> r])
    /\ UNCHANGED <<template, books, mailbox, sweep>>

DropTemplate(h) ==
  /\ post[h].op = "delete"
  /\ template' = [template EXCEPT ![post[h].row].state = "deleted"]
  /\ Go(h, Still)
  /\ UNCHANGED <<books, mailbox, sweep>>

-----------------------------------------------------------------------------
(* EmailService: sendTemplatedEmail and sendRawEmail, address by address.     *)

Writing(l, at, left) == [op |-> "letter", at |-> at, letter |-> l, left |-> left, to |-> {}]

\* The sweep asks for its letters without a handler of its own for each address.
Careful(h) == h # Sweeper

LiveTemplate(k) == \E r \in TemplateRows : template[r] = [state |-> "live", key |-> k, active |-> TRUE]
HasDefault(k) == k \in DefaultKeys

AtWork(h, at) == post[h].op = "letter" /\ post[h].at = at
Pair(h) == <<post[h].letter, CHOOSE a \in post[h].to : TRUE>>
Onward(h) == IF post[h].left = {} THEN Still ELSE Writing(post[h].letter, "render", post[h].left)
Template(h) == KeyOf[post[h].letter[1]]

\* The template of the database if it is active, or the default, or none.
RenderLetter(h) ==
  /\ AtWork(h, "render")
  /\ \E a \in post[h].left :
       Go(h, [post[h] EXCEPT !.left = @ \ {a}, !.to = {a},
                             !.at = IF LiveTemplate(Template(h)) \/ HasDefault(Template(h))
                                    THEN "pend" ELSE "unrendered"])
  /\ UNCHANGED <<template, books, mailbox, sweep>>

NewEntry(h, status) ==
  entry' = [entry EXCEPT ![Pair(h)] = IF @ = "none" THEN status ELSE "twice"]

Mark(h, status) == entry' = [entry EXCEPT ![Pair(h)] = IF @ = "twice" THEN @ ELSE status]

LogUnrendered(h) ==
  /\ AtWork(h, "unrendered")
  /\ NewEntry(h, "failed")
  /\ Go(h, Onward(h))
  /\ UNCHANGED <<template, books, handed, excused, sweep>>

LogPending(h) ==
  /\ AtWork(h, "pend")
  /\ NewEntry(h, "pending")
  /\ Go(h, [post[h] EXCEPT !.at = "hand"])
  /\ UNCHANGED <<template, books, handed, excused, sweep>>

\* The mail server takes it, refuses it, or cannot be reached.
HandOver(h) ==
  /\ AtWork(h, "hand")
  /\ \E at \in {"sent", "failed"} :
       /\ handed' = IF at = "sent" THEN [handed EXCEPT ![Pair(h)] = @ + 1] ELSE handed
       /\ Go(h, [post[h] EXCEPT !.at = at])
  /\ UNCHANGED <<template, books, entry, excused, sweep>>

MarkEntry_Blind(h) ==
  \E at \in {"sent", "failed", "again"} :
    /\ AtWork(h, at)
    /\ Mark(h, IF at = "again" THEN "failed" ELSE "sent")
    /\ Go(h, Onward(h))
    /\ UNCHANGED <<template, books, handed, excused, sweep>>

\* markSent or markFailed; when that fails, once more, as failed.
MarkEntry(h) ==
  \E at \in {"sent", "failed", "again"} :
    /\ AtWork(h, at)
    /\ Mark(h, IF at = "again" THEN "failed" ELSE at)
    /\ Go(h, Onward(h))
    /\ UNCHANGED <<template, books, handed, excused, sweep>>

-----------------------------------------------------------------------------
(* The occasions: submitForReview, confirmMockAuthorize, acceptApplication    *)
(* with cancelApplication, and changeStatus.  A request reads and checks; it  *)
(* writes the application by id, whatever became of it; then comes the letter.*)

\* What the request for a letter reads, and what it has to find there.
Read(l) == CASE l = "paid" -> <<pay>> [] l = "status" -> <<progress, pay>> [] OTHER -> <<progress>>

Allowing(l) ==
  CASE l = "created" -> {<<"draft">>}
    [] l = "paid" -> {<<"open">>}
    [] l = "status" -> {<<"submitted", "held">>}
    [] l = "custom" -> {<<"draft">>, <<"unpaid">>, <<"processing">>}

Requested == {"created", "paid", "status", "custom"}

CheckOccasion_Unchecked(h) ==
  \E l \in Requested \cap mailOffer :
    /\ "overlap" \in mailOffer \/ \A g \in MailRequests : post[g].op # "occasion"
    /\ l = "created" \/ Read(l) \in Allowing(l)
    /\ Occupy(h, [op |-> "occasion", kind |-> l, saw |-> Read(l)])
    /\ UNCHANGED <<template, books, mailbox, sweep>>

\* (A bound: they overlap where "overlap" is offered.)
CheckOccasion(h) ==
  \E l \in Requested \cap mailOffer :
    /\ "overlap" \in mailOffer \/ \A g \in MailRequests : post[g].op # "occasion"
    /\ Read(l) \in Allowing(l)
    /\ Occupy(h, [op |-> "occasion", kind |-> l, saw |-> Read(l)])
    /\ UNCHANGED <<template, books, mailbox, sweep>>

\* An occasion comes, and h has its letter to write.
Comes(h, l, at) ==
  /\ calls[l] < MaxCalls
  /\ calls' = [calls EXCEPT ![l] = @ + 1]
  /\ Go(h, Writing(<<l, calls[l] + 1>>, at, Addresses))

Writes(h, l) ==
  /\ post[h].op = "occasion" /\ post[h].kind = l
  /\ stale' = IF post[h].saw = Read(l) THEN stale ELSE stale \cup {l}
  /\ UNCHANGED <<template, warned, mailbox, sweep>>

\* The payment window starts.
ApplicationCreated(h) ==
  /\ Writes(h, "created") /\ Comes(h, "created", "start")
  /\ progress' = "unpaid" /\ window' = "open"
  /\ UNCHANGED pay

\* updateApplicationAfterPayment moves the application if it is unpaid.
PaymentSucceeded(h) ==
  /\ Writes(h, "paid") /\ Comes(h, "paid", "start")
  /\ pay' = "held"
  /\ progress' = IF progress = "unpaid" THEN "submitted" ELSE progress
  /\ UNCHANGED window

\* Accepted and captured, or cancelled and released.
StatusChanged(h) ==
  /\ Writes(h, "status") /\ Comes(h, "status", "start")
  /\ \/ progress' = "processing" /\ pay' = "captured"
     \/ progress' = "decided" /\ pay' = "over"
  /\ UNCHANGED window

\* The operator writes to the customer, or does not.
OperatorWrites(h) ==
  /\ Writes(h, "custom")
  /\ \/ Comes(h, "custom", "start")
     \/ Go(h, Still) /\ UNCHANGED calls
  /\ progress' = "decided"
  /\ UNCHANGED <<pay, window>>

\* The provider declines.
Declined(h) ==
  /\ post[h].op = "occasion" /\ post[h].kind \in {"paid", "status"}
  /\ Go(h, Still)
  /\ UNCHANGED <<template, books, mailbox, sweep>>

LetterStarts(h) ==
  /\ AtWork(h, "start")
  /\ Go(h, [post[h] EXCEPT !.at = "render"])
  /\ UNCHANGED <<template, books, mailbox, sweep>>

\* PaymentsService.create, once.  (MoneyPath has what else becomes of payments.)
PaymentOpens ==
  /\ progress = "unpaid" /\ pay = "none"
  /\ pay' = "open"
  /\ UNCHANGED <<template, progress, window, warned, calls, stale, mailbox, post, sweep, mailOffer, mailFaults>>

TimePasses ==
  /\ progress # "draft" /\ window # "over"
  /\ window' = IF window = "open" THEN "closing" ELSE "over"
  /\ UNCHANGED <<template, progress, pay, warned, calls, stale, mailbox, post, sweep, mailOffer, mailFaults>>

-----------------------------------------------------------------------------
(* PaymentTimeoutService.sweep: two passes, one sweep at a time.              *)

Unpaid == progress = "unpaid" /\ pay \notin {"held", "captured"}

\* warningPass reads who is due.
SweepStarts ==
  /\ "warning" \in mailOffer
  /\ sweep = "idle"
  /\ sweep' = IF Unpaid /\ ~warned /\ window = "closing" THEN "stamp" ELSE "look"
  /\ UNCHANGED <<template, books, mailbox, post, mailOffer, mailFaults>>

\* By id, before the letter.
StampWarning ==
  /\ sweep = "stamp"
  /\ warned' = TRUE
  /\ sweep' = "warn"
  /\ Comes(Sweeper, "warning", "render")
  /\ UNCHANGED <<template, progress, pay, window, stale, mailbox>>

Warned ==
  /\ sweep = "warn" /\ post[Sweeper] = Still
  /\ sweep' = "look"
  /\ UNCHANGED <<template, books, mailbox, post, mailOffer, mailFaults>>

\* expiryPass reads who is over.
FindOverdue ==
  /\ sweep = "look"
  /\ sweep' = IF Unpaid /\ window = "over" THEN "expire" ELSE "idle"
  /\ UNCHANGED <<template, books, mailbox, post, mailOffer, mailFaults>>

\* A transaction, by id; a payment that was not made goes with it.
Expire ==
  /\ sweep = "expire"
  /\ progress' = "expired"
  /\ pay' = IF pay = "open" THEN "over" ELSE pay
  /\ sweep' = "tell"
  /\ Comes(Sweeper, "expired", "render")
  /\ UNCHANGED <<template, window, warned, stale, mailbox>>

SweepEnds ==
  /\ sweep = "tell" /\ post[Sweeper] = Still
  /\ sweep' = "idle"
  /\ UNCHANGED <<template, books, mailbox, post, mailOffer, mailFaults>>

-----------------------------------------------------------------------------
(* Failures.                                                                  *)

Cut(h) == {<<post[h].letter, a>> : a \in post[h].left \cup post[h].to}

Marking(h) == post[h].at \in {"sent", "failed"}
PassesOver(h) == Careful(h) /\ post[h].at # "start"

\* A query fails.  That of a template is taken for none, and what cannot be marked is
\* marked as failed; else the address is passed over, and by the sweep those after it.
\* Between the write and the letter there is the history of the status, or the payment
\* to look up: the letter is lost.
QueryFails(h) ==
  LET p == post[h]
  IN /\ "fails" \in mailOffer /\ mailFaults < MaxMailFaults
     /\ mailFaults' = mailFaults + 1
     /\ p.op = "letter"
     /\ IF p.at = "render"
        THEN \E a \in p.left :
               /\ post' = [post EXCEPT ![h] = [p EXCEPT !.left = @ \ {a}, !.to = {a},
                             !.at = IF HasDefault(Template(h)) THEN "pend" ELSE "unrendered"]]
               /\ excused' = excused \cup {<<p.letter, a>>}
        ELSE /\ p.at # "hand" /\ (p.at = "start" => p.letter[1] # "status")
             /\ post' = [post EXCEPT ![h] = IF Marking(h) THEN [p EXCEPT !.at = "again"]
                                            ELSE IF PassesOver(h) THEN Onward(h) ELSE Still]
             /\ excused' = excused \cup IF Marking(h) \/ PassesOver(h) THEN {Pair(h)} ELSE Cut(h)
     /\ UNCHANGED <<template, books, entry, handed, sweep, mailOffer>>

\* So does the write itself: there was no occasion.
WriteFails(h) ==
  /\ "fails" \in mailOffer /\ mailFaults < MaxMailFaults
  /\ mailFaults' = mailFaults + 1
  /\ post[h].op = "occasion"
  /\ post' = [post EXCEPT ![h] = Still]
  /\ UNCHANGED <<template, books, mailbox, sweep, mailOffer>>

\* A query of the sweep fails: the pass goes no further with the application.
SweepQueryFails ==
  /\ "fails" \in mailOffer /\ mailFaults < MaxMailFaults
  /\ mailFaults' = mailFaults + 1
  /\ sweep \in {"stamp", "look", "expire"}
  /\ sweep' = IF sweep = "stamp" THEN "look" ELSE "idle"
  /\ UNCHANGED <<template, books, mailbox, post, mailOffer>>

\* The process stops, and starts again: what was under way never ends.
MailRestart ==
  /\ "fails" \in mailOffer /\ mailFaults < MaxMailFaults
  /\ mailFaults' = mailFaults + 1
  /\ excused' = excused \cup UNION {Cut(h) : h \in {g \in Senders : post[g].op = "letter"}}
  /\ post' = [h \in Senders |-> Still]
  /\ sweep' = "idle"
  /\ UNCHANGED <<template, books, entry, handed, mailOffer>>

CorrespondenceStep(h) ==
  \/ CreateTemplate(h) \/ InsertTemplate(h) \/ UpdateTemplate(h) \/ SaveTemplate(h)
  \/ DeleteTemplate(h) \/ DropTemplate(h)
  \/ CheckOccasion(h) \/ ApplicationCreated(h) \/ PaymentSucceeded(h) \/ StatusChanged(h)
  \/ OperatorWrites(h) \/ Declined(h) \/ LetterStarts(h) \/ WriteFails(h)

LetterStep(h) ==
  \/ RenderLetter(h) \/ LogUnrendered(h) \/ LogPending(h) \/ HandOver(h) \/ MarkEntry(h)
  \/ QueryFails(h)

CorrespondenceNext ==
  \/ \E h \in MailRequests : CorrespondenceStep(h)
  \/ \E h \in Senders : LetterStep(h)
  \/ SweepStarts \/ StampWarning \/ Warned \/ FindOverdue \/ Expire \/ SweepEnds
  \/ SweepQueryFails \/ PaymentOpens \/ TimePasses \/ MailRestart

CorrespondenceSpec == CorrespondenceInit /\ [][CorrespondenceNext]_mailVars

-----------------------------------------------------------------------------
\* The requests that may bring an occasion for a letter back, if they write on what was so.
Reopens(l) ==
  CASE l = "status" -> {"status", "paid"}
    [] l = "custom" -> {"custom", "status", "created"}
    [] l = "warning" -> {}
    [] l = "expired" -> {"created"}
    [] OTHER -> {l}

Given(l) == 1 .. calls[l]

UnderWay(p) == \E h \in Senders : post[h].op = "letter" /\ p \in Cut(h)
Accounted(p) == entry[p] = IF handed[p] = 1 THEN "sent" ELSE "failed"

\* Whatever fails or stops between the writes, the log, the mail server and the stamp of
\* the warning: there is an occasion for a letter again only where a request wrote on what
\* it had read and another had changed since, and never for the warning; no address is
\* given the letter of one occasion twice.  What is under way no more has its one row in
\* the log, with the outcome, at every address, unless a failure at that address, or
\* before the letter, or a stop came between; and the templates that were installed are
\* there.
ToldOnce ==
  /\ \A l \in LetterKinds : calls[l] > 1 => stale \cap Reopens(l) # {}
  /\ \A p \in Pairs : handed[p] <= 1 /\ entry[p] # "twice"
  /\ \A l \in LetterKinds, a \in Addresses : \A n \in Given(l) :
       Accounted(<<<<l, n>>, a>>) \/ UnderWay(<<<<l, n>>, a>>) \/ <<<<l, n>>, a>> \in excused
  /\ \A k \in InstalledKeys : \E r \in TemplateRows : template[r].state = "live" /\ template[r].key = k

Called == {x \in Occasions : x[2] <= calls[x[1]]}

Log == INSTANCE LetterLog WITH
  Kinds <- Occasions, called <- Called, row <- entry, given <- handed, lapsed <- excused

\* Whatever overlaps, fails or stops, the log and the mail server are a LetterLog: the
\* letter of an occasion is given for an address once, between its row and the mark in it,
\* never before the occasion, and the mark is final and false only where it could not be
\* written.
ImplementsLetterLog == Log!Spec
=============================================================================
