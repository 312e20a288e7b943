------------------------------ MODULE Casework -------------------------------
(* What happens to an application before it is paid, and what operators note  *)
(* on it later: ApplicationsService and ApplicantsService, with the creation  *)
(* of the payment in PaymentsService, which is where the price is fixed.      *)
(* (MoneyPath takes over from there.)  A request reads and checks in one step *)
(* and writes in later ones; a transaction is one step.  An amount is         *)
(* represented by what it is computed from.  (X_Bug is X with a mistake.)     *)
EXTENDS Integers, FiniteSets

CONSTANTS
  CaseRequests,   \* requests there can be at a time
  Bookings,       \* rows of applications there can be
  Swept,          \* those the sweep deleted when it still did
  MaxPersons,     \* bound: rows of applicants
  FeeEntries,     \* the entries the nationality may have a fee for
  MaxAttempts,    \* tries to find a code
  MaxBills,       \* bound: payments
  Operators, Assigners,  \* administrators, and those who may assign others
  MaxDays,        \* bound: estimates
  MaxCaseFaults,  \* bound: requests that fail half-way
  CaseOffers      \* the sets of operations to explore, and whether requests overlap or
                  \* fail, one per behaviour

AnyEntry == "any entry"
Nobody == "nobody"
Persons == 1 .. MaxPersons

ASSUME CaseworkAssumption ==
  /\ AnyEntry \notin FeeEntries /\ FeeEntries # {}
  /\ Nobody \notin Operators /\ Assigners \subseteq Operators
  /\ {MaxPersons, MaxBills, MaxDays} \subseteq Nat /\ MaxAttempts \in Nat \ {0} /\ MaxCaseFaults \in Nat
  /\ IsFiniteSet(Bookings) /\ Swept \subseteq Bookings

VARIABLES
  booking,   \* applications: stage, reference code, entry chosen, express, stored total
  person,    \* applicants: whose, application code, main applicant, deleted
  bill,      \* the payment of an application made last, the references of them all
  crossed,   \* applications of which a submission overlapped with a change of the price
  unpriced,  \* applications of which a submission found no fee to compute the price by
  fees,      \* the entries the nationality has an active fee for
  assigned, estimate, note,  \* operator in charge, days estimated, internal notes
  task,      \* requests in flight
  caseOffer, caseFaults

desk == <<assigned, estimate, note, fees>>
cases == <<booking, person>>
caseVars == <<cases, bill, crossed, unpriced, desk, task, caseOffer, caseFaults>>

Amounts == [entry : FeeEntries, heads : Nat, express : BOOLEAN]
Idle == [op |-> "idle"]
TaskOps == {"create", "addApplicant", "updateApplicant", "deleteApplicant", "update", "submit",
            "pay", "assign", "estimate", "note"}

CaseTypeOK ==
  /\ booking \in [Bookings -> [stage : {"none", "draft", "unpaid", "gone"}, code : Nat,
                               entry : FeeEntries \cup {AnyEntry}, express : BOOLEAN, total : Amounts]]
  /\ person \in [Persons -> [of : SUBSET Bookings, code : Nat, main : BOOLEAN, gone : BOOLEAN]]
  /\ bill \in [Bookings -> [state : {"none", "open", "closed"}, amount : Amounts, codes : SUBSET Nat]]
  /\ {crossed, unpriced} \subseteq SUBSET Bookings /\ fees \subseteq FeeEntries
  /\ assigned \in [Bookings -> Operators \cup {Nobody}]
  /\ estimate \in [Bookings -> 0 .. MaxDays]
  /\ note \in [Bookings -> Operators \cup {Nobody}]
  /\ \A h \in CaseRequests : task[h].op \in TaskOps \cup {"idle"}
  /\ caseOffer \in CaseOffers /\ caseFaults \in 0 .. MaxCaseFaults

\* computeFeeTotals for n applicants, of whom there is at least one.
ComputeFeeTotals(e, n, x) == [entry |-> e, heads |-> IF n = 0 THEN 1 ELSE n, express |-> x]

NoAmount == ComputeFeeTotals(CHOOSE e \in FeeEntries : TRUE, 0, FALSE)

\* Applications that were deleted keep their codes.
CaseInit ==
  /\ \E code \in [Swept -> 1 .. Cardinality(Swept)] :
       /\ \A a, b \in Swept : code[a] = code[b] => a = b
       /\ booking = [b \in Bookings |->
            [stage |-> IF b \in Swept THEN "gone" ELSE "none",
             code |-> IF b \in Swept THEN code[b] ELSE 0,
             entry |-> AnyEntry, express |-> FALSE, total |-> NoAmount]]
  /\ person = [p \in Persons |-> [of |-> {}, code |-> 0, main |-> FALSE, gone |-> FALSE]]
  /\ bill = [b \in Bookings |-> [state |-> "none", amount |-> NoAmount, codes |-> {}]]
  /\ crossed = {} /\ unpriced = {} /\ fees = FeeEntries
  /\ assigned = [b \in Bookings |-> Nobody] /\ estimate = [b \in Bookings |-> 0]
  /\ note = [b \in Bookings |-> Nobody]
  /\ task = [h \in CaseRequests |-> Idle]
  /\ caseOffer \in CaseOffers /\ caseFaults = 0

-----------------------------------------------------------------------------
(* What requests read.                                                        *)

LivePersons(b) == {p \in Persons : person[p].of = {b} /\ ~person[p].gone}
HasMain(b, others) == \E p \in LivePersons(b) \ others : person[p].main
In(b, stage) == booking[b].stage = stage
Payable(b) == bill[b].state = "open"  \* CREATED .. PAID

\* The fees found for a choice of entry; without one, any that comes first.
FeesOf(e) == IF e = AnyEntry THEN fees ELSE fees \cap {e}

\* The codes in use: those of deleted rows too.
CodesIn(table) ==
  CASE table = "create" -> {booking[b].code : b \in {c \in Bookings : ~In(c, "none")}}
    [] table = "addApplicant" -> {person[p].code : p \in {q \in Persons : person[q].of # {}}}
    [] table = "pay" -> UNION {bill[b].codes : b \in Bookings}

\* t submits the application whose price u may change.
Crossing(t, u) ==
  /\ t.op = "submit" /\ u.op \in {"addApplicant", "deleteApplicant", "update"}
  /\ t.of = u.of

\* A request starts, goes on, ends.  (A bound: they overlap where "overlap" is offered.)
Take(h, t) ==
  /\ t.op \in caseOffer
  /\ task[h] = Idle
  /\ "overlap" \in caseOffer \/ \A g \in CaseRequests : task[g] = Idle
  /\ task' = [task EXCEPT ![h] = t]
  /\ crossed' = IF \E g \in CaseRequests : Crossing(task[g], t) \/ Crossing(t, task[g])
                THEN crossed \cup {t.of} ELSE crossed
  /\ UNCHANGED <<booking, person, bill, unpriced, desk, caseOffer, caseFaults>>

Turn(h, t) == task' = [task EXCEPT ![h] = t] /\ UNCHANGED <<caseOffer, caseFaults>>
Finish(h) == Turn(h, Idle)
At(h, op, at) == task[h].op = op /\ task[h].at = at

-----------------------------------------------------------------------------
(* Codes: generateReferenceCode with withReferenceCodeRetry,                  *)
(* generateApplicationCode with withCodeRetry, and generatePaymentReference   *)
(* with withPaymentReferenceRetry.                                            *)

Largest(S) == IF S = {} THEN 0 ELSE CHOOSE n \in S : \A m \in S : m <= n

ScanCodes_LiveOnly(h) ==
  \E op \in {"create", "addApplicant"} :
    /\ At(h, op, "scan")
    /\ LET live == IF op = "create"
                   THEN {booking[b].code : b \in {c \in Bookings : ~In(c, "none") /\ ~In(c, "gone")}}
                   ELSE {person[p].code : p \in {q \in Persons : person[q].of # {} /\ ~person[q].gone}}
       IN Turn(h, [task[h] EXCEPT !.at = "insert", !.code = Largest(live) + @])
    /\ UNCHANGED <<booking, person, bill, crossed, unpriced, desk>>

\* The next number, and one further at every retry.
Scan(h, op) ==
  /\ At(h, op, "scan")
  /\ Turn(h, [task[h] EXCEPT !.at = "insert", !.code = Largest(CodesIn(op)) + task[h].try])
  /\ UNCHANGED <<booking, person, bill, crossed, unpriced, desk>>

ScanCodes(h) == \E op \in {"create", "addApplicant"} : Scan(h, op)
ScanReferences(h) == Scan(h, "pay")

\* The unique index refuses the code: once more, or an error.
Refused(h, op) ==
  /\ At(h, op, "insert") /\ task[h].code \in CodesIn(op)
  /\ IF task[h].try < MaxAttempts
     THEN Turn(h, [task[h] EXCEPT !.at = "scan", !.try = @ + 1])
     ELSE Finish(h)
  /\ UNCHANGED <<booking, person, bill, crossed, unpriced, desk>>

CodeTaken(h) == \E op \in {"create", "addApplicant"} : Refused(h, op)
ReferenceTaken(h) == Refused(h, "pay")

\* h inserts its row and goes on with t; whoever else looks for a code of that table
\* has lost a race.
Inserted(h, op, t) ==
  /\ At(h, op, "insert") /\ task[h].code \notin CodesIn(op)
  /\ task' = [g \in CaseRequests |->
       IF g = h THEN t
       ELSE IF task[g].op = op /\ task[g].at \in {"scan", "insert"}
            THEN [task[g] EXCEPT !.lost = @ + 1] ELSE task[g]]
  /\ UNCHANGED <<crossed, unpriced, desk, caseOffer, caseFaults>>

-----------------------------------------------------------------------------
(* ApplicationsService.                                                       *)

Create(h) ==
  \E b \in Bookings, e \in FeeEntries \cup {AnyEntry}, x \in BOOLEAN :
    /\ In(b, "none") /\ \A g \in CaseRequests : task[g].op = "create" => task[g].of # b
    /\ \E f \in FeesOf(e) :
         Take(h, [op |-> "create", at |-> "scan", of |-> b, try |-> 1, lost |-> 0, code |-> 0,
                  entry |-> e, express |-> x, total |-> ComputeFeeTotals(f, 1, x)])

InsertApplication(h) ==
  LET t == task[h]
  IN /\ Inserted(h, "create", Idle)
     /\ booking' = [booking EXCEPT ![t.of] =
          [stage |-> "draft", code |-> t.code, entry |-> t.entry, express |-> t.express, total |-> t.total]]
     /\ UNCHANGED <<person, bill>>

\* The express option re-prices the booking, by the first fee of the nationality; if it
\* has none the option is taken at the price there was.
Update(h) ==
  \E b \in Bookings, x \in BOOLEAN :
    /\ In(b, "draft")
    /\ \E total \in IF x = booking[b].express \/ fees = {} THEN {booking[b].total}
                    ELSE {ComputeFeeTotals(e, Cardinality(LivePersons(b)), x) : e \in fees} :
         Take(h, [op |-> "update", at |-> "save", of |-> b, express |-> x, total |-> total])

SaveUpdate(h) ==
  LET t == task[h]
  IN /\ At(h, "update", "save")
     /\ booking' = [booking EXCEPT ![t.of] = [@ EXCEPT !.express = t.express, !.total = t.total]]
     /\ Finish(h)
     /\ UNCHANGED <<person, bill, crossed, unpriced, desk>>

\* recalculateTotalFee: after an applicant came or went, and within submitForReview.
\* Without a fee it returns, and the total stays what it was.
RecalculateTotalFee(h) ==
  LET t == task[h]
      next == IF t.op = "submit" THEN [t EXCEPT !.at = "submit"] ELSE Idle
      found == FeesOf(booking[t.of].entry)
  IN /\ t # Idle /\ t.at = "recalculate"
     /\ \/ found = {} /\ Turn(h, next)
        \/ \E f \in found :
             LET total == ComputeFeeTotals(f, Cardinality(LivePersons(t.of)), booking[t.of].express)
             IN Turn(h, IF total = booking[t.of].total THEN next
                        ELSE [op |-> t.op, at |-> "reprice", of |-> t.of, total |-> total])
     /\ unpriced' = IF found = {} /\ t.op = "submit" THEN unpriced \cup {t.of} ELSE unpriced
     /\ UNCHANGED <<booking, person, bill, crossed, desk>>

Reprice(h) ==
  LET t == task[h]
  IN /\ t # Idle /\ t.at = "reprice"
     /\ booking' = [booking EXCEPT ![t.of].total = t.total]
     /\ Turn(h, IF t.op = "submit" THEN [t EXCEPT !.at = "submit"] ELSE Idle)
     /\ UNCHANGED <<person, bill, crossed, unpriced, desk>>

SubmitForReview_NoRecalculation(h) ==
  \E b \in Bookings :
    /\ In(b, "draft") /\ LivePersons(b) # {}
    /\ Take(h, [op |-> "submit", at |-> "submit", of |-> b])

\* A complete draft with at least one applicant.
SubmitForReview(h) ==
  \E b \in Bookings :
    /\ In(b, "draft") /\ LivePersons(b) # {}
    /\ Take(h, [op |-> "submit", at |-> "recalculate", of |-> b])

\* An update by id.
Submit(h) ==
  LET b == task[h].of
  IN /\ At(h, "submit", "submit")
     /\ booking' = [booking EXCEPT ![b].stage = "unpaid"]
     /\ Finish(h)
     /\ UNCHANGED <<person, bill, crossed, unpriced, desk>>

-----------------------------------------------------------------------------
(* ApplicantsService.                                                         *)

\* assertApplicantCountChangeAllowed
CountMayChange(b) == In(b, "draft") /\ ~Payable(b)

AddApplicant(h) ==
  \E b \in Bookings, m \in BOOLEAN :
    /\ CountMayChange(b)
    /\ m => ~HasMain(b, {})
    /\ Take(h, [op |-> "addApplicant", at |-> "scan", of |-> b, try |-> 1, lost |-> 0, code |-> 0,
                main |-> m])

InsertApplicant(h) ==
  LET t == task[h]
  IN /\ Inserted(h, "addApplicant", [op |-> "addApplicant", at |-> "recalculate", of |-> t.of])
     /\ \E p \in Persons :
          /\ person[p].of = {} /\ \A q \in Persons : q < p => person[q].of # {}
          /\ person' = [person EXCEPT ![p] =
               [of |-> {t.of}, code |-> t.code, main |-> t.main, gone |-> FALSE]]
     /\ UNCHANGED <<booking, bill>>

UpdateApplicant(h) ==
  \E b \in Bookings, m \in BOOLEAN : \E p \in LivePersons(b) :
    /\ In(b, "draft")
    /\ m /\ ~person[p].main => ~HasMain(b, {p})
    /\ Take(h, [op |-> "updateApplicant", at |-> "save", of |-> b, person |-> p, main |-> m])

SaveApplicant(h) ==
  LET t == task[h]
  IN /\ At(h, "updateApplicant", "save")
     /\ person' = [person EXCEPT ![t.person].main = t.main]
     /\ Finish(h)
     /\ UNCHANGED <<booking, bill, crossed, unpriced, desk>>

DeleteApplicant(h) ==
  \E b \in Bookings : \E p \in LivePersons(b) :
    /\ CountMayChange(b)
    /\ Take(h, [op |-> "deleteApplicant", at |-> "save", of |-> b, person |-> p])

RemoveApplicant(h) ==
  LET t == task[h]
  IN /\ At(h, "deleteApplicant", "save")
     /\ person' = [person EXCEPT ![t.person].gone = TRUE]
     /\ Turn(h, [t EXCEPT !.at = "recalculate"])
     /\ UNCHANGED <<booking, bill, crossed, unpriced, desk>>

-----------------------------------------------------------------------------
(* PaymentsService.create: the amount is computed again, for the applicants   *)
(* there are, by the first fee of the nationality; without one it is refused. *)

Charge(h, b, total) ==
  Take(h, [op |-> "pay", at |-> "scan", of |-> b, try |-> 1, lost |-> 0, code |-> 0, total |-> total])

CreatePayment(h) ==
  \E b \in Bookings, e \in fees :
    /\ In(b, "unpaid") /\ ~Payable(b) /\ Cardinality(CodesIn("pay")) < MaxBills
    /\ Charge(h, b, ComputeFeeTotals(e, Cardinality(LivePersons(b)), booking[b].express))

InsertPayment(h) ==
  LET t == task[h]
  IN /\ Inserted(h, "pay", Idle)
     /\ bill' = [bill EXCEPT ![t.of] =
          [state |-> "open", amount |-> t.total, codes |-> @.codes \cup {t.code}]]
     /\ UNCHANGED <<booking, person>>

\* The payment fails, is cancelled or expires.
PaymentCloses(b) ==
  /\ Payable(b)
  /\ bill' = [bill EXCEPT ![b].state = "closed"]
  /\ UNCHANGED <<booking, person, crossed, unpriced, desk, task, caseOffer, caseFaults>>

\* A fee is switched off, deleted, switched on again or made (TemplateBindingsService).
FeeChanges(e) ==
  /\ "fees" \in caseOffer
  /\ fees' = IF e \in fees THEN fees \ {e} ELSE fees \cup {e}
  /\ UNCHANGED <<booking, person, bill, crossed, unpriced, assigned, estimate, note, task, caseOffer, caseFaults>>

-----------------------------------------------------------------------------
(* Operators: assignOperator, updateEstimatedTime and internal notes.         *)

Existing == {b \in Bookings : booking[b].stage \in {"draft", "unpaid"}}

\* Without the permission one may take a case, or give one's own back.
AssignOperator(h) ==
  \E b \in Existing, actor \in Operators, to \in Operators \cup {Nobody} :
    /\ actor \in Assigners \/ to = actor \/ (to = Nobody /\ assigned[b] = actor)
    /\ assigned[b] # to
    /\ Take(h, [op |-> "assign", at |-> "save", of |-> b, to |-> to])

SaveAssignment(h) ==
  LET t == task[h]
  IN /\ At(h, "assign", "save")
     /\ assigned' = [assigned EXCEPT ![t.of] = t.to]
     /\ Finish(h)
     /\ UNCHANGED <<booking, person, bill, crossed, unpriced, estimate, note, fees>>

UpdateEstimatedTime(h) ==
  \E b \in Existing, d \in 1 .. MaxDays :
    /\ estimate[b] # d
    /\ Take(h, [op |-> "estimate", at |-> "save", of |-> b, to |-> d])

SaveEstimate(h) ==
  LET t == task[h]
  IN /\ At(h, "estimate", "save")
     /\ estimate' = [estimate EXCEPT ![t.of] = t.to]
     /\ Finish(h)
     /\ UNCHANGED <<booking, person, bill, crossed, unpriced, assigned, note, fees>>

\* One note of a case, by its author: written, changed by him only, deleted by anyone.
InternalNote(h) ==
  \E b \in Existing, actor \in Operators, to \in Operators \cup {Nobody} :
    /\ IF note[b] = Nobody THEN to = actor ELSE to = Nobody \/ (to = actor /\ note[b] = actor)
    /\ Take(h, [op |-> "note", at |-> "save", of |-> b, to |-> to])

SaveNote(h) ==
  LET t == task[h]
  IN /\ At(h, "note", "save")
     /\ note' = [note EXCEPT ![t.of] = t.to]
     /\ Finish(h)
     /\ UNCHANGED <<booking, person, bill, crossed, unpriced, assigned, estimate, fees>>

\* A query fails, or the process stops: what is left of the request never runs.
CaseRequestFails(h) ==
  /\ "fails" \in caseOffer /\ caseFaults < MaxCaseFaults
  /\ task[h] # Idle
  /\ task' = [task EXCEPT ![h] = Idle]
  /\ caseFaults' = caseFaults + 1
  /\ UNCHANGED <<booking, person, bill, crossed, unpriced, desk, caseOffer>>

-----------------------------------------------------------------------------
CustomerStep(h) ==
  \/ Create(h) \/ ScanCodes(h) \/ CodeTaken(h) \/ InsertApplication(h)
  \/ Update(h) \/ SaveUpdate(h) \/ RecalculateTotalFee(h) \/ Reprice(h)
  \/ SubmitForReview(h) \/ Submit(h)
  \/ AddApplicant(h) \/ InsertApplicant(h) \/ UpdateApplicant(h) \/ SaveApplicant(h)
  \/ DeleteApplicant(h) \/ RemoveApplicant(h)
  \/ CreatePayment(h) \/ ScanReferences(h) \/ ReferenceTaken(h) \/ InsertPayment(h)

OperatorStep(h) ==
  \/ AssignOperator(h) \/ SaveAssignment(h) \/ UpdateEstimatedTime(h) \/ SaveEstimate(h)
  \/ InternalNote(h) \/ SaveNote(h)

CaseNext ==
  \/ \E h \in CaseRequests : CustomerStep(h) \/ OperatorStep(h) \/ CaseRequestFails(h)
  \/ \E b \in Bookings : PaymentCloses(b)
  \/ \E e \in FeeEntries : FeeChanges(e)

CaseSpec == CaseInit /\ [][CaseNext]_caseVars

-----------------------------------------------------------------------------
\* What the payment charges and the people on the application agree from submission on,
\* whatever failed half-way before, unless the submission overlapped with a request that
\* changes what the application costs; and so does the total the customer was quoted,
\* unless the submission found no fee, too, and went on with the total there was.
OneAmount ==
  \A b \in Bookings : In(b, "unpaid") /\ b \notin crossed =>
    LET due == [heads |-> Cardinality(LivePersons(b)), express |-> booking[b].express]
        Is(amount) == amount.heads = due.heads /\ amount.express = due.express
    IN /\ Payable(b) => Is(bill[b].amount)
       /\ b \notin unpriced => Is(booking[b].total)

\* A creation retries, and in the end fails, for a code another took in the meantime,
\* and for nothing else: no row in the table can block it.
RetriesAreRaces ==
  \A h \in CaseRequests :
    task[h] # Idle /\ task[h].at \in {"scan", "insert"} => task[h].lost >= task[h].try - 1

\* The payment charges the price of the entry the customer chose.
ChargedTheEntryPrice ==
  \A b \in Bookings : Payable(b) /\ booking[b].entry # AnyEntry =>
    bill[b].amount.entry = booking[b].entry
=============================================================================
