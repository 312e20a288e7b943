----------------------------- MODULE CaseProofs ------------------------------
(* Proofs about Casework, an application from its draft to the desk.  For any  *)
(* number of applications, applicants and requests, however they overlap and   *)
(* wherever they fail, the amount of a submitted application is that of its    *)
(* payment and of its people, unless its submission overlapped with a change   *)
(* of the price; and a creation looks for another reference code only because  *)
(* another request took the one it was about to use.                           *)
EXTENDS Casework, FiniteSetTheorems, WellFoundedInduction, NaturalsInduction, TLAPS

Coders == {"create", "addApplicant", "pay"}
Pricers == {"addApplicant", "deleteApplicant", "update"}
Deskwork == {"assign", "estimate", "note"}

\* Requests that look for a code, or are about to use one.
Coding ==
  [op : {"create"}, at : {"scan", "insert"}, of : Bookings, try : Nat, lost : Nat, code : Nat,
   entry : FeeEntries \cup {AnyEntry}, express : BOOLEAN, total : Amounts]
  \cup [op : {"addApplicant"}, at : {"scan", "insert"}, of : Bookings, try : Nat, lost : Nat, code : Nat,
        main : BOOLEAN]
  \cup [op : {"pay"}, at : {"scan", "insert"}, of : Bookings, try : Nat, lost : Nat, code : Nat, total : Amounts]

\* Requests that change what is stored.
Working ==
  [op : {"addApplicant", "submit"}, at : {"recalculate", "submit"}, of : Bookings]
  \cup [op : {"addApplicant", "deleteApplicant", "submit"}, at : {"reprice", "submit"}, of : Bookings, total : Amounts]
  \cup [op : {"deleteApplicant"}, at : {"save", "recalculate"}, of : Bookings, person : Persons]
  \cup [op : {"updateApplicant"}, at : {"save"}, of : Bookings, person : Persons, main : BOOLEAN]
  \cup [op : {"update"}, at : {"save"}, of : Bookings, express : BOOLEAN, total : Amounts]
  \cup [op : {"assign", "note"}, at : {"save"}, of : Bookings, to : Operators \cup {Nobody}]
  \cup [op : {"estimate"}, at : {"save"}, of : Bookings, to : 0 .. MaxDays]

\* The amount is for the people on the application and the speed it asks for.
Fits(b, amount) == amount.heads = Cardinality(LivePersons(b)) /\ amount.express = booking[b].express

\* Everyone who lost a race for a code has been counted, also whoever does not know yet.
Raced(t) ==
  t \in Coding => /\ t.try >= 1 /\ t.lost >= t.try - 1
                  /\ t.at = "insert" /\ t.code \in CodesIn(t.op) => t.lost >= t.try

TaskOK(t) ==
  /\ t = Idle \/ t \in Coding \/ t \in Working
  /\ Raced(t)
  /\ t.op = "create" => In(t.of, "none")
  /\ t.op \in {"submit", "addApplicant", "update", "updateApplicant", "deleteApplicant"} => ~In(t.of, "none")
  /\ t.op = "pay" => In(t.of, "unpaid") /\ (t.of \notin crossed => Fits(t.of, t.total))
  /\ t.op = "submit" /\ t.of \notin crossed =>
       /\ t.at = "reprice" => Fits(t.of, t.total)
       /\ t.at = "submit" /\ t.of \notin unpriced => Fits(t.of, booking[t.of].total)
  /\ t.op = "deleteApplicant" /\ t.at = "save" => person[t.person].of = {t.of}

\* What it costs is final, unless it overlapped with a change of that.
Final(b) == b \notin crossed /\ (In(b, "unpaid") \/ \E h \in CaseRequests : task[h].op = "submit" /\ task[h].of = b)

FinalPrices ==
  \A b \in Bookings : Final(b) =>
    /\ LivePersons(b) # {}
    /\ \A h \in CaseRequests : task[h].op \in Pricers => task[h].of # b

RightAmounts ==
  \A b \in Bookings :
    /\ Payable(b) => In(b, "unpaid")
    /\ In(b, "unpaid") /\ b \notin crossed =>
         (b \notin unpriced => Fits(b, booking[b].total)) /\ (Payable(b) => Fits(b, bill[b].amount))

OneCreation ==
  \A g, h \in CaseRequests : g # h /\ task[g].op = "create" /\ task[h].op = "create" => task[g].of # task[h].of

CodesBounded == \E n \in Nat : \A op \in Coders : \A m \in CodesIn(op) : m \in Nat /\ m <= n

CaseOK ==
  /\ CaseTypeOK /\ DOMAIN task = CaseRequests /\ CodesBounded
  /\ \A h \in CaseRequests : TaskOK(task[h])
  /\ FinalPrices /\ RightAmounts /\ OneCreation

LEMMA CodesFit ==
  /\ CodesIn("create") = {booking[b].code : b \in {c \in Bookings : ~In(c, "none")}}
  /\ CodesIn("addApplicant") = {person[p].code : p \in {q \in Persons : person[q].of # {}}}
  /\ CodesIn("pay") = UNION {bill[b].codes : b \in Bookings}
BY DEF CodesIn

LEMMA CodesNext ==
  /\ CodesIn("create")' = {booking'[b].code : b \in {c \in Bookings : booking'[c].stage # "none"}}
  /\ CodesIn("addApplicant")' = {person'[p].code : p \in {q \in Persons : person'[q].of # {}}}
  /\ CodesIn("pay")' = UNION {bill'[b].codes : b \in Bookings}
BY DEF CodesIn, In

\* Rows that stay keep their codes.
LEMMA SameBookings ==
  ASSUME booking' = booking PROVE CodesIn("create")' = CodesIn("create")
<1>1. CodesIn("create")' = {booking'[b].code : b \in {c \in Bookings : booking'[c].stage # "none"}}
  BY CodesNext
<1>2. CodesIn("create") = {booking[b].code : b \in {c \in Bookings : booking[c].stage # "none"}}
  BY CodesFit DEF In
<1> QED
  BY <1>1, <1>2

LEMMA SamePersons ==
  ASSUME person' = person PROVE CodesIn("addApplicant")' = CodesIn("addApplicant")
<1>1. CodesIn("addApplicant")' = {person'[p].code : p \in {q \in Persons : person'[q].of # {}}}
  BY CodesNext
<1>2. CodesIn("addApplicant") = {person[p].code : p \in {q \in Persons : person[q].of # {}}}
  BY CodesFit
<1> QED
  BY <1>1, <1>2

LEMMA SameBills ==
  ASSUME bill' = bill PROVE CodesIn("pay")' = CodesIn("pay")
<1>1. CodesIn("pay")' = UNION {bill'[b].codes : b \in Bookings}
  BY CodesNext
<1>2. CodesIn("pay") = UNION {bill[b].codes : b \in Bookings}
  BY CodesFit
<1> QED
  BY <1>1, <1>2

LEMMA CaseFields ==
  ASSUME CaseTypeOK
  PROVE  /\ \A b \in Bookings :
              /\ booking[b].stage \in {"none", "draft", "unpaid", "gone"} /\ booking[b].code \in Nat
              /\ booking[b].entry \in FeeEntries \cup {AnyEntry} /\ booking[b].express \in BOOLEAN
              /\ booking[b].total \in Amounts
              /\ bill[b].amount \in Amounts /\ bill[b].codes \subseteq Nat
         /\ DOMAIN booking = Bookings /\ DOMAIN bill = Bookings /\ DOMAIN person = Persons
         /\ \A p \in Persons : person[p].of \subseteq Bookings /\ person[p].code \in Nat
         /\ \A b \in Bookings : IsFiniteSet(LivePersons(b)) /\ Cardinality(LivePersons(b)) \in Nat
                                /\ (Cardinality(LivePersons(b)) = 0 <=> LivePersons(b) = {})
<1>1. IsFiniteSet(Persons)
  BY FS_Interval, CaseworkAssumption DEF Persons
<1>2. ASSUME NEW b \in Bookings
      PROVE  /\ IsFiniteSet(LivePersons(b)) /\ Cardinality(LivePersons(b)) \in Nat
             /\ (Cardinality(LivePersons(b)) = 0 <=> LivePersons(b) = {})
  <2>1. LivePersons(b) \subseteq Persons
    BY DEF LivePersons
  <2>2. IsFiniteSet(LivePersons(b))
    BY <1>1, <2>1, FS_Subset
  <2> QED
    BY <2>2, FS_CardinalityType, FS_EmptySet
<1>3. DOMAIN booking = Bookings /\ DOMAIN bill = Bookings /\ DOMAIN person = Persons
      /\ \A p \in Persons : person[p].of \subseteq Bookings /\ person[p].code \in Nat
  BY DEF CaseTypeOK
<1>4. ASSUME NEW b \in Bookings
      PROVE  /\ booking[b].stage \in {"none", "draft", "unpaid", "gone"} /\ booking[b].code \in Nat
             /\ booking[b].entry \in FeeEntries \cup {AnyEntry} /\ booking[b].express \in BOOLEAN
             /\ booking[b].total \in Amounts
             /\ bill[b].amount \in Amounts /\ bill[b].codes \subseteq Nat
  BY DEF CaseTypeOK
<1> QED
  BY <1>2, <1>3, <1>4

LEMMA CodingFields ==
  ASSUME NEW t \in Coding
  PROVE  /\ t.op \in Coders /\ t.at \in {"scan", "insert"} /\ t.of \in Bookings
         /\ t.try \in Nat /\ t.lost \in Nat /\ t.code \in Nat /\ t # Idle
         /\ t.op = "create" => t.total \in Amounts /\ t.entry \in FeeEntries \cup {AnyEntry} /\ t.express \in BOOLEAN
         /\ t.op = "addApplicant" => t.main \in BOOLEAN
         /\ t.op = "pay" => t.total \in Amounts
BY DEF Coding, Coders, Idle

LEMMA WorkingFields ==
  ASSUME NEW t \in Working
  PROVE  /\ t.op \in TaskOps \ {"create", "pay"} /\ t.of \in Bookings /\ t # Idle
         /\ t.at \in {"save", "recalculate", "reprice", "submit"} /\ t \notin Coding
<1>1. /\ t.op \in TaskOps \ {"create", "pay"} /\ t.of \in Bookings /\ t # Idle
      /\ t.at \in {"save", "recalculate", "reprice", "submit"}
  BY DEF Working, TaskOps, Idle
<1> QED
  BY <1>1, CodingFields

LEMMA IdleFits == TaskOK(Idle) /\ Idle.op = "idle" /\ Idle \notin Coding
BY CodingFields DEF TaskOK, Idle, Raced

\* What a step leaves of a booking that is final.
Keeps(b) ==
  /\ LivePersons(b)' = LivePersons(b) /\ booking'[b].express = booking[b].express
  /\ booking'[b].total = booking[b].total \/ Fits(b, booking'[b].total)

\* No booking comes out of nothing, or out of being submitted.
Forward ==
  /\ crossed \subseteq crossed' /\ unpriced \subseteq unpriced'
  /\ \A b \in Bookings : /\ ~In(b, "none") => booking'[b].stage # "none"
                         /\ In(b, "unpaid") => booking'[b].stage = "unpaid"
                         /\ Final(b) => Keeps(b)
  /\ \A p \in Persons : person[p].of # {} => person'[p].of = person[p].of

\* A request that looks for a code has to hear of everyone else's insertion.
Hears(t, u) ==
  \/ u = t /\ \A op \in Coders : t \in Coding /\ t.op = op => CodesIn(op)' \subseteq CodesIn(op)
  \/ t \in Coding /\ u = [t EXCEPT !.lost = @ + 1]

LEMMA HeardIsSame ==
  ASSUME NEW t, NEW u, Hears(t, u), t = Idle \/ t \in Coding \/ t \in Working
  PROVE  /\ u.op = t.op /\ u.of = t.of /\ (u = Idle \/ u \in Coding \/ u \in Working)
         /\ u \in Coding => t \in Coding /\ u.try = t.try /\ u.code = t.code /\ u.at = t.at /\ u.lost >= t.lost
         /\ u \notin Coding => u = t
         /\ t \in Coding => u.total = t.total \/ t.op = "addApplicant"
<1>1. CASE u = t
  BY <1>1, CodingFields
<1>2. CASE t \in Coding /\ u = [t EXCEPT !.lost = @ + 1]
  <2>1. u \in Coding
    BY <1>2 DEF Coding
  <2>2. u.op = t.op /\ u.of = t.of /\ u.try = t.try /\ u.code = t.code /\ u.at = t.at /\ u.lost = t.lost + 1
    BY <1>2 DEF Coding
  <2>3. u.total = t.total \/ t.op = "addApplicant"
    BY <1>2 DEF Coding
  <2> QED
    BY <1>2, <2>1, <2>2, <2>3, CodingFields
<1> QED
  BY <1>1, <1>2 DEF Hears

LEMMA OtherTasks ==
  ASSUME CaseOK, CaseTypeOK', Forward, NEW g \in CaseRequests, NEW t, t = task[g], NEW u, Hears(t, u),
         t.op = "create" => booking'[t.of].stage = "none"
  PROVE  TaskOK(u)'
<1>1. TaskOK(t)
  BY DEF CaseOK
<1>2. u.op = t.op /\ u.of = t.of /\ (u = Idle \/ u \in Coding \/ u \in Working)
  BY <1>1, HeardIsSame DEF TaskOK
<1>3. Raced(u)'
  <2>1. SUFFICES ASSUME u \in Coding
                 PROVE  /\ u.try >= 1 /\ u.lost >= u.try - 1
                        /\ u.at = "insert" /\ u.code \in CodesIn(u.op)' => u.lost >= u.try
    BY DEF Raced
  <2>2. /\ t \in Coding /\ t.try >= 1 /\ t.lost >= t.try - 1 /\ t.op \in Coders
        /\ t.at = "insert" /\ t.code \in CodesIn(t.op) => t.lost >= t.try
    BY <1>1, <2>1, HeardIsSame, CodingFields DEF TaskOK, Raced
  <2>3. CASE u = t /\ CodesIn(t.op)' \subseteq CodesIn(t.op)
    BY <2>2, <2>3
  <2>4. CASE u = [t EXCEPT !.lost = @ + 1]
    <3>1. u.lost = t.lost + 1 /\ u.try = t.try
      BY <2>2, <2>4 DEF Coding
    <3> QED
      BY <2>2, <3>1, CodingFields
  <2> QED
    BY <2>2, <2>3, <2>4 DEF Hears
<1>4. u.op \in {"submit", "pay", "create", "addApplicant", "update", "updateApplicant", "deleteApplicant"} => u.of \in Bookings
  BY <1>2, CodingFields, WorkingFields DEF Idle
<1>5. u.op = "create" => In(u.of, "none")'
  BY <1>2 DEF In
<1>6. u.op \in {"submit", "addApplicant", "update", "updateApplicant", "deleteApplicant"} => ~In(u.of, "none")'
  BY <1>1, <1>2, <1>4 DEF In, TaskOK, Forward
<1>7. ASSUME u.op = "pay"
      PROVE  In(u.of, "unpaid")' /\ (u.of \notin crossed' => Fits(u.of, u.total)')
  <2>1. In(t.of, "unpaid") /\ (t.of \notin crossed => Fits(t.of, t.total)) /\ t.of \in Bookings
    BY <1>1, <1>2, <1>4, <1>7 DEF TaskOK
  <2>2. u.total = t.total
    BY <1>1, <1>2, <1>7, HeardIsSame DEF TaskOK
  <2>3. t.of \notin crossed' => Final(t.of)
    BY <2>1 DEF Final, Forward
  <2> QED
    BY <1>2, <2>1, <2>2, <2>3 DEF Fits, Keeps, Forward, In
<1>8. ASSUME u.op = "submit", u.of \notin crossed'
      PROVE  /\ u.at = "reprice" => Fits(u.of, u.total)'
             /\ u.at = "submit" /\ u.of \notin unpriced' => Fits(u.of, booking[u.of].total)'
  <2>1. u = t /\ t.of \in Bookings /\ t.of \notin crossed
    BY <1>1, <1>2, <1>4, <1>8, HeardIsSame, CodingFields DEF TaskOK, Forward, Coders
  <2>2. /\ t.at = "reprice" => Fits(t.of, t.total)
        /\ t.at = "submit" /\ t.of \notin unpriced => Fits(t.of, booking[t.of].total)
    BY <1>1, <1>8, <2>1 DEF TaskOK
  <2>3. Keeps(t.of) /\ unpriced \subseteq unpriced'
    BY <1>8, <2>1 DEF Final, Forward
  <2> QED
    BY <2>1, <2>2, <2>3 DEF Fits, Keeps
<1>9. ASSUME u.op = "deleteApplicant", u.at = "save"
      PROVE  person'[u.person].of = {u.of}
  <2>1. u = t /\ t \in Working
    BY <1>1, <1>2, <1>9, HeardIsSame, CodingFields DEF TaskOK, Coders, Idle
  <2>2. t.person \in Persons
    BY <1>9, <2>1 DEF Working
  <2>3. person[t.person].of = {t.of}
    BY <1>1, <1>9, <2>1 DEF TaskOK
  <2> QED
    BY <2>1, <2>2, <2>3 DEF Forward
<1> QED
  BY <1>2, <1>3, <1>5, <1>6, <1>7, <1>8, <1>9 DEF TaskOK


\* Request h goes on with c, and the others hear of it.
LEMMA CaseGoes ==
  ASSUME CaseOK, CaseTypeOK', CodesBounded', RightAmounts', Forward, NEW h \in CaseRequests, NEW c,
         DOMAIN task' = CaseRequests, task'[h] = c, TaskOK(c)',
         \A g \in CaseRequests : g # h => Hears(task[g], task'[g]),
         \A g \in CaseRequests : g # h /\ task[g].op = "create" => booking'[task[g].of].stage = "none",
         \A b \in Bookings : Final(b)' => Final(b),
         c.op = "create" => task[h].op = "create" /\ task[h].of = c.of,
         c.op \in Pricers => task[h].op \in Pricers /\ task[h].of = c.of
  PROVE  CaseOK'
<1>1. \A g \in CaseRequests : task[g] = Idle \/ task[g] \in Coding \/ task[g] \in Working
  BY DEF CaseOK, TaskOK
<1>2. \A g \in CaseRequests : g # h => task'[g].op = task[g].op /\ task'[g].of = task[g].of
  BY <1>1, HeardIsSame
<1>3. ASSUME NEW g \in CaseRequests, g # h
      PROVE  TaskOK(task[g])'
  <2>1. PICK t, u : t = task[g] /\ u = task'[g]
    OBVIOUS
  <2>2. TaskOK(u)'
    BY <1>3, <2>1, OtherTasks
  <2> QED
    BY <2>1, <2>2
<1>4. \A g \in CaseRequests : TaskOK(task[g])'
  BY <1>3
<1>5. OneCreation'
  BY <1>2 DEF CaseOK, OneCreation
<1>6. FinalPrices'
  <2>1. SUFFICES ASSUME NEW b \in Bookings, Final(b)'
                 PROVE  /\ LivePersons(b)' # {}
                        /\ \A g \in CaseRequests : task'[g].op \in Pricers => task'[g].of # b
    BY DEF FinalPrices
  <2>2. Final(b) /\ Keeps(b)
    BY <2>1 DEF Forward
  <2>3. LivePersons(b) # {} /\ \A g \in CaseRequests : task[g].op \in Pricers => task[g].of # b
    BY <2>2 DEF CaseOK, FinalPrices
  <2> QED
    BY <1>2, <2>2, <2>3 DEF Keeps
<1> QED
  BY <1>4, <1>5, <1>6 DEF CaseOK

\* The stored applications, people and payments stay as they are.
LEMMA CaseTurns ==
  ASSUME CaseOK, CaseTypeOK', UNCHANGED <<booking, person, bill, crossed>>, unpriced \subseteq unpriced',
         NEW h \in CaseRequests, NEW c, task' = [task EXCEPT ![h] = c], TaskOK(c) \/ TaskOK(c)',
         c.op \in {"create", "submit"} => task[h].op = c.op /\ task[h].of = c.of,
         c.op \in Pricers => task[h].op \in Pricers /\ task[h].of = c.of
  PROVE  CaseOK'
<1>1. DOMAIN task' = CaseRequests /\ task'[h] = c /\ \A g \in CaseRequests : g # h => task'[g] = task[g]
  BY DEF CaseOK
<1>2. \A op : CodesIn(op)' = CodesIn(op)
  BY DEF CodesIn, In
<1>3. \A b \in Bookings : /\ LivePersons(b)' = LivePersons(b) /\ (In(b, "none")' <=> In(b, "none"))
                          /\ (In(b, "unpaid")' <=> In(b, "unpaid")) /\ (Payable(b)' <=> Payable(b))
  BY DEF LivePersons, In, Payable
<1>4. \A t : TaskOK(t) => TaskOK(t)'
  <2>1. \A b : LivePersons(b)' = LivePersons(b)
    BY DEF LivePersons
  <2>2. \A b, a : (Fits(b, a)' <=> Fits(b, a)) /\ (In(b, a)' <=> In(b, a))
    BY <2>1 DEF Fits, In
  <2>3. \A t : Raced(t)' <=> Raced(t)
    BY <1>2 DEF Raced
  <2> QED
    BY <2>2, <2>3 DEF TaskOK
<1>5. \A b \in Bookings : Final(b)' => Final(b)
  BY <1>1, <1>3 DEF Final
<1>6. Forward
  BY <1>3 DEF Forward, Keeps, In
<1>7. RightAmounts'
  BY <1>3 DEF CaseOK, RightAmounts, Fits
<1>8. CodesBounded'
  BY <1>2 DEF CaseOK, CodesBounded
<1>9. \A g \in CaseRequests : g # h => Hears(task[g], task'[g])
  BY <1>1, <1>2 DEF Hears
<1>10. \A g \in CaseRequests : task[g].op = "create" => booking'[task[g].of].stage = "none"
  BY DEF CaseOK, TaskOK, In
<1>11. TaskOK(c)'
  BY <1>4
<1> QED
  BY <1>1, <1>5, <1>6, <1>7, <1>8, <1>9, <1>10, <1>11, CaseGoes

\* A request starts.  Where it changes the price of what is being submitted, or the other
\* way round, the application is crossed.
LEMMA CaseTaken ==
  ASSUME CaseOK, NEW h \in CaseRequests, NEW t, Take(h, t), TaskOK(t), t.op \in TaskOps, t.of \in Bookings,
         t.op = "create" => \A g \in CaseRequests : task[g].op = "create" => task[g].of # t.of,
         t.op \in Pricers => In(t.of, "draft"),
         t.op = "submit" => LivePersons(t.of) # {}
  PROVE  CaseOK'
<1>1. /\ task[h] = Idle /\ task' = [task EXCEPT ![h] = t] /\ UNCHANGED <<booking, person, bill, unpriced, desk, caseOffer, caseFaults>>
      /\ crossed' = IF \E g \in CaseRequests : Crossing(task[g], t) \/ Crossing(t, task[g])
                    THEN crossed \cup {t.of} ELSE crossed
  BY DEF Take
<1>2. DOMAIN task' = CaseRequests /\ task'[h] = t /\ \A g \in CaseRequests : g # h => task'[g] = task[g]
  BY <1>1 DEF CaseOK
<1>3. crossed \subseteq crossed' /\ crossed' \subseteq Bookings
  BY <1>1 DEF CaseOK, CaseTypeOK
<1>4. CaseTypeOK'
  BY <1>1, <1>2, <1>3 DEF CaseOK, CaseTypeOK, desk
<1>5. /\ \A b : LivePersons(b)' = LivePersons(b) /\ (Payable(b)' <=> Payable(b))
      /\ \A b, a : (Fits(b, a)' <=> Fits(b, a)) /\ (In(b, a)' <=> In(b, a))
  BY <1>1 DEF LivePersons, In, Payable, Fits
<1>6. \A op : CodesIn(op)' = CodesIn(op)
  BY <1>1 DEF CodesIn, In
<1>7. \A u : TaskOK(u) => TaskOK(u)'
  <2>1. \A u : Raced(u)' <=> Raced(u)
    BY <1>6 DEF Raced
  <2> QED
    BY <1>1, <1>3, <1>5, <2>1 DEF TaskOK
<1>8. ASSUME NEW g \in CaseRequests
      PROVE  TaskOK(task[g])'
  <2>1. PICK u : u = task'[g]
    OBVIOUS
  <2>2. TaskOK(u)
    BY <1>2, <2>1 DEF CaseOK
  <2> QED
    BY <1>7, <2>1, <2>2
<1>9. OneCreation'
  BY <1>2 DEF CaseOK, OneCreation
<1>10. RightAmounts'
  BY <1>1, <1>3, <1>5 DEF CaseOK, RightAmounts
<1>11. FinalPrices'
  <2>1. SUFFICES ASSUME NEW b \in Bookings, Final(b)'
                 PROVE  /\ LivePersons(b) # {}
                        /\ \A g \in CaseRequests : task'[g].op \in Pricers => task'[g].of # b
    BY <1>5 DEF FinalPrices
  <2>2. b \notin crossed' /\ b \notin crossed
    BY <1>3, <2>1 DEF Final
  <2>3. CASE Final(b)
    <3>1. LivePersons(b) # {} /\ \A g \in CaseRequests : task[g].op \in Pricers => task[g].of # b
      BY <2>3 DEF CaseOK, FinalPrices
    <3>2. ASSUME t.op \in Pricers, t.of = b
          PROVE  FALSE
      <4>1. In(b, "draft") /\ ~In(b, "unpaid")
        BY <3>2 DEF In
      <4>2. PICK g \in CaseRequests : task[g].op = "submit" /\ task[g].of = b
        BY <2>3, <4>1 DEF Final
      <4>3. Crossing(task[g], t)
        BY <3>2, <4>2 DEF Crossing, Pricers
      <4> QED
        BY <1>1, <2>2, <3>2, <4>3
    <3> QED
      BY <1>2, <3>1, <3>2
  <2>4. CASE ~Final(b)
    <3>1. ~In(b, "unpaid") /\ ~In(b, "unpaid")'
      BY <1>5, <2>2, <2>4 DEF Final
    <3>2. t.op = "submit" /\ t.of = b
      BY <1>2, <2>1, <2>2, <2>4, <3>1 DEF Final
    <3>3. ASSUME NEW g \in CaseRequests, task'[g].op \in Pricers, task'[g].of = b
          PROVE  FALSE
      <4>1. g # h /\ task'[g] = task[g]
        BY <1>2, <3>2, <3>3 DEF Pricers
      <4>2. Crossing(t, task[g])
        BY <3>2, <3>3, <4>1 DEF Crossing, Pricers
      <4> QED
        BY <1>1, <2>2, <3>2, <4>2
    <3> QED
      BY <3>2, <3>3
  <2> QED
    BY <2>3, <2>4
<1>12. CodesBounded'
  BY <1>6 DEF CaseOK, CodesBounded
<1> QED
  BY <1>2, <1>4, <1>8, <1>9, <1>10, <1>11, <1>12 DEF CaseOK


LEMMA Computed ==
  ASSUME CaseOK, NEW b \in Bookings, NEW e \in FeeEntries \cup {AnyEntry}, NEW f \in FeesOf(e), NEW x \in BOOLEAN
  PROVE  /\ f \in FeeEntries /\ ComputeFeeTotals(f, 1, x) \in Amounts
         /\ ComputeFeeTotals(f, Cardinality(LivePersons(b)), x) \in Amounts
         /\ LivePersons(b) # {} =>
              Fits(b, ComputeFeeTotals(f, Cardinality(LivePersons(b)), booking[b].express))
<1>1. f \in FeeEntries
  BY DEF FeesOf, CaseOK, CaseTypeOK
<1>2. Cardinality(LivePersons(b)) \in Nat /\ (Cardinality(LivePersons(b)) = 0 <=> LivePersons(b) = {})
  BY CaseFields DEF CaseOK
<1> QED
  BY <1>1, <1>2 DEF ComputeFeeTotals, Amounts, Fits

LEMMA SomeFees == CaseOK => unpriced \subseteq Bookings /\ \A e : FeesOf(e) \subseteq FeeEntries
BY DEF CaseOK, CaseTypeOK, FeesOf

LEMMA CustomerStarts ==
  ASSUME CaseOK, NEW h \in CaseRequests,
         Create(h) \/ Update(h) \/ SubmitForReview(h) \/ AddApplicant(h) \/ UpdateApplicant(h) \/ DeleteApplicant(h)
           \/ CreatePayment(h)
  PROVE  CaseOK'
<1>1. CASE Create(h)
  <2>1. PICK b \in Bookings, e \in FeeEntries \cup {AnyEntry}, x \in BOOLEAN :
          /\ In(b, "none") /\ \A g \in CaseRequests : task[g].op = "create" => task[g].of # b
          /\ \E f \in FeesOf(e) :
               Take(h, [op |-> "create", at |-> "scan", of |-> b, try |-> 1, lost |-> 0, code |-> 0,
                        entry |-> e, express |-> x, total |-> ComputeFeeTotals(f, 1, x)])
    BY <1>1 DEF Create
  <2>2. PICK f \in FeesOf(e) :
          Take(h, [op |-> "create", at |-> "scan", of |-> b, try |-> 1, lost |-> 0, code |-> 0,
                   entry |-> e, express |-> x, total |-> ComputeFeeTotals(f, 1, x)])
    BY <2>1
  <2>3. PICK t : t = [op |-> "create", at |-> "scan", of |-> b, try |-> 1, lost |-> 0, code |-> 0,
                      entry |-> e, express |-> x, total |-> ComputeFeeTotals(f, 1, x)]
    OBVIOUS
  <2>4. t \in Coding
    BY <2>3, Computed DEF Coding
  <2>5. TaskOK(t) /\ t.op = "create" /\ t.of = b
    BY <2>1, <2>3, <2>4 DEF TaskOK, Raced
  <2> QED
    BY <2>1, <2>2, <2>3, <2>5, CaseTaken DEF TaskOps, Pricers
<1>2. CASE Update(h)
  <2>1. PICK b \in Bookings, x \in BOOLEAN :
          /\ In(b, "draft")
          /\ \E total \in IF x = booking[b].express \/ fees = {} THEN {booking[b].total}
                           ELSE {ComputeFeeTotals(e, Cardinality(LivePersons(b)), x) : e \in fees} :
               Take(h, [op |-> "update", at |-> "save", of |-> b, express |-> x, total |-> total])
    BY <1>2 DEF Update
  <2>2. PICK total :
          /\ total = booking[b].total \/ \E e \in fees : total = ComputeFeeTotals(e, Cardinality(LivePersons(b)), x)
          /\ Take(h, [op |-> "update", at |-> "save", of |-> b, express |-> x, total |-> total])
    BY <2>1
  <2>3. total \in Amounts
    <3>1. CASE total = booking[b].total
      BY <3>1, CaseFields DEF CaseOK
    <3>2. ASSUME NEW e \in fees, total = ComputeFeeTotals(e, Cardinality(LivePersons(b)), x)
          PROVE  total \in Amounts
      <4>1. e \in FeesOf(e) /\ e \in FeeEntries
        BY CaseworkAssumption DEF FeesOf, CaseOK, CaseTypeOK
      <4> QED
        BY <3>2, <4>1, Computed
    <3> QED
      BY <2>2, <3>1, <3>2
  <2>4. PICK t : t = [op |-> "update", at |-> "save", of |-> b, express |-> x, total |-> total]
    OBVIOUS
  <2>5. t \in Working /\ t.op = "update" /\ t.of = b
    BY <2>3, <2>4 DEF Working
  <2>6. TaskOK(t)
    BY <2>1, <2>5, WorkingFields DEF TaskOK, Raced, In
  <2> QED
    BY <2>1, <2>2, <2>4, <2>5, <2>6, CaseTaken DEF TaskOps
<1>3. CASE SubmitForReview(h)
  <2>1. PICK b \in Bookings : /\ In(b, "draft") /\ LivePersons(b) # {}
                              /\ Take(h, [op |-> "submit", at |-> "recalculate", of |-> b])
    BY <1>3 DEF SubmitForReview
  <2>2. PICK t : t = [op |-> "submit", at |-> "recalculate", of |-> b]
    OBVIOUS
  <2>3. t \in Working /\ t.op = "submit" /\ t.of = b /\ t.at = "recalculate"
    BY <2>2 DEF Working
  <2>4. TaskOK(t)
    BY <2>1, <2>3, WorkingFields DEF TaskOK, Raced, In
  <2> QED
    BY <2>1, <2>2, <2>3, <2>4, CaseTaken DEF TaskOps, Pricers
<1>4. CASE AddApplicant(h)
  <2>1. PICK b \in Bookings, m \in BOOLEAN :
          /\ CountMayChange(b)
          /\ Take(h, [op |-> "addApplicant", at |-> "scan", of |-> b, try |-> 1, lost |-> 0, code |-> 0, main |-> m])
    BY <1>4 DEF AddApplicant
  <2>2. PICK t : t = [op |-> "addApplicant", at |-> "scan", of |-> b, try |-> 1, lost |-> 0, code |-> 0, main |-> m]
    OBVIOUS
  <2>3. t \in Coding /\ t.op = "addApplicant" /\ t.of = b
    BY <2>2 DEF Coding
  <2>4. TaskOK(t)
    BY <2>1, <2>2, <2>3 DEF TaskOK, Raced, In, CountMayChange
  <2> QED
    BY <2>1, <2>2, <2>3, <2>4, CaseTaken DEF TaskOps, CountMayChange
<1>5. CASE UpdateApplicant(h)
  <2>1. PICK b \in Bookings, m \in BOOLEAN, p \in Persons :
          In(b, "draft") /\ Take(h, [op |-> "updateApplicant", at |-> "save", of |-> b, person |-> p, main |-> m])
    BY <1>5 DEF UpdateApplicant, LivePersons
  <2>2. PICK t : t = [op |-> "updateApplicant", at |-> "save", of |-> b, person |-> p, main |-> m]
    OBVIOUS
  <2>3. t \in Working /\ t.op = "updateApplicant" /\ t.of = b
    BY <2>2 DEF Working
  <2>4. TaskOK(t)
    BY <2>1, <2>3, WorkingFields DEF TaskOK, Raced, In
  <2> QED
    BY <2>1, <2>2, <2>3, <2>4, CaseTaken DEF TaskOps, Pricers
<1>6. CASE DeleteApplicant(h)
  <2>1. PICK b \in Bookings, p \in Persons :
          /\ CountMayChange(b) /\ person[p].of = {b}
          /\ Take(h, [op |-> "deleteApplicant", at |-> "save", of |-> b, person |-> p])
    BY <1>6 DEF DeleteApplicant, LivePersons
  <2>2. PICK t : t = [op |-> "deleteApplicant", at |-> "save", of |-> b, person |-> p]
    OBVIOUS
  <2>3. t \in Working /\ t.op = "deleteApplicant" /\ t.of = b /\ t.person = p
    BY <2>2 DEF Working
  <2>4. TaskOK(t)
    BY <2>1, <2>3, WorkingFields DEF TaskOK, Raced, In, CountMayChange
  <2> QED
    BY <2>1, <2>2, <2>3, <2>4, CaseTaken DEF TaskOps, CountMayChange
<1>7. CASE CreatePayment(h)
  <2>1. PICK b \in Bookings, e \in fees :
          In(b, "unpaid") /\ Charge(h, b, ComputeFeeTotals(e, Cardinality(LivePersons(b)), booking[b].express))
    BY <1>7 DEF CreatePayment
  <2>2. PICK total : total = ComputeFeeTotals(e, Cardinality(LivePersons(b)), booking[b].express)
    OBVIOUS
  <2>3. total \in Amounts /\ (LivePersons(b) # {} => Fits(b, total))
    <3>1. e \in FeesOf(e) /\ e \in FeeEntries /\ booking[b].express \in BOOLEAN
      BY CaseworkAssumption, CaseFields DEF FeesOf, CaseOK, CaseTypeOK
    <3> QED
      BY <2>2, <3>1, Computed
  <2>4. PICK t : t = [op |-> "pay", at |-> "scan", of |-> b, try |-> 1, lost |-> 0, code |-> 0, total |-> total]
    OBVIOUS
  <2>5. t \in Coding /\ t.op = "pay" /\ t.of = b /\ t.total = total
    BY <2>3, <2>4 DEF Coding
  <2>6. b \notin crossed => Fits(b, total)
    BY <2>1, <2>3 DEF CaseOK, FinalPrices, Final
  <2>7. TaskOK(t)
    BY <2>1, <2>4, <2>5, <2>6 DEF TaskOK, Raced
  <2> QED
    BY <2>1, <2>2, <2>4, <2>5, <2>7, CaseTaken DEF TaskOps, Pricers, Charge
<1> QED
  BY <1>1, <1>2, <1>3, <1>4, <1>5, <1>6, <1>7

LEMMA OperatorStarts ==
  ASSUME CaseOK, NEW h \in CaseRequests, AssignOperator(h) \/ UpdateEstimatedTime(h) \/ InternalNote(h)
  PROVE  CaseOK'
<1>1. PICK op \in Deskwork, b \in Bookings, to \in Operators \cup {Nobody} \cup 0 .. MaxDays :
        /\ Take(h, [op |-> op, at |-> "save", of |-> b, to |-> to])
        /\ op \in {"assign", "note"} => to \in Operators \cup {Nobody}
        /\ op = "estimate" => to \in 0 .. MaxDays
  <2>1. CASE AssignOperator(h)
    BY <2>1 DEF AssignOperator, Existing, Deskwork
  <2>2. CASE UpdateEstimatedTime(h)
    BY <2>2 DEF UpdateEstimatedTime, Existing, Deskwork
  <2>3. CASE InternalNote(h)
    BY <2>3 DEF InternalNote, Existing, Deskwork
  <2> QED
    BY <2>1, <2>2, <2>3
<1>2. PICK t : t = [op |-> op, at |-> "save", of |-> b, to |-> to]
  OBVIOUS
<1>3. t \in Working /\ t.op \in Deskwork /\ t.of = b
  BY <1>1, <1>2 DEF Working, Deskwork
<1>4. TaskOK(t)
  BY <1>3, WorkingFields DEF TaskOK, Raced, Deskwork
<1> QED
  BY <1>1, <1>2, <1>3, <1>4, CaseTaken DEF Deskwork, TaskOps, Pricers


\* The largest of numbers that have a bound.
LEMMA LargestIsLargest ==
  ASSUME NEW S, NEW n \in Nat, \A m \in S : m \in Nat /\ m <= n
  PROVE  Largest(S) \in Nat /\ \A m \in S : m <= Largest(S)
<1>1. CASE S = {}
  BY <1>1 DEF Largest
<1>2. CASE S # {}
  <2> DEFINE T == {n - m : m \in S}
             R == OpToRel(<, Nat)
  <2>1. T \subseteq Nat /\ T # {}
    <3>1. \A m \in S : n - m \in Nat
      OBVIOUS
    <3>2. PICK m \in S : TRUE
      BY <1>2
    <3>3. n - m \in T
      BY <3>2
    <3> QED
      BY <3>1, <3>3
  <2>2. IsWellFoundedOn(R, Nat)
    BY NatLessThanWellFounded
  <2> HIDE DEF T, R
  <2>3. PICK x \in T : \A y \in T : ~(<<y, x>> \in R)
    BY <2>1, <2>2, WFMin
  <2>4. \A y \in T : ~(y < x)
    BY <2>1, <2>3 DEF R, OpToRel
  <2>5. PICK k \in S : x = n - k
    BY DEF T
  <2>6. \A m \in S : n - m \in T
    BY DEF T
  <2>7. \A m \in S : m <= k
    BY <2>4, <2>5, <2>6
  <2>8. Largest(S) \in S /\ \A m \in S : m <= Largest(S)
    BY <1>2, <2>7 DEF Largest
  <2> QED
    BY <2>8
<1> QED
  BY <1>1, <1>2

\* A code that is new when it is chosen.
LEMMA CodesAreNew ==
  ASSUME CaseOK, NEW op \in Coders
  PROVE  Largest(CodesIn(op)) \in Nat /\ \A m \in CodesIn(op) : m <= Largest(CodesIn(op))
<1>1. PICK n \in Nat : \A m \in CodesIn(op) : m \in Nat /\ m <= n
  BY DEF CaseOK, CodesBounded
<1> QED
  BY <1>1, LargestIsLargest

\* What At says of a request.
LEMMA AtCoding ==
  ASSUME CaseOK, NEW h \in CaseRequests, NEW op \in Coders, At(h, op, "scan") \/ At(h, op, "insert")
  PROVE  task[h] \in Coding /\ task[h].op = op /\ task[h].at \in {"scan", "insert"} /\ TaskOK(task[h])
<1>1. TaskOK(task[h]) /\ task[h].op = op /\ task[h].at \in {"scan", "insert"}
  BY DEF CaseOK, At
<1> QED
  BY <1>1, WorkingFields DEF TaskOK, Idle, Coders

LEMMA CaseTypeTurns ==
  ASSUME CaseOK, NEW h \in CaseRequests, NEW c, TaskOK(c) \/ TaskOK(c)', Turn(h, c),
         UNCHANGED <<booking, person, bill, crossed, desk>>, unpriced' \subseteq Bookings
  PROVE  CaseTypeOK'
<1>1. \A g \in CaseRequests : task'[g] = task[g] \/ task'[g] = c
  BY DEF CaseOK, Turn
<1>2. c.op \in TaskOps \cup {"idle"}
  BY CodingFields, WorkingFields DEF TaskOK, Idle, TaskOps, Coders
<1> QED
  BY <1>1, <1>2 DEF CaseOK, CaseTypeOK, Turn, desk

LEMMA ScanKeeps ==
  ASSUME CaseOK, NEW h \in CaseRequests, NEW op \in Coders, Scan(h, op)
  PROVE  CaseOK'
<1>1. PICK t : t = task[h]
  OBVIOUS
<1>2. t \in Coding /\ t.op = op /\ t.at = "scan" /\ TaskOK(t)
  BY <1>1, AtCoding DEF Scan, At
<1>3. PICK n : n = Largest(CodesIn(op)) + t.try
  OBVIOUS
<1>4. PICK c : c = [t EXCEPT !.at = "insert", !.code = n]
  OBVIOUS
<1>5. n \in Nat /\ n \notin CodesIn(op)
  <2>1. t.try \in Nat /\ t.try >= 1
    BY <1>2, CodingFields DEF TaskOK, Raced
  <2>2. PICK k : k = Largest(CodesIn(op))
    OBVIOUS
  <2>3. k \in Nat /\ \A m \in CodesIn(op) : m <= k
    BY <2>2, CodesAreNew
  <2> QED
    BY <1>3, <2>1, <2>2, <2>3
<1>6. c \in Coding /\ c.op = t.op /\ c.of = t.of /\ c.try = t.try /\ c.lost = t.lost /\ c.code = n /\ c.at = "insert"
      /\ (t.op = "pay" => c.total = t.total)
  BY <1>2, <1>4, <1>5 DEF Coding
<1>7. TaskOK(c)
  BY <1>2, <1>5, <1>6 DEF TaskOK, Raced, Coders
<1>8. Turn(h, c) /\ UNCHANGED <<booking, person, bill, crossed, unpriced, desk>>
  BY <1>1, <1>3, <1>4 DEF Scan
<1> QED
  BY <1>1, <1>2, <1>6, <1>7, <1>8, CaseTurns, CaseTypeTurns, SomeFees DEF Turn

LEMMA RefusedKeeps ==
  ASSUME CaseOK, NEW h \in CaseRequests, NEW op \in Coders, Refused(h, op)
  PROVE  CaseOK'
<1>1. PICK t : t = task[h]
  OBVIOUS
<1>2. t \in Coding /\ t.op = op /\ t.at = "insert" /\ TaskOK(t) /\ t.code \in CodesIn(op)
  BY <1>1, AtCoding DEF Refused, At
<1>3. CASE Finish(h)
  BY <1>3, IdleFits, CaseTurns, CaseTypeTurns, SomeFees DEF Refused, Finish, Turn, Pricers
<1>4. CASE ~Finish(h)
  <2>1. PICK c : c = [t EXCEPT !.at = "scan", !.try = t.try + 1]
    OBVIOUS
  <2>2. c \in Coding /\ c.op = t.op /\ c.of = t.of /\ c.try = t.try + 1 /\ c.lost = t.lost /\ c.code = t.code /\ c.at = "scan"
        /\ (t.op = "pay" => c.total = t.total)
    <3>1. t.try + 1 \in Nat
      BY <1>2, CodingFields
    <3>2. PICK n \in Nat : n = t.try + 1
      BY <3>1
    <3> QED
      BY <1>2, <2>1, <3>2 DEF Coding
  <2>3. TaskOK(c)
    <3>1. t.try \in Nat /\ t.lost \in Nat /\ t.lost >= t.try
      BY <1>2, CodingFields DEF TaskOK, Raced
    <3> QED
      BY <1>2, <2>2, <3>1 DEF TaskOK, Raced, Coders
  <2>4. Turn(h, c) /\ UNCHANGED <<booking, person, bill, crossed, unpriced, desk>>
    BY <1>1, <1>4, <2>1 DEF Refused
  <2> QED
    BY <1>1, <1>2, <2>2, <2>3, <2>4, CaseTurns, CaseTypeTurns, SomeFees DEF Turn
<1> QED
  BY <1>3, <1>4


LEMMA RecalculationKeeps ==
  ASSUME CaseOK, NEW h \in CaseRequests, RecalculateTotalFee(h)
  PROVE  CaseOK'
<1>1. PICK t : t = task[h]
  OBVIOUS
<1>2. t \in Working /\ t.at = "recalculate" /\ TaskOK(t) /\ t.of \in Bookings
  BY <1>1, CodingFields, WorkingFields DEF RecalculateTotalFee, CaseOK, TaskOK
<1>3. t.op \in {"addApplicant", "deleteApplicant", "submit"}
  BY <1>2 DEF Working
<1>4. PICK next : next = IF t.op = "submit" THEN [t EXCEPT !.at = "submit"] ELSE Idle
  OBVIOUS
<1>5. PICK b, e, x : b = t.of /\ e = booking[b].entry /\ x = booking[b].express
  OBVIOUS
<1>6. /\ UNCHANGED <<booking, person, bill, crossed, desk>>
      /\ unpriced' = IF FeesOf(e) = {} /\ t.op = "submit" THEN unpriced \cup {b} ELSE unpriced
  BY <1>1, <1>5 DEF RecalculateTotalFee
<1>7. b \in Bookings /\ e \in FeeEntries \cup {AnyEntry} /\ x \in BOOLEAN
  BY <1>2, <1>5, CaseFields DEF CaseOK
<1>8. unpriced \subseteq unpriced' /\ unpriced' \subseteq Bookings
  BY <1>6, <1>7, SomeFees
<1>9. CASE FeesOf(e) = {}
  <2>1. Turn(h, next)
    BY <1>1, <1>4, <1>5, <1>9 DEF RecalculateTotalFee
  <2>2. CASE t.op = "submit"
    <3>1. next \in Working /\ next.op = "submit" /\ next.of = b /\ next.at = "submit"
      BY <1>2, <1>4, <1>5, <2>2 DEF Working
    <3>2. b \in unpriced' /\ ~In(b, "none")'
      BY <1>2, <1>5, <1>6, <1>9, <2>2 DEF TaskOK, In
    <3>3. TaskOK(next)'
      BY <3>1, <3>2, WorkingFields DEF TaskOK, Raced
    <3> QED
      BY <1>1, <1>5, <1>6, <1>8, <2>1, <2>2, <3>1, <3>3, CaseTurns, CaseTypeTurns DEF Turn, Pricers
  <2>3. CASE t.op # "submit"
    BY <1>4, <1>6, <1>8, <2>1, <2>3, IdleFits, CaseTurns, CaseTypeTurns DEF Turn, Pricers
  <2> QED
    BY <2>2, <2>3
<1>10. ASSUME NEW f \in FeesOf(e),
              Turn(h, IF ComputeFeeTotals(f, Cardinality(LivePersons(b)), x) = booking[b].total THEN next
                      ELSE [op |-> t.op, at |-> "reprice", of |-> b,
                            total |-> ComputeFeeTotals(f, Cardinality(LivePersons(b)), x)])
       PROVE  CaseOK'
  <2>1. PICK total : total = ComputeFeeTotals(f, Cardinality(LivePersons(b)), x)
    OBVIOUS
  <2>2. total \in Amounts /\ (LivePersons(b) # {} => Fits(b, total))
    BY <1>5, <1>7, <2>1, Computed
  <2>3. t.op = "submit" /\ b \notin crossed => LivePersons(b) # {}
    BY <1>1, <1>5, <1>7 DEF CaseOK, FinalPrices, Final
  <2>4. CASE total = booking[b].total
    <3>1. Turn(h, next)
      BY <1>10, <2>1, <2>4
    <3>2. CASE t.op = "submit"
      <4>1. next \in Working /\ next.op = "submit" /\ next.of = b /\ next.at = "submit"
        BY <1>2, <1>4, <1>5, <3>2 DEF Working
      <4>2. TaskOK(next)
        BY <1>2, <1>5, <2>2, <2>3, <2>4, <3>2, <4>1, WorkingFields DEF TaskOK, Raced
      <4> QED
        BY <1>1, <1>5, <1>6, <1>8, <3>1, <3>2, <4>1, <4>2, CaseTurns, CaseTypeTurns DEF Turn, Pricers
    <3>3. CASE t.op # "submit"
      BY <1>4, <1>6, <1>8, <3>1, <3>3, IdleFits, CaseTurns, CaseTypeTurns DEF Turn, Pricers
    <3> QED
      BY <3>2, <3>3
  <2>5. CASE total # booking[b].total
    <3>1. PICK c : c = [op |-> t.op, at |-> "reprice", of |-> b, total |-> total]
      OBVIOUS
    <3>2. c \in Working /\ c.op = t.op /\ c.of = b /\ c.at = "reprice" /\ c.total = total
      BY <1>3, <1>7, <2>2, <3>1 DEF Working
    <3>3. TaskOK(c)
      BY <1>2, <1>3, <1>5, <2>2, <2>3, <3>2, WorkingFields DEF TaskOK, Raced
    <3>4. Turn(h, c)
      BY <1>10, <2>1, <2>5, <3>1
    <3> QED
      BY <1>1, <1>3, <1>5, <1>6, <1>8, <3>2, <3>3, <3>4, CaseTurns, CaseTypeTurns DEF Turn, Pricers
  <2> QED
    BY <2>4, <2>5
<1> QED
  BY <1>1, <1>4, <1>5, <1>9, <1>10 DEF RecalculateTotalFee

\* Operators' notes, and requests that fail.
LEMMA OthersKeep ==
  ASSUME CaseOK, NEW h \in CaseRequests,
         SaveAssignment(h) \/ SaveEstimate(h) \/ SaveNote(h) \/ CaseRequestFails(h)
  PROVE  CaseOK'
<1>1. PICK t : t = task[h]
  OBVIOUS
<1>2. task' = [task EXCEPT ![h] = Idle] /\ UNCHANGED <<booking, person, bill, crossed, unpriced, caseOffer>>
  BY DEF SaveAssignment, SaveEstimate, SaveNote, CaseRequestFails, Finish, Turn
<1>3. \A g \in CaseRequests : task'[g].op \in TaskOps \cup {"idle"}
  BY <1>2, IdleFits DEF CaseOK, CaseTypeOK
<1>4. CaseTypeOK'
  <2>1. CASE SaveAssignment(h)
    <3>1. t \in Working /\ t.op = "assign"
      BY <1>1, <2>1, CodingFields DEF SaveAssignment, At, CaseOK, TaskOK, Idle, Coders
    <3>2. t.of \in Bookings /\ t.to \in Operators \cup {Nobody}
      BY <3>1 DEF Working
    <3> QED
      BY <1>1, <1>2, <1>3, <2>1, <3>2 DEF SaveAssignment, Finish, Turn, CaseOK, CaseTypeOK
  <2>2. CASE SaveEstimate(h)
    <3>1. t \in Working /\ t.op = "estimate"
      BY <1>1, <2>2, CodingFields DEF SaveEstimate, At, CaseOK, TaskOK, Idle, Coders
    <3>2. t.of \in Bookings /\ t.to \in 0 .. MaxDays
      BY <3>1 DEF Working
    <3> QED
      BY <1>1, <1>2, <1>3, <2>2, <3>2 DEF SaveEstimate, Finish, Turn, CaseOK, CaseTypeOK
  <2>3. CASE SaveNote(h)
    <3>1. t \in Working /\ t.op = "note"
      BY <1>1, <2>3, CodingFields DEF SaveNote, At, CaseOK, TaskOK, Idle, Coders
    <3>2. t.of \in Bookings /\ t.to \in Operators \cup {Nobody}
      BY <3>1 DEF Working
    <3> QED
      BY <1>1, <1>2, <1>3, <2>3, <3>2 DEF SaveNote, Finish, Turn, CaseOK, CaseTypeOK
  <2>4. CASE CaseRequestFails(h)
    <3>1. caseFaults' \in 0 .. MaxCaseFaults
      BY <2>4, CaseworkAssumption DEF CaseRequestFails, CaseOK, CaseTypeOK
    <3> QED
      BY <1>2, <1>3, <2>4, <3>1 DEF CaseRequestFails, CaseOK, CaseTypeOK, desk
  <2> QED
    BY <2>1, <2>2, <2>3, <2>4
<1> QED
  BY <1>2, <1>4, IdleFits, CaseTurns DEF Pricers


\* A row is inserted with its code.
LEMMA InsertHeard ==
  ASSUME CaseOK, NEW h \in CaseRequests, NEW op \in Coders, NEW c, Inserted(h, op, c),
         \A o \in Coders : o # op => CodesIn(o)' \subseteq CodesIn(o),
         CodesIn(op)' \subseteq CodesIn(op) \cup {task[h].code}
  PROVE  /\ DOMAIN task' = CaseRequests /\ task'[h] = c
         /\ \A g \in CaseRequests : g # h => Hears(task[g], task'[g])
         /\ CodesBounded'
<1>1. DOMAIN task' = CaseRequests /\ task'[h] = c
  BY DEF Inserted
<1>2. ASSUME NEW g \in CaseRequests, g # h
      PROVE  Hears(task[g], task'[g])
  <2>1. task[g] = Idle \/ task[g] \in Coding \/ task[g] \in Working
    BY DEF CaseOK, TaskOK
  <2>2. CASE task[g].op = op /\ task[g].at \in {"scan", "insert"}
    <3>1. task[g] \in Coding
      BY <2>1, <2>2, WorkingFields DEF Idle, Coders
    <3>2. task'[g] = [task[g] EXCEPT !.lost = @ + 1]
      BY <1>2, <2>2 DEF Inserted
    <3> QED
      BY <3>1, <3>2 DEF Hears
  <2>3. CASE ~(task[g].op = op /\ task[g].at \in {"scan", "insert"})
    <3>1. task'[g] = task[g]
      BY <1>2, <2>3 DEF Inserted
    <3>2. task[g] \in Coding => task[g].op # op
      BY <2>3, CodingFields
    <3> QED
      BY <3>1, <3>2 DEF Hears
  <2> QED
    BY <2>2, <2>3
<1>3. CodesBounded'
  <2>1. PICK n \in Nat : \A o \in Coders : \A m \in CodesIn(o) : m \in Nat /\ m <= n
    BY DEF CaseOK, CodesBounded
  <2>2. PICK k : k = task[h].code
    OBVIOUS
  <2>3. k \in Nat
    BY <2>2, AtCoding, CodingFields DEF Inserted
  <2>4. PICK m \in Nat : n <= m /\ k <= m
    <3>1. n <= n + k /\ k <= n + k /\ n + k \in Nat
      BY <2>3
    <3> QED
      BY <3>1
  <2>5. \A o \in Coders : \A i \in CodesIn(o)' : i \in Nat /\ i <= m
    BY <2>1, <2>2, <2>3, <2>4
  <2> QED
    BY <2>5 DEF CodesBounded
<1> QED
  BY <1>1, <1>2, <1>3

LEMMA OpsStay ==
  ASSUME CaseOK, NEW h \in CaseRequests, \A g \in CaseRequests : g # h => Hears(task[g], task'[g]),
         task'[h].op \in TaskOps \cup {"idle"}
  PROVE  /\ \A g \in CaseRequests : task'[g].op \in TaskOps \cup {"idle"}
         /\ \A g \in CaseRequests : g # h => task'[g].op = task[g].op /\ task'[g].of = task[g].of
<1>1. \A g \in CaseRequests : task[g] = Idle \/ task[g] \in Coding \/ task[g] \in Working
  BY DEF CaseOK, TaskOK
<1>2. \A g \in CaseRequests : g # h => task'[g].op = task[g].op /\ task'[g].of = task[g].of
  BY <1>1, HeardIsSame
<1>3. \A g \in CaseRequests : task[g].op \in TaskOps \cup {"idle"}
  BY DEF CaseOK, CaseTypeOK
<1> QED
  BY <1>2, <1>3

LEMMA InsertApplicationKeeps ==
  ASSUME CaseOK, NEW h \in CaseRequests, InsertApplication(h)
  PROVE  CaseOK'
<1>1. PICK t, b : t = task[h] /\ b = t.of
  OBVIOUS
<1>2. t \in Coding /\ t.op = "create" /\ b \in Bookings /\ t.code \in Nat /\ In(b, "none") /\ TaskOK(t)
      /\ t.total \in Amounts /\ t.entry \in FeeEntries \cup {AnyEntry} /\ t.express \in BOOLEAN
  <2>1. t \in Coding /\ t.op = "create" /\ TaskOK(t)
    BY <1>1, AtCoding DEF InsertApplication, Inserted, Coders
  <2> QED
    BY <1>1, <2>1, CodingFields DEF TaskOK
<1>3. /\ Inserted(h, "create", Idle) /\ UNCHANGED <<person, bill, crossed, unpriced, desk, caseOffer, caseFaults>>
      /\ booking' = [booking EXCEPT ![b] =
           [stage |-> "draft", code |-> t.code, entry |-> t.entry, express |-> t.express, total |-> t.total]]
  BY <1>1 DEF InsertApplication, Inserted
<1>4. /\ booking'[b].stage = "draft" /\ booking'[b].code = t.code
      /\ \A a \in Bookings : a # b => booking'[a] = booking[a]
  BY <1>2, <1>3 DEF CaseOK, CaseTypeOK
<1>5. /\ CodesIn("create")' \subseteq CodesIn("create") \cup {t.code}
      /\ CodesIn("addApplicant")' = CodesIn("addApplicant") /\ CodesIn("pay")' = CodesIn("pay")
  <2>1. CodesIn("addApplicant")' = CodesIn("addApplicant") /\ CodesIn("pay")' = CodesIn("pay")
    BY <1>3, SamePersons, SameBills
  <2>2. ASSUME NEW a \in Bookings, booking'[a].stage # "none"
        PROVE  booking'[a].code \in CodesIn("create") \cup {t.code}
    <3>1. CASE a = b
      BY <1>4, <3>1
    <3>2. CASE a # b
      <4>1. ~In(a, "none") /\ booking'[a].code = booking[a].code
        BY <1>4, <2>2, <3>2 DEF In
      <4> QED
        BY <4>1, CodesFit
    <3> QED
      BY <3>1, <3>2
  <2>3. CodesIn("create")' \subseteq CodesIn("create") \cup {t.code}
    BY <2>2, CodesNext
  <2> QED
    BY <2>1, <2>3
<1>6. /\ DOMAIN task' = CaseRequests /\ task'[h] = Idle
      /\ \A g \in CaseRequests : g # h => Hears(task[g], task'[g])
      /\ CodesBounded'
  BY <1>1, <1>3, <1>5, InsertHeard DEF Coders
<1>7. /\ \A g \in CaseRequests : task'[g].op \in TaskOps \cup {"idle"}
      /\ \A g \in CaseRequests : g # h => task'[g].op = task[g].op /\ task'[g].of = task[g].of
  BY <1>6, OpsStay, IdleFits
<1>8. CaseTypeOK'
  BY <1>2, <1>3, <1>7 DEF CaseOK, CaseTypeOK, desk
<1>9. \A a : LivePersons(a)' = LivePersons(a) /\ (Payable(a)' <=> Payable(a))
  BY <1>3 DEF LivePersons, Payable
<1>10. ~Final(b) /\ ~Final(b)'
  <2>1. \A g \in CaseRequests : task[g].op = "submit" => task[g].of # b
    BY <1>2 DEF CaseOK, TaskOK
  <2> QED
    BY <1>2, <1>4, <1>6, <1>7, <2>1, IdleFits DEF Final, In
<1>11. \A a \in Bookings : a # b => (Final(a)' <=> Final(a))
  BY <1>1, <1>2, <1>3, <1>4, <1>6, <1>7, IdleFits DEF Final, In
<1>12. Forward
  BY <1>2, <1>3, <1>4, <1>9, <1>10 DEF Forward, Keeps, In
<1>13. RightAmounts'
  BY <1>2, <1>3, <1>4, <1>9 DEF CaseOK, RightAmounts, Fits, In
<1>14. \A g \in CaseRequests : g # h /\ task[g].op = "create" => booking'[task[g].of].stage = "none"
  <2>1. \A g \in CaseRequests : g # h /\ task[g].op = "create" => task[g].of # b /\ In(task[g].of, "none")
    BY <1>1, <1>2 DEF CaseOK, OneCreation, TaskOK
  <2>2. \A g \in CaseRequests : task[g].op = "create" => task[g].of \in Bookings
    BY CodingFields, WorkingFields DEF CaseOK, TaskOK, Idle
  <2> QED
    BY <1>4, <2>1, <2>2 DEF In
<1>15. \A a \in Bookings : Final(a)' => Final(a)
  BY <1>10, <1>11
<1>16. TaskOK(Idle)'
  BY CodingFields DEF TaskOK, Idle, Raced
<1> QED
  BY <1>6, <1>8, <1>12, <1>13, <1>14, <1>15, <1>16, IdleFits, CaseGoes DEF Pricers


LEMMA CodesStay ==
  ASSUME UNCHANGED <<person, bill>>,
         \A b \in Bookings : /\ booking'[b].code = booking[b].code
                             /\ booking'[b].stage = "none" <=> booking[b].stage = "none"
  PROVE  \A op \in Coders : CodesIn(op)' = CodesIn(op)
<1>1. CodesIn("create")' = CodesIn("create")
  <2>1. PICK S, T : S = CodesIn("create") /\ T = CodesIn("create")'
    OBVIOUS
  <2>2. \A n : n \in S <=> \E b \in Bookings : booking[b].stage # "none" /\ n = booking[b].code
    BY <2>1, CodesFit DEF In
  <2>3. \A n : n \in T <=> \E b \in Bookings : booking'[b].stage # "none" /\ n = booking'[b].code
    BY <2>1, CodesNext
  <2>4. \A n : n \in S <=> n \in T
    BY <2>2, <2>3
  <2> QED
    BY <2>1, <2>4
<1>2. CodesIn("addApplicant")' = CodesIn("addApplicant") /\ CodesIn("pay")' = CodesIn("pay")
  BY SamePersons, SameBills
<1> QED
  BY <1>1, <1>2 DEF Coders

BookingRow == [stage : {"none", "draft", "unpaid", "gone"}, code : Nat, entry : FeeEntries \cup {AnyEntry},
               express : BOOLEAN, total : Amounts]

LEMMA BookingTyped ==
  ASSUME CaseOK, NEW b \in Bookings, NEW r \in BookingRow, booking' = [booking EXCEPT ![b] = r],
         UNCHANGED <<person, bill, crossed, unpriced, desk, caseOffer, caseFaults>>,
         \A g \in CaseRequests : task'[g].op \in TaskOps \cup {"idle"}
  PROVE  CaseTypeOK'
<1>1. booking' \in [Bookings -> BookingRow]
  BY DEF CaseOK, CaseTypeOK, BookingRow
<1> QED
  BY <1>1 DEF CaseOK, CaseTypeOK, desk, BookingRow

\* The price of a draft is changed, or its last word is said.
LEMMA SaveUpdateKeeps ==
  ASSUME CaseOK, NEW h \in CaseRequests, SaveUpdate(h)
  PROVE  CaseOK'
<1>1. PICK t, b : t = task[h] /\ b = t.of
  OBVIOUS
<1>2. t \in Working /\ t.op = "update" /\ TaskOK(t)
  BY <1>1, CodingFields DEF SaveUpdate, At, CaseOK, TaskOK, Idle, Coders
<1>3. b \in Bookings /\ t.express \in BOOLEAN /\ t.total \in Amounts
  BY <1>1, <1>2 DEF Working
<1>4. /\ booking' = [booking EXCEPT ![b] = [@ EXCEPT !.express = t.express, !.total = t.total]]
      /\ task' = [task EXCEPT ![h] = Idle] /\ UNCHANGED <<person, bill, crossed, unpriced, desk, caseOffer, caseFaults>>
  BY <1>1 DEF SaveUpdate, Finish, Turn
<1>5. /\ booking'[b].stage = booking[b].stage /\ booking'[b].code = booking[b].code
      /\ \A a \in Bookings : a # b => booking'[a] = booking[a]
  BY <1>3, <1>4 DEF CaseOK, CaseTypeOK
<1>6. /\ DOMAIN task' = CaseRequests /\ task'[h] = Idle /\ \A g \in CaseRequests : g # h => task'[g] = task[g]
  BY <1>4 DEF CaseOK
<1>7. \A op \in Coders : CodesIn(op)' = CodesIn(op)
  BY <1>4, <1>5, CodesStay
<1>8. CaseTypeOK'
  <2>1. \A g \in CaseRequests : task'[g].op \in TaskOps \cup {"idle"}
    BY <1>6, IdleFits DEF CaseOK, CaseTypeOK
  <2>2. PICK r : r = [booking[b] EXCEPT !.express = t.express, !.total = t.total]
    OBVIOUS
  <2>3. r \in BookingRow
    <3>1. booking[b] \in BookingRow
      BY <1>3 DEF CaseOK, CaseTypeOK, BookingRow
    <3> QED
      BY <1>3, <2>2, <3>1 DEF BookingRow
  <2>4. booking' = [booking EXCEPT ![b] = r]
    BY <1>4, <2>2
  <2> QED
    BY <1>3, <1>4, <2>1, <2>3, <2>4, BookingTyped
<1>9. ~Final(b)
  BY <1>1, <1>2, <1>3 DEF CaseOK, FinalPrices, Pricers
<1>10. \A a \in Bookings : /\ LivePersons(a)' = LivePersons(a) /\ (Payable(a)' <=> Payable(a))
                           /\ booking'[a].stage = booking[a].stage
  BY <1>4, <1>5 DEF LivePersons, Payable
<1>11. Forward
  BY <1>4, <1>5, <1>9, <1>10 DEF Forward, Keeps, In
<1>12. RightAmounts'
  <2>1. In(b, "unpaid") => b \in crossed
    BY <1>9 DEF Final
  <2> QED
    BY <1>4, <1>5, <1>10, <2>1 DEF CaseOK, RightAmounts, Fits, In
<1>13. \A a \in Bookings : Final(a)' => Final(a)
  BY <1>4, <1>6, <1>10, IdleFits DEF Final, In
<1>14. \A g \in CaseRequests : task[g].op = "create" => booking'[task[g].of].stage = "none"
  <2>1. \A g \in CaseRequests : task[g].op = "create" => In(task[g].of, "none") /\ task[g].of \in Bookings
    BY CodingFields, WorkingFields DEF CaseOK, TaskOK, Idle
  <2> QED
    BY <1>10, <2>1 DEF In
<1>15. \A g \in CaseRequests : g # h => Hears(task[g], task'[g])
  BY <1>6, <1>7 DEF Hears
<1>16. TaskOK(Idle)' /\ CodesBounded'
  BY <1>7, CodingFields DEF TaskOK, Idle, Raced, CaseOK, CodesBounded
<1> QED
  BY <1>6, <1>8, <1>11, <1>12, <1>13, <1>14, <1>15, <1>16, IdleFits, CaseGoes DEF Pricers

LEMMA RepriceKeeps ==
  ASSUME CaseOK, NEW h \in CaseRequests, Reprice(h)
  PROVE  CaseOK'
<1>1. PICK t, b : t = task[h] /\ b = t.of
  OBVIOUS
<1>2. t \in Working /\ t.at = "reprice" /\ TaskOK(t)
  BY <1>1, CodingFields DEF Reprice, CaseOK, TaskOK
<1>3. b \in Bookings /\ t.total \in Amounts /\ t.op \in {"addApplicant", "deleteApplicant", "submit"}
  BY <1>1, <1>2 DEF Working
<1>4. PICK c : c = IF t.op = "submit" THEN [t EXCEPT !.at = "submit"] ELSE Idle
  OBVIOUS
<1>5. /\ booking' = [booking EXCEPT ![b].total = t.total]
      /\ task' = [task EXCEPT ![h] = c] /\ UNCHANGED <<person, bill, crossed, unpriced, desk, caseOffer, caseFaults>>
  BY <1>1, <1>4 DEF Reprice, Turn
<1>6. /\ booking'[b].stage = booking[b].stage /\ booking'[b].code = booking[b].code
      /\ booking'[b].total = t.total /\ booking'[b].express = booking[b].express
      /\ \A a \in Bookings : a # b => booking'[a] = booking[a]
  BY <1>3, <1>5 DEF CaseOK, CaseTypeOK
<1>7. /\ DOMAIN task' = CaseRequests /\ task'[h] = c /\ \A g \in CaseRequests : g # h => task'[g] = task[g]
  BY <1>5 DEF CaseOK
<1>8. \A op \in Coders : CodesIn(op)' = CodesIn(op)
  BY <1>5, <1>6, CodesStay
<1>9. c = Idle \/ (c \in Working /\ c.op = "submit" /\ c.of = b /\ c.at = "submit" /\ t.op = "submit")
  <2>1. t \in [op : {"addApplicant", "deleteApplicant", "submit"}, at : {"reprice", "submit"}, of : Bookings, total : Amounts]
    BY <1>2 DEF Working
  <2>2. c = Idle \/ /\ c \in [op : {"addApplicant", "deleteApplicant", "submit"}, at : {"reprice", "submit"},
                              of : Bookings, total : Amounts]
                    /\ c.op = "submit" /\ c.of = b /\ c.at = "submit" /\ t.op = "submit"
    BY <1>1, <1>4, <2>1
  <2> QED
    BY <2>2 DEF Working
<1>10. CaseTypeOK'
  <2>1. \A g \in CaseRequests : task'[g].op \in TaskOps \cup {"idle"}
    BY <1>7, <1>9, IdleFits DEF CaseOK, CaseTypeOK, TaskOps
  <2>2. PICK r : r = [booking[b] EXCEPT !.total = t.total]
    OBVIOUS
  <2>3. r \in BookingRow
    <3>1. booking[b] \in BookingRow
      BY <1>3 DEF CaseOK, CaseTypeOK, BookingRow
    <3> QED
      BY <1>3, <2>2, <3>1 DEF BookingRow
  <2>4. booking' = [booking EXCEPT ![b] = r]
    BY <1>5, <2>2
  <2> QED
    BY <1>3, <1>5, <2>1, <2>3, <2>4, BookingTyped
<1>11. \A a \in Bookings : /\ LivePersons(a)' = LivePersons(a) /\ (Payable(a)' <=> Payable(a))
                           /\ booking'[a].stage = booking[a].stage /\ booking'[a].express = booking[a].express
  BY <1>5, <1>6 DEF LivePersons, Payable
<1>12. Final(b) => Fits(b, t.total)
  <2>1. CASE t.op = "submit"
    BY <1>1, <1>2, <2>1 DEF TaskOK, Final
  <2>2. CASE t.op # "submit"
    BY <1>1, <1>3, <2>2 DEF CaseOK, FinalPrices, Pricers
  <2> QED
    BY <2>1, <2>2
<1>13. Forward
  BY <1>5, <1>6, <1>11, <1>12 DEF Forward, Keeps, In
<1>14. RightAmounts'
  BY <1>5, <1>6, <1>11, <1>12 DEF CaseOK, RightAmounts, Fits, In, Final
<1>15. \A a \in Bookings : Final(a)' => Final(a)
  BY <1>1, <1>5, <1>7, <1>9, <1>11, IdleFits DEF Final, In
<1>16. \A g \in CaseRequests : task[g].op = "create" => booking'[task[g].of].stage = "none"
  <2>1. \A g \in CaseRequests : task[g].op = "create" => In(task[g].of, "none") /\ task[g].of \in Bookings
    BY CodingFields, WorkingFields DEF CaseOK, TaskOK, Idle
  <2> QED
    BY <1>11, <2>1 DEF In
<1>17. \A g \in CaseRequests : g # h => Hears(task[g], task'[g])
  BY <1>7, <1>8 DEF Hears
<1>18. CodesBounded'
  BY <1>8 DEF CaseOK, CodesBounded
<1>19. TaskOK(c)'
  <2>1. CASE c = Idle
    BY <2>1, CodingFields DEF TaskOK, Idle, Raced
  <2>2. CASE c # Idle
    <3>1. c \in Working /\ c \notin Coding /\ c.op = "submit" /\ c.of = b /\ c.at = "submit" /\ t.op = "submit"
      BY <1>9, <2>2, WorkingFields
    <3>2. ~In(b, "none")' /\ (b \notin crossed' => Fits(b, t.total)')
      BY <1>1, <1>2, <1>3, <1>5, <1>6, <1>11, <1>12, <3>1 DEF TaskOK, In, Final, Fits
    <3> QED
      BY <1>6, <3>1, <3>2 DEF TaskOK, Raced
  <2> QED
    BY <2>1, <2>2
<1>20. c.op # "create" /\ c.op \notin Pricers
  BY <1>9, IdleFits DEF Pricers
<1> QED
  BY <1>7, <1>10, <1>13, <1>14, <1>15, <1>16, <1>17, <1>18, <1>19, <1>20, CaseGoes

LEMMA SubmitKeeps ==
  ASSUME CaseOK, NEW h \in CaseRequests, Submit(h)
  PROVE  CaseOK'
<1>1. PICK t, b : t = task[h] /\ b = t.of
  OBVIOUS
<1>2. t \in Working /\ t.op = "submit" /\ t.at = "submit" /\ TaskOK(t) /\ b \in Bookings
  BY <1>1, CodingFields, WorkingFields DEF Submit, At, CaseOK, TaskOK, Idle, Coders
<1>3. /\ booking' = [booking EXCEPT ![b].stage = "unpaid"]
      /\ task' = [task EXCEPT ![h] = Idle] /\ UNCHANGED <<person, bill, crossed, unpriced, desk, caseOffer, caseFaults>>
  BY <1>1 DEF Submit, Finish, Turn
<1>4. /\ booking'[b].stage = "unpaid" /\ booking'[b].code = booking[b].code
      /\ booking'[b].total = booking[b].total /\ booking'[b].express = booking[b].express
      /\ \A a \in Bookings : a # b => booking'[a] = booking[a]
  BY <1>2, <1>3 DEF CaseOK, CaseTypeOK
<1>5. /\ DOMAIN task' = CaseRequests /\ task'[h] = Idle /\ \A g \in CaseRequests : g # h => task'[g] = task[g]
  BY <1>3 DEF CaseOK
<1>6. ~In(b, "none") /\ (b \notin crossed => Final(b) /\ (b \notin unpriced => Fits(b, booking[b].total)))
  BY <1>1, <1>2 DEF TaskOK, Final
<1>7. \A op \in Coders : CodesIn(op)' = CodesIn(op)
  BY <1>3, <1>4, <1>6, CodesStay DEF In
<1>8. CaseTypeOK'
  <2>1. \A g \in CaseRequests : task'[g].op \in TaskOps \cup {"idle"}
    BY <1>5, IdleFits DEF CaseOK, CaseTypeOK
  <2>2. PICK r : r = [booking[b] EXCEPT !.stage = "unpaid"]
    OBVIOUS
  <2>3. r \in BookingRow
    <3>1. booking[b] \in BookingRow
      BY <1>2 DEF CaseOK, CaseTypeOK, BookingRow
    <3> QED
      BY <2>2, <3>1 DEF BookingRow
  <2>4. booking' = [booking EXCEPT ![b] = r]
    BY <1>3, <2>2
  <2> QED
    BY <1>2, <1>3, <2>1, <2>3, <2>4, BookingTyped
<1>9. \A a \in Bookings : LivePersons(a)' = LivePersons(a) /\ (Payable(a)' <=> Payable(a))
                          /\ booking'[a].express = booking[a].express /\ booking'[a].total = booking[a].total
  BY <1>3, <1>4 DEF LivePersons, Payable
<1>10. Forward
  BY <1>3, <1>4, <1>9 DEF Forward, Keeps, In
<1>11. RightAmounts'
  BY <1>3, <1>4, <1>6, <1>9 DEF CaseOK, RightAmounts, Fits, In
<1>12. \A a \in Bookings : Final(a)' => Final(a)
  BY <1>3, <1>4, <1>5, <1>6, IdleFits DEF Final, In
<1>13. \A g \in CaseRequests : task[g].op = "create" => booking'[task[g].of].stage = "none"
  <2>1. \A g \in CaseRequests : task[g].op = "create" => In(task[g].of, "none") /\ task[g].of \in Bookings
    BY CodingFields, WorkingFields DEF CaseOK, TaskOK, Idle
  <2> QED
    BY <1>4, <1>6, <2>1 DEF In
<1>14. \A g \in CaseRequests : g # h => Hears(task[g], task'[g])
  BY <1>5, <1>7 DEF Hears
<1>15. TaskOK(Idle)' /\ CodesBounded'
  BY <1>7, CodingFields DEF TaskOK, Idle, Raced, CaseOK, CodesBounded
<1> QED
  BY <1>5, <1>8, <1>10, <1>11, <1>12, <1>13, <1>14, <1>15, IdleFits, CaseGoes DEF Pricers


PersonRow == [of : SUBSET Bookings, code : Nat, main : BOOLEAN, gone : BOOLEAN]

LEMMA PersonTyped ==
  ASSUME CaseOK, NEW p \in Persons, NEW r \in PersonRow, person' = [person EXCEPT ![p] = r],
         UNCHANGED <<booking, bill, crossed, unpriced, desk, caseOffer, caseFaults>>,
         \A g \in CaseRequests : task'[g].op \in TaskOps \cup {"idle"}
  PROVE  CaseTypeOK'
<1>1. person' \in [Persons -> PersonRow]
  BY DEF CaseOK, CaseTypeOK, PersonRow
<1> QED
  BY <1>1 DEF CaseOK, CaseTypeOK, desk, PersonRow

\* Who is on a final application stays the same, and everything but the people does.
LEMMA PersonGoes ==
  ASSUME CaseOK, CaseTypeOK', CodesBounded', UNCHANGED <<booking, bill, crossed, unpriced>>, NEW h \in CaseRequests, NEW c,
         DOMAIN task' = CaseRequests, task'[h] = c, TaskOK(c)',
         \A g \in CaseRequests : g # h => Hears(task[g], task'[g]),
         \A p \in Persons : person[p].of # {} => person'[p].of = person[p].of,
         \A b \in Bookings : Final(b) => LivePersons(b)' = LivePersons(b),
         c = Idle \/ (c.op \in Pricers /\ task[h].op \in Pricers /\ task[h].of = c.of)
  PROVE  CaseOK'
<1>1. \A g \in CaseRequests : task[g] = Idle \/ task[g] \in Coding \/ task[g] \in Working
  BY DEF CaseOK, TaskOK
<1>2. \A g \in CaseRequests : g # h => task'[g].op = task[g].op /\ task'[g].of = task[g].of
  BY <1>1, HeardIsSame
<1>3. c.op \notin {"submit", "create"}
  BY IdleFits DEF Pricers
<1>4. \A b \in Bookings : Final(b)' => Final(b)
  BY <1>2, <1>3 DEF Final, In
<1>5. Forward
  BY DEF Forward, Keeps, In
<1>6. RightAmounts'
  BY DEF CaseOK, RightAmounts, Fits, In, Payable, Final
<1>7. \A g \in CaseRequests : task[g].op = "create" => booking'[task[g].of].stage = "none"
  BY DEF CaseOK, TaskOK, In
<1>8. c.op \in Pricers => task[h].op \in Pricers /\ task[h].of = c.of
  BY IdleFits DEF Pricers
<1> QED
  BY <1>3, <1>4, <1>5, <1>6, <1>7, <1>8, CaseGoes

\* No codes but those of S are new.
LEMMA PersonCodes ==
  ASSUME UNCHANGED <<booking, bill>>, NEW S,
         \A p \in Persons : person'[p].of # {} =>
           \/ person[p].of # {} /\ person'[p].code = person[p].code
           \/ person'[p].code \in S
  PROVE  /\ CodesIn("create")' = CodesIn("create") /\ CodesIn("pay")' = CodesIn("pay")
         /\ CodesIn("addApplicant")' \subseteq CodesIn("addApplicant") \cup S
<1>1. CodesIn("create")' = CodesIn("create") /\ CodesIn("pay")' = CodesIn("pay")
  BY SameBookings, SameBills
<1>2. CodesIn("addApplicant")' \subseteq CodesIn("addApplicant") \cup S
  <2>1. SUFFICES ASSUME NEW p \in Persons, person'[p].of # {}
                 PROVE  person'[p].code \in CodesIn("addApplicant") \cup S
    BY CodesNext
  <2>2. person[p].of # {} => person[p].code \in CodesIn("addApplicant")
    BY CodesFit
  <2> QED
    BY <2>1, <2>2
<1> QED
  BY <1>1, <1>2

LEMMA InsertApplicantKeeps ==
  ASSUME CaseOK, NEW h \in CaseRequests, InsertApplicant(h)
  PROVE  CaseOK'
<1>1. PICK t, b, c : t = task[h] /\ b = t.of /\ c = [op |-> "addApplicant", at |-> "recalculate", of |-> b]
  OBVIOUS
<1>2. t \in Coding /\ t.op = "addApplicant" /\ TaskOK(t)
  BY <1>1, AtCoding DEF InsertApplicant, Inserted, Coders
<1>3. b \in Bookings /\ t.code \in Nat /\ t.main \in BOOLEAN
  BY <1>1, <1>2, CodingFields
<1>4. PICK p \in Persons :
        /\ person[p].of = {} /\ person' = [person EXCEPT ![p] = [of |-> {b}, code |-> t.code, main |-> t.main, gone |-> FALSE]]
        /\ Inserted(h, "addApplicant", c) /\ UNCHANGED <<booking, bill, crossed, unpriced, desk, caseOffer, caseFaults>>
  BY <1>1 DEF InsertApplicant, Inserted
<1>5. PICK r : r = [of |-> {b}, code |-> t.code, main |-> t.main, gone |-> FALSE]
  OBVIOUS
<1>6. r \in PersonRow /\ r.of = {b} /\ r.code = t.code
  BY <1>3, <1>5 DEF PersonRow
<1>7. person' = [person EXCEPT ![p] = r] /\ person'[p] = r /\ \A q \in Persons : q # p => person'[q] = person[q]
  BY <1>4, <1>5 DEF CaseOK, CaseTypeOK
<1>8. /\ CodesIn("create")' = CodesIn("create") /\ CodesIn("pay")' = CodesIn("pay")
      /\ CodesIn("addApplicant")' \subseteq CodesIn("addApplicant") \cup {t.code}
  BY <1>4, <1>6, <1>7, PersonCodes
<1>9. /\ DOMAIN task' = CaseRequests /\ task'[h] = c /\ CodesBounded'
      /\ \A g \in CaseRequests : g # h => Hears(task[g], task'[g])
  BY <1>1, <1>4, <1>8, InsertHeard DEF Coders
<1>10. c \in Working /\ c.op = "addApplicant" /\ c.of = b /\ c.at = "recalculate"
  BY <1>1, <1>3 DEF Working
<1>11. CaseTypeOK'
  <2>1. task'[h].op \in TaskOps \cup {"idle"}
    BY <1>9, <1>10 DEF TaskOps
  <2>2. \A g \in CaseRequests : task'[g].op \in TaskOps \cup {"idle"}
    BY <1>9, <2>1, OpsStay
  <2>3. UNCHANGED <<booking, bill, crossed, unpriced, desk, caseOffer, caseFaults>>
    BY <1>4
  <2> QED
    BY <1>6, <1>7, <2>2, <2>3, PersonTyped
<1>12. TaskOK(c)'
  BY <1>1, <1>2, <1>4, <1>10, WorkingFields DEF TaskOK, Raced, In
<1>13. ~Final(b)
  BY <1>1, <1>2, <1>3 DEF CaseOK, FinalPrices, Pricers
<1>14. \A a \in Bookings : a # b => LivePersons(a)' = LivePersons(a)
  BY <1>4, <1>6, <1>7 DEF LivePersons
<1> QED
  BY <1>1, <1>2, <1>4, <1>7, <1>9, <1>10, <1>11, <1>12, <1>13, <1>14, PersonGoes DEF Pricers

LEMMA SaveApplicantKeeps ==
  ASSUME CaseOK, NEW h \in CaseRequests, SaveApplicant(h) \/ RemoveApplicant(h)
  PROVE  CaseOK'
<1>1. PICK t, b, p : t = task[h] /\ b = t.of /\ p = t.person
  OBVIOUS
<1>2. t \in Working /\ t.at = "save" /\ t.op \in {"updateApplicant", "deleteApplicant"} /\ TaskOK(t)
  BY <1>1, CodingFields DEF SaveApplicant, RemoveApplicant, At, CaseOK, TaskOK, Idle, Coders
<1>3. b \in Bookings /\ p \in Persons
  BY <1>1, <1>2 DEF Working
<1>4. person[p] \in PersonRow
  BY <1>3 DEF CaseOK, CaseTypeOK, PersonRow
<1>5. \A r \in PersonRow : person' = [person EXCEPT ![p] = r] =>
        person'[p] = r /\ \A q \in Persons : q # p => person'[q] = person[q]
  BY <1>3 DEF CaseOK, CaseTypeOK
<1>6. UNCHANGED <<booking, bill, crossed, unpriced, desk, caseOffer, caseFaults>>
  BY DEF SaveApplicant, RemoveApplicant, Finish, Turn
<1>7. CASE SaveApplicant(h)
  <2>1. PICK r : r = [person[p] EXCEPT !.main = t.main]
    OBVIOUS
  <2>2. t.main \in BOOLEAN
    BY <1>1, <1>2, <1>7 DEF SaveApplicant, At, Working
  <2>3. r \in PersonRow /\ r.of = person[p].of /\ r.code = person[p].code /\ r.gone = person[p].gone
    BY <1>4, <2>1, <2>2 DEF PersonRow
  <2>4. person' = [person EXCEPT ![p] = r] /\ task' = [task EXCEPT ![h] = Idle]
    BY <1>1, <1>7, <2>1 DEF SaveApplicant, Finish, Turn
  <2>5. /\ DOMAIN task' = CaseRequests /\ task'[h] = Idle /\ \A g \in CaseRequests : g # h => task'[g] = task[g]
    BY <2>4 DEF CaseOK
  <2>6. \A q \in Persons : person'[q].of = person[q].of /\ person'[q].code = person[q].code /\ person'[q].gone = person[q].gone
    BY <1>5, <2>3, <2>4
  <2>7. \A op \in Coders : CodesIn(op)' \subseteq CodesIn(op)
    <3>1. \A q \in Persons : person'[q].of # {} => person[q].of # {} /\ person'[q].code = person[q].code
      BY <2>6
    <3>2. PICK S : S = {}
      OBVIOUS
    <3> QED
      BY <1>6, <3>1, <3>2, PersonCodes DEF Coders
  <2>8. \A a : LivePersons(a)' = LivePersons(a)
    BY <2>6 DEF LivePersons
  <2>9. CaseTypeOK'
    <3>1. \A g \in CaseRequests : task'[g].op \in TaskOps \cup {"idle"}
      BY <2>5, IdleFits DEF CaseOK, CaseTypeOK
    <3> QED
      BY <1>3, <1>6, <2>3, <2>4, <3>1, PersonTyped
  <2>10. TaskOK(Idle)' /\ CodesBounded'
    BY <2>7, CodingFields DEF TaskOK, Idle, Raced, CaseOK, CodesBounded
  <2>11. \A g \in CaseRequests : g # h => Hears(task[g], task'[g])
    BY <2>5, <2>7 DEF Hears
  <2> QED
    BY <1>6, <2>5, <2>6, <2>8, <2>9, <2>10, <2>11, PersonGoes
<1>8. CASE RemoveApplicant(h)
  <2>1. PICK r, c : r = [person[p] EXCEPT !.gone = TRUE] /\ c = [t EXCEPT !.at = "recalculate"]
    OBVIOUS
  <2>2. r \in PersonRow /\ r.of = person[p].of /\ r.code = person[p].code
    BY <1>4, <2>1 DEF PersonRow
  <2>3. person' = [person EXCEPT ![p] = r] /\ task' = [task EXCEPT ![h] = c]
    BY <1>1, <1>8, <2>1 DEF RemoveApplicant, Turn
  <2>4. t.op = "deleteApplicant" /\ person[p].of = {b}
    BY <1>1, <1>2, <1>8 DEF RemoveApplicant, At, TaskOK
  <2>5. /\ DOMAIN task' = CaseRequests /\ task'[h] = c /\ \A g \in CaseRequests : g # h => task'[g] = task[g]
    BY <2>3 DEF CaseOK
  <2>6. \A q \in Persons : person'[q].of = person[q].of /\ person'[q].code = person[q].code
    BY <1>5, <2>2, <2>3
  <2>7. \A op \in Coders : CodesIn(op)' \subseteq CodesIn(op)
    <3>1. \A q \in Persons : person'[q].of # {} => person[q].of # {} /\ person'[q].code = person[q].code
      BY <2>6
    <3>2. PICK S : S = {}
      OBVIOUS
    <3> QED
      BY <1>6, <3>1, <3>2, PersonCodes DEF Coders
  <2>8. c \in Working /\ c.op = "deleteApplicant" /\ c.of = b /\ c.at = "recalculate"
    <3>1. t \in [op : {"deleteApplicant"}, at : {"save", "recalculate"}, of : Bookings, person : Persons]
      BY <1>2, <2>4 DEF Working
    <3>2. c \in [op : {"deleteApplicant"}, at : {"save", "recalculate"}, of : Bookings, person : Persons]
          /\ c.at = "recalculate" /\ c.of = b
      BY <1>1, <2>1, <3>1
    <3> QED
      BY <3>2 DEF Working
  <2>9. CaseTypeOK'
    <3>1. \A g \in CaseRequests : task'[g].op \in TaskOps \cup {"idle"}
      BY <2>5, <2>8 DEF CaseOK, CaseTypeOK, TaskOps
    <3> QED
      BY <1>3, <1>6, <2>2, <2>3, <3>1, PersonTyped
  <2>10. ~Final(b)
    BY <1>1, <1>3, <2>4 DEF CaseOK, FinalPrices, Pricers
  <2>11. \A a \in Bookings : a # b => LivePersons(a)' = LivePersons(a)
    BY <1>5, <2>2, <2>3, <2>4 DEF LivePersons
  <2>12. TaskOK(c)'
    BY <1>1, <1>2, <1>6, <2>4, <2>8, WorkingFields DEF TaskOK, Raced, In
  <2>13. CodesBounded'
    BY <2>7 DEF CaseOK, CodesBounded
  <2>14. \A g \in CaseRequests : g # h => Hears(task[g], task'[g])
    BY <2>5, <2>7 DEF Hears
  <2>15. \A a \in Bookings : Final(a) => LivePersons(a)' = LivePersons(a)
    BY <2>10, <2>11
  <2>16. c.op \in Pricers /\ task[h].op \in Pricers /\ task[h].of = c.of
    BY <1>1, <2>4, <2>8 DEF Pricers
  <2> QED
    BY <1>6, <2>5, <2>6, <2>9, <2>12, <2>13, <2>14, <2>15, <2>16, PersonGoes
<1> QED
  BY <1>7, <1>8


LEMMA InsertPaymentKeeps ==
  ASSUME CaseOK, NEW h \in CaseRequests, InsertPayment(h)
  PROVE  CaseOK'
<1>1. PICK t, b : t = task[h] /\ b = t.of
  OBVIOUS
<1>2. t \in Coding /\ t.op = "pay" /\ TaskOK(t)
  BY <1>1, AtCoding DEF InsertPayment, Inserted, Coders
<1>3. b \in Bookings /\ t.code \in Nat /\ t.total \in Amounts
  BY <1>1, <1>2, CodingFields
<1>4. PICK r : r = [state |-> "open", amount |-> t.total, codes |-> bill[b].codes \cup {t.code}]
  OBVIOUS
<1>5. /\ Inserted(h, "pay", Idle) /\ UNCHANGED <<booking, person, crossed, unpriced, desk, caseOffer, caseFaults>>
      /\ bill' = [bill EXCEPT ![b] = r]
  BY <1>1, <1>4 DEF InsertPayment, Inserted
<1>6. /\ bill'[b].state = "open" /\ bill'[b].amount = t.total /\ bill'[b].codes = bill[b].codes \cup {t.code}
      /\ \A a \in Bookings : a # b => bill'[a] = bill[a]
  BY <1>3, <1>4, <1>5 DEF CaseOK, CaseTypeOK
<1>7. /\ CodesIn("create")' = CodesIn("create") /\ CodesIn("addApplicant")' = CodesIn("addApplicant")
      /\ CodesIn("pay")' \subseteq CodesIn("pay") \cup {t.code}
  <2>1. CodesIn("create")' = CodesIn("create") /\ CodesIn("addApplicant")' = CodesIn("addApplicant")
    BY <1>5, SameBookings, SamePersons
  <2>2. ASSUME NEW a \in Bookings
        PROVE  bill'[a].codes \subseteq CodesIn("pay") \cup {t.code}
    <3>1. bill[a].codes \subseteq CodesIn("pay")
      BY CodesFit
    <3> QED
      BY <1>6, <3>1
  <2>3. CodesIn("pay")' \subseteq CodesIn("pay") \cup {t.code}
    BY <2>2, CodesNext
  <2> QED
    BY <2>1, <2>3
<1>8. /\ DOMAIN task' = CaseRequests /\ task'[h] = Idle /\ CodesBounded'
      /\ \A g \in CaseRequests : g # h => Hears(task[g], task'[g])
  BY <1>1, <1>5, <1>7, InsertHeard DEF Coders
<1>9. /\ \A g \in CaseRequests : task'[g].op \in TaskOps \cup {"idle"}
      /\ \A g \in CaseRequests : g # h => task'[g].op = task[g].op /\ task'[g].of = task[g].of
  BY <1>8, OpsStay, IdleFits
<1>10. CaseTypeOK'
  <2>1. r \in [state : {"none", "open", "closed"}, amount : Amounts, codes : SUBSET Nat]
    BY <1>3, <1>4, CaseFields DEF CaseOK
  <2>2. bill' \in [Bookings -> [state : {"none", "open", "closed"}, amount : Amounts, codes : SUBSET Nat]]
    BY <1>5, <2>1 DEF CaseOK, CaseTypeOK
  <2> QED
    BY <1>5, <1>9, <2>2 DEF CaseOK, CaseTypeOK, desk
<1>11. \A a : LivePersons(a)' = LivePersons(a)
  BY <1>5 DEF LivePersons
<1>12. Forward
  BY <1>5, <1>11 DEF Forward, Keeps, In
<1>13. RightAmounts'
  <2>1. In(b, "unpaid") /\ (b \notin crossed => Fits(b, t.total))
    BY <1>1, <1>2 DEF TaskOK
  <2> QED
    BY <1>5, <1>6, <1>11, <2>1 DEF CaseOK, RightAmounts, Payable, Fits, In
<1>14. \A a \in Bookings : Final(a)' => Final(a)
  BY <1>5, <1>8, <1>9, IdleFits DEF Final, In
<1>15. \A g \in CaseRequests : task[g].op = "create" => booking'[task[g].of].stage = "none"
  BY <1>5 DEF CaseOK, TaskOK, In
<1>16. TaskOK(Idle)'
  BY CodingFields DEF TaskOK, Idle, Raced
<1> QED
  BY <1>8, <1>10, <1>12, <1>13, <1>14, <1>15, <1>16, IdleFits, CaseGoes DEF Pricers

\* A payment closes, or nothing happens.
LEMMA ClosingKeeps ==
  ASSUME CaseOK, UNCHANGED <<booking, person, crossed, unpriced, assigned, estimate, note, task, caseOffer, caseFaults>>,
         fees' \subseteq FeeEntries,
         (\E b \in Bookings : PaymentCloses(b)) \/ bill' = bill
  PROVE  CaseOK'
<1>1. /\ bill' \in [Bookings -> [state : {"none", "open", "closed"}, amount : Amounts, codes : SUBSET Nat]]
      /\ \A b \in Bookings : bill'[b].amount = bill[b].amount /\ bill'[b].codes = bill[b].codes
                             /\ (bill'[b].state = "open" => bill[b].state = "open")
  <2>1. CASE bill' = bill
    BY <2>1 DEF CaseOK, CaseTypeOK
  <2>2. CASE \E b \in Bookings : PaymentCloses(b)
    <3>1. PICK b \in Bookings : bill' = [bill EXCEPT ![b].state = "closed"]
      BY <2>2 DEF PaymentCloses
    <3>2. PICK r : r = [bill[b] EXCEPT !.state = "closed"]
      OBVIOUS
    <3>3. bill[b] \in [state : {"none", "open", "closed"}, amount : Amounts, codes : SUBSET Nat]
      BY DEF CaseOK, CaseTypeOK
    <3>4. /\ r \in [state : {"none", "open", "closed"}, amount : Amounts, codes : SUBSET Nat]
          /\ r.amount = bill[b].amount /\ r.codes = bill[b].codes /\ r.state = "closed"
      BY <3>2, <3>3
    <3>5. bill' = [bill EXCEPT ![b] = r]
      BY <3>1, <3>2
    <3> QED
      BY <3>4, <3>5 DEF CaseOK, CaseTypeOK
  <2> QED
    BY <2>1, <2>2
<1>2. \A op \in Coders : CodesIn(op)' = CodesIn(op)
  <2>1. CodesIn("create")' = CodesIn("create") /\ CodesIn("addApplicant")' = CodesIn("addApplicant")
    BY SameBookings, SamePersons
  <2>2. CodesIn("pay")' = CodesIn("pay")
    <3>1. PICK S, T : S = CodesIn("pay") /\ T = CodesIn("pay")'
      OBVIOUS
    <3>2. \A n : n \in S <=> \E b \in Bookings : n \in bill[b].codes
      BY <3>1, CodesFit
    <3>3. \A n : n \in T <=> \E b \in Bookings : n \in bill'[b].codes
      BY <3>1, CodesNext
    <3>4. \A n : n \in S <=> n \in T
      BY <1>1, <3>2, <3>3
    <3> QED
      BY <3>1, <3>4
  <2> QED
    BY <2>1, <2>2 DEF Coders
<1>3. /\ \A b : LivePersons(b)' = LivePersons(b)
      /\ \A b, a : (In(b, a)' <=> In(b, a)) /\ (Fits(b, a)' <=> Fits(b, a))
  BY DEF LivePersons, In, Fits
<1>4. CaseTypeOK'
  BY <1>1 DEF CaseOK, CaseTypeOK
<1>5. \A t : TaskOK(t) => TaskOK(t)'
  <2>1. \A t : Raced(t) => Raced(t)'
    BY <1>2, CodingFields DEF Raced
  <2> QED
    BY <1>3, <2>1 DEF TaskOK
<1>6. ASSUME NEW g \in CaseRequests
      PROVE  TaskOK(task[g])'
  <2>1. PICK t : t = task[g]
    OBVIOUS
  <2>2. TaskOK(t)'
    BY <1>5, <2>1 DEF CaseOK
  <2> QED
    BY <2>1, <2>2
<1>7. FinalPrices' /\ OneCreation'
  BY <1>3 DEF CaseOK, FinalPrices, OneCreation, Final
<1>8. RightAmounts'
  BY <1>1, <1>3 DEF CaseOK, RightAmounts, Payable
<1>9. CodesBounded'
  BY <1>2 DEF CaseOK, CodesBounded
<1> QED
  BY <1>4, <1>6, <1>7, <1>8, <1>9 DEF CaseOK

LEMMA CasesStart == CaseInit => CaseOK
<1> SUFFICES ASSUME CaseInit
             PROVE  CaseOK
  OBVIOUS
<1>1. NoAmount \in Amounts
  BY CaseworkAssumption DEF NoAmount, ComputeFeeTotals, Amounts
<1>2. PICK n \in Nat : n = Cardinality(Swept)
  BY CaseworkAssumption, FS_Subset, FS_CardinalityType
<1>3. PICK code \in [Swept -> 1 .. n] :
        booking = [b \in Bookings |->
            [stage |-> IF b \in Swept THEN "gone" ELSE "none",
             code |-> IF b \in Swept THEN code[b] ELSE 0,
             entry |-> AnyEntry, express |-> FALSE, total |-> NoAmount]]
  BY <1>2 DEF CaseInit
<1>4. \A b \in Bookings : (booking[b].stage = "none" \/ booking[b].stage = "gone") /\ booking[b].code \in 0 .. n
  BY <1>2, <1>3
<1>5. booking \in [Bookings -> BookingRow]
  BY <1>1, <1>2, <1>3 DEF BookingRow
<1>6. /\ person = [p \in Persons |-> [of |-> {}, code |-> 0, main |-> FALSE, gone |-> FALSE]]
      /\ bill = [b \in Bookings |-> [state |-> "none", amount |-> NoAmount, codes |-> {}]]
      /\ crossed = {} /\ unpriced = {} /\ fees = FeeEntries /\ task = [h \in CaseRequests |-> Idle]
  BY DEF CaseInit
<1>7. CaseTypeOK
  <2>1. person \in [Persons -> [of : SUBSET Bookings, code : Nat, main : BOOLEAN, gone : BOOLEAN]]
        /\ bill \in [Bookings -> [state : {"none", "open", "closed"}, amount : Amounts, codes : SUBSET Nat]]
    BY <1>1, <1>6
  <2>2. \A h \in CaseRequests : task[h].op \in TaskOps \cup {"idle"}
    BY <1>6, IdleFits
  <2>3. assigned \in [Bookings -> Operators \cup {Nobody}] /\ note \in [Bookings -> Operators \cup {Nobody}]
        /\ estimate \in [Bookings -> 0 .. MaxDays] /\ caseFaults \in 0 .. MaxCaseFaults /\ caseOffer \in CaseOffers
    BY CaseworkAssumption DEF CaseInit
  <2> QED
    BY <1>5, <1>6, <2>1, <2>2, <2>3 DEF CaseTypeOK, BookingRow
<1>8. CodesBounded
  <2>1. \A m \in CodesIn("create") : m \in Nat /\ m <= n
    BY <1>2, <1>4, CodesFit
  <2>2. CodesIn("addApplicant") = {} /\ CodesIn("pay") = {}
    BY <1>6, CodesFit
  <2> QED
    BY <2>1, <2>2 DEF CodesBounded, Coders
<1>9. \A h \in CaseRequests : task[h] = Idle
  BY <1>6
<1>10. RightAmounts /\ FinalPrices /\ OneCreation
  BY <1>4, <1>6, <1>9, IdleFits DEF RightAmounts, FinalPrices, OneCreation, Payable, In, Pricers, Final
<1> QED
  BY <1>6, <1>7, <1>8, <1>9, <1>10, IdleFits DEF CaseOK

LEMMA CaseIsInductive == CaseOK /\ [CaseNext]_caseVars => CaseOK'
<1> SUFFICES ASSUME CaseOK, [CaseNext]_caseVars
             PROVE  CaseOK'
  OBVIOUS
<1>1. ASSUME NEW h \in CaseRequests, CustomerStep(h)
      PROVE  CaseOK'
  <2>1. ASSUME NEW op \in Coders, Scan(h, op) \/ Refused(h, op)
        PROVE  CaseOK'
    BY <2>1, ScanKeeps, RefusedKeeps
  <2>2. ASSUME ScanCodes(h) \/ ScanReferences(h) \/ CodeTaken(h) \/ ReferenceTaken(h)
        PROVE  CaseOK'
    BY <2>1, <2>2 DEF ScanCodes, ScanReferences, CodeTaken, ReferenceTaken, Coders
  <2> QED
    BY <1>1, <2>2, CustomerStarts, RecalculationKeeps, InsertApplicationKeeps, SaveUpdateKeeps, RepriceKeeps,
       SubmitKeeps, InsertApplicantKeeps, SaveApplicantKeeps, InsertPaymentKeeps DEF CustomerStep
<1>2. ASSUME NEW h \in CaseRequests, OperatorStep(h) \/ CaseRequestFails(h)
      PROVE  CaseOK'
  BY <1>2, OperatorStarts, OthersKeep DEF OperatorStep
<1>3. ASSUME NEW b \in Bookings, PaymentCloses(b)
      PROVE  CaseOK'
  BY <1>3, ClosingKeeps DEF PaymentCloses, desk, CaseOK, CaseTypeOK
<1>4. CASE UNCHANGED caseVars
  BY <1>4, ClosingKeeps DEF caseVars, cases, desk, CaseOK, CaseTypeOK
<1>5. ASSUME NEW e \in FeeEntries, FeeChanges(e)
      PROVE  CaseOK'
  BY <1>5, ClosingKeeps DEF FeeChanges, CaseOK, CaseTypeOK
<1> QED
  BY <1>1, <1>2, <1>3, <1>4, <1>5 DEF CaseNext

LEMMA AlwaysCaseOK == CaseSpec => []CaseOK
BY CasesStart, CaseIsInductive, PTL DEF CaseSpec

\* Applications, applicants, payments and the requests in flight always have the shape
\* the model says.
THEOREM CaseTypes == CaseSpec => []CaseTypeOK
<1>1. CaseOK => CaseTypeOK
  BY DEF CaseOK
<1> QED
  BY <1>1, AlwaysCaseOK, PTL

\* recalculateTotalFee, the guards on drafts and PaymentsService.create together: from
\* submission on the payment and the people on the application agree, for any number of
\* applications and requests and wherever these fail, unless the submission overlapped
\* with a change of the price; and so does the stored total, unless the submission found
\* no fee to compute it by.
THEOREM OneAmountHolds == CaseSpec => []OneAmount
<1>1. CaseOK => OneAmount
  BY DEF CaseOK, RightAmounts, OneAmount, Fits
<1> QED
  BY <1>1, AlwaysCaseOK, PTL

\* generateReferenceCode and its kin: a creation retries only for a code that another
\* one took since it looked, so that no row of the table, deleted ones included, can
\* use up its attempts.
THEOREM RetriesComeFromRaces == CaseSpec => []RetriesAreRaces
<1>1. ASSUME CaseOK
      PROVE  RetriesAreRaces
  <2>1. SUFFICES ASSUME NEW h \in CaseRequests, task[h] # Idle, task[h].at \in {"scan", "insert"}
                 PROVE  task[h].lost >= task[h].try - 1
    BY DEF RetriesAreRaces
  <2>2. task[h] \in Coding /\ Raced(task[h])
    BY <1>1, <2>1, WorkingFields DEF CaseOK, TaskOK
  <2> QED
    BY <2>2 DEF Raced
<1> QED
  BY <1>1, AlwaysCaseOK, PTL
=============================================================================
