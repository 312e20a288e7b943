--------------------------- MODULE CatalogueProofs ---------------------------
(* What holds of the catalogue, of the site's content and of the order of its *)
(* lists, for any rows and any number of requests in flight: first that what  *)
(* is offered can be booked and has a page, then that nothing is left behind  *)
(* in a deleted category, then that the places of a list stay distinct.       *)
EXTENDS MCCatalogue, FiniteSetTheorems, WellFoundedInduction, TLAPS

-----------------------------------------------------------------------------
(* FormTemplates and Offering: rows and requests have their types.            *)

SectionRow == [of : Templates \cup {NoTemplate}, key : SectionKeys, gone : BOOLEAN]
FieldRow == [in : Sections \cup {0}, key : FieldKeys, system : BOOLEAN, gone : BOOLEAN]

FormRows ==
  /\ template \in [Templates -> {"none", "live", "deleted"}]
  /\ boilerplate \in [Templates -> BOOLEAN]
  /\ section \in [Sections -> SectionRow]
  /\ field \in [Fields -> FieldRow]

OnSale == {"active", "inactive"}
Windows == {"before", "within", "after"}

\* What a request is about to write, by its operation.
FormsCallOK(c) ==
  /\ c.op \in {"createTemplate", "duplicateTemplate", "backfill", "createSection", "deleteTemplate"} =>
       c.template \in Templates
  /\ c.op = "createTemplate" => c.flag \in BOOLEAN
  /\ c.op = "duplicateTemplate" => c.tree \in SUBSET (SectionKeys \X SUBSET FieldKeys)
  /\ c.op \in {"createSection", "updateSection"} => c.skey \in SectionKeys
  /\ c.op \in {"updateSection", "deleteSection", "createField", "reorderFields"} => c.section \in Sections
  /\ c.op \in {"createField", "updateField"} => c.fkey \in FieldKeys
  /\ c.op \in {"updateField", "deleteField", "reorderFields"} => c.field \in Fields

SalesCallOK(c) ==
  /\ c.op \in {"createBinding", "updateBinding"} =>
       c.template \in Templates \cup {NoTemplate} /\ c.state \in OnSale /\ c.window \in Windows
  /\ c.op = "bulkUpsert" => c.template \in Templates
  /\ c.op = "createPage" => c.state \in {"hidden", "published"}
  /\ c.op = "updatePage" => c.state \in {"hidden", "published", "deleted"}
  /\ c.op \in {"createFee", "updateFee", "deleteFee"} => c.slot \in Slots
  /\ c.op \in {"createFee", "updateFee", "bulkCopy"} => c.state \in OnSale
  /\ c.op = "updateFee" => c.to \in Slots
  /\ c.op = "saveEntry" => c.entry \in Entries
  /\ c.op \in {"saveEntry", "saveVisaType"} => c.state \in {"active", "inactive", "deleted"}
  /\ c.op = "saveCountry" => c.flag \in BOOLEAN

CatCallOK(c) == FormsCallOK(c) /\ SalesCallOK(c)

CatRequestsOK ==
  /\ DOMAIN call = CatRequests /\ \A h \in CatRequests : CatCallOK(call[h])
  /\ offered \in CatOffers /\ raced \in BOOLEAN

CatOK == FormRows /\ OfferingTypeOK /\ CatRequestsOK

LEMMA NothingOK == CatCallOK(NoCall)
BY DEF CatCallOK, FormsCallOK, SalesCallOK, NoCall

LEMMA CatRequestGoes ==
  ASSUME CatRequestsOK, NEW h \in CatRequests, NEW c, CatCallOK(c), Continue(h, c)
  PROVE  CatRequestsOK'
BY DEF CatRequestsOK, Continue

LEMMA CatRequestEnds ==
  ASSUME CatRequestsOK, NEW h \in CatRequests, End(h)
  PROVE  CatRequestsOK'
BY CatRequestGoes, NothingOK DEF End

LEMMA OfferingUnchanged == OfferingTypeOK /\ UNCHANGED <<offering, catFaults>> => OfferingTypeOK'
BY DEF OfferingTypeOK, offering, destination, product, sales

LEMMA FormsUnchanged == FormRows /\ UNCHANGED forms => FormRows'
BY DEF FormRows, forms

\* A request that starts has only read.
LEMMA CatRequestBegins ==
  ASSUME CatOK, NEW h \in CatRequests, NEW c, CatCallOK(c), Begin(h, c), UNCHANGED <<forms, offering, catFaults>>
  PROVE  CatOK'
<1>1. CatRequestsOK'
  BY DEF CatOK, CatRequestsOK, Begin
<1> QED
  BY <1>1, OfferingUnchanged, FormsUnchanged DEF CatOK

\* New rows in their places.
LEMMA NewRows ==
  ASSUME NEW I, NEW R, NEW rows \in [I -> R], NEW J \in SUBSET I, NEW new \in [J -> R]
  PROVE  /\ With(new, rows) \in [I -> R]
         /\ \A i \in I : With(new, rows)[i] = IF i \in J THEN new[i] ELSE rows[i]
BY DEF With

LEMMA Onto ==
  ASSUME NEW S, NEW T, NEW f \in Bijection(S, T)
  PROVE  f \in [S -> T] /\ DOMAIN f = S /\ \A t \in T : \E s \in S : f[s] = t
BY DEF Bijection, Surjection, Injection

LEMMA FreeRows ==
  ASSUME NEW n
  PROVE  FreeSections(n) \subseteq Sections /\ FreeFields(n) \subseteq Fields
BY DEF FreeSections, FreeFields

SectionsPut(t, new, put, all) ==
  /\ DOMAIN new \subseteq Sections /\ \A s \in DOMAIN new : new[s] \in SectionKeys
  /\ DOMAIN put = DOMAIN new /\ \A s \in DOMAIN new : put[s] = NewSection(t, new[s])
  /\ all = With(put, section)

SectionsIn(t, new, all) ==
  /\ all \in [Sections -> SectionRow]
  /\ \A s \in DOMAIN new : s \in Sections /\ all[s].of = t /\ all[s].key = new[s] /\ all[s].gone = FALSE
  /\ \A s \in Sections \ DOMAIN new : all[s] = section[s]

LEMMA NewSections ==
  ASSUME FormRows, NEW t \in Templates, NEW new, NEW put, NEW all, SectionsPut(t, new, put, all)
  PROVE  SectionsIn(t, new, all)
<1> USE DEF SectionsPut, SectionsIn
<1>1. \A s \in DOMAIN new : put[s] = [of |-> t, key |-> new[s], gone |-> FALSE]
  BY DEF NewSection
<1>2. \A s \in DOMAIN new : put[s] \in SectionRow
  <2>1. ASSUME NEW s \in DOMAIN new PROVE [of |-> t, key |-> new[s], gone |-> FALSE] \in SectionRow
    BY DEF SectionRow
  <2> QED
    BY <1>1, <2>1
<1>3. section \in [Sections -> SectionRow]
  BY DEF FormRows
<1>4. all = [s \in Sections |-> IF s \in DOMAIN new THEN put[s] ELSE section[s]]
  BY <1>3 DEF With
<1> QED
  BY <1>1, <1>2, <1>3, <1>4

\* A field that is put in is there; no other field comes or goes.
LEMMA NewFields ==
  ASSUME FormRows, NEW put, DOMAIN put \subseteq Fields,
         \A f \in DOMAIN put : \E s \in Sections, k \in FieldKeys, b \in BOOLEAN : put[f] = NewField(s, k, b),
         NEW all, all = With(put, field)
  PROVE  all \in [Fields -> FieldRow] /\ \A f \in Fields : all[f].gone => all[f] = field[f]
<1>1. \A f \in DOMAIN put : put[f] \in FieldRow /\ put[f].gone = FALSE
  <2>1. ASSUME NEW f \in DOMAIN put PROVE put[f] \in FieldRow /\ put[f].gone = FALSE
    <3>1. PICK s \in Sections, k \in FieldKeys, b \in BOOLEAN : put[f] = [in |-> s, key |-> k, system |-> b, gone |-> FALSE]
      BY <2>1 DEF NewField
    <3>2. [in |-> s, key |-> k, system |-> b, gone |-> FALSE] \in FieldRow
      BY DEF FieldRow
    <3> QED
      BY <3>1, <3>2
  <2> QED
    BY <2>1
<1>2. field \in [Fields -> FieldRow]
  BY DEF FormRows
<1>3. all = [f \in Fields |-> IF f \in DOMAIN put THEN put[f] ELSE field[f]]
  BY <1>2 DEF With
<1> QED
  BY <1>1, <1>2, <1>3

FieldsKept == \A f \in Fields : field'[f].gone => field[f].gone

\* Every system field finds the section it belongs to.
LEMMA ProvisionKeeps ==
  ASSUME FormRows, NEW t \in Templates, Provision(t)
  PROVE  section' \in [Sections -> SectionRow] /\ field' \in [Fields -> FieldRow] /\ FieldsKept
<1> DEFINE lackS == {k \in {SystemHome[x] : x \in SystemKeys} : \A s \in SectionsOf(t) : section[s].key # k}
           lackF == {k \in SystemKeys : ~KeyInForm(t, k)}
<1>1. CASE UNCHANGED <<section, field>>
  BY <1>1 DEF FormRows, FieldsKept
<1>2. CASE ~UNCHANGED <<section, field>>
  <2>1. PICK new \in Bijection(FreeSections(Cardinality(lackS)), lackS),
             add \in Bijection(FreeFields(Cardinality(lackF)), lackF) :
          LET all == With([s \in DOMAIN new |-> NewSection(t, new[s])], section)
              Home(k) == CHOOSE s \in Sections :
                           all[s].of = t /\ all[s].key = SystemHome[k] /\ ~all[s].gone
          IN /\ section' = all
             /\ field' = With([f \in DOMAIN add |-> NewField(Home(add[f]), add[f], TRUE)], field)
    BY <1>2 DEF Provision
  <2>2. lackS \subseteq SectionKeys /\ lackF \subseteq SystemKeys /\ SystemKeys \subseteq FieldKeys
    BY FormsAssumption
  <2>3. PICK all : all = With([s \in DOMAIN new |-> NewSection(t, new[s])], section)
    OBVIOUS
  <2> DEFINE H(k) == CHOOSE s \in Sections : all[s].of = t /\ all[s].key = SystemHome[k] /\ ~all[s].gone
  <2>4. section' = all /\ field' = With([f \in DOMAIN add |-> NewField(H(add[f]), add[f], TRUE)], field)
    BY <2>1, <2>3
  <2> HIDE DEF lackS, lackF
  <2>5. SectionsIn(t, new, all)
    <3>1. DOMAIN new \subseteq Sections /\ \A s \in DOMAIN new : new[s] \in SectionKeys
      BY <2>2, Onto, FreeRows
    <3>2. PICK put : put = [s \in DOMAIN new |-> NewSection(t, new[s])]
      OBVIOUS
    <3>3. DOMAIN put = DOMAIN new /\ \A s \in DOMAIN new : put[s] = NewSection(t, new[s])
      BY <3>2
    <3>4. all = With(put, section)
      BY <2>3, <3>2
    <3>5. SectionsPut(t, new, put, all)
      BY <3>1, <3>3, <3>4 DEF SectionsPut
    <3> QED
      BY <3>5, NewSections
  <2>6. ASSUME NEW k \in SystemKeys PROVE H(k) \in Sections
    <3>1. SUFFICES \E s \in Sections : all[s].of = t /\ all[s].key = SystemHome[k] /\ ~all[s].gone
      OBVIOUS
    <3>2. CASE SystemHome[k] \in lackS
      <4>1. PICK s \in DOMAIN new : new[s] = SystemHome[k]
        BY <3>2, Onto
      <4>2. s \in Sections /\ all[s].of = t /\ all[s].key = SystemHome[k] /\ ~all[s].gone
        BY <2>5, <4>1 DEF SectionsIn
      <4> QED
        BY <4>2
    <3>3. CASE SystemHome[k] \notin lackS
      <4>1. PICK s \in SectionsOf(t) : section[s].key = SystemHome[k]
        BY <3>3 DEF lackS
      <4>2. s \in Sections /\ section[s].of = t /\ ~section[s].gone
        BY <4>1 DEF SectionsOf
      <4>3. s \notin DOMAIN new
        <5>1. DOMAIN new = FreeSections(Cardinality(lackS))
          BY Onto
        <5>2. section[s].of # NoTemplate
          BY <4>2, FormsAssumption
        <5> QED
          BY <5>1, <5>2 DEF FreeSections
      <4> QED
        BY <2>5, <4>1, <4>2, <4>3 DEF SectionsIn
    <3> QED
      BY <3>2, <3>3
  <2>7. \A f \in DOMAIN add : add[f] \in SystemKeys
    BY <2>2, Onto
  <2> HIDE DEF H
  <2>8. PICK put : put = [f \in DOMAIN add |-> NewField(H(add[f]), add[f], TRUE)]
    OBVIOUS
  <2>9. DOMAIN put \subseteq Fields
    BY <2>8, Onto, FreeRows
  <2>10. \A f \in DOMAIN put : \E s \in Sections, k \in FieldKeys, b \in BOOLEAN : put[f] = NewField(s, k, b)
    BY <2>2, <2>6, <2>7, <2>8
  <2>11. PICK rows : rows = With(put, field) /\ field' = rows
    BY <2>4, <2>8
  <2>12. rows \in [Fields -> FieldRow] /\ \A f \in Fields : rows[f].gone => rows[f] = field[f]
    BY <2>9, <2>10, <2>11, NewFields
  <2> QED
    BY <2>4, <2>5, <2>11, <2>12 DEF FieldsKept, SectionsIn
<1> QED
  BY <1>1, <1>2

LEMMA DuplicateKeeps ==
  ASSUME CatOK, NEW h \in CatRequests, StoreDuplicate(h)
  PROVE  FormRows' /\ FieldsKept
<1>1. call[h].op = "duplicateTemplate" /\ CatCallOK(call[h])
  BY DEF StoreDuplicate, CatOK, CatRequestsOK
<1>2. call[h].template \in Templates /\ call[h].tree \in SUBSET (SectionKeys \X SUBSET FieldKeys)
  BY <1>1 DEF CatCallOK, FormsCallOK
<1>3. FormRows
  BY DEF CatOK
<1>4. CASE UNCHANGED forms
  BY <1>3, <1>4 DEF FormRows, FieldsKept, forms
<1>5. CASE ~UNCHANGED forms
  <2> DEFINE Leaves == UNION {{<<b[1], k>> : k \in b[2]} : b \in call[h].tree}
             Heads == {b[1] : b \in call[h].tree}
  <2>1. /\ template' = [template EXCEPT ![call[h].template] = "live"] /\ UNCHANGED boilerplate
        /\ \E new \in Bijection(FreeSections(Cardinality(call[h].tree)), Heads),
              add \in Bijection(FreeFields(Cardinality(Leaves)), Leaves) :
             /\ section' = With([s \in DOMAIN new |-> NewSection(call[h].template, new[s])], section)
             /\ field' = With([f \in DOMAIN add |->
                  NewField(CHOOSE s \in DOMAIN new : new[s] = add[f][1], add[f][2], FALSE)], field)
    BY <1>1, <1>5 DEF StoreDuplicate
  <2>2. Heads \subseteq SectionKeys /\ \A x \in Leaves : x[1] \in Heads /\ x[2] \in FieldKeys
    BY <1>2
  <2> HIDE DEF Leaves, Heads
  <2>3. PICK new \in Bijection(FreeSections(Cardinality(call[h].tree)), Heads),
             add \in Bijection(FreeFields(Cardinality(Leaves)), Leaves) :
             /\ section' = With([s \in DOMAIN new |-> NewSection(call[h].template, new[s])], section)
             /\ field' = With([f \in DOMAIN add |->
                  NewField(CHOOSE s \in DOMAIN new : new[s] = add[f][1], add[f][2], FALSE)], field)
    BY <2>1
  <2>4. DOMAIN new \subseteq Sections /\ \A s \in DOMAIN new : new[s] \in SectionKeys
    BY <2>2, Onto, FreeRows
  <2>5. PICK put, all : put = [s \in DOMAIN new |-> NewSection(call[h].template, new[s])] /\ all = With(put, section)
    OBVIOUS
  <2>6. DOMAIN put = DOMAIN new /\ \A s \in DOMAIN new : put[s] = NewSection(call[h].template, new[s])
    BY <2>5
  <2>7. SectionsPut(call[h].template, new, put, all)
    BY <2>4, <2>5, <2>6 DEF SectionsPut
  <2>8. SectionsIn(call[h].template, new, all) /\ section' = all
    BY <1>2, <1>3, <2>3, <2>5, <2>7, NewSections
  <2> DEFINE home(k) == CHOOSE s \in DOMAIN new : new[s] = k
  <2>9. \A k \in Heads : home(k) \in Sections
    <3>1. ASSUME NEW k \in Heads PROVE \E s \in DOMAIN new : new[s] = k
      BY Onto
    <3> QED
      BY <2>4, <3>1
  <2>10. field' = With([f \in DOMAIN add |-> NewField(home(add[f][1]), add[f][2], FALSE)], field)
    BY <2>3
  <2> HIDE DEF home
  <2>11. PICK fill, rows : /\ fill = [f \in DOMAIN add |-> NewField(home(add[f][1]), add[f][2], FALSE)]
                           /\ rows = With(fill, field)
    OBVIOUS
  <2>12. DOMAIN add \subseteq Fields /\ \A f \in DOMAIN add : add[f] \in Leaves
    BY Onto, FreeRows
  <2>13. DOMAIN fill = DOMAIN add /\ \A f \in DOMAIN add : fill[f] = NewField(home(add[f][1]), add[f][2], FALSE)
    BY <2>11
  <2>14. \A f \in DOMAIN fill : \E s \in Sections, k \in FieldKeys, b \in BOOLEAN : fill[f] = NewField(s, k, b)
    BY <2>2, <2>9, <2>12, <2>13
  <2>15. rows \in [Fields -> FieldRow] /\ \A f \in Fields : rows[f].gone => rows[f] = field[f]
    <3>1. DOMAIN fill \subseteq Fields /\ rows = With(fill, field)
      BY <2>11, <2>12, <2>13
    <3> QED
      BY <1>3, <2>14, <3>1, NewFields
  <2>16. field' = rows
    BY <2>10, <2>11
  <2> QED
    BY <1>2, <1>3, <2>1, <2>8, <2>15, <2>16 DEF FormRows, FieldsKept, SectionsIn
<1> QED
  BY <1>4, <1>5

\* A template is stored with the system fields, or without any field.
LEMMA StoreKeeps ==
  ASSUME CatOK, NEW h \in CatRequests, StoreTemplate(h)
  PROVE  FormRows' /\ FieldsKept
<1>1. FormRows /\ call[h].op = "createTemplate" /\ call[h].template \in Templates /\ call[h].flag \in BOOLEAN
  BY DEF StoreTemplate, CatOK, CatRequestsOK, CatCallOK, FormsCallOK
<1>2. CASE UNCHANGED forms
  BY <1>1, <1>2 DEF FormRows, FieldsKept, forms
<1>3. CASE ~UNCHANGED forms
  <2>1. /\ template' = [template EXCEPT ![call[h].template] = "live"]
        /\ boilerplate' = [boilerplate EXCEPT ![call[h].template] = call[h].flag]
        /\ UNCHANGED <<section, field>> \/ Provision(call[h].template)
    BY <1>3 DEF StoreTemplate
  <2>2. section' \in [Sections -> SectionRow] /\ field' \in [Fields -> FieldRow] /\ FieldsKept
    <3>1. CASE UNCHANGED <<section, field>>
      BY <1>1, <3>1 DEF FormRows, FieldsKept
    <3>2. CASE Provision(call[h].template)
      BY <1>1, <3>2, ProvisionKeeps
    <3> QED
      BY <2>1, <3>1, <3>2
  <2> QED
    BY <1>1, <2>1, <2>2 DEF FormRows
<1> QED
  BY <1>2, <1>3

LEMMA BackfillKeeps ==
  ASSUME CatOK, NEW h \in CatRequests, Backfill(h)
  PROVE  FormRows' /\ FieldsKept
<1>1. FormRows /\ call[h].op = "backfill" /\ call[h].template \in Templates
  BY DEF Backfill, CatOK, CatRequestsOK, CatCallOK, FormsCallOK
<1>2. section' \in [Sections -> SectionRow] /\ field' \in [Fields -> FieldRow] /\ FieldsKept
  BY <1>1, ProvisionKeeps DEF Backfill
<1> QED
  BY <1>1, <1>2 DEF Backfill, FormRows

\* Of the other steps, those that write a field leave its mark alone, or set it.
LEMMA SectionKeeps ==
  ASSUME CatOK, NEW h \in CatRequests, StoreSection(h) \/ SaveSection(h)
  PROVE  FormRows' /\ FieldsKept
<1>1. FormRows /\ CatCallOK(call[h])
  BY DEF CatOK, CatRequestsOK
<1>2. CASE StoreSection(h)
  <2>1. call[h].template \in Templates /\ call[h].skey \in SectionKeys
    BY <1>1, <1>2 DEF StoreSection, CatCallOK, FormsCallOK
  <2>2. NewSection(call[h].template, call[h].skey) \in SectionRow
    BY <2>1 DEF NewSection, SectionRow
  <2> QED
    BY <1>1, <1>2, <2>2, FreeRows DEF StoreSection, FormRows, FieldsKept
<1>3. CASE SaveSection(h)
  <2>1. call[h].section \in Sections /\ call[h].skey \in SectionKeys
    BY <1>1, <1>3 DEF SaveSection, CatCallOK, FormsCallOK
  <2>2. [section[call[h].section] EXCEPT !.key = call[h].skey] \in SectionRow
    BY <1>1, <2>1 DEF SectionRow, FormRows
  <2>3. section' \in [Sections -> SectionRow]
    BY <1>1, <1>3, <2>2 DEF SaveSection, FormRows
  <2> QED
    BY <1>1, <1>3, <2>3 DEF SaveSection, FormRows, FieldsKept
<1> QED
  BY <1>2, <1>3

LEMMA FieldKeeps ==
  ASSUME CatOK, NEW h \in CatRequests, StoreField(h) \/ SaveField(h) \/ MoveField(h)
  PROVE  FormRows' /\ FieldsKept
<1>1. FormRows /\ CatCallOK(call[h])
  BY DEF CatOK, CatRequestsOK
<1>2. field \in [Fields -> FieldRow]
  BY <1>1 DEF FormRows
<1>3. CASE UNCHANGED forms
  BY <1>1, <1>3 DEF FormRows, FieldsKept, forms
<1>4. CASE StoreField(h) /\ ~UNCHANGED forms
  <2>1. call[h].section \in Sections /\ call[h].fkey \in FieldKeys
    BY <1>1, <1>4 DEF StoreField, CatCallOK, FormsCallOK
  <2>2. PICK new \in FieldRow : new = NewField(call[h].section, call[h].fkey, FALSE) /\ new.gone = FALSE
    <3>1. PICK new : new = NewField(call[h].section, call[h].fkey, FALSE)
      OBVIOUS
    <3>2. new \in FieldRow /\ new.gone = FALSE
      BY <2>1, <3>1 DEF NewField, FieldRow
    <3> QED
      BY <3>1, <3>2
  <2>3. PICK f \in Fields : field' = [field EXCEPT ![f] = new]
    BY <1>4, <2>2, FreeRows DEF StoreField, forms
  <2>4. UNCHANGED <<template, boilerplate, section>>
    BY <1>4 DEF StoreField
  <2> QED
    BY <1>1, <1>2, <2>2, <2>3, <2>4 DEF FormRows, FieldsKept
<1>5. CASE SaveField(h) /\ ~UNCHANGED forms
  <2>1. call[h].field \in Fields /\ call[h].fkey \in FieldKeys
    BY <1>1, <1>5 DEF SaveField, CatCallOK, FormsCallOK
  <2>2. [field[call[h].field] EXCEPT !.key = call[h].fkey] \in FieldRow
    BY <1>2, <2>1 DEF FieldRow
  <2>3. field' = [field EXCEPT ![call[h].field] = [field[call[h].field] EXCEPT !.key = call[h].fkey]]
    BY <1>5 DEF SaveField, forms
  <2>4. UNCHANGED <<template, boilerplate, section>>
    BY <1>5 DEF SaveField
  <2> QED
    BY <1>1, <1>2, <2>1, <2>2, <2>3, <2>4 DEF FormRows, FieldsKept
<1>6. CASE MoveField(h) /\ ~UNCHANGED forms
  <2>1. call[h].field \in Fields /\ call[h].section \in Sections
    BY <1>1, <1>6 DEF MoveField, CatCallOK, FormsCallOK
  <2>2. [field[call[h].field] EXCEPT !.in = call[h].section] \in FieldRow
    BY <1>2, <2>1 DEF FieldRow
  <2>3. field' = [field EXCEPT ![call[h].field] = [field[call[h].field] EXCEPT !.in = call[h].section]]
    BY <1>6 DEF MoveField, forms
  <2>4. UNCHANGED <<template, boilerplate, section>>
    BY <1>6 DEF MoveField
  <2> QED
    BY <1>1, <1>2, <2>1, <2>2, <2>3, <2>4 DEF FormRows, FieldsKept
<1> QED
  BY <1>3, <1>4, <1>5, <1>6

\* What is deleted stays there, with a mark.
LEMMA RemoveFormKeeps ==
  ASSUME FormRows, NEW t \in Templates, NEW read, RemoveForm(t, read)
  PROVE  FormRows'
<1>1. \A f \in Fields : [field[f] EXCEPT !.gone = TRUE] \in FieldRow
  BY DEF FormRows, FieldRow
<1>2. \A s \in Sections : [section[s] EXCEPT !.gone = TRUE] \in SectionRow
  BY DEF FormRows, SectionRow
<1> QED
  BY <1>1, <1>2 DEF RemoveForm, FormRows

LEMMA RemovalKeeps ==
  ASSUME CatOK, NEW h \in CatRequests, RemoveSection(h) \/ RemoveField(h)
  PROVE  FormRows'
<1>1. FormRows /\ CatCallOK(call[h])
  BY DEF CatOK, CatRequestsOK
<1>2. \A f \in Fields : [field[f] EXCEPT !.gone = TRUE] \in FieldRow
  BY <1>1 DEF FormRows, FieldRow
<1>3. CASE RemoveSection(h)
  <2>1. call[h].section \in Sections
    BY <1>1, <1>3 DEF RemoveSection, CatCallOK, FormsCallOK
  <2>2. [section[call[h].section] EXCEPT !.gone = TRUE] \in SectionRow
    BY <1>1, <2>1 DEF FormRows, SectionRow
  <2>3. /\ UNCHANGED <<template, boilerplate>>
        /\ section' = [section EXCEPT ![call[h].section] = [section[call[h].section] EXCEPT !.gone = TRUE]]
        /\ field' = [f \in Fields |-> IF field[f].in = call[h].section THEN [field[f] EXCEPT !.gone = TRUE] ELSE field[f]]
    BY <1>3 DEF RemoveSection
  <2>4. section' \in [Sections -> SectionRow]
    BY <1>1, <2>1, <2>2, <2>3 DEF FormRows
  <2>5. field' \in [Fields -> FieldRow]
    BY <1>1, <1>2, <2>3 DEF FormRows
  <2> QED
    BY <1>1, <2>3, <2>4, <2>5 DEF FormRows
<1>4. CASE RemoveField(h)
  <2>1. call[h].field \in Fields
    BY <1>1, <1>4 DEF RemoveField, CatCallOK, FormsCallOK
  <2>2. field' = [field EXCEPT ![call[h].field] = [field[call[h].field] EXCEPT !.gone = TRUE]]
    BY <1>4 DEF RemoveField
  <2> QED
    BY <1>1, <1>2, <1>4, <2>1, <2>2 DEF RemoveField, FormRows
<1> QED
  BY <1>3, <1>4

\* The steps in which a request for the forms starts, and those in which it writes.
FormsBegins(h) ==
  \/ CreateTemplate(h) \/ DuplicateTemplate(h) \/ Bootstrap(h)
  \/ CreateSection(h) \/ UpdateSection(h) \/ DeleteSection(h)
  \/ CreateField(h) \/ UpdateField(h) \/ DeleteField(h) \/ ReorderFields(h)
FormsWrites(h) ==
  \/ StoreTemplate(h) \/ StoreDuplicate(h) \/ Backfill(h)
  \/ StoreSection(h) \/ SaveSection(h) \/ RemoveSection(h)
  \/ StoreField(h) \/ SaveField(h) \/ RemoveField(h) \/ MoveField(h)

LEMMA FormsSteps ==
  ASSUME NEW h, ServeForms(h)
  PROVE  FormsBegins(h) \/ FormsWrites(h)
BY DEF ServeForms, FormsBegins, FormsWrites

\* What a request for the forms starts with has its type.
LEMMA FormsRequest ==
  ASSUME CatOK, NEW h \in CatRequests, FormsBegins(h)
  PROVE  \E c : CatCallOK(c) /\ BeginForms(h, c)
<1> USE DEF CatCallOK, FormsCallOK, SalesCallOK
<1>1. FormRows
  BY DEF CatOK
<1>2. \A s \in LiveSections : s \in Sections /\ section[s].of \in Templates
  BY <1>1 DEF LiveSections, SectionsOf, FormRows, SectionRow
<1>3. \A f \in LiveFields : f \in Fields /\ field[f].in \in Sections
  BY <1>1 DEF LiveFields, FormRows, FieldRow
<1>4. CASE CreateTemplate(h)
  <2>1. PICK t \in Templates, b \in BOOLEAN : BeginForms(h, [op |-> "createTemplate", template |-> t, flag |-> b])
    BY <1>4 DEF CreateTemplate
  <2> QED
    BY <2>1
<1>5. CASE DuplicateTemplate(h)
  <2>1. PICK t \in Templates, from \in LiveTemplates :
          BeginForms(h, [op |-> "duplicateTemplate", template |-> t, tree |-> Tree(from)])
    BY <1>5 DEF DuplicateTemplate
  <2>2. Tree(from) \in SUBSET (SectionKeys \X SUBSET FieldKeys)
    <3>1. \A s \in SectionsOf(from) : section[s].key \in SectionKeys
      BY <1>1 DEF SectionsOf, FormRows, SectionRow
    <3>2. \A s \in Sections : {field[f].key : f \in {g \in LiveFields : field[g].in = s}} \in SUBSET FieldKeys
      BY <1>1, <1>3 DEF FormRows, FieldRow
    <3>3. SectionsOf(from) \subseteq Sections
      BY DEF SectionsOf
    <3> QED
      BY <3>1, <3>2, <3>3 DEF Tree
  <2> QED
    BY <2>1, <2>2
<1>6. CASE Bootstrap(h)
  <2>1. PICK t \in LiveTemplates : BeginForms(h, [op |-> "backfill", template |-> t])
    BY <1>6 DEF Bootstrap
  <2> QED
    BY <2>1 DEF LiveTemplates
<1>7. CASE CreateSection(h)
  <2>1. PICK t \in LiveTemplates, k \in SectionKeys : BeginForms(h, [op |-> "createSection", template |-> t, skey |-> k])
    BY <1>7 DEF CreateSection
  <2> QED
    BY <2>1 DEF LiveTemplates
<1>8. CASE UpdateSection(h)
  <2>1. PICK s \in Sections, k \in SectionKeys : BeginForms(h, [op |-> "updateSection", section |-> s, skey |-> k])
    BY <1>8 DEF UpdateSection, SectionsOf
  <2> QED
    BY <2>1
<1>9. CASE DeleteSection(h)
  <2>1. PICK s \in LiveSections : BeginForms(h, [op |-> "deleteSection", section |-> s])
    BY <1>9 DEF DeleteSection
  <2> QED
    BY <1>2, <2>1
<1>10. CASE CreateField(h)
  <2>1. PICK s \in LiveSections, k \in FieldKeys : BeginForms(h, [op |-> "createField", section |-> s, fkey |-> k])
    BY <1>10 DEF CreateField
  <2> QED
    BY <1>2, <2>1
<1>11. CASE UpdateField(h)
  <2>1. PICK f \in LiveFields, k \in FieldKeys : BeginForms(h, [op |-> "updateField", field |-> f, fkey |-> k])
    BY <1>11 DEF UpdateField
  <2> QED
    BY <1>3, <2>1
<1>12. CASE DeleteField(h)
  <2>1. PICK f \in LiveFields : BeginForms(h, [op |-> "deleteField", field |-> f])
    BY <1>12 DEF DeleteField
  <2> QED
    BY <1>3, <2>1
<1>13. CASE ReorderFields(h)
  <2>1. PICK f \in LiveFields, s \in LiveSections : BeginForms(h, [op |-> "reorderFields", field |-> f, section |-> s])
    BY <1>13 DEF ReorderFields
  <2> QED
    BY <1>2, <1>3, <2>1
<1> QED
  BY <1>4, <1>5, <1>6, <1>7, <1>8, <1>9, <1>10, <1>11, <1>12, <1>13 DEF FormsBegins

LEMMA FormsStep ==
  ASSUME CatOK, NEW h \in CatRequests, ServeForms(h), UNCHANGED <<offering, catFaults>>
  PROVE  CatOK'
<1>1. CASE FormsBegins(h)
  <2>1. PICK c : CatCallOK(c) /\ BeginForms(h, c)
    BY <1>1, FormsRequest
  <2> QED
    BY <2>1, CatRequestBegins DEF BeginForms
<1>2. CASE FormsWrites(h)
  <2>1. End(h)
    BY <1>2 DEF FormsWrites, StoreTemplate, StoreDuplicate, Backfill, StoreSection, SaveSection, RemoveSection,
                StoreField, SaveField, RemoveField, MoveField
  <2>2. FormRows'
    BY <1>2, StoreKeeps, DuplicateKeeps, BackfillKeeps, SectionKeeps, FieldKeeps, RemovalKeeps DEF FormsWrites
  <2>3. CatRequestsOK'
    BY <2>1, CatRequestEnds DEF CatOK
  <2> QED
    BY <2>2, <2>3, OfferingUnchanged DEF CatOK
<1> QED
  BY <1>1, <1>2, FormsSteps

\* The same for the requests that sell.
SalesBegins(h) ==
  \/ CreateBinding(h) \/ UpdateBinding(h) \/ DeleteBinding(h) \/ BulkDeleteDestinations(h) \/ BulkUpsertNationalities(h)
  \/ CreatePage(h) \/ UpdatePage(h) \/ DeletePage(h)
  \/ CreateFee(h) \/ UpdateFee(h) \/ DeleteFee(h) \/ BulkCopy(h)
  \/ CreateEntry(h) \/ UpdateEntry(h) \/ DeleteEntry(h)
  \/ UpdateVisaType(h) \/ DeleteVisaType(h) \/ UpdateCountry(h) \/ DeleteTemplate(h)
SalesWrites(h) ==
  \/ StoreBinding(h) \/ SaveBinding(h) \/ RemoveBinding(h) \/ StoreNationalities(h)
  \/ FindPage(h) \/ StorePage(h) \/ SavePage(h)
  \/ StoreFee(h) \/ SaveFee(h) \/ RemoveFee(h) \/ StoreCopies(h)
  \/ SaveEntry(h) \/ SaveVisaType(h) \/ SaveCountry(h)

LEMMA SalesSteps ==
  ASSUME NEW h, ServeOffer(h)
  PROVE  SalesBegins(h) \/ SalesWrites(h) \/ RemoveTemplate(h) \/ CatRequestFails(h)
BY DEF ServeOffer, SalesBegins, SalesWrites

LEMMA BindingRequest ==
  ASSUME CatOK, NEW h \in CatRequests,
         CreateBinding(h) \/ UpdateBinding(h) \/ DeleteBinding(h) \/ BulkDeleteDestinations(h) \/ BulkUpsertNationalities(h)
  PROVE  \E c : CatCallOK(c) /\ BeginOffer(h, c)
<1> USE DEF CatCallOK, FormsCallOK, SalesCallOK
<1>1. bound \in Templates \cup {NoTemplate} /\ window \in Windows
  BY DEF CatOK, OfferingTypeOK, Windows
<1>2. CASE CreateBinding(h)
  <2>1. PICK t \in Templates, s \in {"active", "inactive"}, w \in {"before", "within"} :
          BeginOffer(h, [op |-> "createBinding", template |-> t, state |-> s, window |-> w, row |-> binding # "none"])
    BY <1>2 DEF CreateBinding
  <2> QED
    BY <2>1 DEF OnSale, Windows
<1>3. CASE UpdateBinding(h)
  <2>1. PICK t \in LiveTemplates \cup {bound}, s \in {"active", "inactive"}, w \in {window, "after"} :
          BeginOffer(h, [op |-> "updateBinding", template |-> t, state |-> s, window |-> w, keep |-> t = bound])
    BY <1>3 DEF UpdateBinding
  <2>2. t \in Templates \cup {NoTemplate} /\ w \in Windows
    BY <1>1 DEF LiveTemplates, Windows
  <2> QED
    BY <2>1, <2>2 DEF OnSale
<1>4. CASE DeleteBinding(h) \/ BulkDeleteDestinations(h)
  BY <1>4 DEF DeleteBinding, BulkDeleteDestinations
<1>5. CASE BulkUpsertNationalities(h)
  <2>1. PICK t, rows : t \in LiveTemplates /\ BeginOffer(h, [op |-> "bulkUpsert", template |-> t, rows |-> rows])
    BY <1>5 DEF BulkUpsertNationalities
  <2> QED
    BY <2>1 DEF LiveTemplates
<1> QED
  BY <1>2, <1>3, <1>4, <1>5

LEMMA PageRequest ==
  ASSUME CatOK, NEW h \in CatRequests, CreatePage(h) \/ UpdatePage(h) \/ DeletePage(h)
  PROVE  \E c : CatCallOK(c) /\ BeginOffer(h, c)
<1> USE DEF CatCallOK, FormsCallOK, SalesCallOK
<1>1. CASE CreatePage(h)
  BY <1>1 DEF CreatePage
<1>2. CASE UpdatePage(h)
  BY <1>2 DEF UpdatePage
<1>3. CASE DeletePage(h)
  BY <1>3 DEF DeletePage
<1> QED
  BY <1>1, <1>2, <1>3

LEMMA FeeRequest ==
  ASSUME CatOK, NEW h \in CatRequests, CreateFee(h) \/ UpdateFee(h) \/ DeleteFee(h) \/ BulkCopy(h)
  PROVE  \E c : CatCallOK(c) /\ BeginOffer(h, c)
<1> USE DEF CatCallOK, FormsCallOK, SalesCallOK
<1>1. \A x \in LiveFees : x \in Slots /\ x[2] \in Entries /\ fee[x] \in OnSale
  BY DEF LiveFees, Live, OnSale, Slots
<1>2. CASE CreateFee(h)
  <2>1. PICK x \in Slots, s \in {"active", "inactive"} :
          BeginOffer(h, [op |-> "createFee", slot |-> x, state |-> s, row |-> fee[x] # "none"])
    BY <1>2 DEF CreateFee
  <2> QED
    BY <2>1 DEF OnSale
<1>3. CASE UpdateFee(h)
  <2>1. PICK x \in LiveFees, n \in Nationalities, s \in {"active", "inactive"} :
          BeginOffer(h, [op |-> "updateFee", slot |-> x, to |-> <<n, x[2]>>, state |-> s])
    BY <1>3 DEF UpdateFee
  <2>2. <<n, x[2]>> \in Slots
    BY <1>1 DEF Slots
  <2> QED
    BY <1>1, <2>1, <2>2 DEF OnSale
<1>4. CASE DeleteFee(h)
  <2>1. PICK x \in LiveFees : BeginOffer(h, [op |-> "deleteFee", slot |-> x])
    BY <1>4 DEF DeleteFee
  <2> QED
    BY <1>1, <2>1
<1>5. CASE BulkCopy(h)
  <2>1. PICK x, insert, update, revive :
          x \in LiveFees /\ BeginOffer(h, [op |-> "bulkCopy", state |-> fee[x], insert |-> insert, update |-> update, revive |-> revive])
    BY <1>5 DEF BulkCopy
  <2> QED
    BY <1>1, <2>1
<1> QED
  BY <1>2, <1>3, <1>4, <1>5

LEMMA ReferenceRequest ==
  ASSUME CatOK, NEW h \in CatRequests,
         \/ CreateEntry(h) \/ UpdateEntry(h) \/ DeleteEntry(h)
         \/ UpdateVisaType(h) \/ DeleteVisaType(h) \/ UpdateCountry(h) \/ DeleteTemplate(h)
  PROVE  \E c : CatCallOK(c) /\ BeginOffer(h, c)
<1> USE DEF CatCallOK, FormsCallOK, SalesCallOK
<1>1. country \in BOOLEAN
  BY DEF CatOK, OfferingTypeOK
<1>2. CASE CreateEntry(h)
  BY <1>2 DEF CreateEntry
<1>3. CASE UpdateEntry(h)
  BY <1>3 DEF UpdateEntry
<1>4. CASE DeleteEntry(h)
  BY <1>4 DEF DeleteEntry
<1>5. CASE UpdateVisaType(h)
  BY <1>5 DEF UpdateVisaType
<1>6. CASE DeleteVisaType(h)
  BY <1>6 DEF DeleteVisaType
<1>7. CASE UpdateCountry(h)
  BY <1>1, <1>7 DEF UpdateCountry
<1>8. CASE DeleteTemplate(h)
  <2>1. PICK t, used, sections :
          t \in LiveTemplates /\ BeginOffer(h, [op |-> "deleteTemplate", template |-> t, flag |-> used, sections |-> sections])
    BY <1>8 DEF DeleteTemplate
  <2> QED
    BY <2>1 DEF LiveTemplates
<1> QED
  BY <1>2, <1>3, <1>4, <1>5, <1>6, <1>7, <1>8

LEMMA SalesRequest ==
  ASSUME CatOK, NEW h \in CatRequests, SalesBegins(h)
  PROVE  \E c : CatCallOK(c) /\ BeginOffer(h, c)
BY BindingRequest, PageRequest, FeeRequest, ReferenceRequest DEF SalesBegins

\* What is written on sale is a state of a row again.
LEMMA FeesDeleted ==
  ASSUME fee \in [Slots -> RowStates], NEW X
  PROVE  Deleted(X) \in [Slots -> RowStates]
BY DEF Deleted, RowStates

LEMMA BindingWrites ==
  ASSUME CatOK, NEW h \in CatRequests,
         StoreBinding(h) \/ SaveBinding(h) \/ RemoveBinding(h) \/ StoreNationalities(h)
  PROVE  OfferingTypeOK' /\ UNCHANGED forms /\ \E c : CatCallOK(c) /\ Continue(h, c)
<1>1. OfferingTypeOK /\ SalesCallOK(call[h]) /\ CatCallOK(NoCall)
  BY NothingOK DEF CatOK, CatRequestsOK, CatCallOK
<1>2. CatCallOK([op |-> "ensurePage"])
  BY DEF CatCallOK, FormsCallOK, SalesCallOK
<1>3. CASE StoreBinding(h)
  <2>1. /\ UNCHANGED <<forms, country, visaType, entry, fee, page, booked, catFaults>>
        /\ \/ UNCHANGED <<binding, bound, window>>
           \/ binding' = call[h].state /\ bound' = call[h].template /\ window' = call[h].window
        /\ Continue(h, NoCall) \/ Continue(h, [op |-> "ensurePage"])
    BY <1>3 DEF StoreBinding, End
  <2>2. /\ call[h].template \in Templates \cup {NoTemplate}
        /\ call[h].state \in {"active", "inactive"} /\ call[h].window \in {"before", "within", "after"}
    BY <1>1, <1>3 DEF StoreBinding, SalesCallOK, OnSale, Windows
  <2> QED
    BY <1>1, <1>2, <2>1, <2>2 DEF OfferingTypeOK, RowStates
<1>4. CASE SaveBinding(h)
  <2>1. /\ call[h].template \in Templates \cup {NoTemplate}
        /\ call[h].state \in {"active", "inactive"} /\ call[h].window \in {"before", "within", "after"}
    BY <1>1, <1>4 DEF SaveBinding, SalesCallOK, OnSale, Windows
  <2> QED
    BY <1>1, <1>4, <2>1 DEF SaveBinding, EndOffer, End, OfferingTypeOK, RowStates
<1>5. CASE RemoveBinding(h)
  <2>1. fee' \in [Slots -> RowStates]
    BY <1>1, <1>5, FeesDeleted DEF RemoveBinding, OfferingTypeOK
  <2> QED
    BY <1>1, <1>5, <2>1 DEF RemoveBinding, EndOffer, End, OfferingTypeOK, RowStates
<1>6. CASE StoreNationalities(h)
  <2>1. fee' \in [Slots -> RowStates] /\ binding' \in {"active", "deleted"} /\ window' \in {window, "within"}
    BY <1>1, <1>6 DEF StoreNationalities, OfferingTypeOK, RowStates
  <2>2. bound' \in Templates
    BY <1>1, <1>6 DEF StoreNationalities, SalesCallOK
  <2>3. UNCHANGED <<forms, country, visaType, entry, page, booked, catFaults>> /\ Continue(h, [op |-> "ensurePage"])
    BY <1>6 DEF StoreNationalities
  <2> QED
    BY <1>1, <1>2, <2>1, <2>2, <2>3 DEF OfferingTypeOK, RowStates
<1> QED
  BY <1>3, <1>4, <1>5, <1>6

LEMMA PageWrites ==
  ASSUME CatOK, NEW h \in CatRequests, FindPage(h) \/ StorePage(h) \/ SavePage(h)
  PROVE  OfferingTypeOK' /\ UNCHANGED forms /\ \E c : CatCallOK(c) /\ Continue(h, c)
<1>1. OfferingTypeOK /\ SalesCallOK(call[h]) /\ CatCallOK(NoCall)
  BY NothingOK DEF CatOK, CatRequestsOK, CatCallOK
<1>2. CatCallOK([op |-> "createPage", state |-> "published"])
  BY DEF CatCallOK, FormsCallOK, SalesCallOK
<1>3. CASE FindPage(h)
  BY <1>1, <1>2, <1>3, OfferingUnchanged DEF FindPage
<1>4. CASE StorePage(h)
  <2>1. page' \in {"none", "hidden", "published", "deleted"}
    BY <1>1, <1>4 DEF StorePage, SalesCallOK, OfferingTypeOK
  <2> QED
    BY <1>1, <1>4, <2>1 DEF StorePage, EndOffer, End, OfferingTypeOK
<1>5. CASE SavePage(h)
  <2>1. page' \in {"none", "hidden", "published", "deleted"}
    BY <1>1, <1>5 DEF SavePage, SalesCallOK, OfferingTypeOK
  <2> QED
    BY <1>1, <1>5, <2>1 DEF SavePage, EndOffer, End, OfferingTypeOK
<1> QED
  BY <1>3, <1>4, <1>5

LEMMA FeeWrites ==
  ASSUME CatOK, NEW h \in CatRequests, StoreFee(h) \/ SaveFee(h) \/ RemoveFee(h) \/ StoreCopies(h)
  PROVE  OfferingTypeOK' /\ UNCHANGED forms /\ \E c : CatCallOK(c) /\ Continue(h, c)
<1>1. OfferingTypeOK /\ SalesCallOK(call[h]) /\ CatCallOK(NoCall)
  BY NothingOK DEF CatOK, CatRequestsOK, CatCallOK
<1>2. CatCallOK([op |-> "ensurePage"])
  BY DEF CatCallOK, FormsCallOK, SalesCallOK
<1>3. fee \in [Slots -> RowStates]
  BY <1>1 DEF OfferingTypeOK
<1>4. ASSUME fee' \in [Slots -> RowStates],
             UNCHANGED <<forms, country, visaType, entry, binding, bound, window, page, booked, catFaults>>
      PROVE  OfferingTypeOK'
  BY <1>1, <1>4 DEF OfferingTypeOK
<1>5. CASE StoreFee(h)
  <2>1. call[h].state \in RowStates
    BY <1>1, <1>5 DEF StoreFee, SalesCallOK, OnSale, RowStates
  <2>2. fee' \in [Slots -> RowStates]
    BY <1>3, <1>5, <2>1 DEF StoreFee
  <2> QED
    BY <1>1, <1>2, <1>4, <1>5, <2>2 DEF StoreFee, End
<1>6. CASE SaveFee(h)
  <2>1. call[h].state \in RowStates /\ call[h].slot \in Slots
    BY <1>1, <1>6 DEF SaveFee, SalesCallOK, OnSale, RowStates
  <2>2. fee' \in [Slots -> RowStates]
    BY <1>3, <1>6, <2>1 DEF SaveFee, RowStates
  <2> QED
    BY <1>1, <1>4, <1>6, <2>2 DEF SaveFee, EndOffer, End
<1>7. CASE RemoveFee(h)
  <2>1. fee' \in [Slots -> RowStates]
    BY <1>3, <1>7 DEF RemoveFee, RowStates
  <2> QED
    BY <1>1, <1>4, <1>7, <2>1 DEF RemoveFee, EndOffer, End
<1>8. CASE StoreCopies(h)
  <2>1. call[h].state \in RowStates
    BY <1>1, <1>8 DEF StoreCopies, SalesCallOK, OnSale, RowStates
  <2>2. fee' \in [Slots -> RowStates]
    BY <1>3, <1>8, <2>1 DEF StoreCopies
  <2> QED
    BY <1>1, <1>4, <1>8, <2>2 DEF StoreCopies, EndOffer, End
<1> QED
  BY <1>5, <1>6, <1>7, <1>8

LEMMA ReferenceWrites ==
  ASSUME CatOK, NEW h \in CatRequests, SaveEntry(h) \/ SaveVisaType(h) \/ SaveCountry(h)
  PROVE  OfferingTypeOK' /\ UNCHANGED forms /\ \E c : CatCallOK(c) /\ Continue(h, c)
<1>1. OfferingTypeOK /\ SalesCallOK(call[h]) /\ CatCallOK(NoCall)
  BY NothingOK DEF CatOK, CatRequestsOK, CatCallOK
<1>2. CASE SaveEntry(h)
  <2>1. call[h].state \in RowStates
    BY <1>1, <1>2 DEF SaveEntry, SalesCallOK, RowStates
  <2>2. entry' \in [Entries -> RowStates]
    BY <1>1, <1>2, <2>1 DEF SaveEntry, OfferingTypeOK
  <2> QED
    BY <1>1, <1>2, <2>2 DEF SaveEntry, EndOffer, End, OfferingTypeOK
<1>3. CASE SaveVisaType(h)
  <2>1. visaType' \in RowStates
    BY <1>1, <1>3 DEF SaveVisaType, SalesCallOK, RowStates
  <2> QED
    BY <1>1, <1>3, <2>1 DEF SaveVisaType, EndOffer, End, OfferingTypeOK
<1>4. CASE SaveCountry(h)
  <2>1. country' \in BOOLEAN
    BY <1>1, <1>4 DEF SaveCountry, SalesCallOK
  <2> QED
    BY <1>1, <1>4, <2>1 DEF SaveCountry, EndOffer, End, OfferingTypeOK
<1> QED
  BY <1>2, <1>3, <1>4

LEMMA SalesStep ==
  ASSUME CatOK, NEW h \in CatRequests, ServeOffer(h)
  PROVE  CatOK'
<1>1. CASE SalesBegins(h)
  <2>1. PICK c : CatCallOK(c) /\ BeginOffer(h, c)
    BY <1>1, SalesRequest
  <2> QED
    BY <2>1, CatRequestBegins DEF BeginOffer
<1>2. CASE SalesWrites(h)
  <2>1. OfferingTypeOK' /\ UNCHANGED forms /\ \E c : CatCallOK(c) /\ Continue(h, c)
    BY <1>2, BindingWrites, PageWrites, FeeWrites, ReferenceWrites DEF SalesWrites
  <2>2. CatRequestsOK'
    BY <2>1, CatRequestGoes DEF CatOK
  <2> QED
    BY <2>1, <2>2, FormsUnchanged DEF CatOK
<1>3. CASE RemoveTemplate(h)
  <2>1. /\ call[h].template \in Templates /\ RemoveForm(call[h].template, call[h].sections) /\ End(h)
        /\ fee' \in {fee, Deleted(Slots)} /\ binding' \in {binding, "deleted"}
        /\ UNCHANGED <<country, visaType, entry, bound, window, page, booked, catFaults>>
    BY <1>3 DEF RemoveTemplate, CatOK, CatRequestsOK, CatCallOK, FormsCallOK
  <2>2. FormRows'
    BY <2>1, RemoveFormKeeps DEF CatOK
  <2>3. Deleted(Slots) \in [Slots -> RowStates]
    BY FeesDeleted DEF CatOK, OfferingTypeOK
  <2>4. OfferingTypeOK'
    BY <2>1, <2>3 DEF CatOK, OfferingTypeOK, RowStates
  <2> QED
    BY <2>1, <2>2, <2>4, CatRequestEnds DEF CatOK
<1>4. CASE CatRequestFails(h)
  <2>1. OfferingTypeOK'
    BY <1>4, CatFaultsAssumption DEF CatRequestFails, CatOK, OfferingTypeOK, offering, destination, product, sales
  <2> QED
    BY <1>4, <2>1, CatRequestEnds, FormsUnchanged DEF CatRequestFails, CatOK
<1> QED
  BY <1>1, <1>2, <1>3, <1>4, SalesSteps

LEMMA CatStarts == CatInit => CatOK
<1> SUFFICES ASSUME CatInit PROVE CatOK
  OBVIOUS
<1>1. (CHOOSE k \in SectionKeys : TRUE) \in SectionKeys /\ (CHOOSE k \in FieldKeys : TRUE) \in FieldKeys
  BY FormsAssumption
<1>2. FormRows
  BY <1>1 DEF CatInit, FormsInit, FormRows, SectionRow, FieldRow
<1>3. CatRequestsOK
  BY NothingOK DEF CatInit, FormsInit, CatRequestsOK
<1>4. OfferingTypeOK
  BY CatFaultsAssumption DEF CatInit, OfferingInit, OfferingTypeOK, RowStates
<1> QED
  BY <1>2, <1>3, <1>4 DEF CatOK

LEMMA CatStep == CatOK /\ [CatNext]_catVars => CatOK'
<1> SUFFICES ASSUME CatOK, [CatNext]_catVars PROVE CatOK'
  OBVIOUS
<1>1. ASSUME NEW h \in CatRequests, ServeForms(h), UNCHANGED <<offering, catFaults>> PROVE CatOK'
  BY <1>1, FormsStep
<1>2. ASSUME NEW h \in CatRequests, ServeOffer(h) PROVE CatOK'
  BY <1>2, SalesStep
<1>3. CASE Apply
  BY <1>3, FormsUnchanged DEF Apply, CatOK, OfferingTypeOK, CatRequestsOK, formVars
<1>4. CASE TimePasses
  BY <1>4, FormsUnchanged DEF TimePasses, CatOK, OfferingTypeOK, CatRequestsOK, formVars
<1>5. CASE UNCHANGED catVars
  BY <1>5, FormsUnchanged, OfferingUnchanged DEF catVars, formVars, CatOK, CatRequestsOK
<1> QED
  BY <1>1, <1>2, <1>3, <1>4, <1>5 DEF CatNext

\* Every row and every request under way has its type, however requests overlap or fail
\* (the rows of template, template_sections, template_fields, bindings and fees).
THEOREM CatTypes == CatSpec => []CatTypeOK
<1>1. CatOK => CatTypeOK
  BY DEF CatOK, FormRows, CatRequestsOK, CatTypeOK, FormsTypeOK, SectionRow, FieldRow
<1> QED
  BY <1>1, CatStarts, CatStep, PTL DEF CatSpec

-----------------------------------------------------------------------------
(* Offering: the page follows.                                                *)

MakesPage(c) == c.op \in {"ensurePage", "createPage"}
PageComing == Live(binding) /\ page = "none" /\ catFaults = 0 => \E h \in CatRequests : MakesPage(call[h])

LEMMA OthersGo ==
  ASSUME CatOK, NEW h \in CatRequests, NEW c, Continue(h, c)
  PROVE  DOMAIN call' = CatRequests /\ call'[h] = c /\ \A g \in CatRequests \ {h} : call'[g] = call[g]
BY DEF CatOK, CatRequestsOK, Continue

\* A step keeps it that stores no binding and is not on its way to the page.
LEMMA PageStays ==
  ASSUME CatOK, PageComing, NEW h \in CatRequests, NEW c, Continue(h, c), ~MakesPage(call[h]),
         page' = page, catFaults' = catFaults, Live(binding)' => Live(binding)
  PROVE  PageComing'
BY OthersGo DEF PageComing, MakesPage

\* So does one that goes on to it, or has made one.
LEMMA PageGoesOn ==
  ASSUME CatOK, NEW h \in CatRequests, NEW c, Continue(h, c), MakesPage(c) \/ page' # "none"
  PROVE  PageComing'
BY OthersGo DEF PageComing, MakesPage

LEMMA PageWhileOneBegins ==
  ASSUME CatOK, PageComing, NEW h \in CatRequests, NEW c, Begin(h, c), UNCHANGED <<offering, catFaults>>
  PROVE  PageComing'
<1>1. ~MakesPage(call[h]) /\ \A g \in CatRequests \ {h} : call'[g] = call[g]
  BY DEF Begin, NoCall, MakesPage, CatOK, CatRequestsOK
<1>2. page' = page /\ binding' = binding /\ catFaults' = catFaults
  BY DEF offering, destination, sales
<1> QED
  BY <1>1, <1>2 DEF PageComing, Live

LEMMA PageInForms ==
  ASSUME CatOK, PageComing, NEW h \in CatRequests, ServeForms(h), UNCHANGED <<offering, catFaults>>
  PROVE  PageComing'
<1>1. CASE FormsBegins(h)
  BY <1>1, FormsRequest, PageWhileOneBegins DEF BeginForms
<1>2. CASE FormsWrites(h)
  <2>1. Continue(h, NoCall) /\ ~MakesPage(call[h])
    BY <1>2 DEF FormsWrites, StoreTemplate, StoreDuplicate, Backfill, StoreSection, SaveSection, RemoveSection,
                StoreField, SaveField, RemoveField, MoveField, End, MakesPage
  <2>2. page' = page /\ binding' = binding
    BY DEF offering, destination, sales
  <2> QED
    BY <2>1, <2>2, PageStays DEF Live
<1> QED
  BY <1>1, <1>2, FormsSteps

LEMMA PageInSales ==
  ASSUME CatOK, PageComing, NEW h \in CatRequests, ServeOffer(h)
  PROVE  PageComing'
<1>1. SalesCallOK(call[h])
  BY DEF CatOK, CatRequestsOK, CatCallOK
<1>2. CASE SalesBegins(h)
  BY <1>2, SalesRequest, PageWhileOneBegins DEF BeginOffer
<1>3. CASE StoreBinding(h)
  <2>1. CASE Continue(h, [op |-> "ensurePage"])
    BY <2>1, PageGoesOn DEF MakesPage
  <2>2. CASE ~Continue(h, [op |-> "ensurePage"])
    BY <1>3, <2>2, PageStays DEF StoreBinding, End, MakesPage, Live
  <2> QED
    BY <2>1, <2>2
<1>4. CASE SaveBinding(h) \/ RemoveBinding(h)
  <2>1. /\ Continue(h, NoCall) /\ ~MakesPage(call[h]) /\ page' = page /\ catFaults' = catFaults
        /\ Live(binding)' => Live(binding)
    BY <1>4 DEF SaveBinding, RemoveBinding, EndOffer, End, MakesPage, Live
  <2> QED
    BY <2>1, PageStays
<1>5. CASE StoreNationalities(h)
  BY <1>5, PageGoesOn DEF StoreNationalities, MakesPage
<1>6. CASE FindPage(h)
  <2>1. CASE page = "none"
    BY <1>6, <2>1, PageGoesOn DEF FindPage, MakesPage
  <2>2. CASE page # "none"
    BY <1>6, <2>2, PageGoesOn DEF FindPage, offering, destination
  <2> QED
    BY <2>1, <2>2
<1>7. CASE StorePage(h) \/ SavePage(h)
  <2>1. page' # "none" /\ Continue(h, NoCall)
    BY <1>1, <1>7 DEF StorePage, SavePage, SalesCallOK, EndOffer, End
  <2> QED
    BY <2>1, PageGoesOn
<1>8. CASE \/ StoreFee(h) \/ SaveFee(h) \/ RemoveFee(h) \/ StoreCopies(h)
           \/ SaveEntry(h) \/ SaveVisaType(h) \/ SaveCountry(h)
  <2>1. /\ ~MakesPage(call[h]) /\ page' = page /\ catFaults' = catFaults /\ binding' = binding
        /\ Continue(h, NoCall) \/ Continue(h, [op |-> "ensurePage"])
    BY <1>8 DEF StoreFee, SaveFee, RemoveFee, StoreCopies, SaveEntry, SaveVisaType, SaveCountry, EndOffer, End, MakesPage
  <2> QED
    BY <2>1, PageStays DEF Live
<1>9. CASE RemoveTemplate(h)
  <2>1. /\ Continue(h, NoCall) /\ ~MakesPage(call[h]) /\ page' = page /\ catFaults' = catFaults
        /\ Live(binding)' => Live(binding)
    BY <1>9 DEF RemoveTemplate, End, MakesPage, Live
  <2> QED
    BY <2>1, PageStays
<1>10. CASE CatRequestFails(h)
  <2>1. catFaults' # 0
    BY <1>10, CatFaultsAssumption DEF CatRequestFails, CatOK, OfferingTypeOK
  <2> QED
    BY <2>1 DEF PageComing
<1> QED
  BY <1>2, <1>3, <1>4, <1>5, <1>6, <1>7, <1>8, <1>9, <1>10, SalesSteps DEF SalesWrites

\* However requests overlap: the country of a binding has a page, or a request that will
\* make it is under way, unless one failed (ensurePageForDestination after each write).
THEOREM PageFollows == CatSpec => []PageFollowsBinding
<1>1. CatInit => PageComing
  BY DEF CatInit, OfferingInit, PageComing, Live
<1>2. ASSUME CatOK, PageComing, [CatNext]_catVars PROVE PageComing'
  <2>1. ASSUME NEW h \in CatRequests, ServeForms(h), UNCHANGED <<offering, catFaults>> PROVE PageComing'
    BY <1>2, <2>1, PageInForms
  <2>2. ASSUME NEW h \in CatRequests, ServeOffer(h) PROVE PageComing'
    BY <1>2, <2>2, PageInSales
  <2>3. CASE Apply \/ TimePasses \/ UNCHANGED catVars
    BY <1>2, <2>3 DEF Apply, TimePasses, catVars, formVars, offering, destination, sales, PageComing, Live
  <2> QED
    BY <1>2, <2>1, <2>2, <2>3 DEF CatNext
<1>3. PageComing => PageFollowsBinding
  BY DEF PageComing, MakesPage, PageFollowsBinding
<1> QED
  BY <1>1, <1>2, <1>3, CatStarts, CatStep, PTL DEF CatSpec

-----------------------------------------------------------------------------
(* One request at a time: what a request has checked is still so when it      *)
(* writes.                                                                    *)

Checked(c) ==
  /\ c.op = "deleteSection" => \A f \in LiveFields : field[f].in = c.section => ~field[f].system
  /\ c.op = "deleteField" => ~field[c.field].system
  /\ c.op = "deleteTemplate" => /\ \A s \in c.sections : s \in Sections /\ section[s].of = c.template
                                /\ Live(binding) /\ bound = c.template => c.flag
  /\ c.op \in {"createBinding", "updateBinding", "bulkUpsert"} => c.template \in LiveTemplates
  /\ c.op = "saveVisaType" /\ c.state = "deleted" => binding # "active"
  /\ c.op = "saveEntry" /\ c.state = "deleted" => \A x \in LiveFees : x[2] # c.entry

BoundIsLive == Live(binding) => bound \in LiveTemplates

CatAlone ==
  ~raced => /\ \A g, h \in CatRequests : call[g] # NoCall /\ call[h] # NoCall => g = h
            /\ \A h \in CatRequests : Checked(call[h])
            /\ BoundIsLive

LEMMA NothingChecked == Checked(NoCall)
BY DEF Checked, NoCall

LEMMA AloneBegins ==
  ASSUME CatOK, CatAlone, NEW h \in CatRequests, NEW c, Begin(h, c), UNCHANGED <<forms, offering, catFaults>>,
         ~raced => Checked(c)
  PROVE  CatAlone'
<1>1. SUFFICES ASSUME ~raced'
               PROVE  /\ \A g, i \in CatRequests : call'[g] # NoCall /\ call'[i] # NoCall => g = i
                      /\ \A i \in CatRequests : Checked(call[i])'
                      /\ BoundIsLive'
  BY DEF CatAlone
<1>2. /\ ~raced /\ \A g \in CatRequests : call[g] = NoCall
      /\ call'[h] = c /\ \A g \in CatRequests \ {h} : call'[g] = NoCall
  BY <1>1 DEF Begin, CatOK, CatRequestsOK
<1>3. /\ field' = field /\ section' = section /\ template' = template /\ binding' = binding /\ bound' = bound
      /\ fee' = fee
  BY DEF forms, offering, sales
<1>4. \A i \in CatRequests : Checked(call'[i])
  BY <1>2, NothingChecked
<1>5. \A i \in CatRequests : Checked(call[i])'
  BY <1>3, <1>4 DEF Checked, LiveFields, LiveTemplates, LiveFees
<1>6. BoundIsLive'
  BY <1>2, <1>3 DEF CatAlone, BoundIsLive, LiveTemplates
<1> QED
  BY <1>2, <1>5, <1>6

LEMMA AloneGoes ==
  ASSUME CatOK, CatAlone, NEW h \in CatRequests, NEW c, Continue(h, c), call[h] # NoCall,
         c = NoCall \/ c.op \in {"ensurePage", "createPage"},
         ~raced => BoundIsLive'
  PROVE  CatAlone'
<1>1. SUFFICES ASSUME ~raced'
               PROVE  /\ \A g, i \in CatRequests : call'[g] # NoCall /\ call'[i] # NoCall => g = i
                      /\ \A i \in CatRequests : Checked(call[i])'
  BY DEF CatAlone, Continue
<1>2. ~raced /\ \A g \in CatRequests \ {h} : call[g] = NoCall
  BY <1>1 DEF Continue, CatAlone
<1>3. call'[h] = c /\ \A g \in CatRequests \ {h} : call'[g] = NoCall
  BY <1>2, OthersGo
<1>4. \A i \in CatRequests : call'[i] = NoCall \/ call'[i].op \in {"ensurePage", "createPage"}
  BY <1>3
<1>5. \A i \in CatRequests : call'[i].op \in {"idle", "ensurePage", "createPage"}
  BY <1>4 DEF NoCall
<1>6. \A i \in CatRequests : Checked(call[i])'
  BY <1>5 DEF Checked
<1> QED
  BY <1>3, <1>6

LEMMA FormsChecked ==
  ASSUME CatOK, CatAlone, NEW h \in CatRequests, FormsBegins(h)
  PROVE  \E c : Checked(c) /\ BeginForms(h, c)
<1> USE DEF Checked
<1>1. CASE CreateTemplate(h) \/ DuplicateTemplate(h) \/ Bootstrap(h)
  <2>1. PICK c : c.op \in {"createTemplate", "duplicateTemplate", "backfill"} /\ BeginForms(h, c)
    <3>1. CASE CreateTemplate(h)
      BY <3>1 DEF CreateTemplate
    <3>2. CASE DuplicateTemplate(h)
      BY <3>2 DEF DuplicateTemplate
    <3>3. CASE Bootstrap(h)
      BY <3>3 DEF Bootstrap
    <3> QED
      BY <1>1, <3>1, <3>2, <3>3
  <2> QED
    BY <2>1
<1>2. CASE CreateSection(h) \/ UpdateSection(h) \/ CreateField(h) \/ UpdateField(h) \/ ReorderFields(h)
  <2>1. PICK c : /\ c.op \in {"createSection", "updateSection", "createField", "updateField", "reorderFields"}
                 /\ BeginForms(h, c)
    <3>1. CASE CreateSection(h)
      BY <3>1 DEF CreateSection
    <3>2. CASE UpdateSection(h)
      BY <3>2 DEF UpdateSection
    <3>3. CASE CreateField(h)
      BY <3>3 DEF CreateField
    <3>4. CASE UpdateField(h)
      BY <3>4 DEF UpdateField
    <3>5. CASE ReorderFields(h)
      BY <3>5 DEF ReorderFields
    <3> QED
      BY <1>2, <3>1, <3>2, <3>3, <3>4, <3>5
  <2> QED
    BY <2>1
<1>3. CASE DeleteSection(h)
  <2>1. PICK s \in LiveSections : /\ \A f \in LiveFields : field[f].in = s => ~field[f].system
                                  /\ BeginForms(h, [op |-> "deleteSection", section |-> s])
    BY <1>3 DEF DeleteSection
  <2> QED
    BY <2>1
<1>4. CASE DeleteField(h)
  <2>1. PICK f \in LiveFields : ~field[f].system /\ BeginForms(h, [op |-> "deleteField", field |-> f])
    BY <1>4 DEF DeleteField
  <2> QED
    BY <2>1
<1> QED
  BY <1>1, <1>2, <1>3, <1>4 DEF FormsBegins

LEMMA SalesChecked ==
  ASSUME CatOK, CatAlone, NEW h \in CatRequests, SalesBegins(h)
  PROVE  \E c : (~raced => Checked(c)) /\ BeginOffer(h, c)
<1> USE DEF Checked
<1>1. CASE CreateBinding(h)
  <2>1. PICK t, s, w, r : t \in LiveTemplates /\
          BeginOffer(h, [op |-> "createBinding", template |-> t, state |-> s, window |-> w, row |-> r])
    BY <1>1 DEF CreateBinding, RelationsValid
  <2> QED
    BY <2>1
<1>2. CASE UpdateBinding(h)
  <2>1. PICK t, s, w, k :
          /\ t \in LiveTemplates \cup {bound} /\ Live(binding)
          /\ BeginOffer(h, [op |-> "updateBinding", template |-> t, state |-> s, window |-> w, keep |-> k])
    BY <1>2 DEF UpdateBinding
  <2>2. ~raced => t \in LiveTemplates
    BY <2>1 DEF CatAlone, BoundIsLive
  <2> QED
    BY <2>1, <2>2
<1>3. CASE BulkUpsertNationalities(h)
  <2>1. PICK t, rows : t \in LiveTemplates /\ BeginOffer(h, [op |-> "bulkUpsert", template |-> t, rows |-> rows])
    BY <1>3 DEF BulkUpsertNationalities
  <2> QED
    BY <2>1
<1>4. CASE DeleteTemplate(h)
  <2>1. PICK t \in LiveTemplates :
          BeginOffer(h, [op |-> "deleteTemplate", template |-> t, flag |-> Live(binding) /\ bound = t,
                         sections |-> SectionsOf(t)])
    BY <1>4 DEF DeleteTemplate
  <2>2. \A s \in SectionsOf(t) : s \in Sections /\ section[s].of = t
    BY DEF SectionsOf
  <2> QED
    BY <2>1, <2>2
<1>5. CASE \/ DeleteBinding(h) \/ BulkDeleteDestinations(h)
           \/ CreatePage(h) \/ UpdatePage(h) \/ DeletePage(h)
           \/ CreateFee(h) \/ UpdateFee(h) \/ DeleteFee(h) \/ BulkCopy(h)
           \/ UpdateCountry(h)
  <2>1. PICK c : /\ c.op \in {"deleteBinding", "createPage", "updatePage", "createFee", "updateFee", "deleteFee",
                              "bulkCopy", "saveCountry"}
                 /\ BeginOffer(h, c)
    <3>1. CASE DeleteBinding(h) \/ BulkDeleteDestinations(h)
      BY <3>1 DEF DeleteBinding, BulkDeleteDestinations
    <3>2. CASE CreatePage(h)
      BY <3>2 DEF CreatePage
    <3>3. CASE UpdatePage(h)
      BY <3>3 DEF UpdatePage
    <3>4. CASE DeletePage(h)
      BY <3>4 DEF DeletePage
    <3>5. CASE CreateFee(h)
      BY <3>5 DEF CreateFee
    <3>6. CASE UpdateFee(h)
      BY <3>6 DEF UpdateFee
    <3>7. CASE DeleteFee(h)
      BY <3>7 DEF DeleteFee
    <3>8. CASE BulkCopy(h)
      BY <3>8 DEF BulkCopy
    <3>9. CASE UpdateCountry(h)
      BY <3>9 DEF UpdateCountry
    <3> QED
      BY <1>5, <3>1, <3>2, <3>3, <3>4, <3>5, <3>6, <3>7, <3>8, <3>9
  <2> QED
    BY <2>1
<1>6. CASE CreateEntry(h) \/ UpdateEntry(h) \/ DeleteEntry(h)
  <2>1. PICK e, s : /\ s = "deleted" => \A x \in LiveFees : x[2] # e
                    /\ BeginOffer(h, [op |-> "saveEntry", entry |-> e, state |-> s])
    <3>1. CASE CreateEntry(h)
      BY <3>1 DEF CreateEntry
    <3>2. CASE UpdateEntry(h)
      BY <3>2 DEF UpdateEntry
    <3>3. CASE DeleteEntry(h)
      BY <3>3 DEF DeleteEntry
    <3> QED
      BY <1>6, <3>1, <3>2, <3>3
  <2> QED
    BY <2>1
<1>7. CASE UpdateVisaType(h) \/ DeleteVisaType(h)
  <2>1. PICK s : /\ s = "deleted" => binding # "active"
                 /\ BeginOffer(h, [op |-> "saveVisaType", state |-> s])
    <3>1. CASE UpdateVisaType(h)
      BY <3>1 DEF UpdateVisaType
    <3>2. CASE DeleteVisaType(h)
      BY <3>2 DEF DeleteVisaType
    <3> QED
      BY <1>7, <3>1, <3>2
  <2> QED
    BY <2>1
<1> QED
  BY <1>1, <1>2, <1>3, <1>4, <1>5, <1>6, <1>7 DEF SalesBegins

\* A write to the forms leaves a live template live.
LEMMA TemplatesStayLive ==
  ASSUME CatOK, NEW h \in CatRequests, FormsWrites(h)
  PROVE  LiveTemplates \subseteq LiveTemplates'
<1>1. template \in [Templates -> {"none", "live", "deleted"}]
  BY DEF CatOK, FormRows
<1>2. UNCHANGED template \/ \E t : template' = [template EXCEPT ![t] = "live"]
  BY DEF FormsWrites, StoreTemplate, StoreDuplicate, Backfill, StoreSection, SaveSection, RemoveSection,
         StoreField, SaveField, RemoveField, MoveField, forms
<1> QED
  BY <1>1, <1>2 DEF LiveTemplates

LEMMA AloneInForms ==
  ASSUME CatOK, CatAlone, NEW h \in CatRequests, ServeForms(h), UNCHANGED <<offering, catFaults>>
  PROVE  CatAlone'
<1>1. CASE FormsBegins(h)
  BY <1>1, FormsChecked, AloneBegins DEF BeginForms
<1>2. CASE FormsWrites(h)
  <2>1. Continue(h, NoCall) /\ call[h] # NoCall
    <3>1. Continue(h, NoCall)
      BY <1>2 DEF FormsWrites, StoreTemplate, StoreDuplicate, Backfill, StoreSection, SaveSection, RemoveSection,
                  StoreField, SaveField, RemoveField, MoveField, End
    <3>2. call[h].op # "idle"
      BY <1>2 DEF FormsWrites, StoreTemplate, StoreDuplicate, Backfill, StoreSection, SaveSection, RemoveSection,
                  StoreField, SaveField, RemoveField, MoveField
    <3> QED
      BY <3>1, <3>2 DEF NoCall
  <2>2. binding' = binding /\ bound' = bound
    BY DEF offering, sales
  <2>3. ~raced => BoundIsLive'
    BY <1>2, <2>2, TemplatesStayLive DEF CatAlone, BoundIsLive
  <2> QED
    BY <2>1, <2>3, AloneGoes
<1> QED
  BY <1>1, <1>2, FormsSteps

LEMMA AloneInSales ==
  ASSUME CatOK, CatAlone, NEW h \in CatRequests, ServeOffer(h)
  PROVE  CatAlone'
<1>1. ~raced => BoundIsLive /\ Checked(call[h])
  BY DEF CatAlone
<1>2. CASE SalesBegins(h)
  BY <1>2, SalesChecked, AloneBegins DEF BeginOffer
<1>3. ASSUME NEW c, Continue(h, c), call[h] # NoCall, c = NoCall \/ c.op \in {"ensurePage", "createPage"},
             UNCHANGED forms, ~raced => bound' \in LiveTemplates \/ ~Live(binding')
      PROVE  CatAlone'
  BY <1>3, AloneGoes DEF BoundIsLive, LiveTemplates, forms
<1>4. CASE StoreBinding(h)
  <2>1. call[h].op = "createBinding" /\ call[h] # NoCall /\ UNCHANGED forms
    BY <1>4 DEF StoreBinding, NoCall
  <2>2. CASE bound' = call[h].template /\ Continue(h, [op |-> "ensurePage"])
    BY <1>1, <1>3, <2>1, <2>2 DEF Checked
  <2>3. CASE UNCHANGED <<binding, bound>> /\ Continue(h, NoCall)
    BY <1>1, <1>3, <2>1, <2>3 DEF BoundIsLive
  <2> QED
    BY <1>4, <2>2, <2>3 DEF StoreBinding, End
<1>5. CASE SaveBinding(h)
  <2>1. call[h].op = "updateBinding" /\ call[h] # NoCall /\ UNCHANGED forms /\ Continue(h, NoCall)
    BY <1>5 DEF SaveBinding, NoCall, EndOffer, End
  <2>2. ~raced => bound' \in LiveTemplates \/ ~Live(binding')
    BY <1>1, <1>5, <2>1 DEF SaveBinding, Checked, BoundIsLive
  <2> QED
    BY <1>3, <2>1, <2>2
<1>6. CASE RemoveBinding(h)
  <2>1. call[h] # NoCall /\ UNCHANGED forms /\ Continue(h, NoCall) /\ ~Live(binding')
    BY <1>6 DEF RemoveBinding, NoCall, EndOffer, End, Live
  <2> QED
    BY <1>3, <2>1
<1>7. CASE StoreNationalities(h)
  <2>1. /\ call[h].op = "bulkUpsert" /\ call[h] # NoCall /\ UNCHANGED forms
        /\ Continue(h, [op |-> "ensurePage"]) /\ bound' = call[h].template
    BY <1>7 DEF StoreNationalities, NoCall
  <2> QED
    BY <1>1, <1>3, <2>1 DEF Checked
<1>8. CASE \/ FindPage(h) \/ StorePage(h) \/ SavePage(h)
           \/ StoreFee(h) \/ SaveFee(h) \/ RemoveFee(h) \/ StoreCopies(h)
           \/ SaveEntry(h) \/ SaveVisaType(h) \/ SaveCountry(h) \/ CatRequestFails(h)
  <2>1. CASE FindPage(h) \/ StoreFee(h)
    <3>1. UNCHANGED <<forms, binding, bound>> /\ call[h] # NoCall
      BY <2>1 DEF FindPage, StoreFee, offering, sales, NoCall
    <3>2. \E c : Continue(h, c) /\ (c = NoCall \/ c.op \in {"ensurePage", "createPage"})
      BY <2>1 DEF FindPage, StoreFee, End
    <3> QED
      BY <1>1, <1>3, <3>1, <3>2 DEF BoundIsLive
  <2>2. CASE ~(FindPage(h) \/ StoreFee(h))
    <3>1. End(h) /\ UNCHANGED <<forms, binding, bound>>
      BY <1>8, <2>2 DEF StorePage, SavePage, SaveFee, RemoveFee, StoreCopies, SaveEntry, SaveVisaType, SaveCountry,
                        CatRequestFails, EndOffer, offering, sales
    <3>2. call[h] # NoCall
      BY <1>8, <2>2 DEF StorePage, SavePage, SaveFee, RemoveFee, StoreCopies, SaveEntry, SaveVisaType, SaveCountry,
                        CatRequestFails, NoCall
    <3> QED
      BY <1>1, <1>3, <3>1, <3>2 DEF BoundIsLive, End
  <2> QED
    BY <2>1, <2>2
<1>9. CASE RemoveTemplate(h)
  <2>1. /\ call[h].op = "deleteTemplate" /\ call[h] # NoCall /\ Continue(h, NoCall)
        /\ template' = [template EXCEPT ![call[h].template] = "deleted"]
        /\ binding' = (IF call[h].flag /\ Live(binding) THEN "deleted" ELSE binding) /\ bound' = bound
    BY <1>9 DEF RemoveTemplate, RemoveForm, NoCall, End
  <2>2. ASSUME ~raced, Live(binding') PROVE bound' \in LiveTemplates'
    <3>1. Live(binding) /\ ~call[h].flag
      BY <2>1, <2>2 DEF Live
    <3>2. bound # call[h].template /\ bound \in LiveTemplates
      BY <1>1, <2>1, <2>2, <3>1 DEF Checked, BoundIsLive
    <3> QED
      BY <2>1, <3>2 DEF LiveTemplates, CatOK, FormRows
  <2> QED
    BY <2>1, <2>2, AloneGoes DEF BoundIsLive
<1> QED
  BY <1>2, <1>4, <1>5, <1>6, <1>7, <1>8, <1>9, SalesSteps DEF SalesWrites

LEMMA AloneStarts == CatInit => CatAlone
BY NothingChecked DEF CatInit, FormsInit, OfferingInit, CatAlone, BoundIsLive, Live

LEMMA AloneStep == CatOK /\ CatAlone /\ [CatNext]_catVars => CatAlone'
<1> SUFFICES ASSUME CatOK, CatAlone, [CatNext]_catVars PROVE CatAlone'
  OBVIOUS
<1>1. ASSUME NEW h \in CatRequests, ServeForms(h), UNCHANGED <<offering, catFaults>> PROVE CatAlone'
  BY <1>1, AloneInForms
<1>2. ASSUME NEW h \in CatRequests, ServeOffer(h) PROVE CatAlone'
  BY <1>2, AloneInSales
<1>3. CASE Apply \/ TimePasses \/ UNCHANGED catVars
  BY <1>3 DEF Apply, TimePasses, catVars, formVars, forms, offering, sales, CatAlone, Checked, BoundIsLive,
              LiveFields, LiveTemplates, LiveFees
<1> QED
  BY <1>1, <1>2, <1>3 DEF CatNext

\* One request at a time: what the selection offers is quoted and accepted, and the form of
\* the application can be shown: a binding keeps a live template (deleting a template with
\* force takes its bindings, and no binding is made for a template that is gone).
THEOREM OfferedIsBooked == CatSpec => []OfferedCanBeBooked
<1>1. CatAlone => OfferedCanBeBooked
  BY DEF CatAlone, BoundIsLive, OfferedCanBeBooked, DestinationListed, EntryListed, Quoted, Accepted, FormShown,
         BindingOpen, Live
<1> QED
  BY <1>1, CatStarts, CatStep, AloneStarts, AloneStep, PTL DEF CatSpec

\* Only three requests delete fields.
LEMMA FieldsAreKept ==
  ASSUME CatOK, NEW h \in CatRequests,
         FormsBegins(h) \/ FormsWrites(h), ~RemoveSection(h), ~RemoveField(h)
  PROVE  FieldsKept
<1>1. CASE FormsBegins(h)
  BY <1>1, FormsRequest DEF BeginForms, forms, FieldsKept
<1>2. CASE FormsWrites(h)
  BY <1>2, StoreKeeps, DuplicateKeeps, BackfillKeeps, SectionKeeps, FieldKeeps DEF FormsWrites
<1> QED
  BY <1>1, <1>2

SystemFieldGoes ==
  \E f \in Fields : /\ field[f].system /\ ~field[f].gone /\ field'[f].gone
                    /\ template'[section[field[f].in].of] # "deleted"

\* One request at a time: a system field is deleted only with its whole template (the checks
\* in TemplateSectionsService.delete and TemplateFieldsService.delete still hold at the write).
THEOREM SystemFieldsStay == CatSpec => SystemFieldsGuarded
<1>1. ASSUME CatOK, CatAlone, [CatNext]_catVars, ~raced' PROVE ~SystemFieldGoes
  <2>1. ASSUME FieldsKept PROVE ~SystemFieldGoes
    BY <2>1 DEF FieldsKept, SystemFieldGoes
  <2>2. \A h \in CatRequests : End(h) => Checked(call[h]) /\ CatCallOK(call[h])
    BY <1>1 DEF End, Continue, CatAlone, CatOK, CatRequestsOK
  <2>3. \A f \in Fields : field[f].system /\ ~field[f].gone /\ field[f].in \in Sections => f \in LiveFields
    BY DEF LiveFields, Sections
  <2>4. ASSUME NEW h \in CatRequests, RemoveSection(h) PROVE ~SystemFieldGoes
    <3>1. /\ call[h].op = "deleteSection" /\ End(h)
          /\ field' = [f \in Fields |-> IF field[f].in = call[h].section THEN [field[f] EXCEPT !.gone = TRUE] ELSE field[f]]
      BY <2>4 DEF RemoveSection
    <3>2. call[h].section \in Sections /\ \A f \in LiveFields : field[f].in = call[h].section => ~field[f].system
      BY <2>2, <3>1 DEF Checked, CatCallOK, FormsCallOK
    <3> QED
      BY <2>3, <3>1, <3>2 DEF SystemFieldGoes
  <2>5. ASSUME NEW h \in CatRequests, RemoveField(h) PROVE ~SystemFieldGoes
    <3>1. call[h].op = "deleteField" /\ End(h) /\ field' = [field EXCEPT ![call[h].field].gone = TRUE]
      BY <2>5 DEF RemoveField
    <3>2. ~field[call[h].field].system
      BY <2>2, <3>1 DEF Checked
    <3>3. \A f \in Fields : f # call[h].field => field'[f] = field[f]
      BY <1>1, <3>1 DEF CatOK, FormRows
    <3> QED
      BY <3>2, <3>3 DEF SystemFieldGoes
  <2>6. ASSUME NEW h \in CatRequests, RemoveTemplate(h) PROVE ~SystemFieldGoes
    <3>1. call[h].op = "deleteTemplate" /\ End(h) /\ RemoveForm(call[h].template, call[h].sections)
      BY <2>6 DEF RemoveTemplate
    <3>2. call[h].template \in Templates /\ \A s \in call[h].sections : section[s].of = call[h].template
      BY <2>2, <3>1 DEF Checked, CatCallOK, FormsCallOK
    <3>3. template'[call[h].template] = "deleted"
      BY <1>1, <3>1, <3>2 DEF RemoveForm, CatOK, FormRows
    <3>4. \A f \in Fields : field'[f].gone => field[f].gone \/ field[f].in \in call[h].sections
      BY <3>1 DEF RemoveForm
    <3> QED
      BY <3>2, <3>3, <3>4 DEF SystemFieldGoes
  <2>7. ASSUME NEW h \in CatRequests, ServeForms(h), ~RemoveSection(h), ~RemoveField(h) PROVE FieldsKept
    BY <1>1, <2>7, FormsSteps, FieldsAreKept
  <2>8. ASSUME NEW h \in CatRequests, ServeOffer(h), ~RemoveTemplate(h) PROVE FieldsKept
    <3>1. UNCHANGED forms
      <4>1. CASE SalesBegins(h)
        BY <1>1, <4>1, SalesRequest DEF BeginOffer
      <4>2. CASE SalesWrites(h)
        BY <1>1, <4>2, BindingWrites, PageWrites, FeeWrites, ReferenceWrites DEF SalesWrites
      <4>3. CASE CatRequestFails(h)
        BY <4>3 DEF CatRequestFails
      <4> QED
        BY <2>8, <4>1, <4>2, <4>3, SalesSteps
    <3> QED
      BY <3>1 DEF forms, FieldsKept
  <2>9. CASE Apply \/ TimePasses \/ UNCHANGED catVars
    BY <2>1, <2>9 DEF Apply, TimePasses, catVars, formVars, forms, FieldsKept
  <2> QED
    BY <1>1, <2>1, <2>4, <2>5, <2>6, <2>7, <2>8, <2>9 DEF CatNext
<1>2. CatOK /\ CatAlone /\ [CatNext]_catVars =>
        [~raced' => \A f \in Fields :
           field[f].system /\ ~field[f].gone /\ field'[f].gone =>
             template'[section[field[f].in].of] = "deleted"]_catVars
  BY <1>1 DEF SystemFieldGoes
<1> QED
  BY <1>2, CatStarts, CatStep, AloneStarts, AloneStep, PTL DEF CatSpec, SystemFieldsGuarded

\* The rows under an offer, and its form.
Footing == <<visaType, entry, template>>

\* Only three requests of all change a visa type, an entry, or take a form.
LEMMA FootingStays ==
  ASSUME CatOK, NEW h \in CatRequests, ServeOffer(h), ~SaveVisaType(h), ~SaveEntry(h), ~RemoveTemplate(h)
  PROVE  UNCHANGED Footing
<1>1. CASE SalesBegins(h)
  <2>1. UNCHANGED <<forms, offering>>
    BY <1>1, SalesRequest DEF BeginOffer
  <2> QED
    BY <2>1 DEF forms, offering, product, Footing
<1>2. CASE SalesWrites(h)
  <2>1. UNCHANGED forms
    BY <1>2, BindingWrites, PageWrites, FeeWrites, ReferenceWrites DEF SalesWrites
  <2>2. UNCHANGED <<visaType, entry>>
    BY <1>2 DEF SalesWrites, StoreBinding, SaveBinding, RemoveBinding, StoreNationalities, FindPage, StorePage,
                SavePage, StoreFee, SaveFee, RemoveFee, StoreCopies, SaveCountry, offering, product
  <2> QED
    BY <2>1, <2>2 DEF forms, Footing
<1>3. CASE CatRequestFails(h)
  BY <1>3 DEF CatRequestFails, forms, offering, product, Footing
<1> QED
  BY <1>1, <1>2, <1>3, SalesSteps

\* Two requests that overlapped have done so for good.
LEMMA RacedStays == ASSUME CatOK, [CatNext]_catVars, ~raced' PROVE ~raced
<1>1. ASSUME NEW h \in CatRequests, NEW c, Begin(h, c) \/ Continue(h, c) PROVE ~raced
  BY <1>1 DEF Begin, Continue
<1>2. ASSUME NEW h \in CatRequests, ServeForms(h) PROVE ~raced
  <2>1. CASE FormsBegins(h)
    BY <1>1, <2>1, FormsRequest DEF BeginForms
  <2>2. CASE FormsWrites(h)
    BY <1>1, <2>2 DEF FormsWrites, StoreTemplate, StoreDuplicate, Backfill, StoreSection, SaveSection, RemoveSection,
                      StoreField, SaveField, RemoveField, MoveField, End
  <2> QED
    BY <1>2, <2>1, <2>2, FormsSteps
<1>3. ASSUME NEW h \in CatRequests, ServeOffer(h) PROVE ~raced
  <2>1. CASE SalesBegins(h)
    BY <1>1, <2>1, SalesRequest DEF BeginOffer
  <2>2. CASE SalesWrites(h)
    BY <1>1, <2>2 DEF SalesWrites, StoreBinding, SaveBinding, RemoveBinding, StoreNationalities, FindPage, StorePage,
                SavePage, StoreFee, SaveFee, RemoveFee, StoreCopies, SaveCountry, SaveEntry, SaveVisaType,
                EndOffer, End
  <2>3. CASE RemoveTemplate(h)
    BY <1>1, <2>3 DEF RemoveTemplate, EndOffer, End
  <2>4. CASE CatRequestFails(h)
    BY <1>1, <2>4 DEF CatRequestFails, End
  <2> QED
    BY <1>3, <2>1, <2>2, <2>3, <2>4, SalesSteps
<1>4. CASE Apply \/ TimePasses \/ UNCHANGED catVars
  BY <1>4 DEF Apply, TimePasses, catVars, formVars
<1> QED
  BY <1>2, <1>3, <1>4 DEF CatNext

SparesOffers ==
  \A n \in Nationalities, e \in Entries :
    OnOffer(n, e) /\ ~OnOffer(n, e)' =>
      /\ visaType' # "deleted" /\ entry'[e] # "deleted"
      /\ bound \notin LiveTemplates' => LiveFees' = {}

\* What an offer stands on.
Offered(e) ==
  /\ binding = "active" /\ visaType = "active" /\ entry[e] = "active"
  /\ \E x \in LiveFees : x[2] = e

LEMMA OfferStands == ASSUME NEW n \in Nationalities, NEW e \in Entries, OnOffer(n, e) PROVE Offered(e)
<1>1. SellableFees \subseteq LiveFees
  BY DEF SellableFees, LiveFees, Live
<1>2. CASE DestinationListed(n) /\ EntryListed(n, e)
  <2>1. <<n, e>> \in SellableFees /\ <<n, e>>[2] = e
    BY <1>2 DEF EntryListed
  <2> QED
    BY <1>1, <1>2, <2>1 DEF EntryListed, BindingOpen, Offered
<1>3. CASE OnGrid /\ n \in Eligible /\ e \in CardEntries
  BY <1>1, <1>3 DEF OnGrid, CardEntries, BindingSells, BindingOpen, Offered
<1> QED
  BY <1>2, <1>3 DEF OnOffer

\* One request at a time: an offer does not end because the visa type or the entry under it
\* was deleted, and with its form all its fees go (what VisaTypesService.remove and
\* removeEntry looked at is still so when they write; templates.remove is one transaction).
THEOREM OffersAreSpared == CatSpec => DeletionsSpareOffers
<1>1. ASSUME CatOK, CatAlone, [CatNext]_catVars, ~raced' PROVE SparesOffers
  <2>1. \A h \in CatRequests : End(h) => Checked(call[h]) /\ CatCallOK(call[h]) /\ BoundIsLive
    BY <1>1, RacedStays DEF CatAlone, CatOK, CatRequestsOK
  <2>2. ASSUME UNCHANGED <<visaType, entry>>, bound \in LiveTemplates => bound \in LiveTemplates'
        PROVE  SparesOffers
    <3>1. SUFFICES ASSUME NEW n \in Nationalities, NEW e \in Entries, OnOffer(n, e)
                   PROVE  visaType' # "deleted" /\ entry'[e] # "deleted" /\ bound \in LiveTemplates'
      BY DEF SparesOffers
    <3>2. Offered(e) /\ BoundIsLive
      BY <1>1, <3>1, OfferStands, RacedStays DEF CatAlone
    <3> QED
      BY <2>2, <3>2 DEF Offered, BoundIsLive, Live
  <2>3. ASSUME NEW h \in CatRequests, SaveVisaType(h) PROVE SparesOffers
    <3>1. SUFFICES ASSUME NEW n \in Nationalities, NEW e \in Entries, OnOffer(n, e)
                   PROVE  visaType' # "deleted" /\ entry'[e] # "deleted" /\ bound \in LiveTemplates'
      BY DEF SparesOffers
    <3>2. /\ call[h].op = "saveVisaType" /\ End(h) /\ UNCHANGED <<forms, entry>>
          /\ visaType' = IF visaType = "deleted" THEN visaType ELSE call[h].state
      BY <2>3 DEF SaveVisaType, EndOffer
    <3>3. Offered(e)
      BY <3>1, OfferStands
    <3>4. call[h].state # "deleted" /\ bound \in LiveTemplates
      BY <2>1, <3>2, <3>3 DEF Checked, Offered, BoundIsLive, Live
    <3> QED
      BY <3>2, <3>3, <3>4 DEF Offered, forms, LiveTemplates
  <2>4. ASSUME NEW h \in CatRequests, SaveEntry(h) PROVE SparesOffers
    <3>1. SUFFICES ASSUME NEW n \in Nationalities, NEW e \in Entries, OnOffer(n, e)
                   PROVE  visaType' # "deleted" /\ entry'[e] # "deleted" /\ bound \in LiveTemplates'
      BY DEF SparesOffers
    <3>2. /\ call[h].op = "saveEntry" /\ End(h) /\ UNCHANGED <<forms, visaType>>
          /\ entry' = IF entry[call[h].entry] = "deleted" THEN entry
                      ELSE [entry EXCEPT ![call[h].entry] = call[h].state]
      BY <2>4 DEF SaveEntry, EndOffer
    <3>3. Offered(e)
      BY <3>1, OfferStands
    <3>4. call[h].entry = e => call[h].state # "deleted"
      BY <2>1, <3>2, <3>3 DEF Checked, Offered
    <3>5. bound \in LiveTemplates /\ entry \in [Entries -> RowStates]
      BY <1>1, <2>1, <3>2, <3>3 DEF Offered, BoundIsLive, Live, CatOK, OfferingTypeOK
    <3>6. entry'[e] # "deleted"
      BY <3>2, <3>3, <3>4, <3>5 DEF Offered
    <3> QED
      BY <3>2, <3>3, <3>5, <3>6 DEF Offered, forms, LiveTemplates
  <2>5. ASSUME NEW h \in CatRequests, RemoveTemplate(h) PROVE SparesOffers
    <3>1. SUFFICES ASSUME NEW n \in Nationalities, NEW e \in Entries, OnOffer(n, e)
                   PROVE  /\ visaType' # "deleted" /\ entry'[e] # "deleted"
                          /\ bound \notin LiveTemplates' => LiveFees' = {}
      BY DEF SparesOffers
    <3>2. /\ call[h].op = "deleteTemplate" /\ End(h) /\ UNCHANGED <<visaType, entry>>
          /\ template' = [template EXCEPT ![call[h].template] = "deleted"]
          /\ fee' = IF call[h].flag THEN Deleted(Slots) ELSE fee
      BY <2>5 DEF RemoveTemplate, RemoveForm
    <3>3. Offered(e)
      BY <3>1, OfferStands
    <3>4. bound \in LiveTemplates /\ (bound = call[h].template => call[h].flag)
      BY <2>1, <3>2, <3>3 DEF Checked, Offered, BoundIsLive, Live
    <3>5. bound # call[h].template => bound \in LiveTemplates'
      BY <3>2, <3>4 DEF LiveTemplates
    <3>6. fee' = Deleted(Slots) => LiveFees' = {}
      BY DEF Deleted, LiveFees, Live
    <3> QED
      BY <3>2, <3>3, <3>4, <3>5, <3>6 DEF Offered
  <2>6. ASSUME NEW h \in CatRequests, ServeForms(h), UNCHANGED <<offering, catFaults>> PROVE SparesOffers
    <3>1. LiveTemplates \subseteq LiveTemplates'
      <4>1. CASE FormsBegins(h)
        BY <1>1, <4>1, FormsRequest DEF BeginForms, forms, LiveTemplates
      <4>2. CASE FormsWrites(h)
        BY <1>1, <4>2, TemplatesStayLive
      <4> QED
        BY <2>6, <4>1, <4>2, FormsSteps
    <3>2. UNCHANGED <<visaType, entry>>
      BY <2>6 DEF offering, product
    <3> QED
      BY <2>2, <3>1, <3>2
  <2>7. ASSUME NEW h \in CatRequests, ServeOffer(h), ~SaveVisaType(h), ~SaveEntry(h), ~RemoveTemplate(h)
        PROVE  SparesOffers
    BY <1>1, <2>2, <2>7, FootingStays DEF Footing, LiveTemplates
  <2>8. CASE Apply \/ TimePasses \/ UNCHANGED catVars
    BY <2>2, <2>8 DEF Apply, TimePasses, catVars, formVars, forms, offering, product, LiveTemplates
  <2> QED
    BY <1>1, <2>3, <2>4, <2>5, <2>6, <2>7, <2>8 DEF CatNext
<1>2. CatOK /\ CatAlone /\ [CatNext]_catVars =>
        [~raced' => \A n \in Nationalities, e \in Entries :
           OnOffer(n, e) /\ ~OnOffer(n, e)' =>
             /\ visaType' # "deleted" /\ entry'[e] # "deleted"
             /\ bound \notin LiveTemplates' => LiveFees' = {}]_catVars
  BY <1>1 DEF SparesOffers
<1> QED
  BY <1>2, CatStarts, CatStep, AloneStarts, AloneStep, PTL DEF CatSpec, DeletionsSpareOffers

-----------------------------------------------------------------------------
(* Content: what is found under a deleted category was filed too late.        *)

ShelvesOK ==
  /\ question \in [Questions -> [state : RowState, in : Filing, published : BOOLEAN]]
  /\ lesson \in [Articles -> [state : RowState, in : Filing, slug : Slugs, published : BOOLEAN]]
  /\ DOMAIN faqCategory = Categories /\ DOMAIN helpCategory = Categories

\* What a request is about to write; the system categories are not about to go.
DraftOK(d) ==
  /\ d.op \in {"deleteFaqCategory", "deleteHelpCategory"} => d.of \in Categories \ SystemCategories
  /\ d.op = "updateQuestion" => d.of \in Questions /\ d.in \in Filing /\ d.published \in BOOLEAN
  /\ d.op \in {"createArticle", "updateArticle"} =>
       d.of \in Articles /\ d.in \in Filing /\ d.slug \in Slugs /\ d.published \in BOOLEAN

DraftsOK == DOMAIN draft = SiteRequests /\ \A h \in SiteRequests : DraftOK(draft[h])

RescueStays == faqCategory[Rescue] # "deleted" /\ helpCategory[Rescue] # "deleted"

\* A row filed under what is deleted is late; and so is one that a deletion will leave
\* behind because it has counted nothing.
Straggler(e, c, category, op) ==
  \/ c # Unfiled /\ category[c] = "deleted"
  \/ \E h \in SiteRequests : draft[h].op = op /\ ~draft[h].move /\ draft[h].of = c

QuestionsLate ==
  \A q \in Questions :
    question[q].state = "live" /\ Straggler(q, question[q].in, faqCategory, "deleteFaqCategory") => q \in late

ArticlesLate ==
  \A a \in Articles :
    lesson[a].state = "live" /\ Straggler(a, lesson[a].in, helpCategory, "deleteHelpCategory") => a \in late

Shelved == ShelvesOK /\ DraftsOK /\ RescueStays /\ QuestionsLate /\ ArticlesLate

LEMMA InitShelved == ContentInit => Shelved
<1> SUFFICES ASSUME ContentInit PROVE Shelved
  OBVIOUS
<1>1. ShelvesOK
  <2>1. \A s \in Slugs : [state |-> "none", in |-> Unfiled, slug |-> s, published |-> FALSE]
          \in [state : RowState, in : Filing, slug : Slugs, published : BOOLEAN]
    BY DEF RowState, Filing
  <2>2. lesson \in [Articles -> [state : RowState, in : Filing, slug : Slugs, published : BOOLEAN]]
    <3>1. {[state |-> "none", in |-> Unfiled, slug |-> s, published |-> FALSE] : s \in Slugs}
            \subseteq [state : RowState, in : Filing, slug : Slugs, published : BOOLEAN]
      BY <2>1
    <3>2. lesson \in [Articles ->
            {[state |-> "none", in |-> Unfiled, slug |-> s, published |-> FALSE] : s \in Slugs}]
      BY DEF ContentInit
    <3> QED
      BY <3>1, <3>2, Zenon
  <2>3. question \in [Questions -> [state : RowState, in : Filing, published : BOOLEAN]]
    BY DEF ContentInit, RowState, Filing
  <2> QED
    BY <2>2, <2>3 DEF ContentInit, ShelvesOK, Seeded
<1>2. DraftsOK
  BY DEF ContentInit, DraftsOK, DraftOK, NoDraft
<1>3. RescueStays
  BY ContentAssumption DEF ContentInit, RescueStays, Seeded
<1>4. QuestionsLate
  BY DEF ContentInit, QuestionsLate
<1>5. ArticlesLate
  <2>1. \A a \in Articles : lesson[a].state = "none"
    BY DEF ContentInit
  <2> QED
    BY <2>1 DEF ArticlesLate
<1> QED
  BY <1>1, <1>2, <1>3, <1>4, <1>5 DEF Shelved

-----------------------------------------------------------------------------
(* Requests that begin or end and leave the shelves alone.                    *)

LEMMA PlanKeeps ==
  ASSUME Shelved, NEW h \in SiteRequests, NEW d, DraftOK(d), Plan(h, d), UNCHANGED <<faqVars, helpVars, late>>,
         d.op = "deleteFaqCategory" /\ ~d.move => InUse(question, d.of) = {},
         d.op = "deleteHelpCategory" /\ ~d.move => InUse(lesson, d.of) = {}
  PROVE  Shelved'
<1>1. draft'[h] = d /\ \A g \in SiteRequests : g # h => draft'[g] = draft[g]
  BY DEF Plan, Shelved, DraftsOK
<1>2. DraftsOK'
  BY <1>1 DEF Plan, Shelved, DraftsOK, DraftOK
<1>3. ShelvesOK' /\ RescueStays'
  BY DEF Shelved, ShelvesOK, RescueStays, faqVars, helpVars
<1>4. QuestionsLate'
  <2>1. SUFFICES ASSUME NEW q \in Questions, question[q].state = "live",
                        Straggler(q, question[q].in, faqCategory, "deleteFaqCategory")'
                 PROVE  q \in late
    BY DEF QuestionsLate, Straggler, faqVars
  <2>2. d.op = "deleteFaqCategory" /\ ~d.move => d.of # question[q].in
    BY <2>1 DEF InUse, Shelved, ShelvesOK
  <2>3. Straggler(q, question[q].in, faqCategory, "deleteFaqCategory")
    BY <1>1, <2>1, <2>2 DEF Straggler, faqVars
  <2> QED
    BY <2>1, <2>3 DEF Shelved, QuestionsLate
<1>5. ArticlesLate'
  <2>1. SUFFICES ASSUME NEW a \in Articles, lesson[a].state = "live",
                        Straggler(a, lesson[a].in, helpCategory, "deleteHelpCategory")'
                 PROVE  a \in late
    BY DEF ArticlesLate, Straggler, helpVars
  <2>2. d.op = "deleteHelpCategory" /\ ~d.move => d.of # lesson[a].in
    BY <2>1 DEF InUse, Shelved, ShelvesOK
  <2>3. Straggler(a, lesson[a].in, helpCategory, "deleteHelpCategory")
    BY <1>1, <2>1, <2>2 DEF Straggler, helpVars
  <2> QED
    BY <2>1, <2>3 DEF Shelved, ArticlesLate
<1> QED
  BY <1>2, <1>3, <1>4, <1>5 DEF Shelved

LEMMA CloseIs ==
  ASSUME Shelved, NEW h \in SiteRequests, Close(h)
  PROVE  /\ draft'[h] = NoDraft /\ \A g \in SiteRequests : g # h => draft'[g] = draft[g]
         /\ DraftsOK'
<1>1. draft'[h] = NoDraft /\ \A g \in SiteRequests : g # h => draft'[g] = draft[g]
  BY DEF Close, Shelved, DraftsOK
<1> QED
  BY <1>1 DEF Close, Shelved, DraftsOK, DraftOK, NoDraft

\* A request that ends makes no straggler where the shelf stays as it is.
LEMMA QuestionsStay ==
  ASSUME Shelved, UNCHANGED question,
         \A c \in Categories : faqCategory'[c] = "deleted" => faqCategory[c] = "deleted",
         \A g \in SiteRequests : draft'[g] = draft[g] \/ draft'[g] = NoDraft,
         \A q \in Questions : q \in late => q \in late'
  PROVE  QuestionsLate'
<1>1. SUFFICES ASSUME NEW q \in Questions, question[q].state = "live",
                      Straggler(q, question[q].in, faqCategory, "deleteFaqCategory")'
               PROVE  q \in late
  BY DEF QuestionsLate, Straggler
<1>2. question[q].in \in Filing
  BY DEF Shelved, ShelvesOK
<1>3. Straggler(q, question[q].in, faqCategory, "deleteFaqCategory")
  BY <1>1, <1>2 DEF Straggler, NoDraft, Filing
<1> QED
  BY <1>1, <1>3 DEF Shelved, QuestionsLate

LEMMA ArticlesStay ==
  ASSUME Shelved, UNCHANGED lesson,
         \A c \in Categories : helpCategory'[c] = "deleted" => helpCategory[c] = "deleted",
         \A g \in SiteRequests : draft'[g] = draft[g] \/ draft'[g] = NoDraft,
         \A a \in Articles : a \in late => a \in late'
  PROVE  ArticlesLate'
<1>1. SUFFICES ASSUME NEW a \in Articles, lesson[a].state = "live",
                      Straggler(a, lesson[a].in, helpCategory, "deleteHelpCategory")'
               PROVE  a \in late
  BY DEF ArticlesLate, Straggler
<1>2. lesson[a].in \in Filing
  BY DEF Shelved, ShelvesOK
<1>3. Straggler(a, lesson[a].in, helpCategory, "deleteHelpCategory")
  BY <1>1, <1>2 DEF Straggler, NoDraft, Filing
<1> QED
  BY <1>1, <1>3 DEF Shelved, ArticlesLate

LEMMA CloseKeeps ==
  ASSUME Shelved, NEW h \in SiteRequests, Close(h), UNCHANGED <<faqVars, helpVars, late>>
  PROVE  Shelved'
<1>1. DraftsOK' /\ \A g \in SiteRequests : draft'[g] = draft[g] \/ draft'[g] = NoDraft
  BY CloseIs
<1>2. ShelvesOK' /\ RescueStays'
  BY DEF Shelved, ShelvesOK, RescueStays, faqVars, helpVars
<1>3. QuestionsLate' /\ ArticlesLate'
  BY <1>1, QuestionsStay, ArticlesStay DEF faqVars, helpVars
<1> QED
  BY <1>1, <1>2, <1>3 DEF Shelved

-----------------------------------------------------------------------------
(* The questions.                                                             *)

LEMMA SaveFaqCategoryKeeps ==
  ASSUME Shelved, NEW h \in SiteRequests, SaveFaqCategory(h)
  PROVE  Shelved'
<1>1. /\ faqCategory' = [faqCategory EXCEPT ![draft[h].of] = "live"] /\ Close(h)
      /\ UNCHANGED <<question, helpVars, late>>
  BY DEF SaveFaqCategory
<1>2. DraftsOK' /\ \A g \in SiteRequests : draft'[g] = draft[g] \/ draft'[g] = NoDraft
  BY <1>1, CloseIs
<1>3. \A c \in Categories : faqCategory'[c] = faqCategory[c] \/ faqCategory'[c] = "live"
  BY <1>1 DEF Shelved, ShelvesOK
<1>4. Rescue \in Categories
  BY ContentAssumption
<1>5. ShelvesOK' /\ RescueStays'
  BY <1>1, <1>3, <1>4 DEF Shelved, ShelvesOK, RescueStays, helpVars
<1>6. QuestionsLate' /\ ArticlesLate'
  BY <1>1, <1>2, <1>3, QuestionsStay, ArticlesStay DEF helpVars
<1> QED
  BY <1>2, <1>5, <1>6 DEF Shelved

\* What was counted is moved; what came since is late, or was moved as well.
LEMMA DropFaqCategoryKeeps ==
  ASSUME Shelved, NEW h \in SiteRequests, DropFaqCategory(h)
  PROVE  Shelved'
<1> DEFINE d == draft[h]
           moved == IF d.move THEN InUse(question, d.of) ELSE {}
<1>1. /\ d.op = "deleteFaqCategory"
      /\ question' = [q \in Questions |-> [question[q] EXCEPT !.in = IF q \in moved THEN Rescue ELSE @]]
      /\ faqCategory' = [faqCategory EXCEPT ![d.of] = "deleted"]
      /\ late' = late \ moved /\ Close(h) /\ UNCHANGED helpVars
  BY DEF DropFaqCategory
<1>2. d.of \in Categories /\ d.of # Rescue /\ Rescue \in Categories
  BY <1>1, ContentAssumption DEF Shelved, DraftsOK, DraftOK
<1>3. /\ draft'[h] = NoDraft /\ DraftsOK'
      /\ \A g \in SiteRequests : draft'[g] = draft[g] \/ draft'[g] = NoDraft
  BY <1>1, CloseIs
<1>4. /\ faqCategory'[d.of] = "deleted" /\ DOMAIN faqCategory' = Categories
      /\ \A c \in Categories : c # d.of => faqCategory'[c] = faqCategory[c]
  BY <1>1, <1>2 DEF Shelved, ShelvesOK
<1>5. moved \subseteq Questions
  BY DEF InUse, Shelved, ShelvesOK
<1>6. ASSUME NEW q \in Questions
      PROVE  /\ question'[q].state = question[q].state
             /\ question'[q].in = IF q \in moved THEN Rescue ELSE question[q].in
             /\ question'[q] \in [state : RowState, in : Filing, published : BOOLEAN]
  <2>1. question[q] \in [state : RowState, in : Filing, published : BOOLEAN]
    BY DEF Shelved, ShelvesOK
  <2>2. question'[q] = [question[q] EXCEPT !.in = IF q \in moved THEN Rescue ELSE question[q].in]
    BY <1>1
  <2>3. (IF q \in moved THEN Rescue ELSE question[q].in) \in Filing
    BY <1>2, <2>1 DEF Filing
  <2> HIDE DEF moved
  <2> QED
    BY <2>1, <2>2, <2>3
<1>7. ShelvesOK'
  BY <1>1, <1>4, <1>6 DEF Shelved, ShelvesOK, helpVars
<1>8. RescueStays'
  BY <1>1, <1>2, <1>4 DEF Shelved, RescueStays, helpVars
<1>9. QuestionsLate'
  <2>1. SUFFICES ASSUME NEW q \in Questions, question'[q].state = "live",
                        Straggler(q, question[q].in, faqCategory, "deleteFaqCategory")'
                 PROVE  q \in late'
    BY DEF QuestionsLate
  <2>2. q \notin moved
    <3>1. SUFFICES ASSUME q \in moved PROVE FALSE
      OBVIOUS
    <3>2. question'[q].in = Rescue
      BY <1>6, <3>1
    <3>3. faqCategory'[Rescue] # "deleted"
      BY <1>8 DEF RescueStays
    <3>4. \A g \in SiteRequests : draft'[g].op = "deleteFaqCategory" => draft'[g].of # Rescue
      BY <1>3, ContentAssumption DEF DraftsOK, DraftOK
    <3> QED
      BY <2>1, <3>2, <3>3, <3>4 DEF Straggler
  <2>3. question[q].state = "live" /\ question'[q].in = question[q].in
    BY <1>6, <2>1, <2>2
  <2>4. question[q].in \in Filing
    BY DEF Shelved, ShelvesOK
  <2>5. CASE question[q].in = d.of
    <3>1. ~d.move
      BY <2>2, <2>3, <2>5 DEF InUse, Shelved, ShelvesOK
    <3>2. Straggler(q, question[q].in, faqCategory, "deleteFaqCategory")
      BY <1>1, <2>5, <3>1 DEF Straggler
    <3> QED
      BY <1>1, <2>2, <2>3, <3>2 DEF Shelved, QuestionsLate
  <2>6. CASE question[q].in # d.of
    <3>1. Straggler(q, question[q].in, faqCategory, "deleteFaqCategory")
      BY <1>3, <1>4, <2>1, <2>3, <2>4, <2>6 DEF Straggler, NoDraft, Filing
    <3> QED
      BY <1>1, <2>2, <2>3, <3>1 DEF Shelved, QuestionsLate
  <2> QED
    BY <2>5, <2>6
<1>10. ArticlesLate'
  <2>1. \A a \in Articles : a \in late => a \in late'
    BY <1>1, <1>5, ContentAssumption
  <2> QED
    BY <1>1, <1>3, <2>1, ArticlesStay DEF helpVars
<1> QED
  BY <1>3, <1>7, <1>8, <1>9, <1>10 DEF Shelved

\* A question takes its place: too late if a deletion was faster.
LEMMA RefileQuestion ==
  ASSUME Shelved, ShelvesOK', NEW e \in Questions, UNCHANGED <<faqCategory, helpVars>>,
         Refile(e, question'[e].in, faqCategory, "deleteFaqCategory"),
         \A q \in Questions : q # e => question'[q] = question[q],
         \A g \in SiteRequests : draft'[g] = draft[g] \/ draft'[g] = NoDraft
  PROVE  QuestionsLate' /\ ArticlesLate'
<1> DEFINE c == question'[e].in
<1>1. /\ \A f : f # e => (f \in late <=> f \in late')
      /\ TooLate(faqCategory, "deleteFaqCategory", c) => e \in late'
  BY DEF Refile
<1>2. c \in Filing
  BY DEF ShelvesOK
<1>3. QuestionsLate'
  <2>1. SUFFICES ASSUME NEW q \in Questions, question'[q].state = "live",
                        Straggler(q, question[q].in, faqCategory, "deleteFaqCategory")'
                 PROVE  q \in late'
    BY DEF QuestionsLate
  <2>2. Straggler(q, question'[q].in, faqCategory, "deleteFaqCategory")
    BY <2>1 DEF Straggler, NoDraft
  <2>3. CASE q = e
    <3>1. c # Unfiled
      BY <2>2, <2>3, ContentAssumption DEF Straggler, Shelved, DraftsOK, DraftOK
    <3>2. TooLate(faqCategory, "deleteFaqCategory", c)
      BY <2>2, <2>3, <3>1 DEF Straggler, TooLate
    <3> QED
      BY <1>1, <2>3, <3>2
  <2>4. CASE q # e
    BY <1>1, <2>1, <2>2, <2>4 DEF Shelved, QuestionsLate
  <2> QED
    BY <2>3, <2>4
<1>4. ArticlesLate'
  <2>1. \A a \in Articles : a \in late => a \in late'
    BY <1>1, ContentAssumption
  <2> QED
    BY <2>1, ArticlesStay DEF helpVars
<1> QED
  BY <1>3, <1>4

LEMMA CreateQuestionKeeps ==
  ASSUME Shelved, NEW h \in SiteRequests, CreateQuestion(h)
  PROVE  Shelved'
<1>1. PICK q \in Questions, c \in Filing, p \in BOOLEAN :
        /\ question' = [question EXCEPT ![q] = [state |-> "live", in |-> c, published |-> p]]
        /\ Refile(q, c, faqCategory, "deleteFaqCategory")
        /\ UNCHANGED <<faqCategory, helpVars, draft>>
  BY DEF CreateQuestion
<1>2. [state |-> "live", in |-> c, published |-> p] \in [state : RowState, in : Filing, published : BOOLEAN]
  BY DEF RowState
<1>3. ShelvesOK'
  BY <1>1, <1>2 DEF Shelved, ShelvesOK, helpVars
<1>4. question'[q].in = c /\ \A r \in Questions : r # q => question'[r] = question[r]
  BY <1>1 DEF Shelved, ShelvesOK
<1>5. QuestionsLate' /\ ArticlesLate'
  BY <1>1, <1>3, <1>4, RefileQuestion
<1>6. DraftsOK' /\ RescueStays'
  BY <1>1 DEF Shelved, DraftsOK, DraftOK, RescueStays, helpVars
<1> QED
  BY <1>3, <1>5, <1>6 DEF Shelved

LEMMA SaveQuestionKeeps ==
  ASSUME Shelved, NEW h \in SiteRequests, SaveQuestion(h)
  PROVE  Shelved'
<1> DEFINE d == draft[h]
           filed == IF d.in = Unfiled THEN question[d.of].in ELSE d.in
<1>1. /\ question' = [question EXCEPT ![d.of] = [@ EXCEPT !.in = filed, !.published = d.published]]
      /\ IF d.in = Unfiled THEN UNCHANGED late ELSE Refile(d.of, d.in, faqCategory, "deleteFaqCategory")
      /\ Close(h) /\ UNCHANGED <<faqCategory, helpVars>>
  BY DEF SaveQuestion
<1>2. d.of \in Questions /\ d.in \in Filing /\ d.published \in BOOLEAN
  BY DEF SaveQuestion, Shelved, DraftsOK, DraftOK
<1>3. question[d.of] \in [state : RowState, in : Filing, published : BOOLEAN]
  BY <1>2 DEF Shelved, ShelvesOK
<1>4. filed \in Filing
  BY <1>2, <1>3
<1> HIDE DEF filed
<1>5. /\ question'[d.of] = [question[d.of] EXCEPT !.in = filed, !.published = d.published]
      /\ \A q \in Questions : q # d.of => question'[q] = question[q]
  BY <1>1, <1>2 DEF Shelved, ShelvesOK
<1>6. /\ question'[d.of].state = question[d.of].state /\ question'[d.of].in = filed
      /\ question'[d.of] \in [state : RowState, in : Filing, published : BOOLEAN]
  <2>1. [question[d.of] EXCEPT !.in = filed] \in [state : RowState, in : Filing, published : BOOLEAN]
    BY <1>3, <1>4
  <2> QED
    BY <1>2, <1>3, <1>4, <1>5, <2>1
<1>7. ShelvesOK'
  BY <1>1, <1>2, <1>6 DEF Shelved, ShelvesOK, helpVars
<1>8. DraftsOK' /\ \A g \in SiteRequests : draft'[g] = draft[g] \/ draft'[g] = NoDraft
  BY <1>1, CloseIs
<1>9. CASE d.in = Unfiled
  <2>1. \A q \in Questions : question'[q].state = question[q].state /\ question'[q].in = question[q].in
    <3>1. filed = question[d.of].in
      BY <1>9 DEF filed
    <3> QED
      BY <1>5, <1>6, <3>1
  <2>2. late' = late
    BY <1>1, <1>9
  <2>3. QuestionsLate'
    <3>1. SUFFICES ASSUME NEW q \in Questions, question'[q].state = "live",
                          Straggler(q, question[q].in, faqCategory, "deleteFaqCategory")'
                   PROVE  q \in late
      BY <2>2 DEF QuestionsLate
    <3>2. Straggler(q, question[q].in, faqCategory, "deleteFaqCategory")
      BY <1>1, <1>8, <2>1, <3>1 DEF Straggler, NoDraft
    <3> QED
      BY <2>1, <3>1, <3>2 DEF Shelved, QuestionsLate
  <2>4. ArticlesLate'
    BY <1>1, <1>8, <2>2, ArticlesStay DEF helpVars
  <2> QED
    BY <1>1, <1>7, <1>8, <2>3, <2>4 DEF Shelved, RescueStays, helpVars
<1>10. CASE d.in # Unfiled
  <2>1. Refile(d.of, question'[d.of].in, faqCategory, "deleteFaqCategory")
    BY <1>1, <1>6, <1>10 DEF filed
  <2>2. QuestionsLate' /\ ArticlesLate'
    BY <1>1, <1>2, <1>5, <1>7, <1>8, <2>1, RefileQuestion
  <2> QED
    BY <1>1, <1>7, <1>8, <2>2 DEF Shelved, RescueStays, helpVars
<1> QED
  BY <1>9, <1>10

LEMMA DropQuestionKeeps ==
  ASSUME Shelved, NEW h \in SiteRequests, DropQuestion(h)
  PROVE  Shelved'
<1>1. /\ question' = [question EXCEPT ![draft[h].of].state = "deleted"]
      /\ Close(h) /\ UNCHANGED <<faqCategory, helpVars, late>>
  BY DEF DropQuestion
<1>2. ASSUME NEW q \in Questions
      PROVE  /\ question'[q].in = question[q].in
             /\ question'[q].state = "live" => question[q].state = "live"
             /\ question'[q] \in [state : RowState, in : Filing, published : BOOLEAN]
  <2>1. question[q] \in [state : RowState, in : Filing, published : BOOLEAN]
    BY DEF Shelved, ShelvesOK
  <2>2. question'[q] = question[q] \/ question'[q] = [question[q] EXCEPT !.state = "deleted"]
    BY <1>1 DEF Shelved, ShelvesOK
  <2> QED
    BY <2>1, <2>2 DEF RowState
<1>3. ShelvesOK'
  BY <1>1, <1>2 DEF Shelved, ShelvesOK, helpVars
<1>4. DraftsOK' /\ \A g \in SiteRequests : draft'[g] = draft[g] \/ draft'[g] = NoDraft
  BY <1>1, CloseIs
<1>5. QuestionsLate'
  <2>1. SUFFICES ASSUME NEW q \in Questions, question'[q].state = "live",
                        Straggler(q, question[q].in, faqCategory, "deleteFaqCategory")'
                 PROVE  q \in late
    BY <1>1 DEF QuestionsLate
  <2>2. question'[q].in = question[q].in /\ faqCategory' = faqCategory
    BY <1>1, <1>2
  <2>3. Straggler(q, question[q].in, faqCategory, "deleteFaqCategory")
    BY <1>4, <2>1, <2>2 DEF Straggler, NoDraft
  <2> QED
    BY <1>2, <2>1, <2>3 DEF Shelved, QuestionsLate
<1>6. ArticlesLate'
  BY <1>1, <1>4, ArticlesStay DEF helpVars
<1> QED
  BY <1>1, <1>3, <1>4, <1>5, <1>6 DEF Shelved, RescueStays, helpVars

-----------------------------------------------------------------------------
(* The articles.                                                              *)

LEMMA SaveHelpCategoryKeeps ==
  ASSUME Shelved, NEW h \in SiteRequests, SaveHelpCategory(h)
  PROVE  Shelved'
<1>1. /\ helpCategory' = [helpCategory EXCEPT ![draft[h].of] = "live"] /\ Close(h)
      /\ UNCHANGED <<faqVars, lesson, late>>
  BY DEF SaveHelpCategory
<1>2. DraftsOK' /\ \A g \in SiteRequests : draft'[g] = draft[g] \/ draft'[g] = NoDraft
  BY <1>1, CloseIs
<1>3. \A c \in Categories : helpCategory'[c] = helpCategory[c] \/ helpCategory'[c] = "live"
  BY <1>1 DEF Shelved, ShelvesOK
<1>4. Rescue \in Categories
  BY ContentAssumption
<1>5. ShelvesOK' /\ RescueStays'
  BY <1>1, <1>3, <1>4 DEF Shelved, ShelvesOK, RescueStays, faqVars
<1>6. QuestionsLate' /\ ArticlesLate'
  BY <1>1, <1>2, <1>3, QuestionsStay, ArticlesStay DEF faqVars
<1> QED
  BY <1>2, <1>5, <1>6 DEF Shelved

LEMMA DropHelpCategoryKeeps ==
  ASSUME Shelved, NEW h \in SiteRequests, DropHelpCategory(h)
  PROVE  Shelved'
<1> DEFINE d == draft[h]
           moved == IF d.move THEN InUse(lesson, d.of) ELSE {}
           Row == [state : RowState, in : Filing, slug : Slugs, published : BOOLEAN]
<1>1. /\ d.op = "deleteHelpCategory"
      /\ lesson' = [a \in Articles |-> [lesson[a] EXCEPT !.in = IF a \in moved THEN Rescue ELSE @]]
      /\ helpCategory' = [helpCategory EXCEPT ![d.of] = "deleted"]
      /\ late' = late \ moved /\ Close(h) /\ UNCHANGED faqVars
  BY DEF DropHelpCategory
<1>2. d.of \in Categories /\ d.of # Rescue /\ Rescue \in Categories
  BY <1>1, ContentAssumption DEF Shelved, DraftsOK, DraftOK
<1>3. /\ draft'[h] = NoDraft /\ DraftsOK'
      /\ \A g \in SiteRequests : draft'[g] = draft[g] \/ draft'[g] = NoDraft
  BY <1>1, CloseIs
<1>4. /\ helpCategory'[d.of] = "deleted" /\ DOMAIN helpCategory' = Categories
      /\ \A c \in Categories : c # d.of => helpCategory'[c] = helpCategory[c]
  BY <1>1, <1>2 DEF Shelved, ShelvesOK
<1>5. moved \subseteq Articles
  BY DEF InUse, Shelved, ShelvesOK
<1>6. ASSUME NEW a \in Articles
      PROVE  /\ lesson'[a].state = lesson[a].state
             /\ lesson'[a].in = IF a \in moved THEN Rescue ELSE lesson[a].in
             /\ lesson'[a] \in Row
  <2>1. lesson[a] \in Row
    BY DEF Shelved, ShelvesOK
  <2>2. lesson'[a] = [lesson[a] EXCEPT !.in = IF a \in moved THEN Rescue ELSE lesson[a].in]
    BY <1>1
  <2>3. (IF a \in moved THEN Rescue ELSE lesson[a].in) \in Filing
    BY <1>2, <2>1 DEF Filing
  <2> HIDE DEF moved
  <2> QED
    BY <2>1, <2>2, <2>3
<1>7. ShelvesOK'
  BY <1>1, <1>4, <1>6 DEF Shelved, ShelvesOK, faqVars
<1>8. RescueStays'
  BY <1>1, <1>2, <1>4 DEF Shelved, RescueStays, faqVars
<1>9. ArticlesLate'
  <2>1. SUFFICES ASSUME NEW a \in Articles, lesson'[a].state = "live",
                        Straggler(a, lesson[a].in, helpCategory, "deleteHelpCategory")'
                 PROVE  a \in late'
    BY DEF ArticlesLate
  <2>2. a \notin moved
    <3>1. SUFFICES ASSUME a \in moved PROVE FALSE
      OBVIOUS
    <3>2. lesson'[a].in = Rescue
      BY <1>6, <3>1
    <3>3. helpCategory'[Rescue] # "deleted"
      BY <1>8 DEF RescueStays
    <3>4. \A g \in SiteRequests : draft'[g].op = "deleteHelpCategory" => draft'[g].of # Rescue
      BY <1>3, ContentAssumption DEF DraftsOK, DraftOK
    <3> QED
      BY <2>1, <3>2, <3>3, <3>4 DEF Straggler
  <2>3. lesson[a].state = "live" /\ lesson'[a].in = lesson[a].in
    BY <1>6, <2>1, <2>2
  <2>4. lesson[a].in \in Filing
    BY DEF Shelved, ShelvesOK
  <2>5. CASE lesson[a].in = d.of
    <3>1. ~d.move
      BY <2>2, <2>3, <2>5 DEF InUse, Shelved, ShelvesOK
    <3>2. Straggler(a, lesson[a].in, helpCategory, "deleteHelpCategory")
      BY <1>1, <2>5, <3>1 DEF Straggler
    <3> QED
      BY <1>1, <2>2, <2>3, <3>2 DEF Shelved, ArticlesLate
  <2>6. CASE lesson[a].in # d.of
    <3>1. Straggler(a, lesson[a].in, helpCategory, "deleteHelpCategory")
      BY <1>3, <1>4, <2>1, <2>3, <2>4, <2>6 DEF Straggler, NoDraft, Filing
    <3> QED
      BY <1>1, <2>2, <2>3, <3>1 DEF Shelved, ArticlesLate
  <2> QED
    BY <2>5, <2>6
<1>10. QuestionsLate'
  <2>1. \A q \in Questions : q \in late => q \in late'
    BY <1>1, <1>5, ContentAssumption
  <2> QED
    BY <1>1, <1>3, <2>1, QuestionsStay DEF faqVars
<1> QED
  BY <1>3, <1>7, <1>8, <1>9, <1>10 DEF Shelved

LEMMA StoreArticleKeeps ==
  ASSUME Shelved, NEW h \in SiteRequests, StoreArticle(h)
  PROVE  Shelved'
<1> DEFINE d == draft[h]
           Row == [state : RowState, in : Filing, slug : Slugs, published : BOOLEAN]
<1>1. Close(h) /\ UNCHANGED <<faqVars, helpCategory>>
  BY DEF StoreArticle
<1>2. DraftsOK' /\ \A g \in SiteRequests : draft'[g] = draft[g] \/ draft'[g] = NoDraft
  BY <1>1, CloseIs
<1>3. CASE UNCHANGED <<lesson, late>>
  BY <1>1, <1>3, CloseKeeps DEF helpVars
<1>4. ASSUME NEW s \in RowState,
             lesson' = [lesson EXCEPT ![d.of] =
               [state |-> s, in |-> d.in, slug |-> d.slug, published |-> d.published]],
             Refile(d.of, d.in, helpCategory, "deleteHelpCategory")
      PROVE  Shelved'
  <2>1. d.of \in Articles /\ d.in \in Filing /\ d.slug \in Slugs /\ d.published \in BOOLEAN
    BY DEF StoreArticle, Shelved, DraftsOK, DraftOK
  <2>2. /\ lesson'[d.of].in = d.in
        /\ \A a \in Articles : a # d.of => lesson'[a] = lesson[a]
    BY <1>4, <2>1 DEF Shelved, ShelvesOK
  <2>3. [state |-> s, in |-> d.in, slug |-> d.slug, published |-> d.published] \in Row
    BY <2>1
  <2>4. ShelvesOK'
    BY <1>1, <1>4, <2>1, <2>3 DEF Shelved, ShelvesOK, faqVars
  <2>5. /\ \A f : f # d.of => (f \in late <=> f \in late')
        /\ TooLate(helpCategory, "deleteHelpCategory", d.in) => d.of \in late'
    BY <1>4 DEF Refile
  <2>6. ArticlesLate'
    <3>1. SUFFICES ASSUME NEW a \in Articles, lesson'[a].state = "live",
                          Straggler(a, lesson[a].in, helpCategory, "deleteHelpCategory")'
                   PROVE  a \in late'
      BY DEF ArticlesLate
    <3>2. Straggler(a, lesson'[a].in, helpCategory, "deleteHelpCategory")
      BY <1>1, <1>2, <3>1 DEF Straggler, NoDraft
    <3>3. CASE a = d.of
      <4>1. d.in # Unfiled
        BY <2>2, <3>2, <3>3, ContentAssumption DEF Straggler, Shelved, DraftsOK, DraftOK
      <4>2. TooLate(helpCategory, "deleteHelpCategory", d.in)
        BY <2>2, <3>2, <3>3, <4>1 DEF Straggler, TooLate
      <4> QED
        BY <2>5, <3>3, <4>2
    <3>4. CASE a # d.of
      BY <2>2, <2>5, <3>1, <3>2, <3>4 DEF Shelved, ArticlesLate
    <3> QED
      BY <3>3, <3>4
  <2>7. QuestionsLate'
    <3>1. \A q \in Questions : q \in late => q \in late'
      BY <2>1, <2>5, ContentAssumption
    <3> QED
      BY <1>1, <1>2, <3>1, QuestionsStay DEF faqVars
  <2> QED
    BY <1>1, <1>2, <2>4, <2>6, <2>7 DEF Shelved, RescueStays, faqVars
<1>5. CASE d.op = "createArticle"
  BY <1>3, <1>4, <1>5 DEF StoreArticle, RowState
<1>6. CASE d.op # "createArticle"
  <2>1. d.of \in Articles
    BY DEF StoreArticle, Shelved, DraftsOK, DraftOK
  <2>2. lesson[d.of].state \in RowState
    BY <2>1 DEF Shelved, ShelvesOK
  <2> QED
    BY <1>3, <1>4, <1>6, <2>2 DEF StoreArticle
<1> QED
  BY <1>5, <1>6

LEMMA DropArticleKeeps ==
  ASSUME Shelved, NEW h \in SiteRequests, DropArticle(h)
  PROVE  Shelved'
<1>1. /\ lesson' = [lesson EXCEPT ![draft[h].of].state = "deleted"]
      /\ Close(h) /\ UNCHANGED <<faqVars, helpCategory, late>>
  BY DEF DropArticle
<1>2. ASSUME NEW a \in Articles
      PROVE  /\ lesson'[a].in = lesson[a].in
             /\ lesson'[a].state = "live" => lesson[a].state = "live"
             /\ lesson'[a] \in [state : RowState, in : Filing, slug : Slugs, published : BOOLEAN]
  <2>1. lesson[a] \in [state : RowState, in : Filing, slug : Slugs, published : BOOLEAN]
    BY DEF Shelved, ShelvesOK
  <2>2. lesson'[a] = lesson[a] \/ lesson'[a] = [lesson[a] EXCEPT !.state = "deleted"]
    BY <1>1 DEF Shelved, ShelvesOK
  <2> QED
    BY <2>1, <2>2 DEF RowState
<1>3. ShelvesOK'
  BY <1>1, <1>2 DEF Shelved, ShelvesOK, faqVars
<1>4. DraftsOK' /\ \A g \in SiteRequests : draft'[g] = draft[g] \/ draft'[g] = NoDraft
  BY <1>1, CloseIs
<1>5. ArticlesLate'
  <2>1. SUFFICES ASSUME NEW a \in Articles, lesson'[a].state = "live",
                        Straggler(a, lesson[a].in, helpCategory, "deleteHelpCategory")'
                 PROVE  a \in late
    BY <1>1 DEF ArticlesLate
  <2>2. lesson'[a].in = lesson[a].in /\ helpCategory' = helpCategory
    BY <1>1, <1>2
  <2>3. Straggler(a, lesson[a].in, helpCategory, "deleteHelpCategory")
    BY <1>4, <2>1, <2>2 DEF Straggler, NoDraft
  <2> QED
    BY <1>2, <2>1, <2>3 DEF Shelved, ArticlesLate
<1>6. QuestionsLate'
  BY <1>1, <1>4, QuestionsStay DEF faqVars
<1> QED
  BY <1>1, <1>3, <1>4, <1>5, <1>6 DEF Shelved, RescueStays, faqVars

-----------------------------------------------------------------------------
\* A request begins.
LEMMA BeginKeeps ==
  ASSUME Shelved, NEW h \in SiteRequests,
         \/ CreateFaqCategory(h) \/ DeleteFaqCategory(h) \/ UpdateQuestion(h) \/ DeleteQuestion(h)
         \/ CreateHelpCategory(h) \/ DeleteHelpCategory(h) \/ CreateArticle(h) \/ EditArticle(h)
         \/ DeleteArticle(h) \/ CreateContentPage(h) \/ UpdateContentPage(h) \/ DeleteContentPage(h)
         \/ FindContact(h) \/ FindConfig(h)
  PROVE  Shelved'
<1>1. PICK d : /\ DraftOK(d) /\ Plan(h, d)
               /\ d.op = "deleteFaqCategory" /\ ~d.move => InUse(question, d.of) = {}
               /\ d.op = "deleteHelpCategory" /\ ~d.move => InUse(lesson, d.of) = {}
  <2>1. CASE CreateFaqCategory(h) \/ CreateHelpCategory(h)
    <3>1. CASE CreateFaqCategory(h)
      BY <3>1 DEF CreateFaqCategory, DraftOK
    <3>2. CASE CreateHelpCategory(h)
      BY <3>2 DEF CreateHelpCategory, DraftOK
    <3> QED
      BY <2>1, <3>1, <3>2
  <2>2. CASE DeleteFaqCategory(h)
    BY <2>2 DEF DeleteFaqCategory, DraftOK
  <2>3. CASE DeleteHelpCategory(h)
    BY <2>3 DEF DeleteHelpCategory, DraftOK
  <2>4. CASE UpdateQuestion(h)
    BY <2>4 DEF UpdateQuestion, DraftOK
  <2>5. CASE DeleteQuestion(h) \/ DeleteArticle(h) \/ DeleteContentPage(h)
    <3>1. CASE DeleteQuestion(h)
      BY <3>1 DEF DeleteQuestion, DraftOK
    <3>2. CASE DeleteArticle(h)
      BY <3>2 DEF DeleteArticle, DraftOK
    <3>3. CASE DeleteContentPage(h)
      BY <3>3 DEF DeleteContentPage, DraftOK
    <3> QED
      BY <2>5, <3>1, <3>2, <3>3
  <2>6. CASE CreateArticle(h)
    BY <2>6 DEF CreateArticle, DraftOK
  <2>7. CASE EditArticle(h)
    BY <2>7 DEF EditArticle, DraftOK
  <2>8. CASE CreateContentPage(h)
    BY <2>8 DEF CreateContentPage, DraftOK
  <2>9. CASE UpdateContentPage(h)
    BY <2>9 DEF UpdateContentPage, DraftOK
  <2>10. CASE FindContact(h)
    BY <2>10 DEF FindContact, DraftOK
  <2>11. CASE FindConfig(h)
    BY <2>11 DEF FindConfig, DraftOK
  <2> QED
    BY <2>1, <2>2, <2>3, <2>4, <2>5, <2>6, <2>7, <2>8, <2>9, <2>10, <2>11
<1>2. Untouched
  BY DEF CreateFaqCategory, DeleteFaqCategory, UpdateQuestion, DeleteQuestion, CreateHelpCategory,
         DeleteHelpCategory, CreateArticle, EditArticle, DeleteArticle, CreateContentPage,
         UpdateContentPage, DeleteContentPage, FindContact, FindConfig
<1> QED
  BY <1>1, <1>2, PlanKeeps DEF Untouched

LEMMA NextShelved == Shelved /\ [ContentNext]_siteVars => Shelved'
<1> SUFFICES ASSUME Shelved, [ContentNext]_siteVars PROVE Shelved'
  OBVIOUS
<1>1. ASSUME NEW h \in SiteRequests,
             \/ CreateFaqCategory(h) \/ DeleteFaqCategory(h) \/ UpdateQuestion(h) \/ DeleteQuestion(h)
             \/ CreateHelpCategory(h) \/ DeleteHelpCategory(h) \/ CreateArticle(h) \/ EditArticle(h)
             \/ DeleteArticle(h) \/ CreateContentPage(h) \/ UpdateContentPage(h) \/ DeleteContentPage(h)
             \/ FindContact(h) \/ FindConfig(h)
      PROVE  Shelved'
  BY <1>1, BeginKeeps
<1>2. ASSUME NEW h \in SiteRequests,
             \/ InsertContentPage(h) \/ SaveContentPage(h) \/ DropContentPage(h)
             \/ SeedContact(h) \/ SaveConfig(h) \/ SiteRequestFails(h)
      PROVE  Shelved'
  <2>1. Close(h) /\ UNCHANGED <<faqVars, helpVars, late>>
    BY <1>2 DEF InsertContentPage, SaveContentPage, DropContentPage, SeedContact, SaveConfig,
                SiteRequestFails, Untouched
  <2> QED
    BY <2>1, CloseKeeps
<1>3. ASSUME NEW h \in SiteRequests,
             \/ SaveFaqCategory(h) \/ DropFaqCategory(h) \/ CreateQuestion(h) \/ SaveQuestion(h)
             \/ DropQuestion(h) \/ SaveHelpCategory(h) \/ DropHelpCategory(h) \/ StoreArticle(h)
             \/ DropArticle(h)
      PROVE  Shelved'
  BY <1>3, SaveFaqCategoryKeeps, DropFaqCategoryKeeps, CreateQuestionKeeps, SaveQuestionKeeps,
     DropQuestionKeeps, SaveHelpCategoryKeeps, DropHelpCategoryKeeps, StoreArticleKeeps, DropArticleKeeps
<1>4. CASE UNCHANGED siteVars
  BY <1>4 DEF siteVars, faqVars, helpVars, Shelved, ShelvesOK, DraftsOK, DraftOK, RescueStays,
              QuestionsLate, ArticlesLate, Straggler
<1> QED
  BY <1>1, <1>2, <1>3, <1>4 DEF ContentNext, SiteStep

\* StragglersAreLate is not inductive: a deletion that has counted no row leaves behind
\* what is filed before it is done, so that must be late already.
THEOREM NothingIsLeftBehind == ContentSpec => []StragglersAreLate
<1>1. Shelved => StragglersAreLate
  BY DEF Shelved, QuestionsLate, ArticlesLate, Straggler, StragglersAreLate
<1> QED
  BY <1>1, InitShelved, NextShelved, PTL DEF ContentSpec

-----------------------------------------------------------------------------
(* Ordering: a list that was put in order keeps it, for every list.           *)

RowsOK ==
  /\ row \in [Items -> {"none", "live", "elsewhere", "deleted"}] /\ place \in [Items -> Nat]
  /\ DOMAIN sorting = OrderRequests

\* What a request in flight is about to write.
Asks(s) ==
  /\ s = [op |-> s.op, to |-> s.to, byHand |-> s.byHand, alone |-> s.alone]
  /\ s.op \in {"add", "set", "join", "leave", "rescue", "delete", "order"}
  /\ s.op = "set" => s.byHand
  /\ \A i \in DOMAIN s.to : s.to[i] \in Nat
  /\ s.op # "order" => \A i, j \in DOMAIN s.to : i = j

\* Behind every row there is.
Behind(to) == \A i \in DOMAIN to : \A j \in Rows : place[j] < to[i]

RequestsOK == \A h \in OrderRequests : sorting[h] = NoSort \/ Asks(sorting[h])

\* A request that is alone is the only one in flight; and what it adds at the end it adds
\* behind every row there is.
AloneOK ==
  \A h \in OrderRequests : sorting[h] # NoSort /\ sorting[h].alone =>
    /\ \A g \in OrderRequests : g # h => sorting[g] = NoSort
    /\ sorting[h].op = "add" /\ ~sorting[h].byHand => Behind(sorting[h].to)

Ordered == RowsOK /\ RequestsOK /\ AloneOK /\ PlacesAreDistinct

LEMMA InitOrdered == OrderingInit => Ordered
<1> SUFFICES ASSUME OrderingInit PROVE Ordered
  OBVIOUS
<1>1. RowsOK
  BY DEF OrderingInit, RowsOK
<1>2. RequestsOK /\ AloneOK
  BY DEF OrderingInit, RequestsOK, AloneOK
<1>3. PlacesAreDistinct
  BY DEF OrderingInit, PlacesAreDistinct, Rows
<1> QED
  BY <1>1, <1>2, <1>3 DEF Ordered

-----------------------------------------------------------------------------
\* A request begins: what it will write rests on what is there, and no other is alone now.
LEMMA SortKeeps ==
  ASSUME Ordered, NEW h \in OrderRequests, NEW op \in {"add", "set", "join", "leave", "rescue", "delete", "order"}, NEW to,
         NEW byHand \in BOOLEAN,
         Sort(h, op, to, byHand),
         op = "set" => byHand,
         \A i \in DOMAIN to : to[i] \in Nat,
         op # "order" => \A i, j \in DOMAIN to : i = j,
         op = "add" /\ ~byHand => Behind(to)
  PROVE  Ordered'
<1> DEFINE others == {g \in OrderRequests : sorting[g] # NoSort}
<1>1. UNCHANGED <<list, parent, row, place, muddled>>
  BY DEF Sort
<1>2. Rows' = Rows
  BY <1>1 DEF Rows
<1>3. sorting' = [g \in OrderRequests |->
          IF g = h THEN [op |-> op, to |-> to, byHand |-> byHand, alone |-> others = {}]
          ELSE IF g \in others THEN [sorting[g] EXCEPT !.alone = FALSE] ELSE NoSort]
  BY DEF Sort
<1> HIDE DEF others
<1>4. DOMAIN sorting' = OrderRequests
  BY <1>3
<1>5. /\ sorting'[h].op = op /\ sorting'[h].to = to /\ sorting'[h].byHand = byHand
      /\ sorting'[h] = [op |-> op, to |-> to, byHand |-> byHand, alone |-> others = {}]
      /\ sorting'[h].alone <=> others = {}
  BY <1>3
<1>6. ASSUME NEW g \in OrderRequests, g # h
      PROVE  /\ g \notin others => sorting'[g] = NoSort
             /\ g \in others => Asks(sorting'[g]) /\ ~sorting'[g].alone
  <2>1. g \notin others => sorting'[g] = NoSort
    BY <1>3, <1>6
  <2>2. ASSUME g \in others PROVE Asks(sorting'[g]) /\ ~sorting'[g].alone
    <3>1. sorting'[g] = [sorting[g] EXCEPT !.alone = FALSE]
      BY <1>3, <1>6, <2>2
    <3>2. Asks(sorting[g])
      BY <2>2 DEF others, Ordered, RequestsOK
    <3>3. sorting'[g] = [op |-> sorting[g].op, to |-> sorting[g].to,
                         byHand |-> sorting[g].byHand, alone |-> FALSE]
      BY <3>1, <3>2 DEF Asks
    <3> QED
      BY <3>2, <3>3 DEF Asks
  <2> QED
    BY <2>1, <2>2
<1>7. Asks(sorting'[h])
  BY <1>5 DEF Asks
<1>8. RequestsOK'
  BY <1>6, <1>7 DEF RequestsOK
<1>9. AloneOK'
  <2>1. SUFFICES ASSUME NEW g \in OrderRequests, sorting'[g] # NoSort, sorting'[g].alone
                 PROVE  /\ \A f \in OrderRequests : f # g => sorting'[f] = NoSort
                        /\ sorting'[g].op = "add" /\ ~sorting'[g].byHand => Behind(sorting[g].to)'
    BY DEF AloneOK
  <2>2. g = h /\ others = {}
    BY <1>5, <1>6, <2>1
  <2>3. Behind(to) => Behind(sorting[h].to)'
    BY <1>1, <1>2, <1>5 DEF Behind
  <2> QED
    BY <1>5, <1>6, <2>2, <2>3
<1>10. RowsOK' /\ PlacesAreDistinct'
  BY <1>1, <1>2, <1>4 DEF Ordered, RowsOK, PlacesAreDistinct
<1> QED
  BY <1>8, <1>9, <1>10 DEF Ordered

LEMMA OneIs ==
  ASSUME NEW i \in Items, NEW p \in Nat
  PROVE  /\ \A x \in DOMAIN One(i, p) : One(i, p)[x] = p
         /\ \A x, y \in DOMAIN One(i, p) : x = y
BY DEF One

LEMMA OneKeeps ==
  ASSUME Ordered, NEW h \in OrderRequests, NEW op \in {"add", "set", "join", "leave", "delete"}, NEW i \in Items, NEW p \in Nat,
         NEW byHand \in BOOLEAN, Sort(h, op, One(i, p), byHand),
         op = "set" => byHand,
         op = "add" /\ ~byHand => Behind(One(i, p))
  PROVE  Ordered'
<1>1. /\ \A x \in DOMAIN One(i, p) : One(i, p)[x] \in Nat
      /\ \A x, y \in DOMAIN One(i, p) : x = y
  BY OneIs
<1> QED
  BY <1>1, SortKeeps

LEMMA FreshItems == Fresh \subseteq Items /\ Rows \subseteq Items /\ Elsewhere \subseteq Items /\ Places \subseteq Nat
BY OrderingAssumption DEF Fresh, Rows, Elsewhere, Places

LEMMA AnywhereKeeps ==
  ASSUME Ordered, NEW h \in OrderRequests, NEW i \in Fresh, Anywhere(h, i)
  PROVE  Ordered'
<1>1. PICK p \in Places : Sort(h, "add", One(i, p), TRUE)
  BY DEF Anywhere
<1>2. i \in Items /\ p \in Nat
  BY FreshItems
<1> QED
  BY <1>1, <1>2, OneKeeps

LEMMA AtEndKeeps ==
  ASSUME Ordered, NEW h \in OrderRequests, NEW i \in Fresh, AtEnd(h, i)
  PROVE  Ordered'
<1>1. PICK p \in Places :
        /\ Rows # {} => \E j \in Rows : p = place[j] + 1 /\ \A k \in Rows : place[k] <= place[j]
        /\ Sort(h, "add", One(i, p), FALSE)
  BY DEF AtEnd
<1>2. \A k \in Rows : place[k] < p
  BY <1>1, FreshItems DEF Ordered, RowsOK
<1>3. Behind(One(i, p))
  BY <1>2, FreshItems, OneIs DEF Behind
<1>4. i \in Items /\ p \in Nat
  BY FreshItems
<1> QED
  BY <1>1, <1>3, <1>4, OneKeeps

LEMMA SetPlaceKeeps ==
  ASSUME Ordered, NEW h \in OrderRequests, SetPlace(h)
  PROVE  Ordered'
<1>1. PICK i \in Rows, p \in Places : Sort(h, "set", One(i, p), TRUE)
  BY DEF SetPlace
<1>2. i \in Items /\ p \in Nat
  BY FreshItems
<1> QED
  BY <1>1, <1>2, OneKeeps

LEMMA ChangeCategoryKeeps ==
  ASSUME Ordered, NEW h \in OrderRequests, ChangeCategory(h)
  PROVE  Ordered'
<1>1. PICK i \in Rows \cup Elsewhere, byHand \in BOOLEAN :
        \E p \in IF byHand THEN Places ELSE {place[i]} :
          Sort(h, IF i \in Rows THEN "leave" ELSE "join", One(i, p), byHand)
  BY DEF ChangeCategory
<1>2. PICK p \in IF byHand THEN Places ELSE {place[i]} :
          Sort(h, IF i \in Rows THEN "leave" ELSE "join", One(i, p), byHand)
  BY <1>1
<1>3. i \in Items /\ p \in Nat
  BY FreshItems DEF Ordered, RowsOK
<1>4. PICK op \in {"leave", "join"} : Sort(h, op, One(i, p), byHand)
  BY <1>2
<1> QED
  BY <1>3, <1>4, OneKeeps

LEMMA DeleteKeeps ==
  ASSUME Ordered, NEW h \in OrderRequests, Delete(h)
  PROVE  Ordered'
<1>1. PICK i \in Rows : Sort(h, "delete", One(i, place[i]), FALSE)
  BY DEF Delete
<1>2. i \in Items /\ place[i] \in Nat
  BY FreshItems DEF Ordered, RowsOK
<1> QED
  BY <1>1, <1>2, OneKeeps

-----------------------------------------------------------------------------
\* A request ends: the others are as they were; if it was alone there are none.
LEMMA Ends ==
  ASSUME Ordered, NEW h \in OrderRequests, sorting[h] # NoSort,
         sorting' = [sorting EXCEPT ![h] = NoSort], RowsOK', PlacesAreDistinct'
  PROVE  Ordered'
<1>1. sorting'[h] = NoSort /\ \A g \in OrderRequests : g # h => sorting'[g] = sorting[g]
  BY DEF Ordered, RowsOK
<1>2. RequestsOK'
  BY <1>1 DEF Ordered, RequestsOK, Asks
<1>3. AloneOK'
  <2>1. SUFFICES ASSUME NEW g \in OrderRequests, sorting'[g] # NoSort, sorting'[g].alone
                 PROVE  FALSE
    BY DEF AloneOK
  <2> QED
    BY <1>1, <2>1 DEF Ordered, AloneOK
<1> QED
  BY <1>2, <1>3 DEF Ordered

LEMMA SaveItemKeeps ==
  ASSUME Ordered, NEW h \in OrderRequests, SaveItem(h)
  PROVE  Ordered'
<1> DEFINE t == sorting[h]
           after == [add |-> "live", delete |-> "deleted", join |-> "live", leave |-> "elsewhere"]
<1>1. PICK i \in DOMAIN t.to :
        /\ row' = [row EXCEPT ![i] = IF t.op = "set" \/ @ = "deleted" THEN @ ELSE after[t.op]]
        /\ place' = [place EXCEPT ![i] = IF t.op = "add" \/ t.byHand THEN t.to[i] ELSE @]
  BY DEF SaveItem
<1>2. /\ t.op \in {"add", "delete", "join", "leave", "set"}
      /\ muddled' = (muddled \/ ~t.alone \/ t.byHand \/ t.op = "join")
      /\ sorting' = [sorting EXCEPT ![h] = NoSort]
  BY DEF SaveItem
<1>3. t # NoSort /\ Asks(t)
  BY <1>2 DEF Ordered, RequestsOK, NoSort
<1>4. t.to[i] \in Nat
  BY <1>3 DEF Asks
<1>5. RowsOK'
  <2>1. t.op # "set" => after[t.op] \in {"none", "live", "elsewhere", "deleted"}
    BY <1>2
  <2> HIDE DEF after
  <2>2. row' \in [Items -> {"none", "live", "elsewhere", "deleted"}]
    BY <1>1, <2>1 DEF Ordered, RowsOK
  <2>3. place' \in [Items -> Nat]
    BY <1>1, <1>4 DEF Ordered, RowsOK
  <2> QED
    BY <1>2, <2>2, <2>3 DEF Ordered, RowsOK
<1>6. PlacesAreDistinct'
  <2>1. SUFFICES ASSUME ~muddled' PROVE \A x, y \in Rows' : place'[x] = place'[y] => x = y
    BY DEF PlacesAreDistinct
  <2>2. ~muddled /\ t.alone /\ ~t.byHand /\ t.op # "join"
    BY <1>2, <2>1
  <2>3. \A x, y \in Rows : place[x] = place[y] => x = y
    BY <2>2 DEF Ordered, PlacesAreDistinct
  <2>4. CASE t.op = "add"
    <3>1. \A j \in Rows : place[j] < t.to[i]
      BY <1>3, <2>2, <2>4 DEF Ordered, AloneOK, Behind
    <3>2. Rows' \subseteq Rows \cup {i} /\ \A j \in Items : j # i => place'[j] = place[j]
      BY <1>1 DEF Ordered, RowsOK, Rows
    <3>3. i \in Items => place'[i] = t.to[i]
      BY <1>1, <2>4 DEF Ordered, RowsOK
    <3>4. i \in Rows => FALSE \/ place[i] < t.to[i]
      BY <3>1
    <3>5. Rows' \subseteq Items /\ \A j \in Rows : place[j] \in Nat
      BY FreshItems DEF Rows, Ordered, RowsOK
    <3> QED
      BY <1>4, <2>3, <3>1, <3>2, <3>3, <3>5
  <2>5. CASE t.op \in {"delete", "leave"}
    <3>1. after[t.op] # "live"
      BY <2>5
    <3>2. Rows' \subseteq Rows /\ place' = place
      BY <1>1, <2>2, <2>5, <3>1 DEF Ordered, RowsOK, Rows
    <3> QED
      BY <2>3, <3>2
  <2> QED
    BY <1>2, <1>3, <2>2, <2>4, <2>5 DEF Asks
<1> QED
  BY <1>2, <1>3, <1>5, <1>6, Ends

\* What comes in spoils the order; what goes out does not.
LEMMA RescueKeeps ==
  ASSUME Ordered, NEW h \in OrderRequests, RescueRows(h)
  PROVE  Ordered'
<1>1. PICK S \in (SUBSET Elsewhere) \cup {Rows} :
        /\ row' = [i \in Items |-> IF i \notin S THEN row[i] ELSE IF i \in Rows THEN "elsewhere" ELSE "live"]
        /\ muddled' = (muddled \/ ~sorting[h].alone \/ S \cap Elsewhere # {})
  BY DEF RescueRows
<1>2. sorting[h].op = "rescue" /\ sorting' = [sorting EXCEPT ![h] = NoSort] /\ place' = place
  BY DEF RescueRows
<1>3. RowsOK'
  BY <1>1, <1>2 DEF Ordered, RowsOK
<1>4. PlacesAreDistinct'
  <2>1. SUFFICES ASSUME ~muddled' PROVE \A x, y \in Rows' : place'[x] = place'[y] => x = y
    BY DEF PlacesAreDistinct
  <2>2. S \cap Elsewhere = {} /\ ~muddled
    BY <1>1, <2>1
  <2>3. S \subseteq Rows
    BY <2>2
  <2>4. Rows' \subseteq Rows
    BY <1>1, <2>3 DEF Rows
  <2> QED
    BY <1>2, <2>2, <2>4 DEF Ordered, PlacesAreDistinct
<1>5. sorting[h] # NoSort
  BY <1>2 DEF NoSort
<1> QED
  BY <1>2, <1>3, <1>4, <1>5, Ends

LEMMA SaveOrderKeeps ==
  ASSUME Ordered, NEW h \in OrderRequests, SaveOrder(h)
  PROVE  Ordered'
<1> DEFINE t == sorting[h]
           whole == Rows \subseteq DOMAIN t.to /\ \A i, j \in Rows : t.to[i] = t.to[j] => i = j
<1>1. /\ t.op = "order"
      /\ place' = [i \in Items |-> IF i \in DOMAIN t.to THEN t.to[i] ELSE place[i]]
      /\ sorting' = [sorting EXCEPT ![h] = NoSort]
      /\ row' = row
  BY DEF SaveOrder
<1>2. ~muddled' => whole
  BY DEF SaveOrder
<1>3. t # NoSort /\ Asks(t)
  BY <1>1 DEF Ordered, RequestsOK, NoSort
<1>4. RowsOK'
  BY <1>1, <1>3 DEF Ordered, RowsOK, Asks
<1>5. PlacesAreDistinct'
  BY <1>1, <1>2, FreshItems DEF PlacesAreDistinct, Rows
<1> QED
  BY <1>1, <1>3, <1>4, <1>5, Ends

-----------------------------------------------------------------------------
\* Of the places an id has in a request there is a last one.
LEMMA LastPlace ==
  ASSUME NEW n \in Nat, NEW S \in SUBSET (1 .. n), S # {}
  PROVE  \E k \in S : \A l \in S : l <= k
<1> DEFINE T == {n - k : k \in S}
           R == OpToRel(<, Nat)
<1>1. T \subseteq Nat /\ T # {}
  <2>1. \A k \in S : n - k \in Nat
    OBVIOUS
  <2>2. PICK k \in S : TRUE
    OBVIOUS
  <2>3. n - k \in T
    BY <2>2
  <2> QED
    BY <2>1, <2>3
<1>2. IsWellFoundedOn(R, Nat)
  BY NatLessThanWellFounded
<1> HIDE DEF T, R
<1>3. PICK x \in T : \A y \in T : ~(<<y, x>> \in R)
  BY <1>1, <1>2, WFMin
<1>4. \A y \in T : ~(y < x)
  BY <1>1, <1>3 DEF R, OpToRel
<1>5. PICK k \in S : x = n - k
  BY DEF T
<1>6. \A l \in S : n - l \in T
  BY DEF T
<1>7. \A l \in S : l <= k
  BY <1>4, <1>5, <1>6
<1> QED
  BY <1>7

LEMMA NumberedIs ==
  ASSUME NEW n \in Nat, NEW S, NEW q \in [1 .. n -> S]
  PROVE  \A i \in DOMAIN Numbered(q) : Numbered(q)[i] \in Nat
<1> SUFFICES ASSUME NEW i \in DOMAIN Numbered(q) PROVE Numbered(q)[i] \in Nat
  OBVIOUS
<1> DEFINE P(k) == q[k] = i /\ \A l \in DOMAIN q : q[l] = i => l <= k
           at == {k \in 1 .. n : q[k] = i}
<1>1. Numbered(q)[i] = (CHOOSE k \in DOMAIN q : P(k)) - 1
  BY DEF Numbered
<1>2. \E k \in DOMAIN q : P(k)
  <2>1. at # {} /\ at \in SUBSET (1 .. n)
    BY DEF Numbered
  <2>2. PICK k \in at : \A l \in at : l <= k
    BY <2>1, LastPlace
  <2> QED
    BY <2>2
<1>3. (CHOOSE k \in DOMAIN q : P(k)) \in 1 .. n
  BY <1>2
<1> QED
  BY <1>1, <1>3

LEMMA InOrderKeeps ==
  ASSUME Ordered, NEW h \in OrderRequests, NEW n \in Nat, NEW S, NEW q \in [1 .. n -> S], InOrder(h, q)
  PROVE  Ordered'
<1>1. \A i \in DOMAIN Numbered(q) : Numbered(q)[i] \in Nat
  BY NumberedIs
<1>2. Sort(h, "order", Numbered(q), FALSE)
  BY DEF InOrder
<1> QED
  BY <1>1, <1>2, SortKeeps

LEMMA SizesAreNumbers == Cardinality(Rows) \in Nat /\ Cardinality(Items) \in Nat
<1>1. IsFiniteSet(Items) /\ IsFiniteSet(Rows)
  BY FreshItems, OrderingAssumption, FS_Subset
<1> QED
  BY <1>1, FS_CardinalityType

LEMMA PairsKeeps ==
  ASSUME Ordered, NEW h \in OrderRequests, Pairs(h)
  PROVE  Ordered'
<1>1. PICK S \in (SUBSET (Rows \cup Elsewhere)) \ {{}} : \E to \in [S -> Places] : Sort(h, "order", to, FALSE)
  BY DEF Pairs
<1> PICK to \in [S -> Places] : Sort(h, "order", to, FALSE)
  BY <1>1
<1>2. \A i \in DOMAIN to : to[i] \in Nat
  BY FreshItems
<1> QED
  BY <1>2, SortKeeps

LEMMA ReorderKeeps ==
  ASSUME Ordered, NEW h \in OrderRequests,
         \/ ReorderEntries(h) \/ ReorderCountrySections(h) \/ ReorderFormSections(h) \/ ReorderSlides(h)
         \/ ReorderImages(h) \/ ReorderQuestions(h) \/ ReorderArticles(h)
  PROVE  Ordered'
<1>1. CASE ReorderEntries(h) \/ ReorderCountrySections(h) \/ ReorderFormSections(h)
  <2>1. PICK q \in [1 .. Cardinality(Rows) -> Rows] : InOrder(h, q)
    BY <1>1 DEF ReorderEntries, ReorderCountrySections, ReorderFormSections, Counted
  <2> QED
    BY <2>1, SizesAreNumbers, InOrderKeeps
<1>2. CASE ReorderArticles(h)
  <2>1. PICK n \in 1 .. Cardinality(Items) :
          \E q \in [1 .. n -> {i \in Items : row[i] # "none"}] : InOrder(h, q)
    BY <1>2 DEF ReorderArticles
  <2>2. PICK q \in [1 .. n -> {i \in Items : row[i] # "none"}] : InOrder(h, q)
    BY <2>1
  <2>3. n \in Nat
    BY SizesAreNumbers
  <2> QED
    BY <2>2, <2>3, InOrderKeeps
<1>3. CASE ReorderSlides(h) \/ ReorderImages(h) \/ ReorderQuestions(h)
  BY <1>3, PairsKeeps DEF ReorderSlides, ReorderImages, ReorderQuestions
<1> QED
  BY <1>1, <1>2, <1>3

LEMMA NextOrdered == Ordered /\ [OrderingNext]_orderVars => Ordered'
<1> SUFFICES ASSUME Ordered, [OrderingNext]_orderVars PROVE Ordered'
  OBVIOUS
<1>1. ASSUME NEW h \in OrderRequests,
             \/ AddEntry(h) \/ AddQuestion(h) \/ AddSlide(h) \/ AddImage(h)
             \/ AddCountrySection(h) \/ AddFormSection(h) \/ AddArticle(h)
      PROVE  Ordered'
  <2>1. \E i \in Fresh : AtEnd(h, i) \/ Anywhere(h, i)
    BY <1>1 DEF AddEntry, AddQuestion, AddSlide, AddImage, AddCountrySection, AddFormSection, AddArticle
  <2> QED
    BY <2>1, AtEndKeeps, AnywhereKeeps
<1>2. ASSUME NEW h \in OrderRequests, UpdateCountrySection(h) \/ UpdateItem(h) PROVE Ordered'
  BY <1>2, SetPlaceKeeps, ChangeCategoryKeeps DEF UpdateCountrySection, UpdateItem
<1>3. ASSUME NEW h \in OrderRequests, DeleteCountrySection(h) \/ DeleteImage(h) \/ DeleteItem(h) PROVE Ordered'
  BY <1>3, DeleteKeeps DEF DeleteCountrySection, DeleteImage, DeleteItem
<1>4. ASSUME NEW h \in OrderRequests,
             \/ ReorderEntries(h) \/ ReorderCountrySections(h) \/ ReorderFormSections(h) \/ ReorderSlides(h)
             \/ ReorderImages(h) \/ ReorderQuestions(h) \/ ReorderArticles(h)
      PROVE  Ordered'
  BY <1>4, ReorderKeeps
<1>5. ASSUME NEW h \in OrderRequests, SaveItem(h) \/ SaveOrder(h) \/ RescueRows(h) PROVE Ordered'
  BY <1>5, SaveItemKeeps, SaveOrderKeeps, RescueKeeps
<1>6. CASE DropParent
  BY <1>6 DEF DropParent, Ordered, RowsOK, RequestsOK, AloneOK, Asks, Behind, Rows, PlacesAreDistinct
<1>7. CASE UNCHANGED orderVars
  BY <1>7 DEF orderVars, Ordered, RowsOK, RequestsOK, AloneOK, Asks, Behind, Rows, PlacesAreDistinct
<1>8. ASSUME NEW h \in OrderRequests, DeleteCategory(h) PROVE Ordered'
  <2>1. Sort(h, "rescue", [i \in {} |-> 0], FALSE)
    BY <1>8 DEF DeleteCategory
  <2>2. PICK to : to = [i \in {} |-> 0]
    OBVIOUS
  <2>3. DOMAIN to = {}
    BY <2>2
  <2>4. Sort(h, "rescue", to, FALSE)
    BY <2>1, <2>2
  <2> QED
    BY <2>3, <2>4, SortKeeps
<1>9. CASE FileElsewhere
  <2>1. PICK i \in Fresh, p \in Places :
          row' = [row EXCEPT ![i] = "elsewhere"] /\ place' = [place EXCEPT ![i] = p]
    BY <1>9 DEF FileElsewhere
  <2>2. UNCHANGED <<sorting, muddled>>
    BY <1>9 DEF FileElsewhere
  <2>3. i \in Items /\ row[i] = "none" /\ p \in Nat
    BY FreshItems DEF Fresh
  <2>4. RowsOK'
    BY <2>1, <2>2, <2>3 DEF Ordered, RowsOK
  <2>5. Rows' = Rows /\ \A j \in Rows : place'[j] = place[j]
    BY <2>1, <2>3 DEF Ordered, RowsOK, Rows
  <2>6. PlacesAreDistinct' /\ RequestsOK'
    BY <2>2, <2>5 DEF Ordered, PlacesAreDistinct, RequestsOK, Asks
  <2>7. \A to : Behind(to) => \A j \in DOMAIN to : \A k \in Rows' : place'[k] < to[j]
    BY <2>5 DEF Behind
  <2>8. AloneOK'
    BY <2>2, <2>7 DEF Ordered, AloneOK, Behind
  <2> QED
    BY <2>4, <2>6, <2>8 DEF Ordered
<1> QED
  BY <1>1, <1>2, <1>3, <1>4, <1>5, <1>6, <1>7, <1>8, <1>9 DEF OrderingNext, OrderStep

\* PlacesAreDistinct is not inductive: what is added at the end must be behind every row
\* when it is written, which is so because the request was alone since it counted them.
THEOREM OrderLasts == OrderingSpec => []PlacesAreDistinct
<1>1. Ordered => PlacesAreDistinct
  BY DEF Ordered
<1> QED
  BY <1>1, InitOrdered, NextOrdered, PTL DEF OrderingSpec

-----------------------------------------------------------------------------
(* MCCatalogue, in which the run "catalogue" checks the three side by side.    *)

\* Whichever of them takes a step, the others do not.
LEMMA OneOfThreeMoves ==
  [Next]_<<catVars, siteVars, orderVars>> =>
    [CatNext]_catVars /\ [ContentNext]_siteVars /\ [OrderingNext]_orderVars
<1> SUFFICES ASSUME [Next]_<<catVars, siteVars, orderVars>>
             PROVE  [CatNext]_catVars /\ [ContentNext]_siteVars /\ [OrderingNext]_orderVars
  OBVIOUS
<1>1. CASE UNCHANGED <<catVars, siteVars, orderVars>>
  BY <1>1
<1>2. CASE Next
  BY <1>2 DEF Next
<1> QED
  BY <1>1, <1>2

\* A behaviour of the catalogue is one of what is offered, of the content and of a
\* list, each as its own specification says.
THEOREM CatalogueIsItsParts == Spec => CatSpec /\ ContentSpec /\ OrderingSpec
<1>1. Init => CatInit /\ ContentInit /\ OrderingInit
  BY DEF Init
<1> QED
  BY <1>1, OneOfThreeMoves, PTL DEF Spec, CatSpec, ContentSpec, OrderingSpec

\* Everything the run checks on its instance holds for any number of nationalities,
\* entries, forms, categories, rows and requests.
THEOREM CatalogueHolds ==
  Spec => /\ [](OfferedCanBeBooked /\ PageFollowsBinding)
          /\ [](StragglersAreLate /\ PlacesAreDistinct)
          /\ SystemFieldsGuarded /\ DeletionsSpareOffers
BY CatalogueIsItsParts, OfferedIsBooked, PageFollows, NothingIsLeftBehind, OrderLasts, SystemFieldsStay,
   OffersAreSpared, PTL
=============================================================================
