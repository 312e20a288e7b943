---------------------------- MODULE FormTemplates ----------------------------
(* Application forms: TemplatesService, TemplateSectionsService and           *)
(* TemplateFieldsService.  A template has sections, a section has fields; the *)
(* fields every form needs (SYSTEM_DEFAULT_FIELDS) are put in when a template *)
(* is created and again whenever the server starts.  Rows are deleted by a    *)
(* mark.  A request reads and checks in one step and writes in a later one;   *)
(* a transaction is one step.  What an order, a label or an option is plays   *)
(* no part.  (X_Bug is X with a plausible mistake, for PROJECT.json.)         *)
EXTENDS Integers, FiniteSets, Functions

CONSTANTS
  CatRequests,   \* requests there can be at a time
  Templates,     \* a template is known by its key, which is never used again
  SectionKeys, FieldKeys,
  SystemHome,    \* SYSTEM_DEFAULT_FIELDS: of a system key, the key of its section
  MaxSections, MaxFields,  \* bounds: rows
  CatOffers      \* the sets of operations to explore, one per behaviour

NoTemplate == "no template"
SystemKeys == DOMAIN SystemHome
Sections == 1 .. MaxSections
Fields == 1 .. MaxFields

ASSUME FormsAssumption ==
  /\ SystemKeys \subseteq FieldKeys /\ SystemHome \in [SystemKeys -> SectionKeys]
  /\ SystemKeys # {} /\ MaxSections \in Nat /\ MaxFields \in Nat /\ NoTemplate \notin Templates

VARIABLES
  template,     \* none, live or deleted
  boilerplate,  \* isBoilerplate
  section,      \* rows of template_sections
  field,        \* rows of template_fields
  call,         \* requests in flight: what they read and are about to write
  offered, raced  \* operations offered; two requests have overlapped

forms == <<template, boilerplate, section, field>>
formVars == <<forms, call, offered, raced>>

NoCall == [op |-> "idle"]

FormsTypeOK ==
  /\ template \in [Templates -> {"none", "live", "deleted"}]
  /\ boilerplate \in [Templates -> BOOLEAN]
  /\ section \in [Sections -> [of : Templates \cup {NoTemplate}, key : SectionKeys, gone : BOOLEAN]]
  /\ field \in [Fields -> [in : Sections \cup {0}, key : FieldKeys,
                           system : BOOLEAN, gone : BOOLEAN]]
  /\ DOMAIN call = CatRequests
  /\ offered \in CatOffers /\ raced \in BOOLEAN

FormsInit ==
  /\ template = [t \in Templates |-> "none"]
  /\ boilerplate = [t \in Templates |-> FALSE]
  /\ section = [s \in Sections |-> [of |-> NoTemplate, key |-> CHOOSE k \in SectionKeys : TRUE,
                                    gone |-> FALSE]]
  /\ field = [f \in Fields |-> [in |-> 0, key |-> CHOOSE k \in FieldKeys : TRUE,
                                system |-> FALSE, gone |-> FALSE]]
  /\ call = [h \in CatRequests |-> NoCall]
  /\ offered \in CatOffers /\ raced = FALSE

LiveTemplates == {t \in Templates : template[t] = "live"}
SectionsOf(t) == {s \in Sections : section[s].of = t /\ ~section[s].gone}
LiveSections == UNION {SectionsOf(t) : t \in Templates}
LiveFields == {f \in Fields : field[f].in # 0 /\ ~field[f].gone}
Form(t) == {f \in LiveFields : field[f].in \in SectionsOf(t)}

\* The first n rows not yet used.
FreeSections(n) == {s \in Sections : section[s].of = NoTemplate
                      /\ Cardinality({r \in 1 .. s : section[r].of = NoTemplate}) <= n}
FreeFields(n) == {f \in Fields : field[f].in = 0
                    /\ Cardinality({g \in 1 .. f : field[g].in = 0}) <= n}

\* The unique keys: (template, key) of sections, deleted ones too, and (section, key)
\* of fields that are not deleted.
SectionTaken(t, k) == \E s \in Sections : section[s].of = t /\ section[s].key = k
FieldTaken(s, k) == \E f \in LiveFields : field[f].in = s /\ field[f].key = k
KeyInForm(t, k) == \E f \in Form(t) : field[f].key = k

\* A request starts: it has passed its checks and goes on with c.  (A bound: requests
\* overlap where "overlap" is offered.)
Begin(h, c) ==
  /\ c.op \in offered
  /\ call[h] = NoCall
  /\ call' = [call EXCEPT ![h] = c]
  /\ LET busy == \E g \in CatRequests : call[g] # NoCall
     IN (busy => "overlap" \in offered) /\ raced' = (raced \/ busy)
  /\ UNCHANGED offered

Continue(h, c) == call' = [call EXCEPT ![h] = c] /\ UNCHANGED <<offered, raced>>
End(h) == Continue(h, NoCall)

BeginForms(h, c) == Begin(h, c) /\ UNCHANGED forms

-----------------------------------------------------------------------------
(* TemplatesService.                                                          *)

NewSection(t, k) == [of |-> t, key |-> k, gone |-> FALSE]
NewField(s, k, system) == [in |-> s, key |-> k, system |-> system, gone |-> FALSE]

\* The rows, with new ones in their places.
With(new, rows) == [i \in DOMAIN rows |-> IF i \in DOMAIN new THEN new[i] ELSE rows[i]]

\* initializeSystemFields: add the sections the template lacks, and the system fields
\* whose key no field of the template has.  A section of that key which was deleted
\* makes the transaction fail.
Provision(t) ==
  LET lackS == {k \in {SystemHome[x] : x \in SystemKeys} : \A s \in SectionsOf(t) : section[s].key # k}
      lackF == {k \in SystemKeys : ~KeyInForm(t, k)}
  IN IF \E k \in lackS : SectionTaken(t, k)
     THEN UNCHANGED <<section, field>>
     ELSE \E new \in Bijection(FreeSections(Cardinality(lackS)), lackS),
             add \in Bijection(FreeFields(Cardinality(lackF)), lackF) :
            LET all == With([s \in DOMAIN new |-> NewSection(t, new[s])], section)
                Home(k) == CHOOSE s \in Sections :
                             all[s].of = t /\ all[s].key = SystemHome[k] /\ ~all[s].gone
            IN /\ section' = all
               /\ field' = With([f \in DOMAIN add |-> NewField(Home(add[f]), add[f], TRUE)], field)

CreateTemplate(h) ==
  \E t \in Templates, b \in BOOLEAN :
    /\ template[t] = "none"
    /\ BeginForms(h, [op |-> "createTemplate", template |-> t, flag |-> b])

\* The unique key makes the second of two fail.
StoreTemplate(h) ==
  LET c == call[h]
  IN /\ c.op = "createTemplate"
     /\ IF template[c.template] # "none" THEN UNCHANGED forms
        ELSE /\ template' = [template EXCEPT ![c.template] = "live"]
             /\ boilerplate' = [boilerplate EXCEPT ![c.template] = c.flag]
             /\ IF c.flag THEN UNCHANGED <<section, field>> ELSE Provision(c.template)
     /\ End(h)

\* The sections and fields of a template, as duplicate copies them.
Tree(t) == {<<section[s].key, {field[f].key : f \in {g \in LiveFields : field[g].in = s}}>>
              : s \in SectionsOf(t)}

DuplicateTemplate(h) ==
  \E from \in LiveTemplates, t \in Templates :
    /\ template[t] = "none"
    /\ BeginForms(h, [op |-> "duplicateTemplate", template |-> t, tree |-> Tree(from)])

\* Neither isBoilerplate nor isSystem is copied.
StoreDuplicate(h) ==
  LET c == call[h]
      leaves == UNION {{<<b[1], k>> : k \in b[2]} : b \in c.tree}
  IN /\ c.op = "duplicateTemplate"
     /\ IF template[c.template] # "none" THEN UNCHANGED forms
        ELSE /\ template' = [template EXCEPT ![c.template] = "live"]
             /\ \E new \in Bijection(FreeSections(Cardinality(c.tree)), {b[1] : b \in c.tree}),
                   add \in Bijection(FreeFields(Cardinality(leaves)), leaves) :
                  /\ section' = With([s \in DOMAIN new |-> NewSection(c.template, new[s])], section)
                  /\ field' = With([f \in DOMAIN add |->
                       NewField(CHOOSE s \in DOMAIN new : new[s] = add[f][1], add[f][2], FALSE)], field)
             /\ UNCHANGED boilerplate
     /\ End(h)

\* When the server starts, and backfillSystemFieldsIntoExistingTemplate: one
\* transaction for each template found.
Bootstrap(h) ==
  \E t \in LiveTemplates :
    ~boilerplate[t] /\ BeginForms(h, [op |-> "backfill", template |-> t])

Backfill(h) ==
  /\ call[h].op = "backfill"
  /\ Provision(call[h].template)
  /\ End(h) /\ UNCHANGED <<template, boilerplate>>

\* What deleting a template marks, in the transaction of TemplatesService.delete: the
\* fields of the sections it read, the sections there are now, and the template.
RemoveForm(t, read) ==
  /\ field' = [f \in Fields |-> IF field[f].in \in read THEN [field[f] EXCEPT !.gone = TRUE] ELSE field[f]]
  /\ section' = [s \in Sections |-> IF section[s].of = t THEN [section[s] EXCEPT !.gone = TRUE] ELSE section[s]]
  /\ template' = [template EXCEPT ![t] = "deleted"]
  /\ UNCHANGED boilerplate

-----------------------------------------------------------------------------
(* TemplateSectionsService.                                                   *)

CreateSection(h) ==
  \E t \in LiveTemplates, k \in SectionKeys :
    /\ \A s \in SectionsOf(t) : section[s].key # k
    /\ BeginForms(h, [op |-> "createSection", template |-> t, skey |-> k])

StoreSection(h) ==
  LET c == call[h]
  IN /\ c.op = "createSection"
     /\ IF SectionTaken(c.template, c.skey) THEN UNCHANGED section
        ELSE \E s \in FreeSections(1) : section' = [section EXCEPT ![s] = NewSection(c.template, c.skey)]
     /\ End(h) /\ UNCHANGED <<template, boilerplate, field>>

UpdateSection(h) ==
  \E t \in Templates : \E s \in SectionsOf(t), k \in SectionKeys :
    /\ \A r \in SectionsOf(t) \ {s} : section[r].key # k
    /\ BeginForms(h, [op |-> "updateSection", section |-> s, skey |-> k])

\* An update by id, whatever became of the section since it was read.
SaveSection(h) ==
  LET c == call[h]
  IN /\ c.op = "updateSection"
     /\ IF SectionTaken(section[c.section].of, c.skey) THEN UNCHANGED section
        ELSE section' = [section EXCEPT ![c.section].key = c.skey]
     /\ End(h) /\ UNCHANGED <<template, boilerplate, field>>

DeleteSection_Unchecked(h) ==
  \E s \in LiveSections : BeginForms(h, [op |-> "deleteSection", section |-> s])

\* Refused while it has a system field.
DeleteSection(h) ==
  \E s \in LiveSections :
    /\ \A f \in LiveFields : field[f].in = s => ~field[f].system
    /\ BeginForms(h, [op |-> "deleteSection", section |-> s])

\* With the fields that are in it by now.
RemoveSection(h) ==
  LET s == call[h].section
  IN /\ call[h].op = "deleteSection"
     /\ field' = [f \in Fields |-> IF field[f].in = s THEN [field[f] EXCEPT !.gone = TRUE] ELSE field[f]]
     /\ section' = [section EXCEPT ![s].gone = TRUE]
     /\ End(h) /\ UNCHANGED <<template, boilerplate>>

-----------------------------------------------------------------------------
(* TemplateFieldsService.                                                     *)

CreateField(h) ==
  \E s \in LiveSections, k \in FieldKeys :
    /\ ~KeyInForm(section[s].of, k)
    /\ BeginForms(h, [op |-> "createField", section |-> s, fkey |-> k])

StoreField(h) ==
  LET c == call[h]
  IN /\ c.op = "createField"
     /\ IF FieldTaken(c.section, c.fkey) THEN UNCHANGED field
        ELSE \E f \in FreeFields(1) : field' = [field EXCEPT ![f] = NewField(c.section, c.fkey, FALSE)]
     /\ End(h) /\ UNCHANGED <<template, boilerplate, section>>

\* The key of a system field is locked.
UpdateField(h) ==
  \E f \in LiveFields, k \in FieldKeys :
    /\ ~field[f].system /\ k # field[f].key
    /\ ~KeyInForm(section[field[f].in].of, k)
    /\ BeginForms(h, [op |-> "updateField", field |-> f, fkey |-> k])

SaveField(h) ==
  LET c == call[h]
  IN /\ c.op = "updateField"
     /\ IF ~field[c.field].gone /\ FieldTaken(field[c.field].in, c.fkey) THEN UNCHANGED field
        ELSE field' = [field EXCEPT ![c.field].key = c.fkey]
     /\ End(h) /\ UNCHANGED <<template, boilerplate, section>>

DeleteField(h) ==
  \E f \in LiveFields :
    ~field[f].system /\ BeginForms(h, [op |-> "deleteField", field |-> f])

RemoveField(h) ==
  /\ call[h].op = "deleteField"
  /\ field' = [field EXCEPT ![call[h].field].gone = TRUE]
  /\ End(h) /\ UNCHANGED <<template, boilerplate, section>>

\* reorderFields, one item: the target section is compared with the section the
\* request names; the section the field is in is not.
ReorderFields(h) ==
  \E f \in LiveFields, s \in LiveSections :
    /\ field[f].in # s
    /\ \E root \in LiveSections : section[root].of = section[s].of
    /\ BeginForms(h, [op |-> "reorderFields", field |-> f, section |-> s])

MoveField(h) ==
  LET c == call[h]
  IN /\ c.op = "reorderFields"
     /\ IF ~field[c.field].gone /\ FieldTaken(c.section, field[c.field].key) THEN UNCHANGED field
        ELSE field' = [field EXCEPT ![c.field].in = c.section]
     /\ End(h) /\ UNCHANGED <<template, boilerplate, section>>

ServeForms(h) ==
  \/ CreateTemplate(h) \/ StoreTemplate(h) \/ DuplicateTemplate(h) \/ StoreDuplicate(h)
  \/ Bootstrap(h) \/ Backfill(h)
  \/ CreateSection(h) \/ StoreSection(h) \/ UpdateSection(h) \/ SaveSection(h)
  \/ DeleteSection(h) \/ RemoveSection(h)
  \/ CreateField(h) \/ StoreField(h) \/ UpdateField(h) \/ SaveField(h)
  \/ DeleteField(h) \/ RemoveField(h) \/ ReorderFields(h) \/ MoveField(h)

-----------------------------------------------------------------------------
\* One request at a time: a field stays in the template it was made for; requests that
\* reorder fields cannot move it into another.
FieldsStayInTemplate ==
  [][~raced' => \A f \in Fields :
       field[f].in # 0 => section'[field'[f].in].of = section[field[f].in].of]_forms
=============================================================================
