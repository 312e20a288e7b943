------------------------------ MODULE Offering -------------------------------
(* What one destination sells under one visa type: the binding of the two to  *)
(* a form, the fees by nationality and entry, the page of the country, and    *)
(* what the public selection, the country pages and the form renderer show of *)
(* them.  A binding is unique by destination and visa type, so it is one row; *)
(* so are the page of the country and the fee of a nationality and an entry.  *)
(* Amounts, texts and slugs play no part.                                     *)
EXTENDS FormTemplates

CONSTANTS
  Nationalities,  \* reference countries other than the destination, all active
  Entries,        \* rows of visa_type_entries there can be
  MaxCatFaults    \* bound: requests that fail half-way

Slots == Nationalities \X Entries  \* (nationality, entry) of a fee
ASSUME CatFaultsAssumption == MaxCatFaults \in Nat

VARIABLES
  country,    \* whether the destination is active
  visaType,   \* none, active, inactive or deleted; likewise the next three
  entry, binding, fee,
  bound,      \* templateId of the binding
  window,     \* now against validFrom and validTo: before, within or after
  page,       \* none, hidden (not active or not published), published or deleted
  booked,     \* the template of an application made under the binding, if there is one
  catFaults   \* requests that failed half-way

destination == <<country, page>>
product == <<visaType, entry>>
sales == <<binding, fee, bound, window, booked>>
offering == <<destination, product, sales>>
catVars == <<formVars, offering, catFaults>>

RowStates == {"none", "active", "inactive", "deleted"}
Live(x) == x \in {"active", "inactive"}

OfferingTypeOK ==
  /\ country \in BOOLEAN
  /\ visaType \in RowStates /\ binding \in RowStates
  /\ entry \in [Entries -> RowStates] /\ fee \in [Slots -> RowStates]
  /\ bound \in Templates \cup {NoTemplate} /\ booked \in Templates \cup {NoTemplate}
  /\ window \in {"before", "within", "after"}
  /\ page \in {"none", "hidden", "published", "deleted"}
  /\ catFaults \in 0 .. MaxCatFaults

OfferingInit ==
  /\ country = TRUE /\ visaType = "active"
  /\ entry = [e \in Entries |-> "active"]  \* those a visa type is created with
  /\ binding = "none" /\ fee = [x \in Slots |-> "none"]
  /\ bound = NoTemplate /\ window = "within" /\ page = "none" /\ booked = NoTemplate
  /\ catFaults = 0

SellableFees == {x \in Slots : fee[x] = "active"}
LiveFees == {x \in Slots : Live(fee[x])}

Deleted(fees) == [x \in Slots |-> IF x \in fees /\ Live(fee[x]) THEN "deleted" ELSE fee[x]]

BeginOffer(h, c) == Begin(h, c) /\ UNCHANGED <<forms, offering, catFaults>>
EndOffer(h) == End(h) /\ UNCHANGED <<forms, catFaults>>

-----------------------------------------------------------------------------
(* TemplateBindingsService.                                                   *)

\* validateRelations
RelationsValid(t) == t \in LiveTemplates /\ Live(visaType)

\* Refused if there is one; a deleted one is revived.
CreateBinding(h) ==
  \E t \in Templates, s \in {"active", "inactive"}, w \in {"before", "within"} :
    /\ ~Live(binding) /\ RelationsValid(t)
    /\ BeginOffer(h, [op |-> "createBinding", template |-> t, state |-> s, window |-> w,
                      row |-> binding # "none"])

StoreBinding_NoPage(h) ==
  LET c == call[h]
  IN /\ c.op = "createBinding"
     /\ binding' = c.state /\ bound' = c.template /\ window' = c.window
     /\ End(h)
     /\ UNCHANGED <<forms, country, visaType, entry, fee, page, booked, catFaults>>

\* An update by id revives a row, an insert fails if there is one by now; then the page.
StoreBinding(h) ==
  LET c == call[h]
  IN /\ c.op = "createBinding"
     /\ IF ~c.row /\ binding # "none"
        THEN End(h) /\ UNCHANGED <<binding, bound, window>>
        ELSE /\ binding' = c.state /\ bound' = c.template /\ window' = c.window
             /\ Continue(h, [op |-> "ensurePage"])
     /\ UNCHANGED <<forms, country, visaType, entry, fee, page, booked, catFaults>>

\* Each of the three, or what it was.
UpdateBinding(h) ==
  \E t \in LiveTemplates \cup {bound}, s \in {"active", "inactive"}, w \in {window, "after"} :
    /\ Live(binding) /\ <<t, s, w>> # <<bound, binding, window>>
    /\ BeginOffer(h, [op |-> "updateBinding", template |-> t, state |-> s, window |-> w,
                      keep |-> t = bound])

SaveBinding(h) ==
  LET c == call[h]
  IN /\ c.op = "updateBinding"
     /\ binding' = IF Live(binding) THEN c.state ELSE binding
     /\ bound' = IF c.keep THEN bound ELSE c.template
     /\ window' = c.window
     /\ EndOffer(h) /\ UNCHANGED <<country, visaType, entry, fee, page, booked>>

DeleteBinding(h) ==
  Live(binding) /\ BeginOffer(h, [op |-> "deleteBinding"])

\* All bindings of a template; from here on like deleting each by its id.
BulkDeleteDestinations(h) ==
  Live(binding) /\ bound \in LiveTemplates /\ BeginOffer(h, [op |-> "deleteBinding"])

RemoveBinding(h) ==
  /\ call[h].op = "deleteBinding"
  /\ binding' = IF Live(binding) THEN "deleted" ELSE binding
  /\ fee' = Deleted(Slots)
  /\ EndOffer(h) /\ UNCHANGED <<country, visaType, entry, bound, window, page, booked>>

\* rows: the fees to set (TRUE) and to drop.
BulkUpsertNationalities(h) ==
  \E t \in LiveTemplates, X \in SUBSET Slots \ {{}} : \E rows \in [X -> BOOLEAN] :
    /\ ~boilerplate[t] /\ country /\ visaType = "active"
    /\ \A x \in X : Live(entry[x[2]])
    /\ BeginOffer(h, [op |-> "bulkUpsert", template |-> t, rows |-> rows])

\* One transaction: the binding, the fees, and the binding again if it has no active
\* fee left and no application.
StoreNationalities(h) ==
  LET c == call[h]
      X == DOMAIN c.rows
  IN /\ c.op = "bulkUpsert"
     /\ fee' = [x \in Slots |-> IF x \notin X THEN fee[x]
                                ELSE IF c.rows[x] THEN "active"
                                ELSE IF Live(fee[x]) THEN "deleted" ELSE fee[x]]
     /\ binding' = IF booked = NoTemplate /\ \A x \in Slots : fee'[x] # "active"
                   THEN "deleted" ELSE "active"
     /\ bound' = c.template
     /\ window' = IF binding = "none" THEN "within" ELSE window
     /\ Continue(h, [op |-> "ensurePage"])
     /\ UNCHANGED <<forms, country, visaType, entry, page, booked, catFaults>>

-----------------------------------------------------------------------------
(* CountryPageAutocreateService: ensurePageForDestination never fails.        *)

FindPage(h) ==
  /\ call[h].op = "ensurePage"
  /\ Continue(h, IF page = "none" THEN [op |-> "createPage", state |-> "published"] ELSE NoCall)
  /\ UNCHANGED <<forms, offering, catFaults>>

\* CountryPagesService.create; one page for a country, deleted or not.
CreatePage(h) ==
  \E s \in {"hidden", "published"} :
    /\ page \notin {"hidden", "published"}
    /\ BeginOffer(h, [op |-> "createPage", state |-> s])

\* The page and its sections, in a transaction; the unique country makes it fail if
\* there is a page by now, or a deleted one.
StorePage(h) ==
  /\ call[h].op = "createPage"
  /\ page' = IF page = "none" THEN call[h].state ELSE page
  /\ EndOffer(h) /\ UNCHANGED <<country, visaType, entry, binding, fee, bound, window, booked>>

UpdatePage(h) ==
  \E s \in {"hidden", "published"} \ {page} :
    page \in {"hidden", "published"} /\ BeginOffer(h, [op |-> "updatePage", state |-> s])

DeletePage(h) ==
  page \in {"hidden", "published"} /\ BeginOffer(h, [op |-> "updatePage", state |-> "deleted"])

\* An update by id: a page that is deleted by now stays so.
SavePage(h) ==
  /\ call[h].op = "updatePage"
  /\ page' = IF page = "deleted" THEN page ELSE call[h].state
  /\ EndOffer(h) /\ UNCHANGED <<country, visaType, entry, binding, fee, bound, window, booked>>

-----------------------------------------------------------------------------
(* BindingNationalityFeesService.  Whether the entry exists still, or belongs *)
(* to the visa type, is not looked at.                                        *)

CreateFee(h) ==
  \E x \in Slots, s \in {"active", "inactive"} :
    /\ Live(binding) /\ ~Live(fee[x]) /\ entry[x[2]] # "none"
    /\ BeginOffer(h, [op |-> "createFee", slot |-> x, state |-> s, row |-> fee[x] # "none"])

StoreFee(h) ==
  LET c == call[h]
  IN /\ c.op = "createFee"
     /\ IF ~c.row /\ fee[c.slot] # "none"
        THEN End(h) /\ UNCHANGED fee
        ELSE fee' = [fee EXCEPT ![c.slot] = c.state] /\ Continue(h, [op |-> "ensurePage"])
     /\ UNCHANGED <<forms, country, visaType, entry, binding, bound, window, page, booked, catFaults>>

\* Of another state, or of a nationality that has no fee yet.
UpdateFee(h) ==
  \E x \in LiveFees, n \in Nationalities, s \in {"active", "inactive"} :
    /\ n # x[1] => \A e \in Entries : <<n, e>> \notin LiveFees
    /\ BeginOffer(h, [op |-> "updateFee", slot |-> x, to |-> <<n, x[2]>>, state |-> s])

\* An update by id; a row of the new nationality, also a deleted one, makes it fail.
\* (A bound: a row changes its nationality while no other request is under way.)
SaveFee(h) ==
  LET c == call[h]
      s == IF Live(fee[c.slot]) THEN c.state ELSE fee[c.slot]
  IN /\ c.op = "updateFee"
     /\ c.to # c.slot => \A g \in CatRequests \ {h} : call[g] = NoCall
     /\ fee' = IF c.to = c.slot THEN [fee EXCEPT ![c.slot] = s]
               ELSE IF fee[c.to] # "none" THEN fee
               ELSE [fee EXCEPT ![c.slot] = "none", ![c.to] = s]
     /\ EndOffer(h) /\ UNCHANGED <<country, visaType, entry, binding, bound, window, page, booked>>

DeleteFee(h) ==
  \E x \in LiveFees : BeginOffer(h, [op |-> "deleteFee", slot |-> x])

RemoveFee(h) ==
  /\ call[h].op = "deleteFee"
  /\ fee' = IF fee[call[h].slot] = "none" THEN fee ELSE [fee EXCEPT ![call[h].slot] = "deleted"]
  /\ EndOffer(h) /\ UNCHANGED <<country, visaType, entry, binding, bound, window, page, booked>>

\* Those of the targets that have no fee of the entry, or all of them.
BulkCopy(h) ==
  \E x \in LiveFees, N \in SUBSET Nationalities, overwrite \in BOOLEAN :
    LET to == {y \in (N \ {x[1]}) \X {x[2]} : overwrite \/ ~Live(fee[y])}
    IN /\ Live(binding) /\ to # {}
       /\ BeginOffer(h, [op |-> "bulkCopy", state |-> fee[x],
                         insert |-> {y \in to : fee[y] = "none"},
                         update |-> {y \in to : Live(fee[y])},
                         revive |-> {y \in to : fee[y] = "deleted"}])

\* One transaction, which fails if a row it inserts is there by now.
StoreCopies(h) ==
  LET c == call[h]
      Copy(x) == x \in c.insert \cup c.revive \/ (x \in c.update /\ Live(fee[x]))
  IN /\ c.op = "bulkCopy"
     /\ fee' = IF \E x \in c.insert : fee[x] # "none" THEN fee
               ELSE [x \in Slots |-> IF Copy(x) THEN c.state ELSE fee[x]]
     /\ EndOffer(h) /\ UNCHANGED <<country, visaType, entry, binding, bound, window, page, booked>>

-----------------------------------------------------------------------------
(* VisaTypesService, CountriesService and the template, which goes with its   *)
(* bindings.                                                                  *)

CreateEntry(h) ==
  \E e \in Entries : entry[e] = "none" /\ Live(visaType)
    /\ BeginOffer(h, [op |-> "saveEntry", entry |-> e, state |-> "active"])

UpdateEntry(h) ==
  \E e \in Entries, s \in {"active", "inactive"} :
    /\ Live(entry[e]) /\ s # entry[e]
    /\ BeginOffer(h, [op |-> "saveEntry", entry |-> e, state |-> s])

DeleteEntry_Unchecked(h) ==
  \E e \in Entries :
    Live(entry[e]) /\ BeginOffer(h, [op |-> "saveEntry", entry |-> e, state |-> "deleted"])

\* Refused while a fee is set for it.
DeleteEntry(h) ==
  \E e \in Entries :
    /\ Live(entry[e]) /\ \A x \in LiveFees : x[2] # e
    /\ BeginOffer(h, [op |-> "saveEntry", entry |-> e, state |-> "deleted"])

SaveEntry(h) ==
  LET c == call[h]
  IN /\ c.op = "saveEntry"
     /\ entry' = IF entry[c.entry] = "deleted" THEN entry ELSE [entry EXCEPT ![c.entry] = c.state]
     /\ EndOffer(h) /\ UNCHANGED <<country, visaType, binding, fee, bound, window, page, booked>>

UpdateVisaType(h) ==
  \E s \in {"active", "inactive"} \ {visaType} :
    Live(visaType) /\ BeginOffer(h, [op |-> "saveVisaType", state |-> s])

\* Refused while an active binding has it.
DeleteVisaType(h) ==
  Live(visaType) /\ binding # "active" /\ BeginOffer(h, [op |-> "saveVisaType", state |-> "deleted"])

SaveVisaType(h) ==
  /\ call[h].op = "saveVisaType"
  /\ visaType' = IF visaType = "deleted" THEN visaType ELSE call[h].state
  /\ EndOffer(h) /\ UNCHANGED <<country, entry, binding, fee, bound, window, page, booked>>

UpdateCountry(h) ==
  BeginOffer(h, [op |-> "saveCountry", flag |-> ~country])

SaveCountry(h) ==
  /\ call[h].op = "saveCountry"
  /\ country' = call[h].flag
  /\ EndOffer(h) /\ UNCHANGED <<visaType, entry, binding, fee, bound, window, page, booked>>

\* With force, or if no binding has it.
DeleteTemplate(h) ==
  \E t \in LiveTemplates, force \in BOOLEAN :
    LET used == Live(binding) /\ bound = t
    IN /\ used => force
       /\ BeginOffer(h, [op |-> "deleteTemplate", template |-> t, flag |-> used,
                         sections |-> SectionsOf(t)])

RemoveTemplate_Orphan(h) ==
  LET c == call[h]
  IN /\ c.op = "deleteTemplate"
     /\ RemoveForm(c.template, c.sections)
     /\ End(h) /\ UNCHANGED <<offering, catFaults>>

\* One transaction.
RemoveTemplate(h) ==
  LET c == call[h]
  IN /\ c.op = "deleteTemplate"
     /\ RemoveForm(c.template, c.sections)
     /\ fee' = IF c.flag THEN Deleted(Slots) ELSE fee
     /\ binding' = IF c.flag /\ Live(binding) THEN "deleted" ELSE binding
     /\ End(h)
     /\ UNCHANGED <<country, visaType, entry, bound, window, page, booked, catFaults>>

-----------------------------------------------------------------------------
(* What the public surfaces show of it.                                       *)

BindingOpen == binding = "active" /\ window = "within"

\* getDestinationsForNationality lists the destination.
DestinationListed(n) == country /\ BindingOpen /\ \E x \in SellableFees : x[1] = n

\* getVisaTypesForCombination lists the entry.
EntryListed(n, e) ==
  BindingOpen /\ visaType = "active" /\ entry[e] = "active" /\ <<n, e>> \in SellableFees

\* getPreview quotes a price, and ApplicationsService.create accepts the same choice.
Quoted(n, e) == BindingOpen /\ <<n, e>> \in SellableFees
Accepted(n, e) == BindingOpen /\ <<n, e>> \in SellableFees

\* getSchema of the application.
FormShown(t) == t \in LiveTemplates

\* activeBindingWhere and sellableDestinationWhere.
BindingSells == BindingOpen /\ visaType = "active"
OnGrid == page = "published" /\ BindingSells /\ SellableFees # {}

\* The entries on the visa card of the page, and its eligible nationalities.
CardEntries == IF page = "published" /\ BindingSells
               THEN {e \in Entries : entry[e] = "active" /\ \E x \in SellableFees : x[2] = e} ELSE {}
Eligible == IF page = "published" /\ BindingSells THEN {x[1] : x \in SellableFees} ELSE {}

\* On offer: step by step in the selection, or through the grid on the page's card.
OnOffer(n, e) ==
  \/ DestinationListed(n) /\ EntryListed(n, e)
  \/ OnGrid /\ n \in Eligible /\ e \in CardEntries

\* An application is made; it keeps the template the binding has.
Apply ==
  /\ "apply" \in offered
  /\ booked = NoTemplate
  /\ \E x \in Slots : Accepted(x[1], x[2]) /\ booked' = bound
  /\ UNCHANGED <<formVars, country, visaType, entry, binding, fee, bound, window, page, catFaults>>

TimePasses ==
  /\ window # "after" /\ Live(binding)
  /\ window' = IF window = "before" THEN "within" ELSE "after"
  /\ UNCHANGED <<formVars, country, visaType, entry, binding, fee, bound, page, booked, catFaults>>

CatRequestFails(h) ==
  /\ "fails" \in offered /\ catFaults < MaxCatFaults
  /\ call[h] # NoCall
  /\ End(h)
  /\ catFaults' = catFaults + 1
  /\ UNCHANGED <<forms, offering>>

ServeOffer(h) ==
  \/ CreateBinding(h) \/ StoreBinding(h) \/ UpdateBinding(h) \/ SaveBinding(h)
  \/ DeleteBinding(h) \/ BulkDeleteDestinations(h) \/ RemoveBinding(h) \/ BulkUpsertNationalities(h) \/ StoreNationalities(h)
  \/ FindPage(h) \/ CreatePage(h) \/ StorePage(h) \/ UpdatePage(h) \/ DeletePage(h) \/ SavePage(h)
  \/ CreateFee(h) \/ StoreFee(h) \/ UpdateFee(h) \/ SaveFee(h) \/ DeleteFee(h) \/ RemoveFee(h)
  \/ BulkCopy(h) \/ StoreCopies(h)
  \/ CreateEntry(h) \/ UpdateEntry(h) \/ DeleteEntry(h) \/ SaveEntry(h)
  \/ UpdateVisaType(h) \/ DeleteVisaType(h) \/ SaveVisaType(h)
  \/ UpdateCountry(h) \/ SaveCountry(h) \/ DeleteTemplate(h) \/ RemoveTemplate(h)
  \/ CatRequestFails(h)

CatInit == FormsInit /\ OfferingInit
CatNext ==
  \/ \E h \in CatRequests : ServeForms(h) /\ UNCHANGED <<offering, catFaults>>
  \/ \E h \in CatRequests : ServeOffer(h)
  \/ Apply \/ TimePasses

CatSpec == CatInit /\ [][CatNext]_catVars

-----------------------------------------------------------------------------
CatTypeOK == FormsTypeOK /\ OfferingTypeOK

\* One request at a time: deleting sections and fields never takes a system field;
\* only the deletion of the whole template does.
SystemFieldsGuarded ==
  [][~raced' => \A f \in Fields :
       field[f].system /\ ~field[f].gone /\ field'[f].gone =>
         template'[section[field[f].in].of] = "deleted"]_catVars

\* One request at a time: what the selection offers a customer step by step is quoted
\* and accepted, and its form can be shown, whatever was deactivated or deleted.
OfferedCanBeBooked ==
  ~raced => \A n \in Nationalities, e \in Entries :
    DestinationListed(n) /\ EntryListed(n, e) =>
      Quoted(n, e) /\ Accepted(n, e) /\ FormShown(bound)

\* However requests overlap: a binding or a fee never stays without a page of the
\* country unless the request that stored it failed or is still on its way.
PageFollowsBinding ==
  Live(binding) /\ page = "none" /\ catFaults = 0 =>
    \E h \in CatRequests : call[h].op \in {"ensurePage", "createPage"}

\* One request at a time: what is on offer to a customer ends by a switch, by time, or with
\* its own fee, binding or form, and never because the visa type or the entry under it was
\* deleted: remove and removeEntry look at the other tables first, and still rightly when
\* they write.  Where it ends with the form, no fee of it is left.
DeletionsSpareOffers ==
  [][~raced' => \A n \in Nationalities, e \in Entries :
       OnOffer(n, e) /\ ~OnOffer(n, e)' =>
         /\ visaType' # "deleted" /\ entry'[e] # "deleted"
         /\ bound \notin LiveTemplates' => LiveFees' = {}]_catVars
=============================================================================
