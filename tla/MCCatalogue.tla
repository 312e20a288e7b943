----------------------------- MODULE MCCatalogue -----------------------------
(* The catalogue (forms, bindings, fees, pages), the site's content and the    *)
(* order of a list share no state: a behaviour follows the one that is        *)
(* offered something to do.                                                   *)
EXTENDS Offering, Content, Ordering, TLC

MCSystemHome == [k \in {"passport"} |-> "documents"]

\* The sets of operations explored together.
MCCatOffers ==
  { {},
    {"createTemplate", "duplicateTemplate", "backfill", "createSection", "updateSection",
     "deleteSection", "reorderFields", "deleteTemplate"},
    {"createTemplate", "backfill", "createField", "updateField", "deleteField",
     "deleteSection", "reorderFields", "deleteTemplate", "fails"},
    {"createTemplate", "createSection", "deleteSection", "overlap", "fails"},
    {"createTemplate", "createField", "updateField", "overlap", "fails"},
    {"createTemplate", "createBinding", "updateBinding", "deleteBinding", "bulkUpsert",
     "deleteTemplate", "apply"},
    {"createTemplate", "createBinding", "updateBinding", "deleteBinding", "deleteTemplate",
     "apply", "fails"},
    {"createTemplate", "createBinding", "deleteBinding", "createPage", "updatePage", "overlap"},
    {"createTemplate", "bulkUpsert", "createPage", "overlap"},
    {"createTemplate", "createBinding", "createFee", "updateFee", "deleteFee", "bulkCopy",
     "deleteBinding", "fails"},
    {"createTemplate", "createBinding", "createFee", "overlap"},
    {"createTemplate", "bulkUpsert", "saveEntry", "saveVisaType", "createPage", "fails"},
    {"createTemplate", "bulkUpsert", "updateFee", "saveCountry", "updatePage"} }

MCSiteOffers ==
  { {},
    {"createFaqCategory", "deleteFaqCategory", "createQuestion", "updateQuestion", "deleteQuestion"},
    {"createHelpCategory", "deleteHelpCategory", "createArticle", "updateArticle", "deleteArticle"},
    {"createPage", "updatePage", "deletePage"},
    {"contact", "payPage"} }

\* Lists, and whether requests overlap.
MCListOffers == {<<l, l = "entries">> : l \in Lists} \cup {<<"none", FALSE>>}

\* Requests are alike.
MCSymmetry == Permutations(CatRequests)

NoList == list[1] = "none"

Init ==
  /\ CatInit /\ ContentInit /\ OrderingInit
  /\ Cardinality({x \in {1, 2, 3} : <<offered # {}, siteOffer # {}, ~NoList>>[x]}) = 1

Next ==
  \/ offered # {} /\ CatNext /\ UNCHANGED <<siteVars, orderVars>>
  \/ siteOffer # {} /\ ContentNext /\ UNCHANGED <<catVars, orderVars>>
  \/ ~NoList /\ OrderingNext /\ UNCHANGED <<catVars, siteVars>>

Spec == Init /\ [][Next]_<<catVars, siteVars, orderVars>>

\* The variables of all have their types.
TypeOK == CatTypeOK /\ ContentTypeOK /\ OrderingTypeOK
=============================================================================
