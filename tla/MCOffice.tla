------------------------------ MODULE MCOffice -------------------------------
(* Seven components that share no state: administrators' accounts, the portal,  *)
(* cases before payment, stored files, the services of the back office, and   *)
(* the letters, and the visas.  A behaviour follows one of them, the one that *)
(* is offered something to do, and the portal when none is.                   *)
EXTENDS AdminAccess, PortalAccess, Casework, StoredFiles, Backoffice, Correspondence,
        VisaIssue

MCSeedKeys == [r \in SystemRoles |-> SuperKey]

\* The sets of operations explored together.
MCAdminOffers ==
  { {},
    {"createUser", "updateUser", "activate", "deactivate", "deleteUser", "createRole", "updateRole"},
    {"createUser", "updateUser", "setRolePermissions", "deletePermission", "setUserPermissions"},
    {"createUser", "updateUser", "createRole", "updateRole", "deleteRole", "setRolePermissions"},
    {"createUser", "login", "refresh", "revoke", "activate", "deactivate", "deleteUser"},
    {"login", "refresh", "revoke", "changePassword", "requestReset", "completeReset"} }

MCCaseOffers ==
  { {},
    {"create", "addApplicant", "updateApplicant", "deleteApplicant", "update", "submit", "pay",
     "fails"},
    {"create", "addApplicant", "deleteApplicant", "update", "submit", "pay", "fees"},
    {"create", "addApplicant", "update", "submit", "pay", "overlap"},
    {"create", "assign", "estimate", "note", "overlap", "fails"} }

MCFileOffers ==
  { {}, {"document", "deleteDocument"}, {"document", "hardDelete"}, {"visa", "hardDelete"},
    {"result", "deleteResult"}, {"slide", "deleteSlide", "hero", "deleteHero"},
    {"image", "inline", "deleteImage"},
    {"image", "video", "noVideo", "article"} }

MCBackOffers ==
  { {}, {"readMode", "getSettings", "updateSettings"}, {"readMode", "updateSettings", "restart"},
    {"send", "queue", "retry", "restart"}, {"createJob", "retry", "cancel", "restart"} }

MCMailOffers ==
  { {}, {"created", "fails", "overlap"}, {"created", "custom"}, {"paid", "warning"},
    {"paid", "fails", "overlap"}, {"warning", "fails"}, {"status", "custom", "overlap"},
    {"status", "fails"}, {"custom", "template"}, {"custom", "fails"} }

MCKeyOf == [l \in LetterKinds |-> IF l = "custom" THEN "raw_email" ELSE "application"]

MCPlain == [m \in Mailboxes |-> IF m = "X" THEN "x" ELSE m]

MCIssueOffers ==
  { {}, {"decide", "issue"}, {"status", "issue"}, {"issue", "erase"}, {"issue", "ask"},
    {"issue", "open"}, {"release", "email"} }

\* Requests are alike.
MCSymmetry == Permutations(AdminRequests)

officeVars == <<adminVars, portalVars, caseVars, fileVars, backVars, mailVars, issueVars>>

Offers == <<offered, caseOffer, fileOffer, backOffer, mailOffer, issueOffer>>
Nothing == \A i \in DOMAIN Offers : Offers[i] = {}

\* At most one of six is offered something; what is not followed starts in one way.
Init ==
  /\ AdminInit /\ PortalInit /\ CaseInit /\ FileInit /\ BackInit /\ CorrespondenceInit
  /\ VisaIssueInit
  /\ \A i, j \in DOMAIN Offers : Offers[i] # {} /\ Offers[j] # {} => i = j
  /\ ~Nothing => identity = "none"
  /\ fileOffer = {} => ~article.link
  /\ backOffer = {} => settings = << >>

Next ==
  \/ offered # {} /\ AdminNext
     /\ UNCHANGED <<portalVars, caseVars, fileVars, backVars, mailVars, issueVars>>
  \/ caseOffer # {} /\ CaseNext
     /\ UNCHANGED <<adminVars, portalVars, fileVars, backVars, mailVars, issueVars>>
  \/ fileOffer # {} /\ FileNext
     /\ UNCHANGED <<adminVars, portalVars, caseVars, backVars, mailVars, issueVars>>
  \/ backOffer # {} /\ BackNext
     /\ UNCHANGED <<adminVars, portalVars, caseVars, fileVars, mailVars, issueVars>>
  \/ mailOffer # {} /\ CorrespondenceNext
     /\ UNCHANGED <<adminVars, portalVars, caseVars, fileVars, backVars, issueVars>>
  \/ issueOffer # {} /\ VisaIssueNext
     /\ UNCHANGED <<adminVars, portalVars, caseVars, fileVars, backVars, mailVars>>
  \/ Nothing /\ PortalNext
     /\ UNCHANGED <<adminVars, caseVars, fileVars, backVars, mailVars, issueVars>>

Spec == Init /\ [][Next]_officeVars

\* The variables of the component that is followed have their types.
TypeOK ==
  /\ offered # {} => AdminTypeOK
  /\ caseOffer # {} => CaseTypeOK
  /\ fileOffer # {} => FileTypeOK
  /\ backOffer # {} => BackTypeOK
  /\ mailOffer # {} => CorrespondenceTypeOK
  /\ issueOffer # {} => VisaIssueTypeOK
  /\ Nothing => PortalTypeOK
=============================================================================
