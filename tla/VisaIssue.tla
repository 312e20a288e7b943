------------------------------ MODULE VisaIssue ------------------------------
(* An application that is worked on, from the decision to the visas in the    *)
(* customer's hands: the statuses of its applicants and its own, the visas,   *)
(* the links in the letters and the links to files.  A query is one step, a   *)
(* transaction too; requests overlap, and can fail between two steps.         *)
(* (X_Bug is X with a plausible mistake.)                                     *)
EXTENDS Integers, Sequences, FiniteSets

CONSTANTS
  IssueRequests,  \* requests there can be at a time
  Travellers,     \* the applicants; an application is not submitted without one
  Mailboxes,      \* addresses as they were typed
  Plain,          \* of an address: as it is compared, lower case and trimmed
  Account,        \* the address of the customer's account
  MaxVisas,       \* bound: visas ever issued
  MaxHour,        \* bound: time, in steps in which the shortest link expires
  MaxLinks,       \* bound: links to files
  Verdicts,       \* bound: statuses operators give an applicant
  Day,            \* the lifetime of a letter's link, and of an account's link to a file
  MaxIssueFaults, \* bound: requests that fail half-way
  IssueOffers     \* the sets of operations to explore, one per behaviour

Standings == {"PROCESSING", "APPROVED", "REJECTED", "READY_TO_DOWNLOAD"}
Fates == (Standings \ {"PROCESSING"}) \cup {"DRAFT"}
Released == {"APPROVED", "READY_TO_DOWNLOAD"}

ASSUME VisaIssueAssumption ==
  /\ Travellers # {} /\ Plain \in [Mailboxes -> Mailboxes] /\ Account \in Mailboxes
  /\ Verdicts \subseteq Fates
  /\ {MaxVisas, MaxHour, MaxLinks, Day, MaxIssueFaults} \subseteq Nat

VARIABLES
  standing,     \* of the application
  fate,         \* of every applicant
  visa,         \* visas in the order of their rows: of whom, state, when replaced
  address,      \* of every applicant, as it was typed
  letterLink,   \* links the letters carry: for whom, until when
  fileLink,     \* links to visas: which, until when, when it was looked up
  hour,
  doing,        \* requests in flight
  broken,       \* an issue was interrupted after its visa was there
  overruled,    \* the application was READY_TO_DOWNLOAD and has been set to something else
  formerly,     \* addresses an applicant had
  issueOffer, issueFaults

outcome == <<standing, overruled>>
people == <<fate, address, formerly>>
links == <<letterLink, fileLink>>
rest == <<hour, broken, issueFaults, issueOffer>>
issueVars == <<outcome, people, visa, links, doing, rest>>

NotBusy == [op |-> "idle"]
IssueOps == {"decide", "status", "issue", "release", "erase", "email", "ask", "open", "write"}

VisaIssueTypeOK ==
  /\ standing \in Standings /\ fate \in [Travellers -> Fates]
  /\ visa \in Seq([of : Travellers, state : {"live", "replaced", "emptied", "purged"}, left : 0 .. MaxHour])
  /\ Len(visa) <= MaxVisas
  /\ address \in [Travellers -> Mailboxes]
  /\ letterLink \subseteq [to : Mailboxes, until : Nat]
  /\ fileLink \subseteq [visa : 1 .. MaxVisas, until : Nat, asked : 0 .. MaxHour]
  /\ hour \in 0 .. MaxHour
  /\ \A h \in IssueRequests : doing[h].op \in IssueOps \cup {"idle"}
  /\ {broken, overruled} \subseteq BOOLEAN /\ formerly \subseteq Mailboxes
  /\ issueOffer \in IssueOffers /\ issueFaults \in 0 .. MaxIssueFaults

\* Accepted by an operator; where no decision is to be explored, approved.  No operation
\* but updateStatus and issueVisa touches the applicants' statuses.
VisaIssueInit ==
  /\ issueOffer \in IssueOffers /\ issueFaults = 0
  /\ standing = IF "decide" \in issueOffer THEN "PROCESSING" ELSE "APPROVED"
  /\ fate = [p \in Travellers |-> "DRAFT"] /\ visa = << >>
  /\ address \in IF "email" \in issueOffer THEN [Travellers -> Mailboxes] ELSE {[p \in Travellers |-> Account]}
  /\ letterLink = {} /\ fileLink = {}
  /\ hour = 0
  /\ doing = [h \in IssueRequests |-> NotBusy]
  /\ broken = FALSE /\ overruled = FALSE /\ formerly = {}

Undertake(h, t) ==
  /\ t.op \in issueOffer
  /\ doing[h] = NotBusy
  /\ doing' = [doing EXCEPT ![h] = t]

Goes(h, t) == doing' = [doing EXCEPT ![h] = t]
OnIt(h, op, at) == doing[h].op = op /\ doing[h].at = at

SetStanding(s) ==
  /\ standing' = s
  /\ overruled' = IF s = "READY_TO_DOWNLOAD" THEN FALSE ELSE overruled \/ standing = "READY_TO_DOWNLOAD"

-----------------------------------------------------------------------------
(* Letters about a change of status.                                          *)

\* Every address once, compared in lower case.
Recipients == {Plain[Account]} \cup {Plain[address[p]] : p \in Travellers}

\* (A bound: only where there is something to do with a link.)
LetterTo(left) ==
  IF left = {} \/ issueOffer \cap {"open", "email"} = {} THEN NotBusy
  ELSE [op |-> "write", at |-> "mint", left |-> left]

\* PortalTokenService.mint, and off it goes.
MintLink(h) ==
  /\ OnIt(h, "write", "mint")
  /\ \E to \in doing[h].left :
       /\ letterLink' = letterLink \cup {[to |-> to, until |-> hour + Day]}
       /\ Goes(h, LetterTo(doing[h].left \ {to}))
  /\ UNCHANGED <<outcome, people, visa, fileLink, rest>>

\* notifyStatusChange reads the application again.
ReadRecipients(h) ==
  /\ OnIt(h, "issue", "recipients")
  /\ Goes(h, LetterTo(Recipients))
  /\ UNCHANGED <<outcome, people, visa, links, rest>>

-----------------------------------------------------------------------------
(* The operator decides.                                                      *)

\* approve and reject read the status first; reject gives money back meanwhile.
Decide(h) ==
  /\ standing = "PROCESSING"
  /\ \E s \in {"APPROVED", "REJECTED"} : Undertake(h, [op |-> "decide", at |-> "set", to |-> s])
  /\ UNCHANGED <<outcome, people, visa, links, rest>>

\* changeStatus: there is a file marked as primary.
ReleaseVisa(h) ==
  /\ standing = "APPROVED"
  /\ Undertake(h, [op |-> "release", at |-> "set", to |-> "READY_TO_DOWNLOAD"])
  /\ UNCHANGED <<outcome, people, visa, links, rest>>

\* By id; the letter goes to the addresses that are read with it.
SaveDecision(h) ==
  /\ doing[h].op \in {"decide", "release"}
  /\ SetStanding(doing[h].to)
  /\ Goes(h, LetterTo(Recipients))
  /\ UNCHANGED <<people, visa, links, rest>>

-----------------------------------------------------------------------------
(* The status of one applicant, and what it makes of the application's.       *)

Aggregate(statuses) ==
  CASE "DRAFT" \in statuses -> "PROCESSING"
    [] statuses = {"READY_TO_DOWNLOAD"} -> "READY_TO_DOWNLOAD"
    [] statuses = {"REJECTED"} -> "REJECTED"
    [] statuses \subseteq Released -> "APPROVED"
    [] OTHER -> "PROCESSING"

UpdateFate(h) ==
  \E p \in Travellers, s \in Verdicts :
    /\ fate[p] # s
    /\ Undertake(h, [op |-> "status", at |-> "person", of |-> p, to |-> s])
    /\ UNCHANGED <<outcome, people, visa, links, rest>>

StoreFate(h) ==
  /\ OnIt(h, "status", "person")
  /\ fate' = [fate EXCEPT ![doing[h].of] = doing[h].to]
  /\ Goes(h, [op |-> "status", at |-> "collect"])
  /\ UNCHANGED <<outcome, address, formerly, visa, links, rest>>

\* recomputeApplicationStatus: the applicants are read, then the application.
CollectFates(h) ==
  /\ OnIt(h, "status", "collect")
  /\ Goes(h, [op |-> "status", at |-> "compare", to |-> Aggregate({fate[p] : p \in Travellers})])
  /\ UNCHANGED <<outcome, people, visa, links, rest>>

\* Only a status of an application that is worked on, which it is.
CompareStanding(h) ==
  /\ OnIt(h, "status", "compare")
  /\ Goes(h, IF standing = doing[h].to THEN NotBusy ELSE [doing[h] EXCEPT !.at = "set"])
  /\ UNCHANGED <<outcome, people, visa, links, rest>>

SaveAggregate(h) ==
  /\ OnIt(h, "status", "set")
  /\ SetStanding(doing[h].to)
  /\ Goes(h, NotBusy)
  /\ UNCHANGED <<people, visa, links, rest>>

-----------------------------------------------------------------------------
(* Visas.                                                                     *)

VisasOf(p) == {i \in 1 .. Len(visa) : visa[i].of = p /\ visa[i].state \in {"live", "emptied"}}
AllIssued == \A p \in Travellers : VisasOf(p) # {}

\* issueVisa finds one to replace, whichever; the file is stored.
IssueVisaTo(h) ==
  \E p \in Travellers :
    \E old \in IF VisasOf(p) = {} THEN {0} ELSE VisasOf(p) :
      /\ standing \in Released
      /\ Undertake(h, [op |-> "issue", at |-> "insert", of |-> p, old |-> old])
      /\ UNCHANGED <<outcome, people, visa, links, rest>>

Replace(i) ==
  CASE i # 0 /\ visa[i].state = "live" -> [visa EXCEPT ![i] = [@ EXCEPT !.state = "replaced", !.left = hour]]
    [] i # 0 /\ visa[i].state = "emptied" -> [visa EXCEPT ![i].state = "purged"]
    [] OTHER -> visa

\* One transaction.
InsertVisaRow(h) ==
  LET t == doing[h]
  IN /\ OnIt(h, "issue", "insert")
     /\ Len(visa) < MaxVisas
     /\ visa' = Append(Replace(t.old), [of |-> t.of, state |-> "live", left |-> 0])
     /\ fate' = [fate EXCEPT ![t.of] = "READY_TO_DOWNLOAD"]
     /\ Goes(h, [op |-> "issue", at |-> "count"])
     /\ UNCHANGED <<outcome, address, formerly, links, rest>>

CountIssued_AsApproved(h) ==
  /\ OnIt(h, "issue", "count")
  /\ Goes(h, IF \A p \in Travellers : fate[p] = "READY_TO_DOWNLOAD" /\ standing = "APPROVED"
              THEN [op |-> "issue", at |-> "ready"] ELSE NotBusy)
  /\ UNCHANGED <<outcome, people, visa, links, rest>>

\* maybeTransitionApplicationToReady reads the application, its applicants and visas.
CountIssued(h) ==
  /\ OnIt(h, "issue", "count")
  /\ Goes(h, IF AllIssued /\ standing # "READY_TO_DOWNLOAD" THEN [op |-> "issue", at |-> "ready"] ELSE NotBusy)
  /\ UNCHANGED <<outcome, people, visa, links, rest>>

MakeReady(h) ==
  /\ OnIt(h, "issue", "ready")
  /\ SetStanding("READY_TO_DOWNLOAD")
  /\ Goes(h, [op |-> "issue", at |-> "recipients"])
  /\ UNCHANGED <<people, visa, links, rest>>

\* documents.hardDelete: the file first.
EraseVisa(h) ==
  \E i \in 1 .. Len(visa) :
    /\ visa[i].state \in {"live", "replaced"}
    /\ Undertake(h, [op |-> "erase", at |-> "row", visa |-> i])
    /\ visa' = [visa EXCEPT ![i].state = IF @ = "live" THEN "emptied" ELSE "purged"]
    /\ UNCHANGED <<outcome, people, links, rest>>

EraseRow(h) ==
  /\ OnIt(h, "erase", "row")
  /\ visa' = [visa EXCEPT ![doing[h].visa].state = "purged"]
  /\ Goes(h, NotBusy)
  /\ UNCHANGED <<outcome, people, links, rest>>

-----------------------------------------------------------------------------
(* Addresses.                                                                 *)

UpdateEmail(h) ==
  \E p \in Travellers, a \in Mailboxes :
    /\ Plain[address[p]] # Plain[a]
    /\ Undertake(h, [op |-> "email", at |-> "set", of |-> p, to |-> Plain[a]])
    /\ UNCHANGED <<outcome, people, visa, links, rest>>

SaveEmail(h) ==
  LET t == doing[h]
  IN /\ t.op = "email"
     /\ formerly' = formerly \cup {Plain[address[t.of]]}
     /\ address' = [address EXCEPT ![t.of] = t.to]
     /\ Goes(h, NotBusy)
     /\ UNCHANGED <<outcome, fate, visa, links, rest>>

-----------------------------------------------------------------------------
(* The customer's ways to a visa.                                             *)

\* From the account: one of the documents listed.
AskForDocument(h) ==
  \E i \in UNION {VisasOf(p) : p \in Travellers} :
    /\ Undertake(h, [op |-> "ask", at |-> "sign", visa |-> i, asked |-> hour, lasts |-> 1])
    /\ UNCHANGED <<outcome, people, visa, links, rest>>

\* The newest visa of an applicant.
AskForVisa(h) ==
  \E p \in Travellers : \E i \in VisasOf(p) :
    /\ \A j \in VisasOf(p) : j <= i
    /\ Undertake(h, [op |-> "ask", at |-> "sign", visa |-> i, asked |-> hour, lasts |-> Day])
    /\ UNCHANGED <<outcome, people, visa, links, rest>>

\* From a letter, while its link lasts: a file of this application that is there; then
\* the status of the application is read.
OpenLetter(h) ==
  \E l \in letterLink, i \in UNION {VisasOf(p) : p \in Travellers} :
    /\ l.until >= hour
    /\ Undertake(h, [op |-> "open", at |-> "check", visa |-> i, asked |-> hour, lasts |-> 1])
    /\ UNCHANGED <<outcome, people, visa, links, rest>>

CheckReleased(h) ==
  /\ OnIt(h, "open", "check")
  /\ Goes(h, IF standing \in Released THEN [doing[h] EXCEPT !.at = "sign"] ELSE NotBusy)
  /\ UNCHANGED <<outcome, people, visa, links, rest>>

\* A link to the object.
SignLink(h) ==
  LET t == doing[h]
  IN /\ t.op \in {"ask", "open"} /\ t.at = "sign" /\ Cardinality(fileLink) < MaxLinks
     /\ fileLink' = fileLink \cup
          {[visa |-> t.visa, asked |-> t.asked, until |-> hour + t.lasts]}
     /\ Goes(h, NotBusy)
     /\ UNCHANGED <<outcome, people, visa, letterLink, rest>>

\* verify and redeem: it has not expired, and its address is one of the booking's.
Audience_Typed == {Account} \cup {address[p] : p \in Travellers}
Audience == {Plain[Account]} \cup {Plain[address[p]] : p \in Travellers}

Opens(l) == l.until >= hour /\ l.to \in Audience

\* FilesController: the link has not expired and the object is there.
Serves(l) == l.until >= hour /\ visa[l.visa].state \in {"live", "replaced"}

-----------------------------------------------------------------------------
HourPasses ==
  /\ hour < MaxHour /\ issueOffer \cap {"ask", "open", "email"} # {}
  /\ hour' = hour + 1
  /\ UNCHANGED <<outcome, people, visa, links, doing, broken, issueFaults, issueOffer>>

\* A query fails or the process stops.  (A request that has stored nothing yet might as
\* well not have come.)
HasStored(t) ==
  \/ t.op \in {"write", "erase"}
  \/ t.op = "issue" /\ t.at # "insert"
  \/ t.op = "status" /\ t.at # "person"

IssueRequestFails(h) ==
  /\ issueFaults < MaxIssueFaults
  /\ doing[h] # NotBusy /\ HasStored(doing[h])
  /\ issueFaults' = issueFaults + 1
  /\ broken' = (broken \/ OnIt(h, "issue", "count") \/ OnIt(h, "issue", "ready"))
  /\ Goes(h, NotBusy)
  /\ UNCHANGED <<outcome, people, visa, links, hour, issueOffer>>

IssueStep(h) ==
  \/ MintLink(h) \/ ReadRecipients(h)
  \/ Decide(h) \/ ReleaseVisa(h) \/ SaveDecision(h)
  \/ UpdateFate(h) \/ StoreFate(h) \/ CollectFates(h) \/ CompareStanding(h) \/ SaveAggregate(h)
  \/ IssueVisaTo(h) \/ InsertVisaRow(h) \/ CountIssued(h) \/ MakeReady(h)
  \/ EraseVisa(h) \/ EraseRow(h) \/ UpdateEmail(h) \/ SaveEmail(h)
  \/ AskForDocument(h) \/ AskForVisa(h) \/ OpenLetter(h) \/ CheckReleased(h) \/ SignLink(h) \/ IssueRequestFails(h)

VisaIssueNext == (\E h \in IssueRequests : IssueStep(h)) \/ HourPasses

VisaIssueSpec == VisaIssueInit /\ [][VisaIssueNext]_issueVars

-----------------------------------------------------------------------------
Issuing == \E h \in IssueRequests : doing[h].op = "issue" /\ doing[h].at # "recipients"

\* Whoever issues the last visa, and however the requests overlap: once all applicants
\* have theirs and no issue is on its way the application is READY_TO_DOWNLOAD, unless
\* an issue was interrupted or an operator has set it to something else since.
ReadyWhenAllIssued ==
  AllIssued /\ ~Issuing /\ ~broken /\ ~overruled => standing = "READY_TO_DOWNLOAD"

\* The link in a letter opens the booking for whom it was sent to as long as it lasts,
\* unless that address has been corrected; and a visa that was replaced is served only
\* through a link that was asked for before, and no longer than a day after that link
\* was made.
LinksAreGood ==
  /\ \A l \in letterLink : l.until >= hour => Opens(l) \/ l.to \in formerly
  /\ \A l \in fileLink : Serves(l) /\ visa[l.visa].state = "replaced" => l.asked <= visa[l.visa].left
=============================================================================
