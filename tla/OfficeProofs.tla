---------------------------- MODULE OfficeProofs -----------------------------
(* Proofs about MCOffice, in which the run "office" checks seven components    *)
(* side by side: a behaviour of it is one of each of them, so that what is     *)
(* proved of a component is proved of what the run explores.                   *)
EXTENDS MCOffice, AccessProofs, BackofficeProofs, CaseProofs, DocumentProofs

\* Whichever component takes a step, the others do not.
LEMMA OneMoves ==
  [Next]_officeVars =>
    /\ [AdminNext]_adminVars /\ [PortalNext]_portalVars /\ [CaseNext]_caseVars
    /\ [FileNext]_fileVars /\ [BackNext]_backVars /\ [CorrespondenceNext]_mailVars
    /\ [VisaIssueNext]_issueVars
<1> SUFFICES ASSUME [Next]_officeVars
             PROVE  /\ [AdminNext]_adminVars /\ [PortalNext]_portalVars /\ [CaseNext]_caseVars
                    /\ [FileNext]_fileVars /\ [BackNext]_backVars /\ [CorrespondenceNext]_mailVars
                    /\ [VisaIssueNext]_issueVars
  OBVIOUS
<1>1. CASE UNCHANGED officeVars
  BY <1>1 DEF officeVars
<1>2. CASE Next
  BY <1>2 DEF Next
<1> QED
  BY <1>1, <1>2

\* A behaviour of the seven components together is a behaviour of each of them, as
\* its own specification says: none takes part in a step of another.
THEOREM OfficeIsItsParts ==
  Spec => /\ AdminSpec /\ PortalSpec /\ CaseSpec /\ FileSpec /\ BackSpec /\ CorrespondenceSpec
          /\ VisaIssueSpec
<1>1. Init => /\ AdminInit /\ PortalInit /\ CaseInit /\ FileInit /\ BackInit /\ CorrespondenceInit
              /\ VisaIssueInit
  BY DEF Init
<1> QED
  BY <1>1, OneMoves, PTL DEF Spec, AdminSpec, PortalSpec, CaseSpec, FileSpec, BackSpec, CorrespondenceSpec,
                            VisaIssueSpec

\* The variables of all seven keep their types.
THEOREM OfficeTypes == Spec => []TypeOK
<1>1. /\ AdminTypeOK /\ PortalTypeOK /\ CaseTypeOK /\ FileTypeOK /\ BackTypeOK /\ CorrespondenceTypeOK
      /\ VisaIssueTypeOK
      => TypeOK
  BY DEF TypeOK
<1> QED
  BY <1>1, OfficeIsItsParts, AdminTypes, PortalTypes, CaseTypes, FileTypes, BackTypes, LetterTypes,
     VisaIssueTypes, PTL

\* Everything the run checks on its instance holds for any number of users, roles,
\* requests, applications, files, letters and visas: who may come in, ...
THEOREM OfficeAdmits ==
  Spec => /\ [](RootKeepsAccess /\ PermissionsAgree /\ SessionsAreCurrent)
          /\ [](HourlyBounded /\ OneSessionPerCode /\ OnlyNewestCode)
          /\ RevokedForGood
BY OfficeIsItsParts, RootIsSafe, MatrixIsTrue, SessionsStayCurrent, LimitHolds, SessionsAreSingle,
   OldCodesAreDead, RevocationLasts, PTL

\* ... and what becomes of a case, its files, its visas and its letters.
THEOREM OfficeServes ==
  Spec => /\ [](OneAmount /\ RetriesAreRaces /\ FilesBehindRows)
          /\ [](MaintenanceIsFresh /\ RetriesBounded /\ ToldOnce)
          /\ [](ReadyWhenAllIssued /\ LinksAreGood)
          /\ ImplementsLetterLog
BY OfficeIsItsParts, OneAmountHolds, RetriesComeFromRaces, FilesAreThere, MaintenanceStaysFresh,
   RetriesStayBounded, EveryoneIsToldOnce, LogHolds, ReadyOnceAllAreIssued, LinksStayGood, PTL
=============================================================================
