\* One request, or one sweep, at a time.
CONSTANTS
  a1 = a1
  h1 = h1
  NoApp = NoApp
  Apps = {a1}
  Handlers = {h1}
  MaxPayments = 3
  Endpoints <- TwoStage
  Overlap = FALSE
  SweepBatch = 1
  MaxFaults = 0
SPECIFICATION Spec
INVARIANTS
  TypeOK
  OneActivePayment
  SettledOnce
  LedgerIsRecorded
  AppMirrorsAPayment
  ExpiredHoldsNothing
  SubmittedCanBeDecided
PROPERTIES
  TerminalPaymentsStay
  ImplementsCaseLifecycle
CHECK_DEADLOCK FALSE
