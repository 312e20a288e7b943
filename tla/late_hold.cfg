\* One request at a time: a cancelled application and its open payment.
CONSTANTS
  a1 = a1
  h1 = h1
  h2 = h2
  NoApp = NoApp
  Apps = {a1}
  Handlers = {h1}
  MaxPayments = 1
  Endpoints <- TwoStage
  Overlap = FALSE
  SweepBatch = 1
  MaxFaults = 0
SPECIFICATION Spec
INVARIANTS
  CancelledHoldsNothing
CHECK_DEADLOCK FALSE
