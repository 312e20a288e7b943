\* An authorization in flight while the sweep expires the application.
CONSTANTS
  a1 = a1
  h1 = h1
  h2 = h2
  NoApp = NoApp
  Apps = {a1}
  Handlers = {h1}
  MaxPayments = 1
  Endpoints <- TwoStage
  Overlap = TRUE
  SweepBatch = 1
  MaxFaults = 0
SPECIFICATION Spec
INVARIANTS
  ExpiredHoldsNothing
CHECK_DEADLOCK FALSE
