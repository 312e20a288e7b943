\* Two refunds of one payment in flight.
CONSTANTS
  a1 = a1
  h1 = h1
  h2 = h2
  NoApp = NoApp
  Apps = {a1}
  Handlers = {h1, h2}
  MaxPayments = 1
  Endpoints <- TwoStage
  Overlap = TRUE
  SweepBatch = 1
  MaxFaults = 0
SPECIFICATION Spec
INVARIANTS
  RefundedOnce
CHECK_DEADLOCK FALSE
