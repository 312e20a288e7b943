\* The sweep against any one request, with every endpoint exposed.
CONSTANTS
  a1 = a1
  a2 = a2
  h1 = h1
  NoApp = NoApp
  Apps = {a1, a2}
  Handlers = {h1}
  MaxPayments = 1
  Endpoints <- Operations
  Overlap = TRUE
  SweepBatch = 1
  MaxFaults = 1
SPECIFICATION FairSpec
PROPERTIES
  OverdueIsSettled
CHECK_DEADLOCK FALSE
