\* A failure between the two updates of markPendingRetry.
CONSTANTS
  r1 = r1
  r2 = r2
  Runners = {r1}
  NumEvents = 1
  MaxAttempts = 3
  BatchSize = 10
  MaxFaults = 1
SPECIFICATION Spec
INVARIANTS
  PendingIsRetried
CHECK_DEADLOCK FALSE
