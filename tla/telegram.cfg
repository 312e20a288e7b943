\* The first attempt and a tick, or two ticks, overlap; one of them may fail.
CONSTANTS
  r1 = r1
  r2 = r2
  Runners = {r1, r2}
  NumEvents = 2
  MaxAttempts = 3
  BatchSize = 1
  MaxFaults = 1
SPECIFICATION FairSpec
INVARIANTS
  AttemptsBounded
PROPERTIES
  PendingIsTried
  ImplementsEventDelivery
CHECK_DEADLOCK FALSE
