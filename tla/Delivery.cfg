SPECIFICATION FairSpec
CONSTANTS
  e1 = e1
  e2 = e2
  Event <- TwoEvents
  MaxRetries = 3
  MaxStops = 1
INVARIANTS BoundedDuplication NoSilentLoss
PROPERTIES KeepsPromise EveryEventSettles
CHECK_DEADLOCK FALSE
