SPECIFICATION FairSpec
CONSTANT MaxAttempts = 3
CHECK_DEADLOCK FALSE
INVARIANTS
  LeaseServesItsWorker
  LateCancelPreventsLaunch
PROPERTY AttemptEnds
