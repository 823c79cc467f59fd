SPECIFICATION FairSpec
CONSTANTS
  e1 = e1
  e2 = e2
  Executors <- TwoExecutors
  Count = 2
  MaxAttempts = 2
  MaxTasks = 2
  MaxFaults = 2
INVARIANT CompletedHasEvidence
PROPERTIES OutcomeSticks CancelledNeverCompletes NoBrowserAfterEnd RunEnds
CHECK_DEADLOCK FALSE
