SPECIFICATION FairSpec
CONSTANTS
  o1 = o1
  o2 = o2
  p1 = p1
  sweeper = sweeper
  Objects <- TwoObjects
  Clients <- OneClient
  Sweeper = sweeper
  Quota = 1
  MaxFaults = 1
INVARIANTS ReadyIsBacked QuotaKept
PROPERTY ObjectSettles
CHECK_DEADLOCK FALSE
