SPECIFICATION FairSpec
CONSTANTS
  MaxRuns = 1
  LaunchCapacity = 1
  MaxLaunches = 2
  MaxDeliveries = 2
  MaxJobs = 2
PROPERTY RunSettles
CHECK_DEADLOCK FALSE
