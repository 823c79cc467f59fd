SPECIFICATION Spec
CONSTANTS
  MaxRuns = 2
  LaunchCapacity = 1
  MaxLaunches = 2
  MaxDeliveries = 2
  MaxJobs = 2
INVARIANTS StartsFreshOnce CapacityKept ResultStands
PROPERTY OldRequestNeverRuns
CHECK_DEADLOCK FALSE
