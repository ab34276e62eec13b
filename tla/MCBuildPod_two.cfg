SPECIFICATION Spec
CONSTANTS
  Builds <- TwoBuilds
  Attributes <- SameLayout
  MaxRunningBuilds = 2
  OrderStrategy = "sequential"
  AttemptMax = 0
  MaxCreations = 2
  MaxDeletions = 0
  MaxStaleReads = 1
  MaxFailures = 0
  MaxRestarts = 1
  Custom = {}
  MaxPodDeletions = 1
INVARIANT OneAtATime
CHECK_DEADLOCK FALSE
