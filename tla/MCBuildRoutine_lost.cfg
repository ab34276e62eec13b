SPECIFICATION FairSpec
CONSTANTS
  Builds <- OneBuild
  Attributes <- SameLayout
  MaxRunningBuilds = 1
  OrderStrategy = "fifo"
  AttemptMax = 0
  MaxCreations = 1
  MaxDeletions = 0
  MaxStaleReads = 0
  MaxFailures = 1
  MaxRestarts = 0
  RoutineIds = {r1}
PROPERTY NoneLeftRunning
CHECK_DEADLOCK FALSE
