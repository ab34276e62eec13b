SPECIFICATION FairSpec
CONSTANTS
  Builds <- OneBuild
  Attributes <- SameLayout
  MaxRunningBuilds = 1
  OrderStrategy = "fifo"
  AttemptMax = 1
  MaxCreations = 1
  MaxDeletions = 1
  MaxStaleReads = 1
  MaxFailures = 0
  MaxRestarts = 1
  RoutineIds = {r1, r2}
PROPERTY NoneLeftRunning
PROPERTY BuildsFinish
CHECK_DEADLOCK FALSE
