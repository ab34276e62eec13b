SPECIFICATION Spec
CONSTANTS
  Builds <- OneBuild
  Attributes <- SameLayout
  MaxRunningBuilds = 1
  OrderStrategy = "fifo"
  AttemptMax = 0
  MaxCreations = 1
  MaxDeletions = 0
  MaxStaleReads = 0
  MaxFailures = 0
  MaxRestarts = 0
  RoutineIds = {r1}
INVARIANT SlotsAreReturned
CHECK_DEADLOCK FALSE
