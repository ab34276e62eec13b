SPECIFICATION Spec
CONSTANTS
  Builds <- OneBuild
  Attributes <- SameLayout
  MaxRunningBuilds = 1
  OrderStrategy = "fifo"
  AttemptMax = 1
  MaxCreations = 2
  MaxDeletions = 1
  MaxStaleReads = 1
  MaxFailures = 1
  MaxRestarts = 1
  RoutineIds = {r1, r2}
SYMMETRY RoutineSymmetry
INVARIANT TypeOK
INVARIANT RoutinesAreAlive
PROPERTY RetriesAreCounted
PROPERTY KeepsBuildLife
CHECK_DEADLOCK FALSE
