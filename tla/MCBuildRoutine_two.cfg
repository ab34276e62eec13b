SPECIFICATION Spec
CONSTANTS
  Builds <- TwoBuilds
  Attributes <- SameLayout
  MaxRunningBuilds = 1
  OrderStrategy = "fifo"
  AttemptMax = 0
  MaxCreations = 2
  MaxDeletions = 0
  MaxStaleReads = 1
  MaxFailures = 0
  MaxRestarts = 0
  RoutineIds = {r1, r2, r3}
SYMMETRY RoutineSymmetry
INVARIANT TrackedIsCounted
INVARIANT MaxRunningHolds
CHECK_DEADLOCK FALSE
