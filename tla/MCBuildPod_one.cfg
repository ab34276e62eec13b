SPECIFICATION FairClusterSpec
CONSTANTS
  Builds <- OneBuild
  Attributes <- SameLayout
  MaxRunningBuilds = 1
  OrderStrategy = "fifo"
  AttemptMax = 1
  MaxCreations = 2
  MaxDeletions = 1
  MaxStaleReads = 1
  MaxFailures = 1
  MaxRestarts = 1
  Custom = {2}
  MaxPodDeletions = 1
INVARIANT TypeOK
INVARIANT NoLeftoverPod
INVARIANT PodsHoldSlots
PROPERTY RetriesAreCounted
PROPERTY SucceedsByItsOwnPod
PROPERTY KeepsBuildLife
PROPERTY BuildsFinish
PROPERTY DeadlineIsEnforced
CHECK_DEADLOCK FALSE
