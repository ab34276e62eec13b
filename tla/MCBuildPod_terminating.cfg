SPECIFICATION FairClusterSpec
CONSTANTS
  Builds <- OneBuild
  Attributes <- SameLayout
  MaxRunningBuilds = 2
  OrderStrategy = "fifo"
  AttemptMax = 0
  MaxCreations = 2
  MaxDeletions = 1
  MaxStaleReads = 0
  MaxFailures = 0
  MaxRestarts = 0
  Custom = {}
  MaxPodDeletions = 0
PROPERTY InitializationEnds
CHECK_DEADLOCK FALSE
