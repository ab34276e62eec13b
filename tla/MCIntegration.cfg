SPECIFICATION MCSpec
CONSTANTS
  Specs <- SixSpecs
  Kind <- KindOf
  Need <- NeedOf
  Malformed = {4}
  Rejected = {5}
  MaxKits = 2
  MaxRequests = 1
  MaxMishaps = 1
INVARIANT TypeOK
INVARIANT RunningIsDeployed
PROPERTY InStepWhenCompared
PROPERTY Settles
CHECK_DEADLOCK FALSE
