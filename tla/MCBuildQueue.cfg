SPECIFICATION Spec
CONSTANTS
  Names <- ThreeNames
  Layouts <- LayoutValues
  Dependencies <- DependencySets
  Versions = {"v1"}
  MaxRunningBuilds = 2
INVARIANT NoStandstill
INVARIANT SameImageOnce
CHECK_DEADLOCK FALSE
