CONSTANTS
  Items <- MCEveryItem
  DebugBuild = FALSE
SPECIFICATION OptimizerSpec
INVARIANT ValuesKept
INVARIANT TypesKept
INVARIANT OrderKept
INVARIANT FusionsApply
INVARIANT TwoPassesSuffice
INVARIANT KernelsAccept
INVARIANT OutputKept
PROPERTY DeletionsTake
CHECK_DEADLOCK FALSE
