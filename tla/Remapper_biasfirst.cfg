CONSTANTS
  Items <- MCBiasFirst
  DebugBuild = FALSE
SPECIFICATION Spec
INVARIANT ValuesKept
CHECK_DEADLOCK FALSE
