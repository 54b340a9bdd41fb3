CONSTANTS
  Items <- MCItems
  OpDefs <- MCOpDefs
  Registries <- MCRegistries
  MaxRuns = 2
SPECIFICATION Spec
INVARIANT TypesAgree
INVARIANT EdgesKept
INVARIANT RerunKeeps
INVARIANT SupportedOnly
INVARIANT OneColorPerList
INVARIANT DangerKeepsFloat
CHECK_DEADLOCK FALSE
