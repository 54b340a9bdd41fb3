CONSTANTS
  na = na
  nb = nb
  nc = nc
  nd = nd
  MaxNodes = 5
  Names = {na, nb, nc, nd}
  Ports = {0, 1}
  Ops = {"P", "Switch", "Identity"}
  InitDefs <- MCInitDefs
  NewNodes <- MCNewNodes
  SwitchAnchor <- MCAnchor
  MaxFanin = 4
  MaxCalls = 3
SPECIFICATION Spec
INVARIANTS InputsWellFormed FanoutsAreFound
PROPERTY ImplementsNamedGraph
VIEW MCView
CHECK_DEADLOCK FALSE
