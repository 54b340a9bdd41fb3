CONSTANTS
  na = na
  nb = nb
  nc = nc
  nd = nd
  Names = {na, nb, nc, nd}
  Ops = {"P"}
  Ports = {1}
  MaxFanin = 2
  MaxCalls = 3
  MaxApplies = 1
  NewNodes <- MCNewNodes
  InitGraphs <- MCInitGraphs
SPECIFICATION Spec
INVARIANTS TypeOK GraphWellFormed
PROPERTY ImplementsIntent
