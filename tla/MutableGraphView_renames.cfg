CONSTANTS
  na = na
  nb = nb
  nc = nc
  nd = nd
  Names = {na, nb, nc, nd}
  Ops = {"P"}
  Ports = {1, 2}
  MaxFanin = 3
  MaxCalls = 2
  MaxApplies = 1
  NewNodes <- MCNewNodes
  RenameTo = {na, nb, nc, nd}
  InitDefs <- MCInitDefs
  Orders <- MCOrders
SPECIFICATION Spec
INVARIANTS TwinsAgree ViewMatchesGraphDef
PROPERTY ImplementsMutation
