CONSTANTS
  na = na
  nb = nb
  nc = nc
  nd = nd
  Names = {na, nb, nc, nd}
  Ops = {"P", "NextIteration", "Merge"}
  Ports = {1}
  MaxFanin = 2
  MaxCalls = 1
  MaxApplies = 1
  NewNodes = {}
  RenameTo = {}
  InitDefs <- MCSortDefs
  Orders <- MCOneOrder
SPECIFICATION Spec
PROPERTY SortIsTopological
