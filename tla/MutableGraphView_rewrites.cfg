CONSTANTS
  na = na
  nb = nb
  nc = nc
  nd = nd
  Names = {na, nb, nc, nd}
  Ops = {"P"}
  Ports = {1}
  MaxFanin = 2
  MaxCalls = 3
  MaxApplies = 1
  NewNodes <- MCOneNewNode
  RenameTo = {}
  InitDefs <- MCOneInitDefs
  Orders <- MCOneOrder
SPECIFICATION Spec
INVARIANTS CountsAgree DiffsFound
