SPECIFICATION Spec
CONSTANTS
  s1 = s1
  s2 = s2
  Names = {s1, s2}
  Sizes <- MCSizes
  Lists <- MCLists
  MaxDimensions = 3
  Slots16 = 2
  Slots32 = 2
  UnknownRep16 = 5
  UnknownRep32 = 9
  MaxSmall = 2
  FastDims = 2
  MaxInt64 = 31
INVARIANT OneOwner
INVARIANT ElementsCounted
PROPERTY ImplementsLists
CONSTRAINT OneIsShort
SYMMETRY MCSymmetry
VIEW MCView
CHECK_DEADLOCK FALSE
