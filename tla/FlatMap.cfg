SPECIFICATION Spec
CONSTANTS
  Keys = {1, 2, 3, 4}
  Values = {0, 1}
  kBase = 2
  LowBits <- MCLow
  HighBits <- MCHigh
  SizeMod = 64
  MaxCapacity = 16
INVARIANT SearchesEnd
INVARIANT FoundOnce
PROPERTY ImplementsDictionary
VIEW MCView
