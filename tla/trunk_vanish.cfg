SPECIFICATION Spec
CONSTANTS
  i1 = i1
  i2 = i2
  r1 = r1
  NoOne = NoOne
  Turns = "unmarked"
  MaxCalls = 4
  Fanout = 2
  ExtentPages = 2
  MaxTuples = 8
  Crossing = FALSE
  MaxKey = 4
  Trunks <- OnlyDeletions
  Uses = {"trunk"}
INVARIANT NoFlushFromLeaf
