SPECIFICATION Spec
CONSTANTS
  i1 = i1
  i2 = i2
  r1 = r1
  NoOne = NoOne
  Turns = "unmarked"
  MaxCalls = 4
  Fanout = 2
  ExtentPages = 2
  MaxTuples = 8
  Crossing = FALSE
  MaxKey = 4
  Trunks <- SmallTrunks
  Uses = {"tree", "walk", "pack", "range", "async", "filter", "trunk"}
INVARIANTS TreeHasInserts TreeReadsRight WalksReference PackedRight WalksRange AsyncLikeLookup FilterNamesBranches ReadsNewest ReferencesBalanced BundlesMatchTasks
