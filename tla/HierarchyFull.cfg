SPECIFICATION Spec
CONSTANTS
  Cores = {0, 1}
  CoreLists <- TwoCoreLists
  Tags = {0, 1, 2}
  CoutLines = 3
  L1Config <- OneLine
  L2Config <- TwoLines
  MaxTicks = 3
  MaxAccesses = 3
INVARIANTS
  RecencyIsStampOrder
  PinsCarryTheSnapshot
  L2IsAnLruCache
PROPERTIES
  OverflowTakesPreTickLru
