SPECIFICATION Spec
CONSTANTS
  Cores = {0, 1}
  CoreLists <- TwoCoreLists
  Tags = {0, 1, 2, 3, 4, 5}
  CoutLines = 3
  L1Config <- TwoSets
  L2Config <- TwoByTwo
  MaxTicks = 2
  MaxAccesses = 2
INVARIANTS
  SetsAreWellFormed
PROPERTIES
  KeepsL2Contract
