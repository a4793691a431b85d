SPECIFICATION Spec
CONSTANTS
  TcLists <- TwoChains
  X = 2
  DramPort = 8
  DramLatency = 3
INVARIANTS
  StartsAfterItsDependencies
