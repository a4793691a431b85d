SPECIFICATION FairSpec
CONSTANTS
  TcLists <- SmallLists
  X = 2
  DramPort = 8
  DramLatency = 3
INVARIANTS
  ResourcesAreExclusive
  MakespanIsBetweenMaxAndAdded
PROPERTIES
  ComputesAListSchedule
  Terminates
