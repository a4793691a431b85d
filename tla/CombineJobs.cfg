SPECIFICATION Spec
CONSTANTS
  Jobs <- SmallJobs
  DramLatency = 17
INVARIANTS
  DependenciesPointBack
  EachOutputFiresOnce
  NoStaleWeights
  ReloadsMatchStores
  VmemStepsAreOrdered
  TrafficFollowsTheMachine
