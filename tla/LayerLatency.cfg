SPECIFICATION LayerSpec
CONSTANTS
  Jobs <- GridJobs
  DramLatency = 17
  MeshColumns = 2
  MeshDramPort = 8
INVARIANTS
  GraphIsAccepted
  CostsAgree
