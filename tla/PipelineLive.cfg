SPECIFICATION RerunSpec
CONSTANTS
  LayerList <- OneLayer
  Samples = {1, 2}
  FirstPass = {1}
  BatchSize = 1
  Infeasible = {}
  Runs = {r1}
  Workers = {w1, w2}
  TempIds = {1, 2}
  Modes = {"one", "all"}
  Missing = Missing
  Partial = Partial
  MaxSolves = 1
  MaxErrors = 1
  MaxKills = 1
INVARIANTS
  WorkIsAccountedFor
  MilestoneFirst
PROPERTIES
  RerunsComplete
