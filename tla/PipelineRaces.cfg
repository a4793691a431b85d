SPECIFICATION Spec
CONSTANTS
  LayerList <- OneLayer
  Samples = {1, 2}
  FirstPass = {1}
  BatchSize = 1
  Infeasible = {}
  Runs = {r1, r2}
  Workers = {w1}
  TempIds = {1, 2, 3}
  Modes = {"one"}
  Missing = Missing
  Partial = Partial
  MaxSolves = 2
  MaxErrors = 0
  MaxKills = 1
INVARIANTS
  OneScheduleByLayer
PROPERTIES
  TracesAreAtomic
