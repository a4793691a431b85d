SPECIFICATION ResumeSpec
CONSTANTS
  ComboList <- ThreeCombos
  Infeasible = {"a", "b"}
  Workers = {w1, w2}
  MaxForces = 1
  MaxErrors = 1
  MaxKills = 2
INVARIANTS
  RecordIsTrue
PROPERTIES
  RowsSurvive
  ResumesComplete
