SPECIFICATION RerunSpec
CONSTANTS
  Units = {u1, u2}
  Jobs = {j1, j2}
  Workers = {w1, w2}
  MaxFaults = 1
INVARIANTS
  SummaryIsTheCommit
  MergedIsComplete
PROPERTIES
  CachedAtomically
  RerunsMerge
