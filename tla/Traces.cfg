SPECIFICATION Spec
CHECK_DEADLOCK FALSE
CONSTANTS
  Jobs <- SmallJobs
  Rasters <- Opposites
  SampleIndices <- TwoSamples
  PeCountMax = 2
  TwSize = 2
  PeRowsMax = 1
  PeColsMax = 2
  CinBlock = 2
  CoutBlock = 3
INVARIANTS
  ReadsMatchTheSpikes
  CyclesAccountForReads
  ReplayGetsEveryRead
  RequestsNameTheLines
