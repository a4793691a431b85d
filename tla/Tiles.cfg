CONSTANTS
  Layers <- SmallLayers
  Machines <- SmallMachines
  Modes <- OtherModes
SPECIFICATION Spec
CHECK_DEADLOCK FALSE
INVARIANTS
  SameNest
  ModeSparesDram
  LayerIsDivided
  TilesAreDescribed
  LastKEndsOutputs
