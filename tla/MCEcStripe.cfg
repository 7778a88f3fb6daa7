SPECIFICATION Spec
CONSTANTS
  DataShards = 2
  ParityShards = 2
  LargeBlock = 8
  SmallBlock = 2
  Buffer = 1
  Sizes <- UpToTwoRows
  MaxLost = 3
  MaxCrashes = 1
INVARIANTS   RebuildRestores
PROPERTY Ends
