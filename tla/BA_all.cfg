SPECIFICATION Spec
CONSTANTS
  Alignment = 2
  MaxChunks = 4
  MinRegion = 6
  ExtraSize = 2
  Multiple = 5
  Modulus = 32
  Sizes = {1, 3, 6, 7}
  MaxRegions = 2
  Stride = 8
INVARIANT TypeOK
INVARIANT RegionsTiled
INVARIANT ChunksAreBuffers
INVARIANT FreeChunksMerged
INVARIANT NewRegionHasRoom
PROPERTY ImplementsHeap
CHECK_DEADLOCK FALSE
