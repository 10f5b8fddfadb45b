CONSTANTS
  Page = 4
  NULL = NULL
  Images <- MCImages
  Memory <- MCMemory
  Virts <- MCVirts
  Blocks <- MCBlocks
SPECIFICATION Spec
INVARIANTS ImageInPlace RegionCovers
PROPERTIES WritesInBlock
