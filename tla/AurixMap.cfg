\* Regions in one usable entry, whole or in pieces, with entries in any order
\* above it, some too large for the size field once they are merged; and
\* regions anywhere, in any order.
SPECIFICATION GetSpec
CONSTANTS
  Frames <- MCFrames
  Types <- MCTypes
  Inputs <- MCInputs
  SizeMod = 16
  Layouts <- MCLayouts
  Garbage <- MCGarbage
  Memory = 18
  Word = 256
  Hhdm = 128
INVARIANTS MergeKeepsMap MergeIsComplete CopyKeepsMap
INVARIANTS MarkedAtHome OtherFramesKept EntriesAdded
PROPERTY CutsAreClean
