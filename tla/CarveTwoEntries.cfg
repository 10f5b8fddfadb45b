SPECIFICATION GetSpec
CONSTANTS
  Frames <- MCFrames
  Types <- MCTypes
  Inputs <- MCTwoInputs
  SizeMod = 16
  Layouts <- MCTwoEntries
  Garbage <- MCGarbage
  Memory = 9
  Word = 256
  Hhdm = 128
INVARIANT EveryRegionMarked
