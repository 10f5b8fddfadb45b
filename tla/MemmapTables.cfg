\* Without events, and with events that leave room for a reallocation.
SPECIFICATION FairGetSpec
CONSTANTS
  MAX_TRIES = 3
  Growths <- WithinSpare
  MaxDesc = 8
  Frames <- MCFrames
  Contents <- MCContents
  Junk <- MCJunk
INVARIANTS NoOverrun MapIsComplete NothingLeftOnSuccess MapIsTranslated UsableIsMapped
PROPERTY Returns
