\* A caller passes a buffer of its own.
SPECIFICATION FairSfsSpec
CONSTANTS
  Files = {"f"}
  MaxLen = 2
  Buffers = {"caller's"}
INVARIANT BufferIsRefused
