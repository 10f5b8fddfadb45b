\* mem_alloc() hands out blocks that begin anywhere.
SPECIFICATION Spec
CONSTANTS
  Levels = 3
  Fanout = 2
  Span <- MCSpan
  Memory <- MCMemory
  Pool <- Unaligned
  Junk <- MCJunk
  Forced = {}
  Requests <- MCRequests
  MaxCalls = 2
INVARIANT PageIsMapped
