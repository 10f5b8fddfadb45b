\* mem_alloc() hands out whole pages.
SPECIFICATION Spec
CONSTANTS
  Levels = 3
  Fanout = 2
  Span <- MCSpan
  Memory <- MCMemory
  Pool <- Aligned
  Junk <- MCJunk
  Forced = {}
  Requests <- MCRequests
  MaxCalls = 2
PROPERTIES AddressSpaceSpec OnlyTablesWritten
