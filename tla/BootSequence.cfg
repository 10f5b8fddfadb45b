\* The real number of slots; a mapping needs no new table, one, or more than
\* there are slots.
SPECIFICATION Spec
CONSTANTS
  MAX_ALLOCATIONS = 64
  TableCounts = {0, 1, 64}
  ConfigPaths = 4
  Timeouts = {0, 30}
INVARIANTS    GrowFindsBuffer
