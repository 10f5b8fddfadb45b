\* The menu is shown.
SPECIFICATION Spec
CONSTANTS
  MAX_ALLOCATIONS = 64
  TableCounts = {0, 1, 64}
  ConfigPaths = 4
  Timeouts = {30}
INVARIANT BootsWithoutFont
