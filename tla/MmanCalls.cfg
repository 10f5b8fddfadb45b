\* One block more than there are slots.
SPECIFICATION Spec
CONSTANTS
  Addrs = {a1, a2, a3, a4}
  NULL = NULL
  Sizes = {0, 1, 2}
  Tags = {t1}
  MAX_ALLOCATIONS = 2
  MaxLive = 3
INVARIANTS SlotsNameLiveBlocks NoBlockTwice NoOverflow
PROPERTY HeapSpec
