\* More events than tries.
SPECIFICATION FairHandoverSpec
CONSTANTS
  EXIT_BS_MAX_TRIES = 10
  KeyWithTooSmall = TRUE
  MaxEvents = 12
  MaxErrors = 2
  TableLists <- MCTableLists
  Lengths = {0, 2, 3}
  MaxChanges = 1
  Allocations <- MCAllocations
INVARIANTS HandoffAfterExit RebootNeedsRaces
INVARIANTS ParametersAreRight KernelGetsItsOperands
PROPERTY Ends
