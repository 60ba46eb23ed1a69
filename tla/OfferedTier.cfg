SPECIFICATION Spec
CONSTANTS
  Threads = {1, 2}
  Size <- MCSize
  Requests <- MCRequests
  Regions = {1, 2, 3}
  PinnedBudgets = {2, 3}
  OfferedBudgets = {0, 2}
  MaxOperations = 2
  MaxDrops = 1
INVARIANTS
    CopiesKept
    RegisteredIsRight
PROPERTIES
    CommitReturns
CHECK_DEADLOCK FALSE
