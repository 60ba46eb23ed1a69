SPECIFICATION Spec
CONSTANTS
  Groups <- MCGroups
  Counts <- JustThree
  Root = 1
INVARIANTS
    ChunksRight
    LeaseOutlivesCopies
PROPERTIES
    CollectivesReturn
CHECK_DEADLOCK FALSE
