SPECIFICATION Spec
CONSTANTS
  Layout <- MCLayout
  MaxSessions = 4
  MaxFaults = 3
INVARIANTS
    StorageHeld
    FilledThisSession
    TearsDown
CHECK_DEADLOCK FALSE
