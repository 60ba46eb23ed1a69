SPECIFICATION RollingSpec
CONSTANTS
  Graphs <- MCGraphs
  NumParams = 2
  NumBlocks = 3
  Unloaded <- MCUnloaded
  MaxCalls = 3
  MaxFaults = 1
INVARIANTS
    ReadsItsBlock
    ReleasedIsQuiet
CHECK_DEADLOCK FALSE
