SPECIFICATION
    Spec
CONSTANTS
    BlockM = 3
    BlockN = 3
    BlockK = 2
    QuantBlock = 2
    FlatBlock = 9
    StatsBlock = 4
    ReductionBlock = 2
    NestedBlock = 2
    Lanes = 2
    LaneGroups = 2
    ScaleCols = 2
    MaxGroup = 4
    Inputs <- MCInputs
    Probes <- MCProbes
    CollectiveInputs <- MCCollectives
    SumBlock = 2
INVARIANTS
    MergesExactly
    CodesNearest
    ShardsTile
    CollectivesDeliver
CHECK_DEADLOCK
    FALSE
