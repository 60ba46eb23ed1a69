SPECIFICATION ModulesSpec
CONSTANTS
    DataSize = 3
    Names <- MCNames
    Specs <- MCSpecs
    Source <- MCSource
    NoSpec = NoSpec
    Local <- MCLocal
    At <- MCAt
    NoBlock = NoBlock
    Models <- MCModels
    Capable <- MCCapable
    Files <- MCFiles
    Requests <- MCRequests
    Merges <- MCMerges
    Trials <- MCTrials
    MaxSteps = 2
INVARIANTS
    OneOwner
    AcceptedAsDocumented
    AsRequested
    HostKept
PROPERTIES
    TrainablesKept
CHECK_DEADLOCK FALSE
