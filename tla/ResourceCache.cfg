SPECIFICATION FairSpec
CONSTANTS
    t1 = t1
    t2 = t2
    m = m
    a = a
    n = n
    Threads <- Pair
    Keys <- Three
    Estimate <- Estimates
    Actual <- Actuals
    Limits = {2, 3}
    Unlimited = Unlimited
    Wanted <- UseSequences
    Frees = {1, 2}
    Setups <- BothSetups
    Nobody = Nobody
    MaxCalls = 3
INVARIANTS
    LeasedStoreStays
    Accounting
PROPERTIES
    KeepsPromise
    LeasesSettle
