SPECIFICATION FairSpec
CONSTANTS
    p1 = p1
    p2 = p2
    a = a
    b = b
    c = c
    Callers <- Two
    Storages <- Mixed
    FileBacked <- MixedFiles
    FirstPage <- MixedFirst
    LastPage <- MixedLast
    SizePages <- MixedSize
    Requests <- MixedRequests
    Budgets = {2, 3}
    Unlimited = Unlimited
    Nobody = Nobody
    MaxCalls = 3
    MaxFailures = 1
INVARIANTS
    HeldStaysRegistered
    Accounting
    NothingLeaks
PROPERTIES
    KeepsPromise
    CallsReturn
