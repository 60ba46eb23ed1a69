SPECIFICATION Spec
CONSTANTS
    l1 = l1
    l2 = l2
    l3 = l3
    l4 = l4
    l5 = l5
    Number = 4
    Signatures = {"first", "other"}
    Signature <- TwoLayouts
    Trained = TRUE
    Wraparound = TRUE
    Leases <- Targets
    StepCopies = StepCopies
    MaxFailures = 1
SYMMETRY Symmetric
INVARIANTS
    ForwardReadsItsBytes
    TargetsKept
    TwoTargets
    QuietUnlessLost
