SPECIFICATION LeaseSpec
CONSTANTS
    s1 = s1
    s2 = s2
    s3 = s3
    l1 = l1
    Streams <- ThreeStreams
    Leases = {l1}
    Host = Host
SYMMETRY Symmetric
INVARIANTS
    RefillWaitsForAll
    UseFollowsCopies
    ClosedIsQuiet
