SPECIFICATION Spec
CONSTANTS
    p1 = p1
    p2 = p2
    g1 = g1
    g2 = g2
    Callers <- Two
    Groups = {g1, g2}
    Nobody = Nobody
    Timeouts = TRUE
    MaxCalls = 3
    MaxCollectives = 2
SYMMETRY Symmetric
INVARIANTS
    OneRankComputes
    PreviousUnwound
    MatchedCollectives
