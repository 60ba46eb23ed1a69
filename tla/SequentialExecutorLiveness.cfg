SPECIFICATION FairSpec
CONSTANTS
    p1 = p1
    p2 = p2
    g1 = g1
    g2 = g2
    Callers <- Two
    Groups = {g1}
    Nobody = Nobody
    Timeouts = FALSE
    MaxCalls = 2
    MaxCollectives = 2
PROPERTIES
    CallsEnd
