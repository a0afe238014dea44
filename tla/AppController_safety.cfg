SPECIFICATION Safety
CONSTANTS
    a1 = a1
    a2 = a2
    n1 = n1
    n2 = n2
    n3 = n3
    w1 = w1
    w2 = w2
    Nobody = Nobody
    None = None
    Apps <- TwoApps
    Names <- OneName
    Specs <- OneNameSpecs
    MaxLag = 2
    KindOrder <- TwoKinds
    Workers <- TwoWorkers
    Bounds <- SafetyBounds
SYMMETRY Symmetry
INVARIANTS
    CacheTrails
    TypeOK
    NoAppForgotten
    SyncedMeansOwned
CHECK_DEADLOCK FALSE
