SPECIFICATION Safety
CONSTANTS
    a1 = a1
    a2 = a2
    n1 = n1
    n2 = n2
    n3 = n3
    w1 = w1
    w2 = w2
    Nobody = Nobody
    None = None
    Apps <- OneApp
    Names <- ThreeNames
    Specs <- SampleSpecs
    Workers <- OneWorker
    Bounds <- SampleBounds
    MaxLag = 2
    KindOrder <- ThreeKinds
CHECK_DEADLOCK FALSE
INVARIANT SyncedMeansOwned
