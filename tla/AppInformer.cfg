SPECIFICATION Spec
CONSTANTS
    k1 = k1
    k2 = k2
    None = None
    Keys <- TwoKeys
    Bounds <- MixedBounds
CHECK_DEADLOCK FALSE
INVARIANTS
    TypeOK
    FifoTracksLog
    DeletionsArePaired
    SyncedMeansListed
    NoLostUpdate
PROPERTIES
    RefinesReplica
    CatchesUp
