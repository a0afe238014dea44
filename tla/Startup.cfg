SPECIFICATION Spec
CONSTANTS
    w1 = w1
    w2 = w2
    Workers <- TwoWorkers
    MaxSignals = 3
    None = None
INVARIANTS
    TypeOK
    NoBlindWorker
    SuccessMeansSynced
PROPERTIES
    EndsWhenAsked
    ServesInTheEnd
