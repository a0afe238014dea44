SPECIFICATION Spec
CONSTANTS
    s1 = s1
    w1 = w1
    None = None
    Tombstone = Tombstone
    MaxRetry = 1
    MaxLag = 2
    Services <- OneService
    Workers <- OneWorker
    Bounds <- MixedBounds
CHECK_DEADLOCK FALSE
INVARIANTS
    TypeOK
    NoServiceForgotten
PROPERTY IngressCreated
