SPECIFICATION Safety
CONSTANTS
    s1 = s1
    w1 = w1
    None = None
    Tombstone = Tombstone
    MaxRetry = 1
    MaxLag = 2
    Services <- OneService
    Workers <- OneWorker
    Bounds <- TombstoneBounds
CHECK_DEADLOCK FALSE
INVARIANT NoPanic
