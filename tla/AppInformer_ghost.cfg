SPECIFICATION Spec
CONSTANTS
    k1 = k1
    k2 = k2
    None = None
    Keys <- OneKey
    Bounds <- GhostBounds
CHECK_DEADLOCK FALSE
PROPERTY EventuallyRemoved
