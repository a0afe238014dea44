SPECIFICATION Spec
CONSTANTS
    k1 = k1
    None = None
    Nil = Nil
    Keys <- OneKey
    Cells <- EightCells
    Values <- TwoValues
    MaxWrites = 3
CHECK_DEADLOCK FALSE
INVARIANTS
    TypeOK
    Unshared
    TrackerKeepsWrites
PROPERTIES
    RefinesReplica
    CatchesUp
