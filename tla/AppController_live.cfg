SPECIFICATION Spec
CONSTANTS
    a1 = a1
    a2 = a2
    n1 = n1
    n2 = n2
    n3 = n3
    w1 = w1
    w2 = w2
    Nobody = Nobody
    None = None
    Apps <- OneApp
    Names <- TwoNames
    Specs <- SameNameSpecs
    Workers <- OneWorker
    Bounds <- LiveBounds
    MaxLag = 2
    KindOrder <- TwoKinds
CHECK_DEADLOCK FALSE
INVARIANT NoAppForgotten
PROPERTIES
    Converge
    OrphansVanish
