SPECIFICATION Spec
CONSTANTS
    a1 = a1
    None = None
    Nobody = Nobody
    Apps <- OneApp
    Bounds <- MixedBounds
    MaxLag = 2
CHECK_DEADLOCK FALSE
INVARIANTS
    TypeOK
    QuietMeansSettled
PROPERTIES
    Settles
    OrphansVanish
