SPECIFICATION Spec
CONSTANTS
    Tasks = {t1, t2}
    NoTime = NoTime
    USec = 1
    MaxSec = 8
    Limit = 2
    Window = 3
    Burst = 15
SYMMETRY TaskSymmetry
INVARIANTS
    TypeOK
    RateBound
PROPERTIES
    BucketSpec
    HintsExact
