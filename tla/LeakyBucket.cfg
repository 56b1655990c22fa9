SPECIFICATION Spec
CONSTANTS
    Tasks = {t1, t2}
    NoTime = NoTime
    USec = 1
    MaxSec = 8
    Limit = 2
    Window = 3
SYMMETRY TaskSymmetry
INVARIANTS
    TypeOK
    LeakBound
PROPERTIES
    QueueSpec
    RetrySound
