SPECIFICATION Spec
CONSTANTS
    Tasks = {t1, t2, t3}
    NoTime = NoTime
    USec = 1
    MaxSec = 7
    MaxLimit = 2
    Window = 3
SYMMETRY TaskSymmetry
INVARIANTS
    TypeOK
    OvershootBounded
    CounterCountsWindow
PROPERTIES
    FreshWithinLimit
    ResetIsDeadline
