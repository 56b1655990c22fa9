SPECIFICATION Spec
CONSTANTS
    Tasks = {t1, t2}
    NoTime = NoTime
    USec = 2
    MaxSec = 5
    MaxLimit = 2
    Window = 2
SYMMETRY TaskSymmetry
INVARIANTS
    TypeOK
    BlockedByBusyKey
    RetryWithinSecond
PROPERTY QuotaSpec
