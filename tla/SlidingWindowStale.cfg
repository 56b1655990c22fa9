SPECIFICATION Spec
CONSTANTS
    Tasks = {t1, t2}
    NoTime = NoTime
    USec = 2
    MaxSec = 6
    MaxLimit = 2
    Window = 2
INVARIANT NoFalseBlock
