SPECIFICATION Spec
CONSTANTS
    Tasks = {t1}
    NoTime = NoTime
    USec = 1
    MaxSec = 8
    Limit = 2
    Window = 3
INVARIANT DrainProportional
