SPECIFICATION Spec
CONSTANTS
    Endpoints <- MCEndpoints
    Second = 2
    Checks = 2
    BurstInputs <- MCBurstInputs
    MaxBurst = 3
    LogSize = 2
    MaxFires = 5
    MaxTime = 5
INVARIANTS
    TypeOK
    RecordedOnce
    SimulatorKeepsLimits
