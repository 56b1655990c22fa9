SPECIFICATION Spec
CONSTANTS
    Requests = {r1, r2, r3}
    Processes = {p1, p2}
    Entries = {e1}
    MaxId = 3
    None = None
    Asks <- MCAsks
    DemoRules <- MCDemoRules
SYMMETRY MCSymmetry
INVARIANTS
    TypeOK
    RowAsAsked
    EntriesNameRules
PROPERTY SeedingComplete
