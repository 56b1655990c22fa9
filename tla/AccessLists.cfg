SPECIFICATION ListsSpec
CONSTANTS
    Admins = {a1, a2, a3}
    Values = {v1, v2}
    MaxId = 2
SYMMETRY AdminSymmetry
INVARIANTS
    ListsTypeOK
    RowsAndKeysAgree
