SPECIFICATION Spec
CONSTANTS
    Paths = {p1, p2}
    Readers = {r1, r2}
    Changes = {c1}
    None = None
INVARIANTS
    TypeOK
    ChangeInForce
PROPERTY EventuallyInForce
