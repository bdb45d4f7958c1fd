\* three processes, two pages; contents are no matter of the invariants
CONSTANTS
    Proc = {p1, p2, p3}
    NoProc = NoProc
    Page = {u, v}
    Hole = Hole
    Value = {x}
    None = None
    Tables = 3
    Frames = 4
SYMMETRY Symmetry
SPECIFICATION Spec
INVARIANTS TypeOK WritableIsPrivate CacheIsCoherent WritesAreResolved
CHECK_DEADLOCK FALSE
