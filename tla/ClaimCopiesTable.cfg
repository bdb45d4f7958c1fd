CONSTANTS
    Proc = {p1, p2, p3}
    NoProc = NoProc
    Page = {u, v}
    Hole = Hole
    Value = {x}
    None = None
    Tables = 3
    Frames = 4
SYMMETRY Symmetry
SPECIFICATION Spec
INVARIANT CopiesATable
CHECK_DEADLOCK FALSE
