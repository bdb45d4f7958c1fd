\* three processes, one page, two values: what the processes see
CONSTANTS
    Proc = {p1, p2, p3}
    NoProc = NoProc
    Page = {u}
    Hole = Hole
    Value = {x, y}
    None = None
    Tables = 3
    Frames = 3
SPECIFICATION Spec
PROPERTY ImplementsPrivateMemory
CHECK_DEADLOCK FALSE
