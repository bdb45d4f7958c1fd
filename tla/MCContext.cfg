\* three processes, one value besides 0 in each register
CONSTANTS
    Proc = {p1, p2, p3}
    NoProc = NoProc
    Value = {x}
    Zero = Zero
    Selector = Selector
    Kernel = Kernel
SYMMETRY Symmetry
SPECIFICATION Spec
INVARIANTS TypeOK CanBeResumed
PROPERTY ImplementsVirtualCpu
CHECK_DEADLOCK FALSE
