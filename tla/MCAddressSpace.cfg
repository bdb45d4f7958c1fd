\* a machine of 32 frames, tables of 14 entries, three processes
CONSTANTS
    E = 14
    B = 2
    K = 2
    M = 32
    TextFrame = 1
    StackSlot = 3
    TempSlot = 7
    Kbrks = 1
    Pages = 2
    Strays <- SomeStrays
    Proc = {p1, p2, p3}
    Kernel = Kernel
SYMMETRY Symmetry
SPECIFICATION Spec
INVARIANTS TypeOK NoAccessAstray PointersMatchEntries KernelIsShared NoFrameHasTwoUses
CHECK_DEADLOCK FALSE
