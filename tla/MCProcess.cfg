\* three process structures, five processes created over a behaviour, pids modulo four
CONSTANTS
    NoProc = NoProc
    Proc = {p1, p2, p3}
    PidLimit = 4
    MaxIssued = 5
SPECIFICATION FairSpec
INVARIANTS TypeOK ListIsAlloc UniquePids CpuHasRunnable NobodyLeftBehind
PROPERTIES  ImplementsMultitasking
CHECK_DEADLOCK FALSE
