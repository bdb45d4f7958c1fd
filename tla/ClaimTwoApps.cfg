CONSTANTS
    NoProc = NoProc
    Proc = {p1, p2, p3}
    PidLimit = 4
    MaxIssued = 4
SPECIFICATION FairSpec
PROPERTY BothAppsStart
CHECK_DEADLOCK FALSE
