\* the table of the kernel is loaded
CONSTANTS
    LidtCompiled = TRUE
    GD_MAX_ENTRIES = 6
    TssBase <- TssAddress
SPECIFICATION KSpec
INVARIANTS KernelTypeOK NothingLeftInService NoInterruptPanics SegmentsAreInForce
PROPERTIES TimerGoesOn KeysAreRead
CHECK_DEADLOCK FALSE
