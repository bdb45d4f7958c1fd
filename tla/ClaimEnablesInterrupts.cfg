\* the source as it stands: lidt is in a comment
CONSTANTS
    LidtCompiled = FALSE
    GD_MAX_ENTRIES = 6
    TssBase <- TssAddress
SPECIFICATION KSpec
INVARIANT EnablesInterrupts
CHECK_DEADLOCK FALSE
