CONSTANTS
    kc_screen_width = 4
    kc_screen_height = 2
    Spare = 1
    Tab = 2
    Byte = 3
    IntDigits = 3
    HexDigits = 2
    Strings <- Texts
    Numbers = {0, 105}
    Message <- Notice
    MaxPrints = 3
    MaxSpurious = 2
SPECIFICATION Spec
INVARIANT CursorOnScreen
PROPERTY ImplementsTerminal
CHECK_DEADLOCK FALSE
