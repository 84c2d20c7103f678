SPECIFICATION McpSpec
CONSTANTS
    Calls = {c1, c2}
    MaxIds = 2
    Default = 1
    MaxTerminals = 2
    MaxReadLines = 2
    Viewport = 1
    MaxWindows = 2
    MaxLines = 2
    MaxExits = 1
    MaxOthers = 1
SYMMETRY InterchangeableCalls
INVARIANTS
    McpTypeOK
    NoLineSkipped
    NoOrphanTerminal
CHECK_DEADLOCK FALSE
