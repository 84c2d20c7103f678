SPECIFICATION McpSpec
CONSTANTS
    Calls = {c1}
    MaxIds = 1
    Default = 1
    MaxTerminals = 1
    MaxReadLines = 1
    Viewport = 1
    MaxWindows = 1
    MaxLines = 2
    MaxExits = 0
    MaxOthers = 0
PROPERTIES
    DeltaReachesTail
CHECK_DEADLOCK FALSE
