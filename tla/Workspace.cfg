SPECIFICATION WorkspaceSpec
CONSTANTS
    MaxIds = 2
    MaxTitle = 1
    MaxGets = 2
    MaxEvents = 2
INVARIANTS
    NotFoundIsReal
PROPERTIES
    PanelConverges
    GoneIsNoticed
CHECK_DEADLOCK FALSE
