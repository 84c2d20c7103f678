SPECIFICATION FairInputSpec
CONSTANTS
    Terminals = {t1, t2}
    Sockets = {s1}
    Kinds = {"keys", "line"}
    MaxFrames = 3
    MaxDeaths = 1
INVARIANTS InputTypeOK OneCommandPerTerminal PaneInOrder
PROPERTIES QueueSpec EveryFrameSettles
CHECK_DEADLOCK FALSE
