SPECIFICATION PaneSpec
CONSTANTS
    Calls = {c1}
    Pids = {shell, p1, p2, p3}
    Shell = shell
    InitPid = init
    MaxDepth = 2
    MaxRecycled = 1
SYMMETRY InterchangeablePids
INVARIANTS
    PaneTypeOK
    SignalsStayInLineage
    WalkCoversSteadyTree
    WaitSeesSteadyMatch
CHECK_DEADLOCK FALSE
