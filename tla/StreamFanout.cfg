SPECIFICATION StreamSpec
CONSTANTS
    Ptys = {p1}
    NoPty = NoPty
    MaxAttempts = 1
    MaxOutages = 0
    Terminals = {t1}
    Adopted = {t1}
    Sockets = {s1, s2}
    MaxReports = 2
    MaxResizes = 0
SYMMETRY InterchangeableSockets
INVARIANTS SubscribersMatchConnections OutputInOrderOnce NoGapAfterSnapshot
CHECK_DEADLOCK FALSE
