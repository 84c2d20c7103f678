SPECIFICATION FairStreamSpec
CONSTANTS
    Ptys = {p1}
    NoPty = NoPty
    MaxAttempts = 2
    MaxOutages = 1
    Terminals = {t1}
    Adopted = {}
    Sockets = {s1}
    MaxReports = 1
    MaxResizes = 1
INVARIANTS NoLeakedMaster AttachedOrReconnecting
PROPERTIES AttachRecovers EverySocketAnswered HeldOutputGetsSent
CHECK_DEADLOCK FALSE
