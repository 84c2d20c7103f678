SPECIFICATION FairSupervisorSpec
CONSTANTS
    Procs = {m1, m2}
    WebOptOut = {}
    NoLock = NoLock
    Foreign = Foreign
    NoOne = NoOne
    MaxCrashes = 1
    MaxServiceDeaths = 1
    MaxSlowProbes = 0
    MaxLockFaults = 0
PROPERTY StaleWebLockReclaimed
CHECK_DEADLOCK FALSE
