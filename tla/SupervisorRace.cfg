SPECIFICATION FairSupervisorSpec
CONSTANTS
    Procs = {m1, m2}
    WebOptOut = {}
    NoLock = NoLock
    Foreign = Foreign
    NoOne = NoOne
    MaxCrashes = 1
    MaxServiceDeaths = 1
    MaxSlowProbes = 1
    MaxLockFaults = 1
INVARIANTS SupervisorTypeOK SpawnsFollowUnlinks FailedWinnerReleases ReadyStackIsUp
PROPERTY EveryCallSettles
CHECK_DEADLOCK FALSE
