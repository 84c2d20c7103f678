SPECIFICATION FairSpec
CONSTANTS
    Requests = {r1, r2}
    Titles = {"zsh"}
    EmptyTitle = ""
    NoTitle = NoTitle
    ShellName = "zsh"
    SlugOf <- MCSlugOf
    AutoId <- MCAutoId
    Suffixed <- MCSuffixed
    MaxTerminals = 2
    MaxWindows = 2
    MaxForeign = 0
    MaxExits = 1
    MaxFaults = 1
    MaxCrashes = 1
INVARIANTS
    OneIdPerWindow
    NoOrphanWindows
    LiveEntriesRouted
PROPERTY
    CreatedGetsRouted
