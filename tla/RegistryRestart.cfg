SPECIFICATION Spec
CONSTANTS
    Requests = {r1, r2}
    Titles = {"zsh-3"}
    EmptyTitle = ""
    NoTitle = NoTitle
    ShellName = "zsh"
    SlugOf <- MCSlugOf
    AutoId <- MCAutoId
    Suffixed <- MCSuffixed
    MaxTerminals = 1
    MaxWindows = 3
    MaxForeign = 2
    MaxExits = 0
    MaxFaults = 1
    MaxCrashes = 1
SYMMETRY Interchangeable
INVARIANTS
    TypeOK
    SurvivorsAdopted
    RegistrySizeBounded
