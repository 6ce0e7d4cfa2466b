SPECIFICATION FilesSpec
CONSTANTS
    p1 = p1
    p2 = p2
    Procs = {p1, p2}
    RlNames <- TwoLists
    DiscVersion <- TwoDiscs
    HasRl = {p1, p2}
    RlLen <- SameLen
    CanFail = TRUE
    CanCrash = TRUE
    Overlaps = {"none", "reads"}
    MaxCalls = 2
    BindingCalls = 3
    MkProcs = {p1, p2}
    DirPaths <- SomePaths
    Existing <- HomeOnly
    SystemDirs <- SomeSystemDirs
    MkCalls = 2
INVARIANTS
    VersionMatchesList
    ListIsNotOlder
    LatestSeenIsCached
    DirsAreMade
    FirstFileIsUsed
PROPERTIES
    StoredIdStays
CHECK_DEADLOCK FALSE
