SPECIFICATION Spec
CONSTANTS
    d1 = d1
    d2 = d2
    Discs = {d1, d2}
    NoDisc = NoDisc
    NoKey = NoKey
    BadKey = BadKey
    NumUk <- UnitsOf
    Encrypted <- EncryptedUnits
    CciFile <- UsageFiles
    BeeDiscs = {d2}
    DriveBec = 1
    Configs <- RightKeys
    DefaultConfigs <- Defaults
    BadMac = TRUE
    DiscErrors = TRUE
    Reopen = FALSE
INVARIANTS
    SuccessGivesKeys
    CacheSuffices
    BusKeyKnown
    CacheIsRight
