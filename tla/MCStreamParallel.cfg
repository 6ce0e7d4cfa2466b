SPECIFICATION FairSpec
CONSTANTS
    Threads = {t1, t2}
    NumUk = 3
    GoodKeys = {1, 2}
    NumTitles = 2
    TitleCpsUnit <- MapOfTitles
    TitlesRead = TRUE
    Bus = TRUE
    ResetTitle = 65535
    SelectsTitles = TRUE
    Retries = TRUE
    Reorder = FALSE
    MaxCalls = 2
INVARIANTS
    UnitsAreDecrypted
    SelectionIsCurrent
    SuccessMeansClear
PROPERTIES
    ServiceIsMemoryless
