SPECIFICATION Spec
CONSTANTS
    Threads = {t1}
    NumUk = 3
    GoodKeys = {0, 1, 2}
    NumTitles = 2
    TitleCpsUnit <- MapOfTitles
    TitlesRead = TRUE
    Bus = FALSE
    ResetTitle = 0
    SelectsTitles = FALSE
    Retries = FALSE
    Reorder = FALSE
    MaxCalls = 1
SYMMETRY ThreadSymmetry
INVARIANTS
    UnitsAreDecrypted
