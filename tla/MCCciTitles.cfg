SPECIFICATION CciSpec
CONSTANTS
    CciDiscs <- TwoUnits
    SizeMod = 1073741824
INVARIANTS
    TitlesAreBasic
CHECK_DEADLOCK FALSE
