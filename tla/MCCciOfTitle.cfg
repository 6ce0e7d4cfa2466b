SPECIFICATION CciSpec
CONSTANTS
    CciDiscs <- TwoUnits
    SizeMod = 1073741824
INVARIANTS
    CciIsOfTitle
CHECK_DEADLOCK FALSE
