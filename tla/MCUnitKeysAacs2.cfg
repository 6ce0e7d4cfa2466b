SPECIFICATION UkSpec
CONSTANTS
    UnitKeyDiscs <- Aacs2Discs
INVARIANTS
    Aacs2KeysAreFound
CHECK_DEADLOCK FALSE
