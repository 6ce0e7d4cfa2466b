SPECIFICATION Spec
CONSTANTS
    Setups <- SomeSetups
    WantIds <- OneDisc
INVARIANTS
    LinesAreRead
    KeysAreKept
    NothingIsThrownAway
    TextIsFresh
    StringsAreFreed
PROPERTIES
    Returns
CHECK_DEADLOCK FALSE
