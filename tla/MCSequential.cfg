SPECIFICATION SeqSpec
CONSTANTS
    Discs <- SomeDiscs
    Alloc = 8
    W = 4
    Records <- ShortRecords
    Leftovers <- Behind
    DkLists <- SomeKeys
    PkLists <- SomePks
    UnitKeyDiscs <- SomeUnitKeyDiscs
    CciDiscs <- SomeCciDiscs
    SizeMod = 1073741824
    EcCurves <- SomeCurves
    ScalarBits = 5
    Base = 3
    PointBytes = 3
    BusKeyBytes = 2
INVARIANTS
    ReadFits
    WalkIsAligned
    RecordIsWhole
    PaddedFileIsFound
    ServedDevicesGetMk
    UkReadsFit
    TitlesGetTheirKey
    CciReadsFit
    UnencryptedIsRight
    MulIsMultiple
    PointIsPrinted
PROPERTIES
    EveryCallReturns
CHECK_DEADLOCK FALSE
