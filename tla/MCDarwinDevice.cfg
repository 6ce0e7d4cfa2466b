SPECIFICATION Spec
CONSTANTS
    MaxAsks = 3
INVARIANTS
    RejectedMountIsMadeUp
    CloseWaitsForMount
PROPERTIES
    CloseReturns
CHECK_DEADLOCK FALSE
