SPECIFICATION FairSpec
CONSTANTS
    Hosts = {h1, h2}
    h1 = h1
    h2 = h2
    NumAgid = 2
    HostCerts = {"good", "invalid", "revoked", "mismatched"}
    HostCertList <- EveryKind
    InvalidCerts = {"invalid"}
    RevokedCerts = {"revoked"}
    MismatchedCerts = {"mismatched"}
    DriveAacs2 = FALSE
    ReadsDriveCert = TRUE
    Lossy = FALSE
    Corrupting = FALSE
    MaxCalls = 1
INVARIANTS
    AgidsOwned
    UsableCertIsFound
PROPERTIES
    CallReturns
CHECK_DEADLOCK FALSE
