SPECIFICATION Spec
CONSTANTS
    Hosts = {h1, h2}
    h1 = h1
    h2 = h2
    NumAgid = 2
    HostCerts = {"good", "invalid", "revoked", "mismatched"}
    HostCertList <- OneCert
    InvalidCerts = {"invalid"}
    RevokedCerts = {"revoked"}
    MismatchedCerts = {"mismatched"}
    DriveAacs2 = FALSE
    ReadsDriveCert = TRUE
    Lossy = TRUE
    Corrupting = TRUE
    MaxCalls = 1
SYMMETRY HostSymmetry
INVARIANTS
    SuccessIsAuthentic
    KeyAgreement
CHECK_DEADLOCK FALSE
