SPECIFICATION Spec
CONSTANTS
    MaxRows = 2
    Kinds = {"switchover", "automatic-failover"}
    Proof = TRUE
    CheckMayFail = FALSE
    SweepStalls = FALSE
    MaxResumes = 1
    MaxAttempts = 2
    MaxFaults = 1
INVARIANTS
    TypeOK
    OneWriter
PROPERTIES
    EndedStays
    RecoveryEnds
CHECK_DEADLOCK FALSE
