SPECIFICATION Spec
CONSTANTS
    MaxRows = 1
    Kinds = {"switchover"}
    Proof = TRUE
    CheckMayFail = TRUE
    SweepStalls = FALSE
    MaxResumes = 1
    MaxAttempts = 2
    MaxFaults = 0
INVARIANTS
    OneWriter
CHECK_DEADLOCK FALSE
