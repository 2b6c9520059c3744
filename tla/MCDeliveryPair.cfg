SPECIFICATION Spec
CONSTANTS
    Runs = {r1, r2}
    Kind = "resume"
    MaxAttempt = 1
    MaxFaults = 1
SYMMETRY RunSymmetry
INVARIANTS
    TypeOK
    SuccessIsTrue
PROPERTIES
    NeverLiveAgain
CHECK_DEADLOCK FALSE
