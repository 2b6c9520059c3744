SPECIFICATION Spec
CONSTANTS
    Runs = {r1}
    Kind = "other"
    MaxAttempt = 1
    MaxFaults = 1
PROPERTIES
    UndeliveredNeverRan
CHECK_DEADLOCK FALSE
