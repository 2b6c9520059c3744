SPECIFICATION Spec
CONSTANTS
    Runs = {r1}
    Kind = "deploy"
    MaxAttempt = 2
    MaxFaults = 2
INVARIANTS
    PayloadWhileOpen
    ConfirmedIsHeld
PROPERTIES
    NeverResent
CHECK_DEADLOCK FALSE
