SPECIFICATION Spec
CONSTANTS
    Commands = {1, 2, 3}
    Kind <- MCKindSkip
    Deliveries = {d1, d2}
    Lifetime = 4
    OlderQueuedWait = 4
    StampInterval = 1
    BusyDelay = 1
    BusyLongestDelay = 1
    ExpiryMargin = 2
    SignalGrace = 2
    StaleGrace = 1
    StaleAfter = 5
    RetryDelays <- MCRetryLong
    LookSlack = 0
    PromptLooks = TRUE
    MaxFaults = 0
SYMMETRY DeliverySymmetry
INVARIANTS
    WaitingStaysAlive
PROPERTY
    ArrivalOrder
