SPECIFICATION Spec
CONSTANTS
    Commands = {1, 2}
    Kind <- MCKindTwo
    Deliveries = {d1, d2}
    Lifetime = 1
    OlderQueuedWait = 2
    StampInterval = 1
    BusyDelay = 1
    BusyLongestDelay = 1
    ExpiryMargin = 0
    SignalGrace = 1
    StaleGrace = 1
    StaleAfter = 2
    RetryDelays <- MCRetryNone
    LookSlack = 0
    PromptLooks = FALSE
    MaxFaults = 1
SYMMETRY DeliverySymmetry
INVARIANTS
    TypeOK
    TurnExclusive
    TurnInv
PROPERTY
    ImplementsOneAtATime
