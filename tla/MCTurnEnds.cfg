SPECIFICATION FairSpec
CONSTANTS
    Commands = {1, 2}
    Kind <- MCKindPair
    Deliveries = {d1}
    Lifetime = 3
    OlderQueuedWait = 2
    StampInterval = 0
    BusyDelay = 1
    BusyLongestDelay = 1
    ExpiryMargin = 1
    SignalGrace = 1
    StaleGrace = 1
    StaleAfter = 3
    RetryDelays <- MCRetryOne
    LookSlack = 0
    PromptLooks = TRUE
    MaxFaults = 1
PROPERTY
    EveryCommandEnds
