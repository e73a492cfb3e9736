SPECIFICATION FairSpec
CONSTANTS
    Jobs = {j1}
    Malformed = malformed
    Workers = {w1, w2}
    Requests = {r1}
    Poison = {}
    MaxRetries = 2
    StaleAfter = 3
    MinIdle = 1
    MaxWork = 2
    MaxDelivery = 1
    BaseDelay = 2
    MaxBackoff = 2
    JitterPercent = 50
    MaxDelay = 3
    PromptIO = TRUE
    Faults = {"sigterm", "foreign"}
    MaxFaults = 1
    MaxManualRetries = 0
PROPERTIES
    EveryJobSettles
    ShutdownEnds
INVARIANTS
    ProcessingIsCarried
    RetryingIsCarried
