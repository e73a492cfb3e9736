SPECIFICATION FairSpec
CONSTANTS
    Jobs = {j1, j2}
    Malformed = malformed
    Workers = {w1}
    Requests = {r1}
    Poison = {j1}
    MaxRetries = 0
    StaleAfter = 1
    MinIdle = 2
    MaxWork = 1
    MaxDelivery = 1
    BaseDelay = 1
    MaxBackoff = 1
    JitterPercent = 0
    MaxDelay = 1
    PromptIO = TRUE
    Faults = {"crash", "sigterm", "io", "foreign"}
    MaxFaults = 1
    MaxManualRetries = 1
INVARIANTS
    TimelySweep
    ProcessingIsCarried
    QueuedIsCarried
PROPERTIES
    EveryJobSettles
    StreamDrains
