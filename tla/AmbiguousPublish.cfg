SPECIFICATION Spec
CONSTANTS
    Jobs = {j1}
    Malformed = malformed
    Workers = {w1}
    Requests = {r1}
    Poison = {}
    MaxRetries = 1
    StaleAfter = 3
    MinIdle = 1
    MaxWork = 2
    MaxDelivery = 1
    BaseDelay = 1
    MaxBackoff = 1
    JitterPercent = 0
    MaxDelay = 1
    PromptIO = TRUE
    Faults = {"apiIo"}
    MaxFaults = 1
    MaxManualRetries = 0
PROPERTIES
    CompletedIsForever
