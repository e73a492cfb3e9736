SPECIFICATION Spec
CONSTANTS
    Jobs = {j1}
    Malformed = malformed
    Workers = {w1}
    Requests = {r1}
    Poison = {}
    MaxRetries = 1
    StaleAfter = 0
    MinIdle = 1
    MaxWork = 1
    MaxDelivery = 1
    BaseDelay = 1
    MaxBackoff = 1
    JitterPercent = 0
    MaxDelay = 1
    PromptIO = FALSE
    Faults = {"crash", "sigterm", "io", "apiCrash", "apiIo", "foreign"}
    MaxFaults = 1
    MaxManualRetries = 1
INVARIANTS
    TypeOK
    CompletedHasResult
    ProcessingHasStart
    RetryCountBounded
