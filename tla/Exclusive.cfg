SPECIFICATION Spec
CONSTANTS
    Jobs = {j1}
    Malformed = malformed
    Workers = {w1, w2}
    Requests = {r1}
    Poison = {}
    MaxRetries = 1
    StaleAfter = 3
    MinIdle = 1
    MaxWork = 2
    MaxDelivery = 1
    BaseDelay = 1
    MaxBackoff = 1
    JitterPercent = 0
    MaxDelay = 1
    PromptIO = TRUE
    Faults = {"crash", "sigterm", "io", "apiCrash"}
    MaxFaults = 1
    MaxManualRetries = 1
SYMMETRY Symmetry
INVARIANTS
    AtMostOneAttempt
    NoSecondExtraction
    SetbackHasReason
PROPERTIES
    CompletedIsForever
    RetriesAreCounted
    ImplementsLifecycle
