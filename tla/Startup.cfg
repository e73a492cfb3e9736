SPECIFICATION StartupSpec
CONSTANTS
    Apis = {a1}
    Workers = {w1}
    MaxAttempts = 2
    MaxFaults = 3
CHECK_DEADLOCK FALSE
INVARIANTS
    StartupTypeOK
    GroupBeforeServing
    StoppedReleases
PROPERTIES
    StartupDecides
    ComesUp
    SignalEnds
    ReadinessFollows
