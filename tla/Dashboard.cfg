SPECIFICATION DashboardSpec
CONSTANTS
    Jobs = {j1}
    MaxRetries = 1
    Requests = {r1, r2}
    PoolSize = 1
INVARIANTS
    DashboardTypeOK
    PageIsCoherent
    EveryJobCountedOnce
    ConnectionsReturned
PROPERTIES
    BoardConverges
    SubmitReenabled
