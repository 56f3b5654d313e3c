\* Three tenants over a pool of two clients.
SPECIFICATION FairSpec
\* The server stops for good once it is shut down.
CHECK_DEADLOCK FALSE
CONSTANTS
    NoClient = NoClient
    Absent = Absent
    Requests = {r1, r2}
    Ids = {c1, c2, c3, c4, c5}
    Headers <- Tenants
    Base <- BaseConfig
    Knobs <- Plain
    ToolCalls <- OneRead
    MaxClients = 2
    MaxRetries = 0
    MaxTargets = 2
INVARIANTS
    PoolSound
    LRUSparesActive
    TenantIsolation
PROPERTIES
    EveryRequestEnds
    ShutdownClosesAll
