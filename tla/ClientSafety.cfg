SPECIFICATION Spec
CONSTANTS
    Tasks = {t1, t2, t3}
    MaxConcurrent = 2
    CacheablePaths = {"sites"}
    Calls <- Requests
    CacheKeys <- MCCacheKeys
    Payloads = {null, ticket}
    Null = null
    Ticket = ticket
    TTL = 1
    MaxSize = 1
    MaxRetries = 2
    PollTimeout = 1
SYMMETRY Symmetry
INVARIANTS
    ClientTypeOK
    SlotsRespected
    NoPermitLost
    AttemptBudget
    OkWriteTookEffect
