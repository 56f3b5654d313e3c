SPECIFICATION FairSpec
CONSTANTS
    Tasks = {t1, t2}
    MaxConcurrent = 1
    CacheablePaths = {"sites"}
    Calls <- ReadsAndJobs
    CacheKeys <- MCCacheKeys
    Payloads = {null, ticket}
    Null = null
    Ticket = ticket
    TTL = 2
    MaxSize = 1
    MaxRetries = 1
    PollTimeout = 2
INVARIANTS
    CacheOK
    NoTicketReturned
PROPERTIES
    HitsAreFresh
    EveryCallEnds
    KeepsPromise
