SPECIFICATION Spec
CONSTANTS
    MaxTime = 3
    IdemKeys = {k1, k2}
    Prints = {f1, f2}
    MaxRetries = 3
    LockTtl = 1
    RecordTtl = 2
    IdemMaxKeys = 1
    MaxVisits = 3
    SessionHorizon = 1
    MaxDestroyed = 1
    StoreHorizon = 2
    SessionTtl = 1
    SessionMaxKeys = 1
    Pages = {g1, g2, g3}
    MaxFetches = 3
    CacheTtl = 1
    CacheMax = 2
    Peers = {p1, p2}
    MaxHits = 4
    Budget = 1
    WindowLen = 2
    Second = 3
    MaxTtl = 1
    BucketMax = 1
INVARIANT
    CacheCorrect
PROPERTIES
    IdempotencyCorrect
    SessionCorrect
    RateLimitCorrect
CHECK_DEADLOCK FALSE
