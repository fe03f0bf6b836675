\* One request, every document and token, and Shutdown.
SPECIFICATION Spec
CONSTANTS
    r1 = r1
    r2 = r2
    r3 = r3
    Req = {r1}
    Loop = Loop
    Tokens <- AllTokens
    Docs <- AllDocs
    MinRefreshInterval = 1
    FetchTimeout = 1
    DiscoveryRetry = 1
    JWKSRefresh = 1
    MaxClock = 2
CHECK_DEADLOCK FALSE
INVARIANTS CacheNeverEmpty ShutdownJoins
PROPERTIES VerifiedWithOwnKey ImplementsKeyCache
