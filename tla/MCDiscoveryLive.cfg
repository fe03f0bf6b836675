\* The liveness properties: two requests and Shutdown.
SPECIFICATION FairSpec
CONSTANTS
    r1 = r1
    r2 = r2
    r3 = r3
    Req = {r1, r2}
    Loop = Loop
    Tokens <- NewToken
    Docs <- RotationDocs
    MinRefreshInterval = 1
    FetchTimeout = 1
    DiscoveryRetry = 1
    JWKSRefresh = 1
    MaxClock = 1
CHECK_DEADLOCK FALSE
PROPERTIES RequestsAnswered ShutdownEndsLoop
