\* The timed properties: two requests, a rotating JWKS, fetches that fail.
SPECIFICATION Spec
CONSTANTS
    r1 = r1
    r2 = r2
    r3 = r3
    Req = {r1, r2}
    Loop = Loop
    Tokens <- NewToken
    Docs <- RotationDocs
    MinRefreshInterval = 1
    FetchTimeout = 1
    DiscoveryRetry = 1
    JWKSRefresh = 1
    MaxClock = 4
SYMMETRY Symmetry
CONSTRAINT Running
CHECK_DEADLOCK FALSE
INVARIANTS TypeOK SuccessfulFetchIsShared TrustBound
PROPERTIES MissFetchesAreSpaced UnknownKidIsFresh
