\* The token profile over every small request.
SPECIFICATION Spec
CONSTANTS
    Requests <- AllRequests
    Issuer = "issuer"
    Audience = "me"
    Algorithms = {"RS256"}
    RequiredScope = "write"
    RequiredClaims <- Required
    ClaimAttributes <- ClaimMap
    ResourceAttributes <- Stamped
    ClockSkew = 1
    Int64Max = 16
    DateLimit = 8
    MaxClock = 2
CHECK_DEADLOCK FALSE
INVARIANT IdentityIsAttested
PROPERTIES AcceptsByTheProfile RefusesByTheProfile OnlyExpiryEndsAToken
