\* A skew of 1, and a clock that moves by more.
SPECIFICATION Spec
CONSTANTS
    Items = {"a", "b"}
    Payloads <- PayloadsOf
    Keys <- KeyNames
    Values = {"absent", "api", "x", "forged", "prod", "u1", "u2", "c1", "c2"}
    Absent = "absent"
    ServiceKeys <- Named
    ServiceName = "service.name"
    AllowedNames = {"api"}
    Targets <- TargetSet
    Static <- StaticMap
    IdentityLike <- LikeSet
    AllowedKeys <- AllowSet
    MaxFutureSkew = 1
    MaxPastAge = 2
    StartClock = 3
    MaxClock = 5
CHECK_DEADLOCK FALSE
INVARIANTS TimesBounded OrderKept TimelyKept IdentityIsTokens MetricsCarryNoIdentity
