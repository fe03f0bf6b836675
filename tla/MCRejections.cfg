\* Three concurrent refusals, two reasons, time for two more warnings.
SPECIFICATION Spec
CONSTANTS
    r1 = r1
    r2 = r2
    r3 = r3
    Req = {r1, r2, r3}
    Reason = {noToken, invalidToken}
    noToken = noToken
    invalidToken = invalidToken
    Interval = 2
    MaxRefusals = 4
    MaxClock = 4
CHECK_DEADLOCK FALSE
INVARIANTS TypeOK RefusalsAccounted WarningsBounded
