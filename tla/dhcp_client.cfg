SPECIFICATION FairSpec
CONSTANTS
    s1 = s1
    s2 = s2
    Servers = {s1, s2}
    PoolSize = 1
    Taken <- OneAddr
    Leases = {16, 19}
    Mod = 17
    Wait = 1
    MaxRetry = 2
    Margin = 7
    MaxDelay = 1
    MaxNet = 1
    Env = {"restart", "createFails", "arpFails"}
INVARIANT LeaseHeld
PROPERTY RunEnds
