SPECIFICATION FairSpec
CONSTANTS
    Procs = {p1, p2, p3}
    Nobody = Nobody
    TTL = 1
    Settle = 0
    Grace = 1
    MaxGens = 2
    EchoRetries = 0
    RenewDelay = 0
    BreakDelay = 0
    ReleaseDelay = 0
    Repeats = {p3}
    Worlds = {{"doctor"}}
    MaxTime = 5
CHECK_DEADLOCK FALSE
PROPERTY NeverWedged
