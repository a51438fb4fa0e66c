SPECIFICATION Spec
CONSTANTS
    Procs = {p1, p2, p3}
    Nobody = Nobody
    TTL = 5
    Settle = 1
    Grace = 9
    MaxGens = 2
    EchoRetries = 1
    RenewDelay = 2
    BreakDelay = 12
    ReleaseDelay = 1
    Repeats = {}
    Worlds = {{"slow"}}
    MaxTime = 1000
VIEW TimerView
SYMMETRY Symmetric
CHECK_DEADLOCK FALSE
INVARIANT MutualExclusion
