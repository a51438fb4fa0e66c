SPECIFICATION Spec
CONSTANTS
    Procs = {p1, p2, p3, p4}
    Nobody = Nobody
    TTL = 5
    Settle = 1
    Grace = 10
    MaxGens = 2
    EchoRetries = 1
    RenewDelay = 2
    BreakDelay = 2
    ReleaseDelay = 1
    Repeats = {}
    Worlds = {{"slow", "doctor"}}
    MaxTime = 1000
VIEW TimerView
SYMMETRY Symmetric
CHECK_DEADLOCK FALSE
INVARIANT MutualExclusion
