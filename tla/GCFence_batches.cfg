SPECIFICATION Spec
CONSTANTS
    Writers = {w1}
    Runs = {g1}
    Chunks = {c1,c2}
    Leased = {}
    Remembering = {w1}
    Settle = 2
    Budget = 1
    RunTTL = 2
    PinTTL = 5
    MaxWait = 2
    Retention = 11
    MinAge = 1
    BatchSize = 1
    Slice = 1
    MaxTime = 1000
    OverlappingRuns = FALSE
    LapsedBeats = FALSE
    StalledFences = FALSE
    RecordFaults = FALSE
    StatFaults = FALSE
VIEW TimerView
SYMMETRY Symmetric
CHECK_DEADLOCK FALSE
INVARIANT TypeOK
INVARIANT NoAdoptedChunkLost
INVARIANT NoOwnChunkLost
