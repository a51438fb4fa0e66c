SPECIFICATION FairSpec
CONSTANTS
    Writers = {w1}
    Runs = {g1}
    Chunks = {c1}
    Leased = {w1}
    Remembering = {}
    Settle = 2
    Budget = 1
    RunTTL = 2
    PinTTL = 6
    MaxWait = 1
    Retention = 13
    MinAge = 0
    BatchSize = 1
    Slice = 1
    MaxTime = 5
    OverlappingRuns = FALSE
    LapsedBeats = FALSE
    StalledFences = TRUE
    RecordFaults = FALSE
    StatFaults = FALSE
CHECK_DEADLOCK FALSE
PROPERTY WaitEnds
PROPERTY SweepEnds
INVARIANT NoOwnChunkLost
