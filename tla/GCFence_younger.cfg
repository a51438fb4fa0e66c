SPECIFICATION Spec
CONSTANTS
    Writers = {w1}
    Runs = {g1,g2}
    Chunks = {c1}
    Leased = {}
    Remembering = {}
    Settle = 2
    Budget = 1
    RunTTL = 2
    PinTTL = 3
    MaxWait = 5
    Retention = 8
    MinAge = 0
    BatchSize = 1
    Slice = 1
    MaxTime = 1000
    OverlappingRuns = TRUE
    LapsedBeats = FALSE
    StalledFences = FALSE
    RecordFaults = FALSE
    StatFaults = FALSE
VIEW TimerView
CHECK_DEADLOCK FALSE
PROPERTY NeverDeletesYounger
