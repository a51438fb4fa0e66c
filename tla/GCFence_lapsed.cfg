\* What NoAdoptedChunkLost does not survive: a record that lapses and is beaten
\* again.  With LapsedBeats = FALSE and RecordFaults = TRUE instead: a record that
\* cannot be read when a writer fixes what it waits for.
SPECIFICATION Spec
CONSTANTS
    Writers = {w1}
    Runs = {g1}
    Chunks = {c1}
    Leased = {}
    Remembering = {}
    Settle = 2
    Budget = 1
    RunTTL = 2
    PinTTL = 3
    MaxWait = 5
    Retention = 8
    MinAge = 0
    BatchSize = 1
    Slice = 1
    MaxTime = 1000
    OverlappingRuns = FALSE
    LapsedBeats = TRUE
    StalledFences = FALSE
    RecordFaults = FALSE
    StatFaults = FALSE
VIEW TimerView
CHECK_DEADLOCK FALSE
INVARIANT NoAdoptedChunkLost
