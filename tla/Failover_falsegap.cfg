\* The coordinator takes a slot made anew above the archive's frontier for lost
\* WAL; the stream then archives it.
SPECIFICATION FailoverSpec
CONSTANTS
    SegmentSize = 2
    FirstLSN = 3
    LastLSN = 6
    MaxTLI = 3
    MaxBaseBackups = 1
    PersistAttempts = 2
    CaptureAttempts = 2
    MaxNoProgress = 5
    MaxFaults = 2
    Scenarios = {{"stream", "newslot", "agent"}}
INVARIANT RecordedIsMissing
CHECK_DEADLOCK FALSE
