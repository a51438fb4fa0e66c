SPECIFICATION FailoverSpec
CONSTANTS
    SegmentSize = 2
    FirstLSN = 3
    LastLSN = 6
    MaxTLI = 3
    MaxBaseBackups = 1
    PersistAttempts = 2
    CaptureAttempts = 2
    MaxNoProgress = 5
    MaxFaults = 2
    Scenarios = {{"stream", "storm", "straddle", "newslot", "recycle"},
              {"stream", "storm", "newslot", "fail"},
              {"stream", "straddle", "newslot", "break"},
              {"stream", "straddle", "newslot", "recycle", "backup", "fail"},
              {"stream", "backup", "delete"},
              {"stream", "straddle", "newslot", "agent", "shutdown", "fail"},
              {"stream", "straddle", "newslot", "agent", "crash"},
              {"stream", "newslot", "recycle", "explicit"},
              {"stream", "straddle", "newslot", "unread"},
              {"agent", "storm", "newslot", "shutdown"},
              {"backup", "late"}}
INVARIANTS
    NoSilentTruncation
    LatestIsLatest
    DetectedIsKept
CHECK_DEADLOCK FALSE
PROPERTY CatchesUp
