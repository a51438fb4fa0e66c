\* What NoSilentTruncation and CatchesUp do not survive, one scenario each.  TLC
\* stops at the first; for the others set Scenarios to
\*   {{"stream", "newslot", "recycle", "backup", "explicit"}}   --start-lsn records no gap
\*   {{"stream", "storm", "newslot", "recycle", "explicit"}}    nor does it outlive the next failover
\*   {{"stream", "newslot", "backup", "unread"}}    one failed read of a history file
\*   {{"stream", "newslot", "backup", "delete"}}    a record kept under an older timeline
\*   {{"stream", "storm", "sibling"}}               an ancestor archived already, over and over;
\*                                                  with "newslot" and "backup" a silent hole as well
\*   {{"stream", "storm", "fail", "break", "backup"}}   one warning for two history files
\* LatestIsLatest, as the invariant, does not survive
\*   {{"agent", "storm", "fail"}}                   an ancestor's file that a failed Get passes over
SPECIFICATION FailoverSpec
CONSTANTS
    SegmentSize = 2
    FirstLSN = 3
    LastLSN = 6
    MaxTLI = 3
    MaxBaseBackups = 1
    PersistAttempts = 2
    CaptureAttempts = 2
    MaxNoProgress = 5
    MaxFaults = 2
    Scenarios = {{"stream", "backup", "late"}}
INVARIANT NoSilentTruncation
PROPERTY CatchesUp
CHECK_DEADLOCK FALSE
