SPECIFICATION LiveSpec
CONSTANTS
    a = a
    b = b
    SegSize = 2
    Segs = {1, 2, 3, 4}
    Chunks = {a, b}
    Content <- Sharing
    SlotStart = 3
    WalEnd = 9
    Busy = TRUE
    MaxRecord = 2
    Depth = 1
    BatchCap = 2
    MaxNoProgress = 3
    SyncFS = TRUE
    Worlds = {{"break", "storage", "sweep"},
              {"break", "storage", "push"},
              {"storage", "stat", "overrun"},
              {"break", "power", "unordered"},
              {"break", "crash", "push", "skip"},
              {"break", "storage", "ack", "stop", "crash"},
              {"sweep", "overrun"},
              {"break", "lost"}}
    MaxFaults = 2
PROPERTIES
    AllArchived
    NobodyBlocked
    IsDurableLog
CHECK_DEADLOCK FALSE
INVARIANTS SlotCovered NoDanglingSegment NoHole
