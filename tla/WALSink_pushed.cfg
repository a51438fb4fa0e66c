SPECIFICATION Spec
CONSTANTS
    a = a
    b = b
    SegSize = 2
    Segs = {1, 2, 3, 4}
    Chunks = {a, b}
    Content <- Sharing
    SlotStart = 3
    WalEnd = 9
    Busy = TRUE
    MaxRecord = 3
    Depth = 2
    BatchCap = 2
    MaxNoProgress = 3
    SyncFS = TRUE
    \* With {{"sweep", "stat"}} SlotCovered and NoDanglingSegment are violated:
    \* "Transient Stat errors pass" (walsink.go:1004), so a segment is committed
    \* over a chunk that gc took before the fence.
    Worlds = {{"push", "sweep", "overrun"}}
    MaxFaults = 3
INVARIANT SlotCovered
CHECK_DEADLOCK FALSE
