SPECIFICATION Spec
CONSTANTS
    MaxBackups = 3
    MaxTime = 4
    MaxLSN = 4
    SegSize = 2
    Grace = 1
    Policies <- Eager
    Undated = {3}
    Worlds = {{"prune", "failover", "rewind"}}
    MaxPrunes = 1
    MaxRotations = 1
    Never = Never
INVARIANT WALKept
CHECK_DEADLOCK FALSE
