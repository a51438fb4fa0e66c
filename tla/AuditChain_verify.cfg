SPECIFICATION Spec
CONSTANTS
    Events = {e1, e2, e3}
    None = None
    MaxSeq = 2
    Worlds <- Atomic
    MaxAttempts = 3
    MaxFaults = 0
INVARIANT NoFalseAlarm
CHECK_DEADLOCK FALSE
