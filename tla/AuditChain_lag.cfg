SPECIFICATION Spec
CONSTANTS
    Events = {e1, e2, e3, e4}
    None = None
    MaxSeq = 3
    Worlds <- Serial
    MaxAttempts = 3
    MaxFaults = 2
INVARIANT BoundedByAppenders
CHECK_DEADLOCK FALSE
