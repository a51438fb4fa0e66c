SPECIFICATION Spec
CONSTANTS
    Events = {e1, e2, e3}
    None = None
    MaxSeq = 3
    Worlds <- Promised
    MaxAttempts = 2
    MaxFaults = 2
SYMMETRY Symmetry
INVARIANTS
    AckedKept
    OneChain
    WitnessesHold
CHECK_DEADLOCK FALSE
