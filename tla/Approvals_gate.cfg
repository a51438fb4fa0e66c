SPECIFICATION Spec
CONSTANTS
    r1 = r1
    r2 = r2
    k1 = k1
    k2 = k2
    k3 = k3
    del = del
    shred = shred
    Requests = {r1, r2}
    Keys = {k1, k2, k3}
    Targets = {del, shred}
    Allow <- Named
    Threshold <- Asked
    For <- Ops
    Trusted = {k1, k2}
    MinThreshold = 2
    Gates = {g1, g2}
    Revokes = {v1}
    Sweeps = {s1}
    Skew = 0
    TTL = 1
    MaxTime = 2
    ConditionalPut = TRUE
    NoRequest = NoRequest
SYMMETRY Symmetry
INVARIANTS
    SingleUse
    QuorumBehind
    RevokedStaysRefused
CHECK_DEADLOCK FALSE
