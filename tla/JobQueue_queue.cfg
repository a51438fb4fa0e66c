SPECIFICATION LiveSpec
CONSTANTS
    Jobs = {1, 2}
    Agents = {a1, a2}
    ControlPlanes = {p1, p2}
    Serves <- ServeAll
    Cap = 1
    MaxAttempts = 2
    Hangs = {2}
    MaxFaults = 1
    Nobody = Nobody
    NoJob = NoJob
PROPERTIES
    EveryJobEnds
    AgentFreed
    IsJobLife
INVARIANTS AckedIsCompleted CapHolds
