SPECIFICATION Spec
CONSTANTS
    Jobs = {1, 2}
    Agents = {a1, a2}
    ControlPlanes = {p1}
    Serves <- ServeAll
    Cap = 1
    MaxAttempts = 2
    Hangs = {}
    MaxFaults = 0
    Nobody = Nobody
    NoJob = NoJob
INVARIANT CapOnExecutions
