SPECIFICATION Spec
CONSTANTS
    MaxBackups = 3
    MaxTime = 4
    MaxLSN = 4
    SegSize = 2
    Grace = 1
    Policies <- Eager
    Undated = {3}
    Worlds = {{"cli", "agent", "incremental", "hold", "undelete"},
              {"cli", "prune", "undelete"},
              {"agent", "prune", "fault"},
              {"prune", "failover"}}
    MaxPrunes = 1
    MaxRotations = 1
    Never = Never
INVARIANTS
    WALKept
    RecoveryPossible
    PlanChainSafe
CHECK_DEADLOCK FALSE
