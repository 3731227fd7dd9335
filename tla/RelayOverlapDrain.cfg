SPECIFICATION Spec
CONSTANTS
    Callers = {c1, c2}
    Ops = {o1}
    EscrowOps = {}
    DirectOps = {}
    RelayConfigs = {TRUE}
    HostWaits = FALSE
    MaxAttempts = 1
    MaxCalls = 2
    MaxFaults = 0
    MaxReloads = 0
    EffectCap = 2
    ReportedStatuses <- CoreStatuses
    ListRank <- MCListRank
CHECK_DEADLOCK FALSE
INVARIANTS
    DrainedOnce
