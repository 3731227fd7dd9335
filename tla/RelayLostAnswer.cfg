SPECIFICATION Spec
CONSTANTS
    Callers = {c1}
    Ops = {o1}
    EscrowOps = {}
    DirectOps = {}
    RelayConfigs = {TRUE}
    HostWaits = FALSE
    MaxAttempts = 1
    MaxCalls = 1
    MaxFaults = 1
    MaxReloads = 0
    EffectCap = 1
    ReportedStatuses <- CoreStatuses
    ListRank <- MCListRank
CHECK_DEADLOCK FALSE
PROPERTIES
    NoDirectWhileOnChain
