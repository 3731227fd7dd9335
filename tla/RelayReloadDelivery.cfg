SPECIFICATION FairSpec
CONSTANTS
    Callers = {c1}
    Ops = {o1}
    EscrowOps = {}
    DirectOps = {}
    RelayConfigs = {TRUE}
    HostWaits = FALSE
    MaxAttempts = 1
    MaxCalls = 0
    MaxFaults = 0
    MaxReloads = 1
    EffectCap = 1
    ReportedStatuses <- CoreStatuses
    ListRank <- MCListRank
CHECK_DEADLOCK FALSE
PROPERTIES
    FinalizedIsDelivered
