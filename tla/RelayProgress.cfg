SPECIFICATION FairSpec
CONSTANTS
    Callers = {c1, c2}
    Ops = {o1}
    EscrowOps = {}
    DirectOps = {}
    RelayConfigs = {TRUE, FALSE}
    HostWaits = TRUE
    MaxAttempts = 2
    MaxCalls = 1
    MaxFaults = 0
    MaxReloads = 0
    EffectCap = 1
    ReportedStatuses <- CoreStatuses
    ListRank <- MCListRank
CHECK_DEADLOCK FALSE
PROPERTIES
    CallsReturn
    RelaySuccessFinalized
    EffectsCompleted
