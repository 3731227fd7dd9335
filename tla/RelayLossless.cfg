SPECIFICATION FairSpec
CONSTANTS
    Callers = {c1}
    Ops = {o1}
    EscrowOps = {}
    DirectOps = {}
    RelayConfigs = {TRUE}
    HostWaits = FALSE
    MaxAttempts = 2
    MaxCalls = 3
    MaxFaults = 0
    MaxReloads = 1
    EffectCap = 1
    ReportedStatuses <- AllStatuses
    ListRank <- MCListRank
CHECK_DEADLOCK FALSE
INVARIANTS
    DirectExcludesRelay
    RejectedNeverLands
PROPERTIES
    RelaySuccessFinalized
