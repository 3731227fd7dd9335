SPECIFICATION Spec
CONSTANTS
    Callers = {c1}
    Ops = {o1, o2}
    EscrowOps = {o1}
    DirectOps = {}
    RelayConfigs = {TRUE, FALSE}
    HostWaits = FALSE
    MaxAttempts = 1
    MaxCalls = 1
    MaxFaults = 1
    MaxReloads = 1
    EffectCap = 4
    ReportedStatuses <- CoreStatuses
    ListRank <- MCListRank
CHECK_DEADLOCK FALSE
INVARIANTS
    EscrowNeverDirect
    EffectsRepeatOnlyAfterLoss
PROPERTIES
    FlagsNeverRevert
