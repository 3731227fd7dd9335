SPECIFICATION Spec
CONSTANTS
    Callers = {c1, c2}
    Ops = {o1}
    EscrowOps = {}
    DirectOps = {}
    RelayConfigs = {TRUE}
    HostWaits = FALSE
    MaxAttempts = 1
    MaxCalls = 2
    MaxFaults = 1
    MaxReloads = 1
    EffectCap = 1
    ReportedStatuses <- CoreStatuses
    ListRank <- MCListRank
CHECK_DEADLOCK FALSE
SYMMETRY CallerSymmetry
INVARIANTS
    TypeOK
    InFlightOwned
    FlagsTruthful
PROPERTIES
    ImplementsSettlement
