CONSTANTS
    NoteValues = {1, 2, 4}
    PlanAmounts = {0, 1, 2, 3, 5}
    QuotedFees = {0, 1, 2}
    Configured <- ConfiguredNonces
    Circuits = {3, 6, 7}
    Submissions = {a}
    LastLedger = 2
    MaxOthers = 1
    MaxPolls = 2
    TtlThreshold = 2
    TtlExtendTo = 3
    ApprovalLife = 1
    PoolId = pool
    OtherId = other
SPECIFICATION TransactionSpec
INVARIANTS
    ValueConserved
    OutputsAgree
    NonceAgrees
    RouteMatchesLegs
    CallComesLast
    OneSequenceEach
    ToldTheTruth
PROPERTIES
    EveryWaitEnds
CHECK_DEADLOCK FALSE
