CONSTANTS
    main = main
    side = side
    c1 = c1
    c2 = c2
    Pools = {main, side}
    MerkleCalls = {c1, c2}
    MaxLeaves <- LeavesOfPools
    CallCost <- CostOfPools
    MaxMerkleCalls = 3
    Owners = {"owner"}
    PrivateAddresses = {"old", "new"}
    RegistryCalls = {c1, c2}
    MaxRegistrations = 1
    MaxRegistryCalls = 3
    Assets = {"xlm", "usdc"}
    Deliveries = {7}
    Nonces = {"1", "2"}
    HydratedAssets <- SnapshotAssets
    HydratedNonces <- SnapshotNonces
    StoreCalls = {c1, c2}
    MaxStoreUse = 3
SYMMETRY Symmetry
SPECIFICATION WalletStateSpec
INVARIANTS
    HandlesLive
    CachedListIsAPrefix
    WitnessOfTheFile
    AssessmentKeepsUp
    RegistryContainersAgree
    ResolvedWasRegistered
    EscrowOnlyIfUnregistered
    DefaultNonceHasRecord
    WritesKept
CHECK_DEADLOCK FALSE
