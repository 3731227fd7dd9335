CONSTANTS
    n1 = n1
    n2 = n2
    Callers = {c1}
    Ops = {o1}
    InitialNotes = {n1, n2}
    InitialValue <- TwoNotes
    Amounts = {2, 4}
    RequiredFees = {0, 1}
    MaxReceived = 0
    MaxReloads = 0
SPECIFICATION Spec
INVARIANTS
    StorageFollowsChain
CHECK_DEADLOCK FALSE
