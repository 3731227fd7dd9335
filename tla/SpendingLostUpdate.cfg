CONSTANTS
    n1 = n1
    n2 = n2
    Callers = {c1, c2}
    Ops = {o1, o2}
    InitialNotes = {n1, n2}
    InitialValue <- TwoNotes
    Amounts = {2, 4}
    RequiredFees = {0, 1}
    MaxReceived = 0
    MaxReloads = 0
SYMMETRY CallerSymmetry
SPECIFICATION Spec
INVARIANTS
    ReturnedOutputsStored
CHECK_DEADLOCK FALSE
