CONSTANTS
    n1 = n1
    n2 = n2
    Callers = {c1, c2}
    Ops = {o1, o2}
    InitialNotes = {n1, n2}
    InitialValue <- TwoNotes
    Amounts = {2, 4}
    RequiredFees = {0, 1, 2}
    MaxReceived = 1
    MaxReloads = 1
SYMMETRY CallerSymmetry
SPECIFICATION Spec
INVARIANTS
    TypeOK
    AheadOnlyByFailedCalls
    ExecutedOnce
    SelectionCovers
    CoordinatedCommit
CHECK_DEADLOCK FALSE
