SPECIFICATION BillySpec
CONSTANTS
    n1 = n1
    n2 = n2
    r1 = r1
    r2 = r2
    Nodes = {n1, n2}
    Kind <- MCKind
    VerbChoices <- MCVerbs
    Fds = {r1, r2}
    MaxRefs = 4
    MaxWrites = 2
    MaxLen = 2
    MaxRequests = 3
SYMMETRY Symmetry
INVARIANTS
    BillyTypeOK
    NilOnlyIfRaced
    LeftBehindIsReported
    WritesTakeHold
    NoSilentLoss
CHECK_DEADLOCK FALSE
