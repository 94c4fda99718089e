SPECIFICATION Spec
CONSTANTS
    n1 = n1
    n2 = n2
    f1 = f1
    f2 = f2
    Nodes = {n1, n2}
    Fds = {f1, f2}
    Kind <- MixedKinds
    VerbChoices <- OneVerb
    MaxRefs = 2
    MaxWrites = 2
    MaxLen = 2
SYMMETRY FdSymmetry
INVARIANTS
    TypeOK
    DirtyIsAllowed
    UnsavedIsPrivate
    FlushCoversOwed
    LostOnlyIfLate
CHECK_DEADLOCK FALSE
