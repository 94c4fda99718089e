SPECIFICATION Spec
CONSTANTS
    h1 = h1
    h2 = h2
    o1 = o1
    o2 = o2
    k1 = k1
    k2 = k2
    NoName = NoName
    Handles = {h1, h2}
    Objs = {o1, o2}
    Keys = {k1, k2}
    InitRev = 1
    MaxRev = 4
    MaxWrites = 2
SYMMETRY Symmetry
INVARIANTS
    TypeOK
    TextSavedOnce
    CacheSeesQuietSaves
PROPERTIES
    SavesAreAtomic
CHECK_DEADLOCK FALSE
