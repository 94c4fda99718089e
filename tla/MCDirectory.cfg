SPECIFICATION WalkedSpec
CONSTANTS
    t1 = t1
    t2 = t2
    Threads = {t1, t2}
    Names = {"n", "r", "a", "x.yaml", "data"}
    MaxID = 10
    Verbs = {"create", "update", "delete"}
    ActionNames = {}
    DataName = "data"
    DataTypes = {"r"}
    FileNames = {"x.yaml"}
    Universe <- MCUniverse
    MaxCalls = 2
    Listings = {{"a", "x.yaml"}}
    MaxChanges = 1
SYMMETRY Symmetry
INVARIANTS
    DirTypeOK
    IndexConsistent
    OrphansAreRaced
    MissedOnlyIfOverlapped
    RisenOnlyIfOverlapped
PROPERTIES
    InodeIdentity
    RemovalTakesSubtree
    TableSteps
CHECK_DEADLOCK FALSE
