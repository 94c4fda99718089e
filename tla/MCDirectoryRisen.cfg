SPECIFICATION WalkedSpec
CONSTANTS
    t1 = t1
    t2 = t2
    Threads = {t1, t2}
    Names = {"n", "r", "a", "x.yaml", "data"}
    MaxID = 20
    Verbs = {"delete"}
    ActionNames = {}
    DataName = "data"
    DataTypes = {}
    FileNames = {}
    Universe <- MCUniverse
    MaxCalls = 3
    Listings = {{"a"}}
    MaxChanges = 0
SYMMETRY Symmetry
INVARIANTS
    DeletedStaysDeleted
CHECK_DEADLOCK FALSE
