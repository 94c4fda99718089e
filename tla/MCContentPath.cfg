SPECIFICATION Spec
CONSTANTS
    t1 = t1
    t2 = t2
    yaml = yaml
    datakey = datakey
    Threads = {t1, t2}
    Files = {yaml, datakey}
    DataFiles = {datakey}
    Key <- MCKey
    KeyOrder <- MCKeyOrder
    CacheTTL = 1
    ContentTTL = 1
    MaxLatency = 0
    MaxNow = 2
    MaxVersion = 2
SYMMETRY Symmetry
INVARIANTS
    TypeOK
    ReadYourQuietWrites
    SiblingsCatchUp
    BoundedStaleness
CHECK_DEADLOCK FALSE
