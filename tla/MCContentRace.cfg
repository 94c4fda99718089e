SPECIFICATION Spec
CONSTANTS
    t1 = t1
    t2 = t2
    yaml = yaml
    datakey = datakey
    Threads = {t1, t2}
    Files = {datakey}
    DataFiles = {datakey}
    Key <- MCKey
    KeyOrder <- MCKeyOrder
    CacheTTL = 1
    ContentTTL = 2
    MaxLatency = 1
    MaxNow = 3
    MaxVersion = 2
SYMMETRY Symmetry
INVARIANTS
    ReadYourWrites
CHECK_DEADLOCK FALSE
