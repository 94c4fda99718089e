SPECIFICATION Spec
CONSTANTS
    MaxSignals = 3
INVARIANTS
    TypeOK
    VerdictIsTrue
    EndsUnmounted
PROPERTIES
    ParentReturns
    SignalStops
    UmountStops
CHECK_DEADLOCK FALSE
