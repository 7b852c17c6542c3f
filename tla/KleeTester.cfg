SPECIFICATION Spec
CONSTANTS
    Targets = 4
    Limit = 3
INVARIANT TypeOK
INVARIANT AtMostLimit
INVARIANT NoErrorMissed
PROPERTY ErrorStops
PROPERTY Finishes
CHECK_DEADLOCK FALSE
