SPECIFICATION Spec
CONSTANTS
    MaxLines = 3
    Bounds = 2
INVARIANT RefutesItsProperty
INVARIANT ThreadsAreSeen
INVARIANT UndecidedIsRetried
PROPERTY KeepsPromise
CHECK_DEADLOCK FALSE
