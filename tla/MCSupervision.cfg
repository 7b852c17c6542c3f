CONSTANTS
    MaxJobs = 2
    MaxInterrupts = 2

SPECIFICATION Spec

CHECK_DEADLOCK FALSE

INVARIANTS
    TypeOK
    OneProcess
    NoChildLost
    ZeroMeansDone
    TimeoutIsLast

PROPERTIES
    TimeoutEnds
    LeavingEnds
