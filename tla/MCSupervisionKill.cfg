CONSTANTS
    MaxJobs = 2
    MaxInterrupts = 0

SPECIFICATION Spec

CHECK_DEADLOCK FALSE

INVARIANT AllKilledOnTimeout
