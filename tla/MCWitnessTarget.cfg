CONSTANTS
    SingleSegment = FALSE
    CheckAll = {FALSE}
    DotI = {FALSE}
    Programs = {"if"}
    Inputs <- MCInputs

SPECIFICATION Spec

CHECK_DEADLOCK FALSE

INVARIANT TargetEndShifted
