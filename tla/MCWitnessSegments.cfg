CONSTANTS
    SingleSegment = TRUE
    CheckAll = {TRUE}
    DotI = {FALSE}
    Programs = {"if"}
    Inputs <- MCInputs

SPECIFICATION Spec

CHECK_DEADLOCK FALSE

INVARIANT BadSegmentsNumbered
