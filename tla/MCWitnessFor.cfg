CONSTANTS
    SingleSegment = FALSE
    CheckAll = {FALSE}
    DotI = {FALSE}
    Programs = {"forever"}
    Inputs <- MCInputs

SPECIFICATION Spec

CHECK_DEADLOCK FALSE

INVARIANT BranchesWrapControl
