CONSTANTS
    SingleSegment = TRUE
    CheckAll = {TRUE, FALSE}
    DotI = {TRUE, FALSE}
    Programs = {"if", "call", "loop", "ternary", "endless"}
    Inputs <- MCInputs

SPECIFICATION Spec

CHECK_DEADLOCK FALSE

INVARIANTS
    TypeOK
    ShiftsMatchText
    CallsStayOnCode
    BackAtOriginal
    AssumptionsGuardStatements
    BranchesWrapControl
