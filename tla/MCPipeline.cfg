CONSTANTS
    Configurations <- MCConfigurations
    Programs <- MCPrograms
    Lib <- MCLib
    Directory <- MCDirectory
    Calls <- MCCalls
    Failing <- MCFailing
    Prepares = 2
SPECIFICATION Spec
INVARIANTS TypeOK LinkedAll FlagTellsSlicing SlicedForItsChecks MarkedBeforeOptimized LoopsBroken PreparedSame SwitchesObeyed
PROPERTIES HandedKept KeepsContract Returns
CHECK_DEADLOCK FALSE
