CONSTANTS
    Configurations <- MCConfigurations
    Programs <- MCPrograms
    Lib <- MCLib
    Directory <- MCDirectory
    Calls <- MCCalls
    Failing <- MCFailing
    Prepares = 2
SPECIFICATION Spec
INVARIANTS OnlyChecksFail
CHECK_DEADLOCK FALSE
