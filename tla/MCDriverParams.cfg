CONSTANT UserParams <- SomeParams

SPECIFICATION Spec

CHECK_DEADLOCK FALSE

INVARIANT TrueIsSound
