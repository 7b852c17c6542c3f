CONSTANT UserParams <- NoParams

SPECIFICATION Spec

CHECK_DEADLOCK FALSE

INVARIANTS
    TypeOK
    TrueIsSound
    FalseIsConfirmed
    ThreadsRouted
    OwnPassesOnly
    WitnessOfAnswer

PROPERTY KeepsPromise
