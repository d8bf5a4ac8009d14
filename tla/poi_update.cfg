SPECIFICATION Spec
CONSTANT MaxFiles = 3
INVARIANTS
    TypeOK
    CompleteOrLost
    KeptWithoutIndex
    NoMixture
    CountOfIndex
