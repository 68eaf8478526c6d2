SPECIFICATION Spec
CONSTANTS
    NumDP = 2
    MaxInflight = 1
    MaxRapidRestarts = 1
    MaxGeneration = 2
    MaxSeq = 7
    CP = CP
INVARIANTS
    TypeOK
    Overshoot
    SeqlockSound
    NeverInvents
PROPERTIES
    NeverBackwards
