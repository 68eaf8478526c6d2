CONSTANTS
    MaxMessages = 4
    MaxCapacity = 1
    DefaultCapacity = 1
SPECIFICATION Spec
INVARIANTS
    TypeOK
    WireOrdered
    CreditsAccounted
    FramesReclaimed
PROPERTIES
    SessionEnds
    InputProgress
