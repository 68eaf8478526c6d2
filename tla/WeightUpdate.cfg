CONSTANTS
    w1 = w1
    w2 = w2
    d1 = d1
    d2 = d2
    Worker = {w1, w2}
    Config = {w1, w2}
    DP = {d1, d2}
    MaxFaults = 2
    MaxUpdates = 2
    MaxSeq = 2
SYMMETRY Symmetry
SPECIFICATION Spec
INVARIANTS
    TypeOK
    UncertainJournaled
    AckTruthful
PROPERTY GateSpec
