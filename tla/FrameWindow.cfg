CONSTANTS
    g1 = g1
    g2 = g2
    Grid = {g1, g2}
    RawWindow = 2
    PoolWindow = 3
    PoolRatio = 2
    Interval = {0, 1, 2, 4}
    MaxFrames = 6
SPECIFICATION Spec
SYMMETRY GridSymmetry
CHECK_DEADLOCK FALSE
INVARIANTS
    RecordsDescribeRow
    VisibleExact
PROPERTIES
    RoundSettles
