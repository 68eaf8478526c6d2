CONSTANTS
    r1 = r1
    r2 = r2
    Req = {r1, r2}
    NumSlots = 8
    Width = 7
    ContextLimit = 7
    PromptLen = 1
    FrameSlots = 2
    PoolRatio = 2
    MaxEvents = 1
SPECIFICATION Spec
SYMMETRY ReqSymmetry
INVARIANTS
    RowsSound
    RowsSettled
    AllocationsFit
