CONSTANTS
    r1 = r1
    Req = {r1}
    NumSlots = 16
    Width = 16
    ContextLimit = 16
    PromptLen = 1
    FrameSlots = 2
    PoolRatio = 2
    MaxEvents = 4
SPECIFICATION Spec
INVARIANTS
    TypeOK
    RowsSound
