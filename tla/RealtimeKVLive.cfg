CONSTANTS
    r1 = r1
    r2 = r2
    Req = {r1, r2}
    NumSlots = 5
    Width = 4
    ContextLimit = 4
    PromptLen = 1
    FrameSlots = 1
    PoolRatio = 2
    MaxEvents = 1
SPECIFICATION Spec
PROPERTIES
    EventsConsumed
    AbortReleases
