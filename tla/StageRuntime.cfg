CONSTANTS
    r1 = r1
    a = a
    b = b
    c = c
    None = None
    Request = {r1}
    Source = {a, b, c}
    Script <- StreamAndPayloads
    Wiring <- Wirings
    MaxOutbox = 1
SPECIFICATION Spec
CHECK_DEADLOCK FALSE
INVARIANTS
    TypeOK
    LaneOrder
    NothingHeld
PROPERTIES
    QuietAfterAbort
    TransfersAcked
    RequestLeaves
