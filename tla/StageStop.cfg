CONSTANTS
    r1 = r1
    a = a
    b = b
    c = c
    None = None
    Request = {r1}
    Source = {a, b, c}
    Script <- OneStream
    Wiring <- Relayed
    MaxOutbox = 1
SPECIFICATION Spec
CHECK_DEADLOCK FALSE
PROPERTIES
    StopReturns
