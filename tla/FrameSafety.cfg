SPECIFICATION Spec
CONSTANTS
    Writers = {"server", "heartbeat"}
    HeaderUnits = 2
    MaxPayload = 3
    Lengths = {1, 3, 4}
    Junk = {0, 2}
    Deadlines = {1, 3}
    PipeCap = 4
    MaxFrames = 2
INVARIANTS
    TypeOK
    FramesAreIntact
    ReadsEnd
CHECK_DEADLOCK FALSE
