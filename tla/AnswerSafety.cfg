SPECIFICATION DSpec
CONSTANTS
    MaxRequests = 2
    MaxAnswer = 4
    MaxEvents = 3
    FieldCap = 3
    PrefixCap = 2
    OutCap = 4
    PartCap = 8
    CharsCaps = {0, 2}
    MaxPrinted = 5
    RingCap = 4
    ContentMax = 3
    ChunkSize = 1
INVARIANTS
    TypeOK
    UnmarkedIsWhole
    MarkIsOwn
    NextOutput
PROPERTIES
    StreamSpec
CHECK_DEADLOCK FALSE
