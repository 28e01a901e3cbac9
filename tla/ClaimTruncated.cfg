SPECIFICATION Spec
CONSTANTS
    MaxRequests = 1
    MaxAnswer = 3
    MaxEvents = 3
    FieldCap = 2
    PrefixCap = 2
    OutCap = 6
    PartCap = 6
    CharsCaps = {0}
INVARIANTS
    TruncatedIsMarked
CHECK_DEADLOCK FALSE
