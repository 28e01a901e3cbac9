SPECIFICATION Spec
CONSTANTS
    MaxConns = 3
    Kinds = {"stream", "delete", "health"}
    SessionPlans <- NoPlan
    Saves <- Never
    Refusals = {}
    AckRetries = 2
    MaxEvents = 2
    Polls = 1
    PongRetries = 2
    MaxChunks = 1
    Quotes <- Quoting
    PingIds = 1
    PingsRecur = FALSE
    ToAgentCap = 2
    ToBridgeCap = 14
INVARIANTS
    OwnOutputOnly
    CancelWins
PROPERTIES
    ServiceSpec
CHECK_DEADLOCK FALSE
