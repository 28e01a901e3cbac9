SPECIFICATION Spec
CONSTANTS
    MaxConns = 2
    Kinds = {"block", "compact", "models"}
    SessionPlans <- SomePlans
    Saves <- Maybe
    Refusals = {"busy", "rejected"}
    AckRetries = 2
    MaxEvents = 2
    Polls = 1
    PongRetries = 2
    MaxChunks = 1
    Quotes <- NoQuote
    PingIds = 1
    PingsRecur = FALSE
    ToAgentCap = 2
    ToBridgeCap = 14
INVARIANTS
    TypeOK
    CleanTurnStaysInSync
    CleanTurnLeavesSync
CHECK_DEADLOCK FALSE
