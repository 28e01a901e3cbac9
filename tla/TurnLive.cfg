SPECIFICATION FairSpec
CONSTANTS
    MaxConns = 2
    Kinds = {"stream", "delete"}
    SessionPlans <- NoPlan
    Saves <- Never
    Refusals = {}
    AckRetries = 1
    MaxEvents = 2
    Polls = 2
    PongRetries = 2
    MaxChunks = 0
    Quotes <- NoQuote
    PingIds = 1
    PingsRecur = TRUE
    ToAgentCap = 2
    ToBridgeCap = 14
PROPERTIES
    EveryConnectionAnswered
    StaleFramesFlushed
CHECK_DEADLOCK FALSE
