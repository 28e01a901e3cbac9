SPECIFICATION Spec
CONSTANTS
    MaxTurns = 3
    Offered <- MCOffered
    MaxToolCycles = 2
    MaxTurnEvents = 3
    HistoryMax = 3
    ShownMax = 2
    ShellEnabled = TRUE
    Ticks = 3
    PipeCap = 4
    Chunk = 2
    BufMax = 3
    MaxOutput = 5
INVARIANTS
    TypeOK
    EveryIntentAnswered
    PromptAddsUp
    RouteIsConservative
    OutputIsPrefix
PROPERTY
    SilentToolEnds
CHECK_DEADLOCK FALSE
