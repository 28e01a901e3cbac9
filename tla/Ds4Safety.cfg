SPECIFICATION FairSpec
CONSTANTS
    MaxRequests = 3
    MaxContinuations = 1
    MaxLines = 1
    MaxDeaths = 1
    Efforts = {low, high}
    NoEffort = none
INVARIANTS
    TypeOK
    OwnLines
    ContextFollows
    EffortAsked
PROPERTY
    RequestsEnd
CHECK_DEADLOCK FALSE
