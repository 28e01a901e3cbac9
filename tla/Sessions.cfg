SPECIFICATION Spec
CONSTANTS
    Asked = {"default", "other"}
    Resets = {"reset1", "reset2"}
    Workspaces = {"w1"}
    Models = {"m1", "m2"}
    Hash <- OneHash
    CanLoads = {TRUE, FALSE}
    AutoSaves = {TRUE, FALSE}
    MaxEntries = 2
    FileEntries = 2
    MaxTurns = 3
    MaxStarts = 2
INVARIANTS
    TypeOK
    SessionsStayApart
    IdsAreOwn
PROPERTIES
    SessionsAreKept
CHECK_DEADLOCK FALSE
