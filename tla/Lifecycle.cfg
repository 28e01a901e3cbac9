\* Starts with each input; the agent says at most two frames.
CONSTANTS
    DefaultPort = 1
    MaxPort = 5
    ConnectTicks = 2
    Versions = {1, 2}
    MaxSaid = 2
    Inputs <- MCInputs
SPECIFICATION Spec
CHECK_DEADLOCK FALSE
INVARIANTS
    TypeOK
    ServesOnlyReady
    EarlyModesAgree
    NoOrphan
PROPERTY BridgeEnds
