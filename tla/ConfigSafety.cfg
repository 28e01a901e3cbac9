\* Three operations, two edits and one fault, in any order.
CONSTANTS
    Lines = {"line"}
    Tables = {"table"}
    Model = "model"
    Provider = "provider"
    FirstFiles <- MCFirstFiles
    MaxOps = 3
    MaxEdits = 2
    MaxFaults = 1
SPECIFICATION Spec
CHECK_DEADLOCK FALSE
INVARIANTS
    TypeOK
    OneBlock
    UserKept
    Recoverable
