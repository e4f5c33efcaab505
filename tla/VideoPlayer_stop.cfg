SPECIFICATION Spec
CONSTANTS
    NSegs = 2
    Body = 3
    CmdCap = 2
    OutCap = 2
    Catchup = 2
    Decodes <- MCDecodes
    MayDie = FALSE
    Leaves = TRUE
PROPERTY StopReturns
CHECK_DEADLOCK FALSE
