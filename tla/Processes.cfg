SPECIFICATION ProcessesSpec
CONSTANTS
    Ticks = 3
    MaxEv = 4
    Threads = {"window", "other"}
    Pids = {1, 2, 3}
    None = 0
    Total = 2
    Default = 1
    MaxRounds = 2
    MaxClock = 3
    MaxOps = 2
    Pages <- MCPages
    Loops <- MCLoops
    NSegs = 2
    Body = 3
    CmdCap = 2
    OutCap = 2
    Catchup = 2
    Decodes <- MCDecodes
    MayDie = TRUE
    Leaves = TRUE
    Works = {1}
    Formats = {"f44", "f48"}
    Changes = 3
    Msgs <- MCMsgs
    MaxMessage = 3
    Reads = 2
INVARIANTS
    PipeExclusive NeverStale TimersArmed
    Accounted LoadBounded MediaOwned MessagesWhole
PROPERTIES
    TickComes MediaPlays ProcessesEnd Delivered
