SPECIFICATION Spec
CONSTANTS
    PipeCap = 1
    Slots = 2
    MaxJobs = 2
    MaxSubreq = 3
    MaxRounds = 1
    MaxBytes = 2
    MaxOps = 2
    MaxIssue = 3
    Ops <- AllOps
CHECK_DEADLOCK FALSE
INVARIANTS RepliesMatched OnlyOwnPage
PROPERTY OpReturns
