SPECIFICATION Spec
CONSTANTS
    a = a  b = b  c = c
    Threads = {t1}
    Parts = {p}
    Urls <- AllUrls
    Asks <- Alias
    Homes <- FinalMoves
    Headers <- Validated
    MaxAgeCap = 2
    HeurCap = 2
    HeurDiv = 1
    MaxTotal = 2
    Target = 1
    EvictEvery = 2
    MaxNow = 1
    MaxKeys = 1
    MaxOpens = 1
SYMMETRY Same
CHECK_DEADLOCK FALSE
INVARIANT ValidatorAtHome
