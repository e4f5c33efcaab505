SPECIFICATION CacheSpec
CONSTANTS
    a = a  b = b  c = c
    Threads = {t1, t2}
    Parts = {p, q}
    t1 = t1  t2 = t2  p = p  q = q  x = x  y = y
    Urls <- AllUrls
    Asks <- Alias
    Homes <- Moves
    Headers <- Answered
    MaxAgeCap = 2
    HeurCap = 2
    HeurDiv = 1
    MaxTotal = 1
    Target = 0
    EvictEvery = 2
    MaxNow = 1
    MaxKeys = 2
    MaxOpens = 2
    Addresses = {x, y}
    Slots = 1
    RamTtl = 1
    DiskTtl = 1
    MaxRedirects = 2
    MaxFetches = 3
    MaxTime = 3
    MaxChanges = 1
INVARIANTS EntriesTrue DirectorySound RedirectsTrue
SYMMETRY Interchangeable
CHECK_DEADLOCK FALSE
