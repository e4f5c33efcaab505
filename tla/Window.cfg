SPECIFICATION WindowSpec
CONSTANTS
    URLs = {u1, u2, u3}
    Zooms = {100, 110}
    DefaultZoom = 100
    MaxHistory = 2
    MaxBookmarks = 1
    Keys <- MCKeys
    MaxChanges = 3
    Sessions = 2
    NoOrigin = none
    Origins = {a, b, c, d}
    Trusted = {a, b, c}
    FirstSites = {a, d}
    NavMax = 1
    MaxOpens = 2
    MaxOrigins = 2
    MaxOps = 5
    MaxAsks = 3
    Texts <- MCTexts
    Boxes <- MCBoxes
    Touched = {"query"}
    TextCap = 2
    MaxActs = 4
SYMMETRY PageSymmetry
INVARIANTS ProfileKept OwnRequests FormSound
PROPERTIES SavesAtomic KeepsWrites
CHECK_DEADLOCK FALSE
