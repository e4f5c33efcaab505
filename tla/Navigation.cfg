SPECIFICATION NavSpec
CONSTANTS
    S = S  A = A
    Urls = {S, A}
    Start = S
    NoUrl = NoUrl
    HMax = 2
    JsNavMax = 1
    StepDepth = 1
    MaxTabs = 2
    Gens = {0, 1, 2, 3}
    MaxJobs = 2
    MaxDoc = 3
    MaxLen = 2
    Features = {"js", "tick"}
INVARIANTS HistoriesAgree FetchesCurrent ClicksReachPage
PROPERTIES LoadsStable NeverPaintStale
