CONSTANTS
    a1 = a1
    a2 = a2
    s1 = s1
    s2 = s2
    w1 = w1
    w2 = w2
    n1 = n1
    NoCard = NoCard
    NoWorkspace = NoWorkspace
    NoRequest = NoRequest
    NoEntry = NoEntry
    NoSession = NoSession
    Ids = {i1}
    Keys <- OneLocalKey
    Aliases = {a1}
    Serials = {s1}
    Workspaces = {}
    Windows <- OnlyNoWindow
    Sessions = {n1}
    Reuse <- ReuseNone
    Lifetime <- LifetimeThree
    MaxGrantWindow = 2
    PINCache = "never"
    SingleFlight = FALSE
    ReaderName <- SameReader
    ClockSkew = 1
    ValidityFloor = 1
    NotifyLead = 1
    PollInterval = 1
    IdleDelay = 4
    ReuseCacheCap = 2
    InvalidatedCap = 2
    NotifierRuns = FALSE
    ClockMayStepBack = TRUE
    MaxGen = 0
    MaxTime = 4
    RingWindow = 3
    RingCap = 2
    WarnWindow = 2
    WarnThreshold = 2
SPECIFICATION Spec
SYMMETRY IdSymmetry
INVARIANTS
    RingOK

    
