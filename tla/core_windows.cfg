CONSTANTS
    a1 = a1
    a2 = a2
    s1 = s1
    s2 = s2
    w1 = w1
    w2 = w2
    n1 = n1
    NoCard = NoCard
    NoWorkspace = NoWorkspace
    NoRequest = NoRequest
    NoEntry = NoEntry
    NoSession = NoSession
    Ids = {i1, i2}
    Keys <- OneClaimKey
    Aliases = {a1}
    Serials = {s1}
    Workspaces = {w1}
    Windows <- GrantWindows
    Sessions = {n1}
    Reuse <- ReuseTwo
    Lifetime <- LifetimeFour
    MaxGrantWindow = 2
    PINCache = "session"
    SingleFlight = TRUE
    ReaderName <- SameReader
    ClockSkew = 1
    ValidityFloor = 1
    NotifyLead = 1
    PollInterval = 1
    IdleDelay = 4
    ReuseCacheCap = 2
    InvalidatedCap = 2
    NotifierRuns = FALSE
    ClockMayStepBack = FALSE
    MaxGen = 0
    MaxTime = 5
    RingWindow = 3
    RingCap = 0
    WarnWindow = 2
    WarnThreshold = 2
SPECIFICATION Spec
SYMMETRY IdSymmetry
PROPERTIES
    SequentialNeedsWindow
    GrantOnlyShortens
