CONSTANTS
    a1 = a1
    a2 = a2
    s1 = s1
    s2 = s2
    w1 = w1
    w2 = w2
    n1 = n1
    NoCard = NoCard
    NoWorkspace = NoWorkspace
    NoRequest = NoRequest
    NoEntry = NoEntry
    NoSession = NoSession
    Ids = {i1}
    Keys <- CardKeys
    Aliases = {a1, a2}
    Serials = {s1, s2}
    Workspaces = {w1}
    Windows <- OnlyNoWindow
    Sessions = {}
    Reuse <- ReuseTwo
    Lifetime <- LifetimeFour
    MaxGrantWindow = 0
    PINCache = "session"
    SingleFlight = TRUE
    ReaderName <- SameReader
    ClockSkew = 1
    ValidityFloor = 1
    NotifyLead = 1
    PollInterval = 2
    IdleDelay = 4
    ReuseCacheCap = 2
    InvalidatedCap = 2
    NotifierRuns = TRUE
    ClockMayStepBack = FALSE
    MaxGen = 0
    MaxTime = 3
    RingWindow = 4
    RingCap = 0
    WarnWindow = 2
    WarnThreshold = 2
SPECIFICATION Spec
INVARIANTS
    TypeOK
    OneCardHeld
    HeldUnderVerifiedPIN
    HeldByClaimedCard
    NotifierArmed
