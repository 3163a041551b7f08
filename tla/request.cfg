CONSTANTS
    Drifts <- SkewApart
    OriginReuses = {0, 140}
    ProviderReuse = 140
    Lifetime = 600
    Helds <- HeldAssertions
    Waits = {0, 30}
    SignTimes = {4, 46}
    Ops = {o1}
    Calls = {k1, k2}
    Diag = Diag
    None = None
    NumReaders = 2
    Exempt = {o1}
    HandoffWindow = 1
    HandoffCapacity = 1
SPECIFICATION MCSpec
INVARIANTS
    InnerAnswersFirst
    CodeSurvives
    FreshAccepted
    
PROPERTIES
    AcquireReturns
    LateSessionEnds
CHECK_DEADLOCK FALSE
