CONSTANTS
    s1 = s1
    s2 = s2
    p1 = p1
    p2 = p2
    NoCard = NoCard
    NoPIN = NoPIN
    NoWorker = NoWorker
    Serials = {s1, s2}
    PINs = {p1, p2}
    PINOf <- TwoPINs
    MaxRetries = 3
    Workers = {k1}
    PINCache = "session"
    LeaseConfigured = TRUE
SPECIFICATION FairSpec
INVARIANTS
    TypeOK
    CachedPINVouched
    ForwardedUnderLease
PROPERTIES
    FinalAttemptKept
    SignAlwaysReturns
