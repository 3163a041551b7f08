CONSTANTS
    s1 = s1
    s2 = s2
    p1 = p1
    p2 = p2
    NoCard = NoCard
    NoPIN = NoPIN
    NoWorker = NoWorker
    Serials = {s1, s2}
    PINs = {p1, p2}
    PINOf <- TwoPINs
    MaxRetries = 2
    Workers = {k1, k2}
    PINCache = "session"
    LeaseConfigured = TRUE
SPECIFICATION Spec
SYMMETRY WorkerSymmetry
INVARIANTS
    RejectionClearsCache
