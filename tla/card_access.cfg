CONSTANTS
    Diag = Diag
    None = None
    Ops = {o1, o2}
    Calls = {k1, k2}
    NumReaders = 2
    Exempt = {}
    HandoffWindow = 2
    HandoffCapacity = 1
SPECIFICATION Spec
INVARIANTS
    SessionsOwned
    CountsExact
    HandoffQuota
    HandoffSparesOwnSession
PROPERTIES
    ImplementsSlots
CONSTRAINT Narrow
