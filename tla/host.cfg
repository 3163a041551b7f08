CONSTANTS
    Daemons = {d1, d2}
    Sockets = {n1, n2}
    Requests = {q1}
    NoFile = NoFile
    Stale = Stale
    Alien = Alien
    Sessions = {1, 2}
    StaleGrace = 2
    None = None
SPECIFICATION MCSpec
INVARIANTS
    EstablishedKeepsPath
    LiveSessionKept
    
    
PROPERTIES
    ExitLeavesNoSocket
    StopsTogether
    SupervisionEnds
CONSTRAINT Narrow
CHECK_DEADLOCK FALSE
