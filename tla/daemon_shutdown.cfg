CONSTANTS
    Daemons = {d1}
    Sockets = {n1}
    Requests = {q1}
    NoFile = NoFile
    Stale = Stale
    Alien = Alien
SPECIFICATION FairSpec
PROPERTIES
    GracefulMidTouch
CHECK_DEADLOCK FALSE
