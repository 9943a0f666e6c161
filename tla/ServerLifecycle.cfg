SPECIFICATION FairSpec
CONSTANTS
    c1 = c1
    c2 = c2
    None = None
    Client = {c1, c2}
    Slow = {c1}
    MayCrash = TRUE
    Stubborn = {c2}
INVARIANTS
    ClientReachesServer
    FdSocketFree
PROPERTIES
    NewConnects
    ShutdownStopsServer

CHECK_DEADLOCK FALSE
