SPECIFICATION MCFairSpec
CONSTANTS
    s1 = s1
    s2 = s2
    None = None
    Session = {s1, s2}
    Config <- Configs
    MaxPackets = 2
    Reading = {s1}
INVARIANTS
    OutputComplete
    SocketRemoved

PROPERTIES
    SessionEnds
    StreamsClosed

CHECK_DEADLOCK FALSE
