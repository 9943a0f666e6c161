SPECIFICATION ContainerAttachFairSpec
CONSTANTS
    k1 = k1
    k2 = k2
    None = None
    Pipe = {"stdout", "stderr"}
    Client = {k1, k2}
    Draining = {k1}
    MaxChunks <- Chunks2And1
    Cap = 1
    MaxStream = 2
    Request = {"create", "exec"}
    HasTimeout = TRUE
    LogMayFail = TRUE
INVARIANTS
    LogComplete
    AttachMirrorsLog
    ExecOutputTruthful
PROPERTIES
    ExecReadEnds
    AttachEnds

CHECK_DEADLOCK FALSE
