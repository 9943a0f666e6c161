SPECIFICATION Spec
CONSTANTS
    Driver = {"cri", "json"}
    MaxSize = 9
    Header = 2
    Length = {1, 3}
    MaxLines = 5
    MaxChunk = 2
    MayRename = TRUE
    OpenMayFail = TRUE
INVARIANTS
    RecentLinesKept
    OvershootBounded
PROPERTIES
    ReopenLosesNothing

CHECK_DEADLOCK FALSE
