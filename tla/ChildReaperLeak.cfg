SPECIFICATION FairSpec
CONSTANTS
    c1 = c1
    c2 = c2
    x1 = x1
    i1 = i1
    i2 = i2
    None = None
    Child = {c1}
    Exec = {}
    Timed = {}
    Attached = {}
    Impatient = {}
    Unwaitable = {}
    Unwritable = {}
    Id = {i1}
    IdOf <- OneId
    Pid = {101}
    ReusePids = FALSE
    ExitCode = {0}
    Signal = {}
PROPERTIES
    LeakFdsReleased

CHECK_DEADLOCK FALSE
