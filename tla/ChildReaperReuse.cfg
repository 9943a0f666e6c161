SPECIFICATION Spec
CONSTANTS
    c1 = c1
    c2 = c2
    x1 = x1
    i1 = i1
    i2 = i2
    None = None
    Child = {c1, c2}
    Exec = {}
    Timed = {}
    Attached = {c1}
    Impatient = {c1}
    Unwaitable = {c2}
    Unwritable = {c1}
    Id = {i1}
    IdOf <- OneId
    Pid = {101}
    ReusePids = TRUE
    ExitCode = {0, 1}
    Signal = {}
INVARIANTS
    TypeOK
    ExitFileTruthful
    LeakFdsHeld
    OomReportReal

CHECK_DEADLOCK FALSE
