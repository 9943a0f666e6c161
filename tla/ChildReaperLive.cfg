SPECIFICATION OneRequestFairSpec
CONSTANTS
    c1 = c1
    c2 = c2
    x1 = x1
    i1 = i1
    i2 = i2
    None = None
    Child = {c1, x1}
    Exec = {x1}
    Timed = {x1}
    Attached = {c1}
    Impatient = {c1, x1}
    Unwaitable = {}
    Unwritable = {}
    Id = {i1, i2}
    IdOf <- TwoIds
    Pid = {101}
    ReusePids = FALSE
    ExitCode = {0}
    Signal = {}
PROPERTIES
    ExitRecorded
    ImplementsMonitor
    TimedExecEnds
    

CHECK_DEADLOCK FALSE
