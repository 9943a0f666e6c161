SPECIFICATION Spec
CONSTANTS
    c1 = c1
    c2 = c2
    x1 = x1
    i1 = i1
    i2 = i2
    None = None
    Child = {c1, x1}
    Exec = {x1}
    Timed = {x1}
    Attached = {}
    Impatient = {}
    Unwaitable = {}
    Unwritable = {}
    Id = {i1}
    IdOf <- OneId
    Pid = {101, 102}
    ReusePids = FALSE
    ExitCode = {0}
    Signal = {}
INVARIANTS
    ExecAnswerTruthful
    RegisteredUntilExit
    ContainerFound
    ShutdownAwaitsExit

CHECK_DEADLOCK FALSE
