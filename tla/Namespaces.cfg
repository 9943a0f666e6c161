CONSTANTS
    p1 = p1
    p2 = p2
    Pod = {p1, p2}
    Wants <- MCWants
    MaxRequests = 2
    MaxFaults = 2
SPECIFICATION FairSpec
INVARIANTS NamespacesBound StopCleans
PROPERTIES InitAnswered
CHECK_DEADLOCK FALSE
