CONSTANTS
    Configs <- MCConfigs
    Answers <- MCAnswers
    MaxCalls = 2
    MaxRetries = 1
SPECIFICATION Spec
INVARIANTS RequestFaithful ResponseFaithful GateMatchesServer
CHECK_DEADLOCK FALSE
