CONSTANTS
    a = a
    b = b
    Pools <- MCPools1
    MaxRev = 2
    Contents <- MCAny
    Deletable <- MCPools1
    MaxBurst = 1
    RestartDelay = 1
    TermGrace = 2
    StopWait = 4
SPECIFICATION LiveSpec
PROPERTY StopObeyed
CHECK_DEADLOCK FALSE
