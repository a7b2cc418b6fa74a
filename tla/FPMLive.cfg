CONSTANTS
    a = a
    b = b
    Pools <- MCPools1
    MaxRev = 2
    Contents <- MCAny
    Deletable <- MCPools1
    MaxBurst = 1
    RestartDelay = 1
    TermGrace = 2
    StopWait = 4
SPECIFICATION LiveSpec
INVARIANTS OneWorkerPerPool ConfigCurrent UnmodifiedUntouched NoOrphans
PROPERTIES StopTaken ReloadApplied CrashRecovered
CHECK_DEADLOCK FALSE
