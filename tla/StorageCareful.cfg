SPECIFICATION CarefulSpec
CONSTANTS
    MemLimit = 1
    FlushTrigger = 2
    L0Trigger = 1
    Clients = 2
    IoErrors = {"rotate", "reopen", "flush", "compact"}
    MaxWrites = 3
    MaxJobs = 4
    MaxRestarts = 2
    MaxId = 4
INVARIANTS
    TypeOK
    AckedRecoverable
    AckedReadable
    CanRestart
    LsnsFollowWal
CHECK_DEADLOCK FALSE
