SPECIFICATION Spec
CONSTANTS
    MemLimit = 1
    FlushTrigger = 1
    L0Trigger = 2
    Clients = 2
    IoErrors = {}
    MaxWrites = 4
    MaxJobs = 1
    MaxRestarts = 0
    MaxId = 2
INVARIANTS
    AckedRecoverable
CHECK_DEADLOCK FALSE
