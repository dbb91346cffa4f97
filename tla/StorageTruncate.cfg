SPECIFICATION Spec
CONSTANTS
    MemLimit = 1
    FlushTrigger = 2
    L0Trigger = 2
    Clients = 1
    IoErrors = {}
    MaxWrites = 4
    MaxJobs = 2
    MaxRestarts = 0
    MaxId = 3
PROPERTIES
    SstablesImmutable
CHECK_DEADLOCK FALSE
