SPECIFICATION FairSpec
CONSTANTS
    FlushTrigger = 2
    SizeTrigger <- SmallTriggers
    IoErrors = {"flush", "compact", "reopen", "panic", "spawn"}
    InitialWals = {1, 3}
    MaxRotations = 3
    MaxFailures = 1
    MaxThreads = 2
INVARIANTS
    TypeOK
    NoLostWakeup
    OneThread
PROPERTIES
    FlushAttended
    LevelsSettle
    DropReturns
