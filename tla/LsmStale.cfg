\* A get may answer with an older version, or with a deleted one.
SPECIFICATION Spec
CONSTANTS
    Keys = {1, 2}
    BlockSize = 2
    BloomBits <- SharedBits
    MemLimit = 1
    FlushTrigger = 1
    MaxLevel = 2
    LevelTrigger <- SmallTriggers
    TargetSize = 2
    IoErrors = {}
    MaxWrites = 4
INVARIANTS
    ReadsNewest
CHECK_DEADLOCK FALSE
