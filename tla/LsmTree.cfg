\* Two keys in memtables of one entry or more; blocks of two entries, files cut at two.
SPECIFICATION Spec
CONSTANTS
    Keys = {1, 2}
    BlockSize = 2
    BloomBits <- SharedBits
    MemLimit = 1
    FlushTrigger = 1
    MaxLevel = 2
    LevelTrigger <- SmallTriggers
    TargetSize = 2
    IoErrors = {"rotate", "flush", "compact"}
    MaxWrites = 4
INVARIANTS
    TypeOK
    LevelsDisjoint
    SearchFindsNewest
    FreshUnlessShadowed
PROPERTIES
    IsVersionStore
CHECK_DEADLOCK FALSE
