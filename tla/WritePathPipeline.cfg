\* Three concurrent writes, no WAL write fails, a memtable is full after two entries.
SPECIFICATION FairSpec
CONSTANTS
    Writers = {w1, w2, w3}
    MaxMemtableSize = 2
    StartLsn = 1
    IoErrors = {"rotate"}
INVARIANTS
    MemExclusive
    MemtableFollowsWalOrder
PROPERTIES
    AllWritesReturn
