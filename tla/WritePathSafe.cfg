\* Four concurrent writes, every memtable full after its first group, any I/O may fail.
SPECIFICATION Spec
CONSTANTS
    Writers = {w1, w2, w3, w4}
    MaxMemtableSize = 1
    StartLsn = 1
    IoErrors = {"wal", "rotate"}
SYMMETRY WriterSymmetry
INVARIANTS
    TypeOK
    WalExclusive
    WalOrdered
    AckedDurable
    AckedVisible
    FailedNotVisible
    LoggedOnce
    BackedByOlderWal
