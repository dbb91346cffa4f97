\* Groups of one or two writes, failing writes, and four ends of the process.
SPECIFICATION Spec
CONSTANTS
    IoErrors = TRUE
    MaxWrites = 4
    MaxGroup = 2
    MaxStops = 4
INVARIANTS
    TypeOK
    AckedReplayed
    LsnsFollowFile
    RefusedOnlyIfTorn
CHECK_DEADLOCK FALSE
