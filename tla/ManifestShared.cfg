SPECIFICATION FairSpec
CONSTANTS
    Rotators = {r1}
    Compactors = {c1}
    IoErrors = {"mutate", "write"}
    MaxUpdates = 4
    MaxCrashes = 0
    r1 = r1
    c1 = c1
INVARIANTS
    TypeOK
    TmpFileThere
    GivesUpAfterConflicts
PROPERTIES
    EveryCallReturns
