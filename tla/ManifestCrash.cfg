SPECIFICATION Spec
CONSTANTS
    Rotators = {r1}
    Compactors = {c1}
    IoErrors = {"mutate", "write", "rename"}
    MaxUpdates = 4
    MaxCrashes = 2
    r1 = r1
    c1 = c1
ACTION_CONSTRAINT
    OwnTmp
INVARIANTS
    DiskMatchesMemory
PROPERTIES
    AtomicUpdates
