SPECIFICATION Spec
CONSTANTS
    Task = {t1, t2}
    Hook = {h1, h2}
    NULL = NULL
    SyscallCount = 2
    MaxArgumentCount = 2
    ArgBit <- MCArgBit
    Val <- MCVal
    Asos = 2
    Bucket <- MCBucket
    Hash <- MCHash
    PreAllocated = 1
    FreshCalls = 2
    SharedCalls = 3
    EarlyCalls = 1
    Failing = {"process", "node"}
    MayFork = FALSE
    MayReload = FALSE
CHECK_DEADLOCK FALSE
INVARIANTS
    SectionsExclusive
    NothingWild
    TablesApart
    FlagsPrefix
    ListComplete
    HitsHonest
    HitsWordwise
PROPERTIES
    CallsReturn
