SPECIFICATION FilteredSpec
CONSTANTS
    Task = {t1, t2, t3}
    Hook = {h1, h2}
    NULL = NULL
    SyscallCount = 1
    MaxArgumentCount = 1
    ArgBit <- MCOneArgBit
    Val <- MCVal
    Asos = 1
    Bucket <- MCBucket
    Hash <- MCCrowdedHash
    PreAllocated = 1
    MaxCalls = 3
    Failing = {"process", "node"}
    MayFork = TRUE
    MayReload = FALSE
SYMMETRY Symmetry
INVARIANTS
    TypeOK
    HooksFreed
    MetricsBalance
PROPERTIES
    MemoSpec
