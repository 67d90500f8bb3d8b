SPECIFICATION FilteredSpec
CONSTANTS
    Task = {t1, t2}
    Hook = {h1, h2}
    NULL = NULL
    SyscallCount = 1
    MaxArgumentCount = 1
    ArgBit <- MCOneArgBit
    Val <- MCVal
    Asos = 1
    Bucket <- MCBucket
    Hash <- MCHash
    PreAllocated = 2
    MaxCalls = 4
    Failing = {}
    MayFork = TRUE
    MayReload = FALSE
SYMMETRY Symmetry
INVARIANTS
    DetachedAfterExit
