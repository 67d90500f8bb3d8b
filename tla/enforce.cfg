SPECIFICATION SCSpec
CONSTANTS
    Task = {t1}
    Hook = {h1}
    NULL = NULL
    SyscallCount = 2
    MaxArgumentCount = 2
    ArgBit <- MCTwoArgBit
    Val <- MCVal
    Asos = 2
    Bucket <- MCBucket
    Hash <- MCHash
    PreAllocated = 2
    MaxCalls = 5
    Failing = {"process", "node"}
    MayFork = FALSE
    MayReload = FALSE
    Rule <- PlainRules
    RuleAction = "allow"
    DefaultAction = "kill"
    Tsync = FALSE
INVARIANTS
    SCTypeOK
    FilterEnforced
    RowsAllowed
    PoolOwned
    BucketsSound
PROPERTIES
    MemoSpec
    RowsStay
