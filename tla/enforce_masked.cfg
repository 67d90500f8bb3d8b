SPECIFICATION SCSpec
CONSTANTS
    Task = {t1}
    Hook = {h1}
    NULL = NULL
    SyscallCount = 2
    MaxArgumentCount = 2
    ArgBit <- MCTwoArgBit
    Val <- MCVal
    Asos = 1
    Bucket <- MCBucket
    Hash <- MCHash
    PreAllocated = 1
    MaxCalls = 3
    Failing = {"process", "node"}
    MayFork = FALSE
    MayReload = FALSE
    Rule <- MaskedRules
    RuleAction = "allow"
    DefaultAction = "kill"
    Tsync = FALSE
INVARIANTS
    FilterEnforced
