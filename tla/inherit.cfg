SPECIFICATION SCSpec
CONSTANTS
    Task = {t1, t2}
    Hook = {h1, h2}
    NULL = NULL
    SyscallCount = 1
    MaxArgumentCount = 2
    ArgBit <- MCTwoArgBit
    Val = {0}
    Asos = 1
    Bucket = {0}
    Hash <- MCHash
    PreAllocated = 1
    MaxCalls = 1
    Failing = {}
    MayFork = TRUE
    MayReload = TRUE
    Rule <- SplitRules
    RuleAction = "allow"
    DefaultAction = "errno"
    Tsync = FALSE
SYMMETRY Symmetry
INVARIANTS
    KeysCoverFilters
