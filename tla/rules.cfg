SPECIFICATION GenSpec
CONSTANTS
    NULL = NULL
    Ones = 3
    Syscall = {1, 2}
    NoSyscall = 0
    Rule <- BothRules
    Priority = {1}
    DefaultAction = "kill"
    Args <- BothArgs
    MaxBuilt = 2
    JumpMax = 5
    MaxRules = 3
INVARIANTS
    VerdictsPromised
    NoLeaks
    NodesCounted
    SnapshotsAgree
    ProgramFaithfulFromHead
    JumpsFit
    BuildSucceeds
    CopiesLead
PROPERTY BuildSpec
CHECK_DEADLOCK FALSE
