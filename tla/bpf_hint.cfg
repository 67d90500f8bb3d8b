SPECIFICATION GenSpec
CONSTANTS
    NULL = NULL
    Ones = 3
    Syscall = {1, 2}
    NoSyscall = 0
    Rule <- BothRules
    Priority = {1}
    DefaultAction = "kill"
    Args <- BothArgs
    MaxBuilt = 1
    JumpMax = 255
    MaxRules = 2
INVARIANT ProgramFaithful
CHECK_DEADLOCK FALSE
