SPECIFICATION GenSpec
CONSTANTS
    NULL = NULL
    Ones = 3
    Syscall = {1}
    NoSyscall = 0
    Rule <- BothRules
    Priority = {}
    DefaultAction = "kill"
    Args <- BothArgs
    MaxBuilt = 0
    JumpMax = 255
    MaxRules = 3
PROPERTY RefusedWithoutTrace
CHECK_DEADLOCK FALSE
