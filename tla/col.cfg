SPECIFICATION Spec
CONSTANTS
    NULL = NULL
    Ones = 31
    Ctx = {c1, c2}
    Native = {"x86", "x86_64"}
    Endian <- MCEndian
    Numbers <- MCNumbers
    Names <- MCNames
    Rule <- MCRule
    Kernels <- MCKernels
    Priority <- MCPriority
    Default = {"kill", "allow"}
    Args <- MCArgs
    DbAdd <- MCDbAdd
    DbPriority <- MCDbPriority
    DbReplay <- MCDbReplay
    DbVerdict <- MCDbVerdict
    DbMatches <- MCDbMatches
    MaxCalls = 3
SYMMETRY Symmetry
INVARIANTS
    OneEndian
    FiltersKeepWord
    AcceptedInForce
    TsyncHonoured
PROPERTIES
    AbortRestores
    MergeKeepsVerdicts
CHECK_DEADLOCK FALSE
