SPECIFICATION ProfileSpec
CONSTANTS
    Task = {t1, t2}
    Hook = {}
    NULL = NULL
    SyscallCount = 2
    MaxArgumentCount = 2
    ArgBit <- MCArgBit
    MayFork = TRUE
    MayReload = TRUE
SYMMETRY Symmetry
CONSTRAINT FewBits
INVARIANTS
    ProfileTypeOK
    BitMapEnumerates
    KeysAreProfiled
PROPERTIES
    LoadCompilesAll
    KeysOnlyWiden
