SPECIFICATION Spec
CONSTANTS
    Threads = {"os"}
    Addr = {a1, a2, a3, a4, a5, a6, a7}
    Sizes = {1}
    ByteBits = 8
    IncCount = 8
    MaxLen = 8
    SizeMod = 16
    NULL = NULL
INVARIANT FreeFindsBlock
CHECK_DEADLOCK FALSE
