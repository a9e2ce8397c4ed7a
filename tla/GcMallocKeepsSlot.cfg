SPECIFICATION Spec
CONSTANTS
    Threads = {"os", "http"}
    Addr = {a1, a2, a3}
    Sizes = {1}
    ByteBits = 8
    IncCount = 64
    MaxLen = 64
    SizeMod = 16
    NULL = NULL
INVARIANT MallocKeepsSlot
CHECK_DEADLOCK FALSE
