SPECIFICATION Spec
CONSTANTS
    Threads = {"os"}
    Addr = {a1, a2, a3, a4, a5}
    Sizes = {1, 2}
    ByteBits = 4
    IncCount = 4
    MaxLen = 8
    SizeMod = 16
    NULL = NULL
SYMMETRY AddrSymmetry
CONSTRAINT UntilGrown
INVARIANTS
    TypeOK
    TableHoldsLiveBlocks
    
    
\* a failed assertion ends the process
CHECK_DEADLOCK FALSE
