\* One map, put to, removed from, iterated, freed and made anew.
SPECIFICATION FairSpec
CONSTANTS
    Keys = {"a", "b", "c"}
    Vals = {v1, v2}
    NULL = NULL
    Hash <- HashDef
    InitialSize = 8
    MaxChain = 2
    MapFull = 9
    MaxTable = 32
    StaleNew = {0}
INVARIANTS
    TypeOK
    
PROPERTIES
    
    PutReturns
