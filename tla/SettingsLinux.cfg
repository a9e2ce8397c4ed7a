SPECIFICATION Spec
CONSTANTS
    v1 = v1
    v0 = v0
    b = b
    a = a
    Ids = {a, b}
    NoId = noid
    Vals = {v0, v1}
    Default = v0
    Absent = absent
    SeedOrder <- MCSeedOrder
    DialogOrder <- MCDialogOrder
    Tray = FALSE
    Faults = FALSE
INVARIANTS
    AckSurvives
    SeedingCompletes
    
PROPERTY ImplementsRegister
