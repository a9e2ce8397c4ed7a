SPECIFICATION Spec
CONSTANTS
    v1 = v1
    v0 = v0
    a = a
    Ids = {a}
    NoId = noid
    Vals = {v0, v1}
    Default = v0
    Absent = absent
    SeedOrder <- MCSeedOrder
    DialogOrder <- MCDialogOrder
    Tray = TRUE
    Faults = TRUE
INVARIANT TypeOK
PROPERTIES
    SavedSettingsTakeEffect
    SeedsPreserve
