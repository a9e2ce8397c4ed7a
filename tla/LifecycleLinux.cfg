SPECIFICATION FairSpec
CONSTANTS
    MaxStarts = 1
    Tray = FALSE
    PortConflict = TRUE
    Creatable = {"trap", "daemon", "os", "http"}

    
PROPERTIES
    KeepsBeating
CHECK_DEADLOCK FALSE
