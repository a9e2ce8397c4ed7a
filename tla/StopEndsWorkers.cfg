SPECIFICATION FairSpec
CONSTANTS
    MaxStarts = 1
    Tray = TRUE
    PortConflict = FALSE
    Creatable = {"trap", "daemon", "os", "http"}
PROPERTIES
    StopEndsWorkers
CHECK_DEADLOCK FALSE
