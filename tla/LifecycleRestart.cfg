SPECIFICATION FairSpec
CONSTANTS
    MaxStarts = 2
    Tray = TRUE
    PortConflict = FALSE
    Creatable = {"daemon", "http"}
INVARIANTS
    TypeOK
    TrapAndHttpServeTheRun
    DaemonServesTheRun
    FirstRunSound
PROPERTIES
    CleanStopEndsWorkers
CHECK_DEADLOCK FALSE
