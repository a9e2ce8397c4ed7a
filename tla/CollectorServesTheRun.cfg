SPECIFICATION Spec
CONSTANTS
    MaxStarts = 2
    Tray = TRUE
    PortConflict = FALSE
    Creatable = {"os"}
INVARIANTS
    CollectorServesTheRun
CHECK_DEADLOCK FALSE
