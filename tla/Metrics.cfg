CONSTANTS
    None = None
    Step = 3
    Pause = 3
    Window = 6
    Heartbeat = 6
    Lead = 6
    Begin = 6
    MaxTime = 16
    MaxStarts = 2
    MaxLate = 3
SPECIFICATION Spec
INVARIANTS
    TypeOK
    LastMinuteOnly
    
    
    OnlyThisProcess
    StopsAfterPass
CHECK_DEADLOCK FALSE
