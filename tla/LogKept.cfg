SPECIFICATION Spec
CONSTANTS
    Threads = {t1, t2}
    None = None
    Zones = {"utc", "east"}
    MaxTime = 6
    MaxStarts = 2
    MaxLines = 1
INVARIANTS TypeOK SafeUntilMidnight
 
CHECK_DEADLOCK FALSE
