SPECIFICATION FairSpec
CONSTANTS
    Tasks = {t1}
    Execs = {e1, e2}
    Capacity = 1
    UpWindow = 1
    DownWindow = 1
    WaitTime = 2
    HeartbeatPeriod = 1
    Skew = 1
    MaxBreaks = 1
    Worker = w
    None = None
    Workers = {w}
    DeadThreshold = 2
    ScanInterval = 1
INVARIANTS
    FalseDeathNeedsBacklog
    DetectionBound
    NoSlotLeak
PROPERTIES
    WaitingIsServed
