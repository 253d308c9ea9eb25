SPECIFICATION Spec
CONSTANTS
    k1 = k1  k2 = k2  t1 = t1  t2 = t2
    Keys = {k1}
    NoKey = NoKey
    Tasks = {t1, t2}
    Uses <- Roles
    Faults = {}
    BATCH_SIZE = 1
    QUEUE_CAPACITY = 1
    RetentionDays = 1
    RecentDays = 1
    Gaps = {}
    MaxVersion = 1
    MaxSaves = 2
    MaxFaults = 0
    MaxCells = 5
INVARIANTS EmptyDateIsHot
CHECK_DEADLOCK FALSE
