SPECIFICATION Spec
CONSTANTS
    k1 = k1  k2 = k2  t1 = t1  t2 = t2
    Keys = {k1, k2}
    NoKey = NoKey
    Tasks = {t1, t2}
    Uses <- Roles
    Faults = {"exit", "kill", "write"}
    BATCH_SIZE = 2
    QUEUE_CAPACITY = 1
    RetentionDays = 1
    RecentDays = 1
    Gaps = {1, 2}
    MaxVersion = 2
    MaxSaves = 2
    MaxFaults = 1
    MaxCells = 3
INVARIANTS TypeOK EntryIsOwn IndexPointsHome ConfirmedSurvives
CHECK_DEADLOCK FALSE
SYMMETRY KeySymmetry
CONSTRAINT FailedBatchRewritten
