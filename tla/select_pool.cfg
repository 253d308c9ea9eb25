SPECIFICATION Spec
CONSTANTS
    p1 = p1  r1 = r1  r2 = r2  h1 = h1
    Pools = {p1}
    NoPool = NoPool
    Requests = {r1, r2}
    Handlers = {h1}
    Operations = {"quota", "add"}
    InitialLists <- OneOn
    Outcomes = {"ok", "quota", "capacity"}
    PoolTries = 1
    MODEL_CAPACITY_EXHAUSTED_MAX_RETRIES = 2
    MaxFraction = 0
    MaxSession = 2
SYMMETRY Alike
INVARIANTS TypeOK PoolsDisjoint ErrorMeansNone LastAttemptIsLast RotationFair
