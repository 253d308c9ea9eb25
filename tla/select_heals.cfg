SPECIFICATION FairSpec
CONSTANTS
    p1 = p1  r1 = r1  r2 = r2  h1 = h1
    Pools = {p1}
    NoPool = NoPool
    Requests = {r1}
    Handlers = {h1}
    Operations = {"quota", "toggle", "break", "delete", "refresh", "refresh_all"}
    InitialLists <- OneOn
    Outcomes = {"auth", "fatal"}
    PoolTries = 1
    MODEL_CAPACITY_EXHAUSTED_MAX_RETRIES = 2
    MaxFraction = 0
    MaxSession = 1
PROPERTIES DisabledStaysOut Answered
