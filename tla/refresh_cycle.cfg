SPECIFICATION FairSpec
CONSTANTS
    Accounts = 2
    MAX_CONCURRENT_REFRESHES = 1
    MAX_ATTEMPTS_PER_CYCLE = 2
    MAX_REFRESH_FAILURES = 2
    CounterMax = 3
INVARIANTS TypeOK PermitsForCalls
PROPERTIES DueServed
