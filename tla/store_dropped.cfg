SPECIFICATION FairSpec
CONSTANTS
    u0 = u0  u1 = u1  u2 = u2  t1 = t1  t2 = t2  t3 = t3
    none = none  proj = proj
    Users = {u1}
    NoUser = u0
    NoProject = none
    Projects = {none}
    Tasks = {t1, t2}
    Main = t1
    NoTask = NoTask
    Ops = {"refresh_session", "delete", "toggle"}
    SavedLists <- OneAccount
    Cancellable = {"delete", "toggle"}
    Faults = {}
    MAX_REFRESH_FAILURES = 1
    CounterMax = 2
    MaxAccounts = 2
    MaxSession = 1
    MaxToken = 1
    MaxFaults = 0

INVARIANT TypeOK
PROPERTY FlightsEnd
CHECK_DEADLOCK FALSE
