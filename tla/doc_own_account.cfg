SPECIFICATION Spec
CONSTANTS
    u0 = u0  u1 = u1  u2 = u2  t1 = t1  t2 = t2  t3 = t3
    none = none  proj = proj
    Users = {u1, u2}
    NoUser = u0
    NoProject = none
    Projects = {none}
    Tasks = {t1, t2}
    Main = t1
    NoTask = NoTask
    Ops = {"refresh_session", "delete"}
    SavedLists <- TwoAccounts
    Cancellable = {}
    Faults = {}
    MAX_REFRESH_FAILURES = 1
    CounterMax = 2
    MaxAccounts = 2
    MaxSession = 2
    MaxToken = 3
    MaxFaults = 0
PROPERTY RefreshTouchesOnlyItsAccount
CHECK_DEADLOCK FALSE
