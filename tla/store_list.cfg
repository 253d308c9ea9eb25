SPECIFICATION Spec
CONSTANTS
    u0 = u0  u1 = u1  u2 = u2  t1 = t1  t2 = t2  t3 = t3
    none = none  proj = proj
    Users = {u1, u2}
    NoUser = u0
    NoProject = none
    Projects = {none}
    Tasks = {t1, t2}
    Main = t1
    NoTask = NoTask
    Ops = {"delete", "toggle", "get_token", "clear", "refresh_all", "refresh_account", "add"}
    SavedLists <- OneAccount
    Cancellable = {}
    Faults = {}
    MAX_REFRESH_FAILURES = 1
    CounterMax = 2
    MaxAccounts = 2
    MaxSession = 3
    MaxToken = 2
    MaxFaults = 0
SYMMETRY UserSymmetry
INVARIANTS CursorInRange SavesLoseNothing
CHECK_DEADLOCK FALSE
