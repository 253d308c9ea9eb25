SPECIFICATION Spec
CONSTANTS
    u0 = u0  u1 = u1  u2 = u2  t1 = t1  t2 = t2  t3 = t3
    none = none  proj = proj
    Users = {u1, u2}
    NoUser = u0
    NoProject = none
    Projects = {none, proj}
    Tasks = {t1, t2}
    Main = t1
    NoTask = NoTask
    Ops = {"refresh_session", "add", "delete", "project_id"}
    SavedLists <- OneAccount
    Cancellable = {}
    Faults = {"write", "read", "crash"}
    MAX_REFRESH_FAILURES = 1
    CounterMax = 2
    MaxAccounts = 2
    MaxSession = 3
    MaxToken = 2
    MaxFaults = 1
SYMMETRY UserSymmetry
INVARIANTS GuardMatchesFlights IndexStable SavesLoseNothing
CHECK_DEADLOCK FALSE
