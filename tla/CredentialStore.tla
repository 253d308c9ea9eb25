-------------------------- MODULE CredentialStore --------------------------
(***************************************************************************)
(* The account store of src/credential/store.rs: the account list and the  *)
(* round-robin cursor behind one RwLock, accounts.json written under       *)
(* save_lock, the set of sessions being refreshed, the in-memory failure   *)
(* counters, and the operations that web handlers and background tasks run *)
(* on them concurrently.                                                   *)
(*                                                                         *)
(* A task is one tokio task running one operation.  A step is what happens *)
(* between two suspension points: one lock acquisition with the work done  *)
(* under it, one answer of the OAuth server, or one file operation.        *)
(* current_index is 0-based as in the code, positions in accounts start    *)
(* at 1.                                                                   *)
(***************************************************************************)
EXTENDS Naturals, Sequences, SequencesExt

CONSTANTS
    Users,          \* identities: the e-mail or refresh token add() matches on
    NoUser,         \* fills the account field of a task that has looked up none
    Projects,       \* project ids, NoProject among them
    NoProject,      \* the empty project id
    Tasks,          \* tokio tasks that may run at the same time
    Main,           \* the task that runs main() before the server is up
    NoTask,         \* save_lock is free
    Ops,            \* the operations the environment starts
    SavedLists,     \* account lists an earlier process may have left on disk
    Cancellable,    \* operations whose future a closed connection drops
    Faults,         \* subset of {"write", "read", "crash"}
    MAX_REFRESH_FAILURES,
    CounterMax,     \* u32::MAX in the code
    MaxAccounts, MaxSession, MaxToken, MaxFaults   \* bounds of the model

AllOps == {"refresh_session", "refresh_account", "refresh_all", "add", "delete",
           "toggle", "project_id", "clear", "get_token"}

ASSUME TasksAssumption == Main \in Tasks /\ NoTask \notin Tasks
ASSUME ValuesAssumption == NoProject \in Projects /\ NoUser \notin Users
ASSUME SavedListsAssumption ==
    \A l \in SavedLists : \E n \in 0..MaxAccounts : l \in
        [1..n -> [user : Users, token : {0}, project_id : Projects, enable : BOOLEAN]]
ASSUME OpsAssumption == Ops \subseteq AllOps /\ Cancellable \subseteq AllOps
ASSUME SpawnedAssumption == "refresh_session" \notin Cancellable
ASSUME BoundsAssumption ==
    /\ MAX_REFRESH_FAILURES \in Nat \ {0} /\ MaxSession \in Nat \ {0}
    /\ CounterMax \in Nat /\ CounterMax >= MAX_REFRESH_FAILURES
    /\ MaxAccounts \in Nat /\ MaxToken \in Nat /\ MaxFaults \in Nat

VARIABLES
    up,                 \* "down", "boot" (main() refreshes all), "serving"
    accounts,           \* State.accounts
    current_index,      \* State.current_index
    disk,               \* accounts.json
    save_lock,          \* holder of save_lock
    refreshing,         \* refreshing_sessions
    refresh_failures,   \* refresh_failures; 0 stands for "no entry"
    task,               \* what each task is doing
    orphans,            \* file writes whose caller was dropped, still to land
    next_session, issued, faults,   \* counters: fresh ids, tokens, faults
    behind, dropped     \* history: disk known stale; a future was dropped

memory == <<accounts, current_index>>
counters == <<next_session, issued, faults>>
history == <<behind, dropped>>
vars == <<up, accounts, current_index, disk, save_lock, refreshing,
          refresh_failures, task, orphans, next_session, issued, faults,
          behind, dropped>>

-----------------------------------------------------------------------------
(* Types *)

Sessions == 1..MaxSession
Account == [user : Users, session_id : Sessions, token : 0..MaxToken,
            project_id : Projects, enable : BOOLEAN]
SavedAccount == [user : Users, token : 0..MaxToken, project_id : Projects,
                 enable : BOOLEAN]

NoAccount == [user |-> NoUser, session_id |-> 1, token |-> 0,
              project_id |-> NoProject, enable |-> FALSE]

\* Steps at which a task holds an index it looked up earlier.
IndexSteps == {"oauth", "indexed", "set_enable"}
Steps == IndexSteps \cup {"idle", "find", "oauth_all", "disable", "lock", "read",
                          "write", "clear_failure", "release", "pick"}

\* sid: the session asked for; idx, acct: what the lookup returned; list: the
\* cloned accounts; n: loop counter; then: where a successful save returns to;
\* moved: history, indices may have shifted since the lookup.
Task == [op : AllOps \cup {"none"}, at : Steps, sid : Sessions, idx : Nat,
         acct : Account \cup {NoAccount}, list : Seq(Account), n : Nat,
         then : {"idle", "clear_failure", "release"}, moved : BOOLEAN]

Idle == [op |-> "none", at |-> "idle", sid |-> 1, idx |-> 0, acct |-> NoAccount,
         list |-> <<>>, n |-> 0, then |-> "idle", moved |-> FALSE]

Strip(a) == [user |-> a.user, token |-> a.token, project_id |-> a.project_id,
             enable |-> a.enable]
\* session_id is #[serde(skip)]: it never reaches the file.
Saved(list) == [i \in DOMAIN list |-> Strip(list[i])]
NoFile == [kind |-> "none", list |-> <<>>]
Torn == [kind |-> "torn", list |-> <<>>]
File(list) == [kind |-> "ok", list |-> Saved(list)]

TypeOK ==
    /\ up \in {"down", "boot", "serving"}
    /\ accounts \in Seq(Account)
    /\ current_index \in Nat
    /\ disk \in [kind : {"none", "torn", "ok"}, list : Seq(SavedAccount)]
    /\ save_lock \in Tasks \cup {NoTask}
    /\ refreshing \subseteq Sessions
    /\ refresh_failures \in [Sessions -> 0..CounterMax]
    /\ task \in [Tasks -> Task]
    /\ orphans \subseteq Seq(Account)
    /\ next_session \in Nat \ {0} /\ next_session <= MaxSession + 1
    /\ issued \in 0..MaxToken
    /\ faults \in Nat
    /\ behind \in BOOLEAN
    /\ dropped \in BOOLEAN

-----------------------------------------------------------------------------
(* Looking accounts up *)

Absent(s) == \A i \in DOMAIN accounts : accounts[i].session_id # s

\* i is the position find_by_session_id / iter().position returns for s.
First(i, s) ==
    /\ i \in DOMAIN accounts
    /\ accounts[i].session_id = s
    /\ \A j \in 1..(i - 1) : accounts[j].session_id # s

FirstOf(i, u) ==
    /\ i \in DOMAIN accounts
    /\ accounts[i].user = u
    /\ \A j \in 1..(i - 1) : accounts[j].user # u

Busy(p) == task[p].at # "idle"
InFlight(p) == task[p].op = "refresh_session"

\* The server accepts a new operation for an idle task.
Starts(p, op) == up = "serving" /\ op \in Ops /\ ~Busy(p)

Goto(p, step) == task' = [task EXCEPT ![p].at = step]
Finish(p) == task' = [task EXCEPT ![p] = Idle]

\* Where an operation goes when it stops early: refresh_session still has to
\* leave the guard set.
Leaving(t, step) == [Idle EXCEPT !.op = t.op, !.at = step, !.sid = t.sid]
Leave(p, step) == task' = [task EXCEPT ![p] = Leaving(task[p], step)]
Return(p) == IF InFlight(p) THEN Leave(p, "release") ELSE Finish(p)

\* The task goes on to save(), after which it continues at then; what it has
\* looked up is of no use any more.
Saving(t, then) == [Idle EXCEPT !.op = t.op, !.at = "lock", !.sid = t.sid,
                                !.then = then]
ToSave(p, op) == task' = [task EXCEPT ![p] = Saving([Idle EXCEPT !.op = op], "idle")]

\* p becomes t and every index held by another task is now suspect.
BecomeAndShift(p, t) ==
    task' = [q \in Tasks |->
        IF q = p THEN t
        ELSE IF task[q].at \in IndexSteps THEN [task[q] EXCEPT !.moved = TRUE]
        ELSE task[q]]
SaveAfterShift(p, op) == BecomeAndShift(p, Saving([Idle EXCEPT !.op = op], "idle"))

-----------------------------------------------------------------------------
(* save(): lock, snapshot, write *)

\* Mutant: save() without its lock.
AcquireSaveLock_Unguarded(p) ==
    /\ task[p].at = "lock"
    /\ save_lock' = p
    /\ Goto(p, "read")
    /\ UNCHANGED <<up, memory, disk, refreshing, refresh_failures, orphans,
                   counters, history>>

AcquireSaveLock(p) ==
    /\ task[p].at = "lock"
    /\ save_lock = NoTask
    /\ save_lock' = p
    /\ Goto(p, "read")
    /\ UNCHANGED <<up, memory, disk, refreshing, refresh_failures, orphans,
                   counters, history>>

SnapshotForSave(p) ==
    /\ task[p].at = "read"
    /\ task' = [task EXCEPT ![p].list = accounts, ![p].at = "write"]
    /\ UNCHANGED <<up, memory, disk, save_lock, refreshing, refresh_failures,
                   orphans, counters, history>>

WriteAccounts(p) ==
    /\ task[p].at = "write"
    /\ disk' = File(task[p].list)
    /\ behind' = FALSE
    /\ save_lock' = NoTask
    /\ IF task[p].then = "idle" THEN Finish(p)
       ELSE task' = [task EXCEPT ![p].list = <<>>, ![p].at = task[p].then]
    /\ UNCHANGED <<up, memory, refreshing, refresh_failures, orphans, counters,
                   dropped>>

\* The write fails, before or after it has truncated the file.
WriteError(p) ==
    /\ task[p].at = "write"
    /\ "write" \in Faults /\ faults < MaxFaults
    /\ faults' = faults + 1
    /\ disk' \in {disk, Torn}
    /\ behind' = TRUE
    /\ save_lock' = NoTask
    /\ IF InFlight(p)
       THEN task' = [task EXCEPT ![p].list = <<>>, ![p].at = "release"]
       ELSE Finish(p)
    /\ UNCHANGED <<up, memory, refreshing, refresh_failures, orphans,
                   next_session, issued, dropped>>

-----------------------------------------------------------------------------
(* refresh_session *)

\* Mutant: the guard set is not consulted.
BeginRefresh_Twice(p, s) ==
    /\ Starts(p, "refresh_session")
    /\ s < next_session
    /\ refreshing' = refreshing \cup {s}
    /\ task' = [task EXCEPT ![p] =
                  [Idle EXCEPT !.op = "refresh_session", !.at = "find", !.sid = s]]
    /\ UNCHANGED <<up, memory, disk, save_lock, refresh_failures, orphans,
                   counters, history>>

\* A session already in the set is skipped: nothing changes.
BeginRefresh(p, s) ==
    /\ Starts(p, "refresh_session")
    /\ s < next_session
    /\ s \notin refreshing
    /\ refreshing' = refreshing \cup {s}
    /\ task' = [task EXCEPT ![p] =
                  [Idle EXCEPT !.op = "refresh_session", !.at = "find", !.sid = s]]
    /\ UNCHANGED <<up, memory, disk, save_lock, refresh_failures, orphans,
                   counters, history>>

\* Mutant: the early return for an unknown session forgets the guard set.
FindSession_LeaksGuard(p) ==
    /\ task[p].at = "find" /\ InFlight(p)
    /\ \/ Absent(task[p].sid) /\ Finish(p)
       \/ \E i \in DOMAIN accounts :
            /\ First(i, task[p].sid)
            /\ task' = [task EXCEPT ![p].idx = i, ![p].acct = accounts[i],
                                     ![p].at = "oauth"]
    /\ UNCHANGED <<up, memory, disk, save_lock, refreshing, refresh_failures,
                   orphans, counters, history>>

FindSession(p) ==
    /\ task[p].at = "find" /\ InFlight(p)
    /\ \/ Absent(task[p].sid) /\ Goto(p, "release")
       \/ \E i \in DOMAIN accounts :
            /\ First(i, task[p].sid)
            /\ IF accounts[i].enable
               THEN task' = [task EXCEPT ![p].idx = i, ![p].acct = accounts[i],
                                         ![p].at = "oauth"]
               ELSE Goto(p, "release")
    /\ UNCHANGED <<up, memory, disk, save_lock, refreshing, refresh_failures,
                   orphans, counters, history>>

\* oauth::refresh_token succeeds and replace_account overwrites position idx.
\* Both refresh_session and refresh_account come here.
ReplaceAccount(p) ==
    LET t == task[p]
        fresh == [t.acct EXCEPT !.token = issued + 1]
        stale == t.idx <= Len(accounts) /\ accounts[t.idx].user # fresh.user
        next == [Saving(t, "clear_failure") EXCEPT !.acct = fresh]
    IN  /\ t.at = "oauth"
        /\ issued < MaxToken
        /\ issued' = issued + 1
        /\ IF t.idx <= Len(accounts)
           THEN /\ accounts' = [accounts EXCEPT ![t.idx] = fresh]
                /\ IF stale THEN BecomeAndShift(p, next)
                   ELSE task' = [task EXCEPT ![p] = next]
           ELSE accounts' = accounts /\ Return(p)
        /\ UNCHANGED <<up, current_index, disk, save_lock, refreshing,
                       refresh_failures, orphans, next_session, faults, history>>

\* Mutant: a plain addition where the code saturates.
RefreshFails_Unbounded(p) ==
    LET t == task[p]
        count == refresh_failures[t.sid] + 1
    IN  /\ t.at = "oauth"
        /\ IF InFlight(p)
           THEN /\ refresh_failures' = [refresh_failures EXCEPT ![t.sid] = count]
                /\ Leave(p, IF count >= MAX_REFRESH_FAILURES THEN "disable"
                                                            ELSE "release")
           ELSE Finish(p) /\ UNCHANGED refresh_failures
        /\ UNCHANGED <<up, memory, disk, save_lock, refreshing, orphans, counters,
                       history>>

\* oauth::refresh_token fails; only refresh_session counts the failure.  An
\* account that is enabled again by hand keeps its count, which goes on past the
\* threshold and saturates.
RefreshFails(p) ==
    LET t == task[p]
        count == IF refresh_failures[t.sid] = CounterMax
                 THEN CounterMax ELSE refresh_failures[t.sid] + 1
    IN  /\ t.at = "oauth"
        /\ IF InFlight(p)
           THEN /\ refresh_failures' = [refresh_failures EXCEPT ![t.sid] = count]
                /\ Leave(p, IF count >= MAX_REFRESH_FAILURES THEN "disable"
                                                            ELSE "release")
           ELSE Finish(p) /\ UNCHANGED refresh_failures
        /\ UNCHANGED <<up, memory, disk, save_lock, refreshing, orphans, counters,
                       history>>

\* Mutant: the automatic disabling is not saved.
DisableBySessionId_Unsaved(p) ==
    LET t == task[p] IN
    /\ t.at = "disable"
    /\ accounts' = [i \in DOMAIN accounts |->
          [accounts[i] EXCEPT !.enable = @ /\ ~First(i, t.sid)]]
    /\ Goto(p, "release")
    /\ UNCHANGED <<up, current_index, disk, save_lock, refreshing,
                   refresh_failures, orphans, counters, history>>

\* disable_by_session_id; save() runs only if the flag really changed.
DisableBySessionId(p) ==
    LET t == task[p] IN
    /\ t.at = "disable"
    /\ \/ \E i \in DOMAIN accounts :
            /\ First(i, t.sid) /\ accounts[i].enable
            /\ accounts' = [accounts EXCEPT ![i].enable = FALSE]
            /\ task' = [task EXCEPT ![p] = Saving(t, "release")]
       \/ /\ \A i \in DOMAIN accounts : First(i, t.sid) => ~accounts[i].enable
          /\ accounts' = accounts
          /\ Goto(p, "release")
    /\ UNCHANGED <<up, current_index, disk, save_lock, refreshing,
                   refresh_failures, orphans, counters, history>>

ClearRefreshFailure(p) ==
    /\ task[p].at = "clear_failure"
    /\ refresh_failures' =
          [refresh_failures EXCEPT ![task[p].acct.session_id] = 0]
    /\ Return(p)
    /\ UNCHANGED <<up, memory, disk, save_lock, refreshing, orphans, counters,
                   history>>

ReleaseSession(p) ==
    /\ task[p].at = "release"
    /\ refreshing' = refreshing \ {task[p].sid}
    /\ Finish(p)
    /\ UNCHANGED <<up, memory, disk, save_lock, refresh_failures, orphans,
                   counters, history>>

-----------------------------------------------------------------------------
(* The WebUI handlers that act on an index they looked up by session id    *)

IndexOps == {"delete", "toggle", "refresh_account"}

BeginIndexed(p, op, s) ==
    /\ op \in IndexOps /\ Starts(p, op)
    /\ \E i \in DOMAIN accounts :
         /\ First(i, s)
         /\ task' = [task EXCEPT ![p] =
               [Idle EXCEPT !.op = op, !.at = "indexed", !.sid = s, !.idx = i,
                            !.acct = accounts[i]]]
    /\ UNCHANGED <<up, memory, disk, save_lock, refreshing, refresh_failures,
                   orphans, counters, history>>

\* Every index-taking operation first checks the bounds of its index.
IndexedAt(p, op) == task[p].op = op /\ task[p].at = "indexed"
InRange(p) == task[p].idx <= Len(accounts)

OutOfRange(p) ==
    /\ task[p].at \in {"indexed", "set_enable"} /\ ~InRange(p)
    /\ Finish(p)
    /\ UNCHANGED <<up, memory, disk, save_lock, refreshing, refresh_failures,
                   orphans, counters, history>>

\* Mutant: delete leaves the cursor alone.
Delete_KeepsCursor(p) ==
    /\ IndexedAt(p, "delete") /\ InRange(p)
    /\ accounts' = RemoveAt(accounts, task[p].idx)
    /\ SaveAfterShift(p, "delete")
    /\ UNCHANGED <<up, current_index, disk, save_lock, refreshing,
                   refresh_failures, orphans, counters, history>>

Delete(p) ==
    /\ IndexedAt(p, "delete") /\ InRange(p)
    /\ accounts' = RemoveAt(accounts, task[p].idx)
    /\ current_index' = IF current_index >= Len(accounts) - 1 THEN 0
                        ELSE current_index
    /\ SaveAfterShift(p, "delete")
    /\ UNCHANGED <<up, disk, save_lock, refreshing, refresh_failures, orphans,
                   counters, history>>

\* handle_toggle reads the flag of the account now at its index ...
ReadEnable(p) ==
    /\ IndexedAt(p, "toggle") /\ InRange(p)
    /\ task' = [task EXCEPT
          ![p].n = IF accounts[task[p].idx].enable THEN 0 ELSE 1,
          ![p].at = "set_enable"]
    /\ UNCHANGED <<up, memory, disk, save_lock, refreshing, refresh_failures,
                   orphans, counters, history>>

\* ... and set_enable writes the negation at that index.
SetEnable(p) ==
    /\ task[p].at = "set_enable" /\ InRange(p)
    /\ accounts' = [accounts EXCEPT ![task[p].idx].enable = (task[p].n = 1)]
    /\ ToSave(p, "toggle")
    /\ UNCHANGED <<up, current_index, disk, save_lock, refreshing,
                   refresh_failures, orphans, counters, history>>

\* refresh_account clones the account now at its index.
CloneAccount(p) ==
    /\ IndexedAt(p, "refresh_account") /\ InRange(p)
    /\ task' = [task EXCEPT ![p].acct = accounts[task[p].idx],
                            ![p].moved = FALSE, ![p].at = "oauth"]
    /\ UNCHANGED <<up, memory, disk, save_lock, refreshing, refresh_failures,
                   orphans, counters, history>>

-----------------------------------------------------------------------------
(* add, clear, update_project_id_by_session_id *)

\* Mutant: a new account goes to the front of the list.
Add_InFront(p, u, pid) ==
    /\ Starts(p, "add")
    /\ next_session <= MaxSession /\ issued < MaxToken
    /\ next_session' = next_session + 1
    /\ issued' = issued + 1
    /\ \A i \in DOMAIN accounts : accounts[i].user # u
    /\ Len(accounts) < MaxAccounts
    /\ accounts' = <<[user |-> u, session_id |-> next_session,
                      token |-> issued + 1, project_id |-> pid,
                      enable |-> TRUE]>> \o accounts
    /\ ToSave(p, "add")
    /\ UNCHANGED <<up, current_index, disk, save_lock, refreshing,
                   refresh_failures, orphans, faults, history>>

Add(p, u, pid) ==
    LET new == [user |-> u, session_id |-> next_session, token |-> issued + 1,
                project_id |-> pid, enable |-> TRUE]
    IN  /\ Starts(p, "add")
        /\ next_session <= MaxSession /\ issued < MaxToken
        /\ next_session' = next_session + 1
        /\ issued' = issued + 1
        /\ \/ \E i \in DOMAIN accounts :
                FirstOf(i, u) /\ accounts' = [accounts EXCEPT ![i] = new]
           \/ /\ \A i \in DOMAIN accounts : accounts[i].user # u
              /\ Len(accounts) < MaxAccounts
              /\ accounts' = Append(accounts, new)
        /\ ToSave(p, "add")
        /\ UNCHANGED <<up, current_index, disk, save_lock, refreshing,
                       refresh_failures, orphans, faults, history>>

Clear(p) ==
    /\ Starts(p, "clear")
    /\ accounts' = <<>>
    /\ current_index' = 0
    /\ SaveAfterShift(p, "clear")
    /\ UNCHANGED <<up, disk, save_lock, refreshing, refresh_failures, orphans,
                   counters, history>>

\* Only a real change is saved.
UpdateProjectId(p, s, pid) ==
    /\ Starts(p, "project_id")
    /\ pid # NoProject
    /\ \E i \in DOMAIN accounts :
         /\ First(i, s) /\ accounts[i].project_id # pid
         /\ accounts' = [accounts EXCEPT ![i].project_id = pid]
    /\ ToSave(p, "project_id")
    /\ UNCHANGED <<up, current_index, disk, save_lock, refreshing,
                   refresh_failures, orphans, counters, history>>

-----------------------------------------------------------------------------
(* refresh_all: a snapshot, one network call per account, one bulk write *)

RefreshAllOf(list) == [Idle EXCEPT !.op = "refresh_all", !.at = "oauth_all",
                                   !.list = list]

BeginRefreshAll(p) ==
    /\ Starts(p, "refresh_all")
    /\ task' = [task EXCEPT ![p] = RefreshAllOf(accounts)]
    /\ UNCHANGED <<up, memory, disk, save_lock, refreshing, refresh_failures,
                   orphans, counters, history>>

\* One account of the snapshot is refreshed (disabled ones too) or fails.
RefreshNext(p) ==
    LET t == task[p]
        i == t.n + 1
    IN  /\ t.at = "oauth_all" /\ t.n < Len(t.list)
        /\ \/ /\ issued < MaxToken
              /\ issued' = issued + 1
              /\ refresh_failures' =
                    [refresh_failures EXCEPT ![t.list[i].session_id] = 0]
              /\ task' = [task EXCEPT ![p].n = i,
                    ![p].list = [t.list EXCEPT ![i].token = issued + 1]]
           \/ /\ task' = [task EXCEPT ![p].n = i]
              /\ UNCHANGED <<issued, refresh_failures>>
        /\ UNCHANGED <<up, memory, disk, save_lock, refreshing, orphans,
                       next_session, faults, history>>

CommitRefreshAll(p) ==
    /\ task[p].at = "oauth_all" /\ task[p].n = Len(task[p].list)
    /\ accounts' = task[p].list
    /\ current_index' = 0
    /\ SaveAfterShift(p, "refresh_all")
    /\ UNCHANGED <<up, disk, save_lock, refreshing, refresh_failures, orphans,
                   counters, history>>

-----------------------------------------------------------------------------
(* get_token_excluding: at most len rounds, each moving the shared cursor.  *)
(* sid is the excluded session; 0-length exclusion is a session never used. *)

BeginPick(p, excl) ==
    /\ Starts(p, "get_token")
    /\ accounts # <<>>
    /\ task' = [task EXCEPT ![p] =
          [Idle EXCEPT !.op = "get_token", !.at = "pick", !.sid = excl,
                       !.n = Len(accounts)]]
    /\ UNCHANGED <<up, memory, disk, save_lock, refreshing, refresh_failures,
                   orphans, counters, history>>

Usable(a, excl) == a.enable /\ a.session_id # excl

Pick(p) ==
    LET t == task[p] IN
    /\ t.at = "pick" /\ accounts # <<>>
    /\ current_index' = (current_index + 1) % Len(accounts)
    /\ IF Usable(accounts[current_index + 1], t.sid) \/ t.n = 1
       THEN Finish(p)
       ELSE task' = [task EXCEPT ![p].n = t.n - 1]
    /\ UNCHANGED <<up, accounts, disk, save_lock, refreshing, refresh_failures,
                   orphans, counters, history>>

PickFromEmpty(p) ==
    /\ task[p].at = "pick" /\ accounts = <<>>
    /\ Finish(p)
    /\ UNCHANGED <<up, memory, disk, save_lock, refreshing, refresh_failures,
                   orphans, counters, history>>

-----------------------------------------------------------------------------
(* Start, restart, dropped futures *)

\* load() finds no file, cannot parse it or cannot read it: main() logs the
\* error and goes on with no account.
LoadNothing ==
    /\ up = "down"
    /\ \/ disk.kind # "ok" /\ faults' = faults
       \/ /\ disk.kind = "ok" /\ "read" \in Faults /\ faults < MaxFaults
          /\ faults' = faults + 1
    /\ accounts' = <<>> /\ current_index' = 0
    /\ up' = "serving"
    /\ behind' = (disk.kind # "none")
    /\ UNCHANGED <<disk, save_lock, refreshing, refresh_failures, task, orphans,
                   next_session, issued, dropped>>

\* load() gives every account a fresh session id; main() then awaits
\* refresh_all() if there is any account, before anything else is started.
Load ==
    LET n == Len(disk.list)
        loaded == [i \in 1..n |->
            [user |-> disk.list[i].user, session_id |-> next_session + i - 1,
             token |-> disk.list[i].token,
             project_id |-> disk.list[i].project_id,
             enable |-> disk.list[i].enable]]
    IN  /\ up = "down" /\ disk.kind = "ok"
        /\ next_session + n <= MaxSession + 1
        /\ next_session' = next_session + n
        /\ accounts' = loaded /\ current_index' = 0
        /\ behind' = FALSE
        /\ IF n = 0 THEN up' = "serving" /\ task' = task
           ELSE /\ up' = "boot"
                /\ task' = [task EXCEPT ![Main] = RefreshAllOf(loaded)]
        /\ UNCHANGED <<disk, save_lock, refreshing, refresh_failures, orphans,
                       issued, faults, dropped>>

Serve ==
    /\ up = "boot" /\ ~Busy(Main)
    /\ up' = "serving"
    /\ UNCHANGED <<memory, disk, save_lock, refreshing, refresh_failures, task,
                   orphans, counters, history>>

\* The process dies: only the file is left, and a write that was under way
\* may have happened, not happened, or left a truncated file.
Crash ==
    LET writes == orphans \cup {task[p].list : p \in {q \in Tasks : task[q].at = "write"}}
    IN  /\ up # "down"
        /\ "crash" \in Faults /\ faults < MaxFaults
        /\ faults' = faults + 1
        /\ disk' \in {disk} \cup {File(l) : l \in writes}
                            \cup (IF writes = {} THEN {} ELSE {Torn})
        /\ up' = "down"
        /\ accounts' = <<>> /\ current_index' = 0
        /\ save_lock' = NoTask
        /\ refreshing' = {}
        /\ refresh_failures' = [s \in Sessions |-> 0]
        /\ task' = [p \in Tasks |-> Idle]
        /\ orphans' = {}
        /\ behind' = FALSE /\ dropped' = FALSE
        /\ UNCHANGED <<next_session, issued>>

\* The client closes its connection: the handler's future is dropped where it
\* is suspended and its guards with it.  A file write already handed to the
\* blocking pool still runs, no longer under save_lock.
DropFuture(p) ==
    /\ up = "serving" /\ task[p].op \in Cancellable
    /\ orphans' = IF task[p].at = "write" THEN orphans \cup {task[p].list}
                  ELSE orphans
    /\ save_lock' = IF save_lock = p THEN NoTask ELSE save_lock
    /\ dropped' = TRUE
    /\ Finish(p)
    /\ UNCHANGED <<up, memory, disk, refreshing, refresh_failures, counters, behind>>

OrphanLands ==
    /\ \E l \in orphans : disk' = File(l) /\ orphans' = orphans \ {l}
    /\ UNCHANGED <<up, memory, save_lock, refreshing, refresh_failures, task,
                   counters, history>>

-----------------------------------------------------------------------------
(* Specification *)

Init ==
    /\ up = "down"
    /\ accounts = <<>> /\ current_index = 0
    /\ disk = NoFile \/ \E l \in SavedLists : disk = [kind |-> "ok", list |-> l]
    /\ save_lock = NoTask
    /\ refreshing = {}
    /\ refresh_failures = [s \in Sessions |-> 0]
    /\ task = [p \in Tasks |-> Idle]
    /\ orphans = {}
    /\ next_session = 1 /\ issued = 0 /\ faults = 0
    /\ behind = FALSE /\ dropped = FALSE

\* Operations the environment decides to start.
Begin(p) ==
    \/ \E s \in Sessions : BeginRefresh(p, s)
    \/ \E op \in IndexOps, s \in Sessions : BeginIndexed(p, op, s)
    \/ \E u \in Users, pid \in Projects : Add(p, u, pid)
    \/ \E s \in Sessions, pid \in Projects : UpdateProjectId(p, s, pid)
    \/ Clear(p)
    \/ BeginRefreshAll(p)
    \/ \E s \in Sessions : BeginPick(p, s)

\* Steps a started task takes on its own.
Step(p) ==
    \/ SnapshotForSave(p) \/ WriteAccounts(p)
    \/ FindSession(p) \/ ReplaceAccount(p) \/ RefreshFails(p)
    \/ DisableBySessionId(p) \/ ClearRefreshFailure(p) \/ ReleaseSession(p)
    \/ OutOfRange(p) \/ Delete(p) \/ ReadEnable(p) \/ SetEnable(p)
    \/ CloneAccount(p) \/ RefreshNext(p) \/ CommitRefreshAll(p)
    \/ Pick(p) \/ PickFromEmpty(p)

Next ==
    \/ \E p \in Tasks :
         Begin(p) \/ Step(p) \/ AcquireSaveLock(p) \/ WriteError(p) \/ DropFuture(p)
    \/ LoadNothing \/ Load \/ Serve \/ Crash \/ OrphanLands

Spec == Init /\ [][Next]_vars

\* Tasks are scheduled, OAuth calls answer or time out, and tokio's Mutex is
\* a FIFO queue: a waiter is not passed over for ever.
Fairness ==
    /\ \A p \in Tasks : WF_vars(Step(p)) /\ SF_vars(AcquireSaveLock(p))
    /\ WF_vars(LoadNothing) /\ WF_vars(Load) /\ WF_vars(Serve)

FairSpec == Spec /\ Fairness

-----------------------------------------------------------------------------
(* Properties *)

\* The cursor is a valid index whenever there is an account, so that the
\* unchecked state.accounts[idx] of get_token cannot panic, whatever deletions,
\* bulk replacements and restarts happen between two picks.
CursorInRange == accounts = <<>> \/ current_index < Len(accounts)

\* The guard set holds exactly the sessions of the refreshes under way and no
\* two of them are of one session: no early return of refresh_session leaks or
\* drops an entry.
GuardMatchesFlights ==
    /\ refreshing = {task[p].sid : p \in {q \in Tasks : InFlight(q)}}
    /\ \A p, q \in Tasks :
         InFlight(p) /\ InFlight(q) /\ task[p].sid = task[q].sid => p = q

\* save_lock is held exactly by the task between its snapshot and its write.
SaveLockHeld ==
    \A p \in Tasks : task[p].at \in {"read", "write"} <=> save_lock = p

Agrees(list) == IF disk.kind = "none" THEN list = <<>>
                ELSE disk.kind = "ok" /\ disk.list = Saved(list)

\* Serialised saves lose no update: once no operation still has a snapshot to
\* take, the file holds the account list (or the one write under way does),
\* unless a write has failed, the file was unreadable or a handler was dropped.
SavesLoseNothing ==
    (/\ up # "down" /\ ~behind /\ ~dropped
     /\ \A p \in Tasks : task[p].at \notin {"lock", "read"})
    => IF save_lock = NoTask THEN Agrees(accounts)
       ELSE task[save_lock].list = accounts

\* As long as no deletion, bulk replacement or stale overwrite came between,
\* the index a task holds across an await still belongs to the user it was
\* looked up for.
IndexStable ==
    \A p \in Tasks :
        task[p].at \in IndexSteps /\ ~task[p].moved =>
            /\ task[p].idx \in DOMAIN accounts
            /\ accounts[task[p].idx].user = task[p].acct.user

\* A refresh_session that was let in always gets out of the guard set, under
\* whatever the other tasks do, so that the session can be refreshed again.
FlightsEnd == \A s \in Sessions : s \in refreshing ~> s \notin refreshing

-----------------------------------------------------------------------------
(* What comments of the code promise and its interleavings do not keep *)

\* store.rs:334, refresh_session "refreshes the token of the specified
\* account": its write changes no other user's entry.
RefreshTouchesOnlyItsAccount ==
    [][\A p \in Tasks, i \in DOMAIN accounts :
         InFlight(p) /\ task[p].at = "oauth" /\ task'[p].at = "lock"
         /\ accounts'[i] # accounts[i]
         => accounts[i].user = task[p].acct.user]_vars

=============================================================================
