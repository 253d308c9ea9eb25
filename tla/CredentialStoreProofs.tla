----------------------- MODULE CredentialStoreProofs -----------------------
(* Theorems about CredentialStore, for every value of its constants. *)
EXTENDS CredentialStore, SequenceTheorems, TLAPS

-----------------------------------------------------------------------------
(* Lemmas about the operators of the model *)

\* Vec::remove: one element fewer, every remaining element was there before.
LEMMA RemoveAtType ==
    ASSUME NEW S, NEW s \in Seq(S), NEW i \in DOMAIN s
    PROVE  RemoveAt(s, i) \in Seq(S) /\ Len(RemoveAt(s, i)) = Len(s) - 1
<1>. DEFINE front == SubSeq(s, 1, i - 1)
            back  == SubSeq(s, i + 1, Len(s))
<1>1. i \in 1..Len(s) /\ Len(s) \in Nat
  OBVIOUS
<1>2. front \in Seq(S) /\ Len(front) = i - 1
  BY <1>1, SubSeqProperties
<1>3. back \in Seq(S) /\ Len(back) = Len(s) - i
  BY <1>1, SubSeqProperties
<1>4. RemoveAt(s, i) = front \o back
  BY DEF RemoveAt
<1>. HIDE DEF front, back
<1>5. front \o back \in Seq(S) /\ Len(front \o back) = (i - 1) + (Len(s) - i)
  BY <1>2, <1>3, ConcatProperties
<1>. QED
  BY <1>1, <1>4, <1>5

\* Only the saved fields reach the file, position by position.
LEMMA SavedType ==
    ASSUME NEW list \in Seq(Account)
    PROVE  Saved(list) \in Seq(SavedAccount) /\ Len(Saved(list)) = Len(list)
<1>1. DOMAIN list = 1..Len(list) /\ Len(list) \in Nat
  OBVIOUS
<1>2. \A i \in 1..Len(list) : list[i] \in Account
  BY ElementOfSeq
<1>6. \A a \in Account : Strip(a) \in SavedAccount
  BY DEF Strip, Account, SavedAccount
<1>3. Saved(list) \in [1..Len(list) -> SavedAccount]
  BY <1>1, <1>2, <1>6 DEF Saved
<1>4. Saved(list) \in Seq(SavedAccount)
  BY <1>1, <1>3
<1>5. Len(Saved(list)) = Len(list)
  BY <1>1, <1>4, <1>3, LenProperties DEF Saved
<1>. QED
  BY <1>4, <1>5


LEMMA IdleType == Idle \in Task
  BY ValuesAssumption, BoundsAssumption
     DEF Idle, Task, AllOps, Steps, IndexSteps, NoAccount, Sessions

\* The fields of a task, so that the actions need not unfold Task.
LEMMA TaskFields ==
    ASSUME NEW t \in Task
    PROVE  /\ t.op \in AllOps \cup {"none"} /\ t.at \in Steps
           /\ t.sid \in Sessions /\ t.idx \in Nat
           /\ t.acct \in Account \cup {NoAccount} /\ t.list \in Seq(Account)
           /\ t.n \in Nat /\ t.then \in {"idle", "clear_failure", "release"}
           /\ t.moved \in BOOLEAN
  BY DEF Task

LEMMA TaskUpdates ==
    ASSUME NEW t \in Task
    PROVE  /\ \A x \in AllOps : [t EXCEPT !.op = x] \in Task
           /\ \A x \in Steps : [t EXCEPT !.at = x] \in Task
           /\ \A x \in Sessions : [t EXCEPT !.sid = x] \in Task
           /\ \A x \in Nat : [t EXCEPT !.idx = x] \in Task
           /\ \A x \in Account : [t EXCEPT !.acct = x] \in Task
           /\ \A x \in Seq(Account) : [t EXCEPT !.list = x] \in Task
           /\ \A x \in Nat : [t EXCEPT !.n = x] \in Task
           /\ \A x \in {"idle", "clear_failure", "release"} :
                 [t EXCEPT !.then = x] \in Task
           /\ \A x \in BOOLEAN : [t EXCEPT !.moved = x] \in Task
<1>. DEFINE S == Seq(Account)
            A == Account
<1>1. Task = [op : AllOps \cup {"none"}, at : Steps, sid : Sessions, idx : Nat,
              acct : A \cup {NoAccount}, list : S, n : Nat,
              then : {"idle", "clear_failure", "release"}, moved : BOOLEAN]
  BY DEF Task
<1>. HIDE DEF S, A
<1>2. \A x \in AllOps : [t EXCEPT !.op = x] \in Task
  BY <1>1
<1>3. \A x \in Steps : [t EXCEPT !.at = x] \in Task
  BY <1>1
<1>4. \A x \in Sessions : [t EXCEPT !.sid = x] \in Task
  BY <1>1
<1>5. \A x \in Nat : [t EXCEPT !.idx = x] \in Task /\ [t EXCEPT !.n = x] \in Task
  BY <1>1
<1>6. \A x \in A : [t EXCEPT !.acct = x] \in Task
  BY <1>1
<1>7. \A x \in S : [t EXCEPT !.list = x] \in Task
  BY <1>1
<1>8. \A x \in {"idle", "clear_failure", "release"} : [t EXCEPT !.then = x] \in Task
  BY <1>1
<1>9. \A x \in BOOLEAN : [t EXCEPT !.moved = x] \in Task
  BY <1>1
<1>. QED
  BY <1>2, <1>3, <1>4, <1>5, <1>6, <1>7, <1>8, <1>9 DEF S, A

LEMMA SavingType ==
    ASSUME NEW t \in Task, NEW then \in {"idle", "clear_failure", "release"}
    PROVE  Saving(t, then) \in Task
  BY IdleType, TaskFields DEF Saving, Idle, Task, Steps

LEMMA LeavingType ==
    ASSUME NEW t \in Task, NEW step \in Steps
    PROVE  Leaving(t, step) \in Task
  BY IdleType, TaskFields DEF Leaving, Idle, Task

\* What BecomeAndShift does to each task.
LEMMA ShiftType ==
    ASSUME TypeOK, NEW p \in Tasks, NEW t \in Task, BecomeAndShift(p, t)
    PROVE  task' \in [Tasks -> Task]
<1>. SUFFICES ASSUME NEW q \in Tasks PROVE task'[q] \in Task
  BY DEF BecomeAndShift
<1>1. task[q] \in Task
  BY DEF TypeOK
<1>2. [task[q] EXCEPT !.moved = TRUE] \in Task
  BY <1>1, TaskUpdates
<1>. QED
  BY <1>1, <1>2 DEF BecomeAndShift

LEMMA FreshSavingType ==
    ASSUME NEW op \in AllOps
    PROVE  Saving([Idle EXCEPT !.op = op], "idle") \in Task
  BY IdleType, TaskUpdates, SavingType

-----------------------------------------------------------------------------
(* Type correctness *)

LEMMA TypeInit == Init => TypeOK
<1>. SUFFICES ASSUME Init PROVE TypeOK
  OBVIOUS
<1>1. task \in [Tasks -> Task]
  BY IdleType DEF Init
<1>2. accounts \in Seq(Account)
  BY DEF Init
<1>3. disk \in [kind : {"none", "torn", "ok"}, list : Seq(SavedAccount)]
  <2>1. CASE disk = NoFile
    BY <2>1 DEF NoFile
  <2>2. ASSUME NEW l \in SavedLists PROVE l \in Seq(SavedAccount)
    <3>1. PICK n \in 0..MaxAccounts : l \in
            [1..n -> [user : Users, token : {0}, project_id : Projects, enable : BOOLEAN]]
      BY SavedListsAssumption
    <3>2. [user : Users, token : {0}, project_id : Projects, enable : BOOLEAN]
            \subseteq SavedAccount
      BY BoundsAssumption DEF SavedAccount
    <3>3. l \in [1..n -> SavedAccount] /\ n \in Nat
      BY <3>1, <3>2, BoundsAssumption
    <3>. QED
      BY <3>3
  <2>. QED
    BY <2>1, <2>2 DEF Init
<1>4. refresh_failures \in [Sessions -> 0..CounterMax]
  BY BoundsAssumption DEF Init
<1>5. next_session \in Nat \ {0} /\ next_session <= MaxSession + 1
  BY BoundsAssumption DEF Init
<1>6. issued \in 0..MaxToken /\ faults \in Nat /\ current_index \in Nat
  BY BoundsAssumption DEF Init
<1>. QED
  BY <1>1, <1>2, <1>3, <1>4, <1>5, <1>6 DEF Init, TypeOK

-----------------------------------------------------------------------------
(* The inductive invariant *)

\* How the fields of one task depend on each other: a task at rest runs no
\* operation; only refresh_session visits the steps around the guard set, and
\* its saves return there; a step that uses an account has looked one up.
Shape(t) ==
    /\ t.at = "idle" => t.op = "none"
    /\ t.at \in {"find", "disable", "release"} => t.op = "refresh_session"
    /\ t.op = "refresh_session" =>
         t.at \in {"find", "oauth", "disable", "lock", "read", "write",
                   "clear_failure", "release"}
    /\ t.at \in {"lock", "read", "write"} =>
         /\ t.op = "refresh_session" => t.then # "idle"
         /\ t.then = "release" => t.op = "refresh_session"
    /\ t.at \in IndexSteps => t.acct \in Account /\ t.idx > 0
    /\ t.at = "pick" => t.n > 0

Shapes == \A p \in Tasks : Shape(task[p])

\* A cursor into an empty list is 0: a later add() makes it point at that account.
CursorReset == current_index < Len(accounts) \/ current_index = 0

\* Nothing runs before the process has started.
QuietWhenDown == up = "down" => \A p \in Tasks : ~Busy(p)

IInv == TypeOK /\ Shapes /\ CursorReset /\ QuietWhenDown

\* Changing one task to a well-formed one.
LEMMA OneTask ==
    ASSUME TypeOK, Shapes, NEW p \in Tasks, NEW t \in Task, Shape(t),
           task' = [task EXCEPT ![p] = t]
    PROVE  task' \in [Tasks -> Task] /\ Shapes'
<1>1. task' \in [Tasks -> Task]
  BY DEF TypeOK
<1>2. ASSUME NEW q \in Tasks PROVE Shape(task'[q])
  <2>1. CASE q = p
    BY <2>1 DEF TypeOK
  <2>2. CASE q # p
    BY <2>2 DEF TypeOK, Shapes
  <2>. QED
    BY <2>1, <2>2
<1>. QED
  BY <1>1, <1>2 DEF Shapes

\* Changing one task and marking the indices of the others.
LEMMA ShiftedTasks ==
    ASSUME TypeOK, Shapes, NEW p \in Tasks, NEW t \in Task, Shape(t),
           BecomeAndShift(p, t)
    PROVE  task' \in [Tasks -> Task] /\ Shapes'
<1>1. task' \in [Tasks -> Task]
  BY ShiftType
<1>2. ASSUME NEW q \in Tasks PROVE Shape(task'[q])
  <2>1. CASE q = p
    BY <2>1 DEF BecomeAndShift
  <2>2. CASE q # p /\ task[q].at \in IndexSteps
    <3>1. task'[q] = [task[q] EXCEPT !.moved = TRUE]
      BY <2>2 DEF BecomeAndShift
    <3>2. task[q] \in Task /\ Shape(task[q])
      BY DEF TypeOK, Shapes
    <3>3. /\ task'[q].op = task[q].op /\ task'[q].at = task[q].at
          /\ task'[q].then = task[q].then /\ task'[q].acct = task[q].acct
          /\ task'[q].n = task[q].n /\ task'[q].idx = task[q].idx
      BY <3>1, <3>2 DEF Task
    <3>. QED
      BY <3>2, <3>3 DEF Shape
  <2>3. CASE q # p /\ task[q].at \notin IndexSteps
    BY <2>3 DEF BecomeAndShift, Shapes
  <2>. QED
    BY <2>1, <2>2, <2>3
<1>. QED
  BY <1>1, <1>2 DEF Shapes

\* The tasks the helpers produce are well formed.
LEMMA IdleShape == Shape(Idle)
  BY DEF Shape, Idle, IndexSteps

LEMMA FreshSavingShape ==
    ASSUME NEW op \in AllOps, op # "refresh_session"
    PROVE  Shape(Saving([Idle EXCEPT !.op = op], "idle"))
  BY DEF Shape, Saving, Idle, IndexSteps

LEMMA SavingShape ==
    ASSUME NEW t \in Task, NEW then \in {"clear_failure", "release"},
           then = "release" => t.op = "refresh_session"
    PROVE  Shape(Saving(t, then))
  BY DEF Shape, Saving, Idle, IndexSteps

LEMMA LeavingShape ==
    ASSUME NEW t \in Task, t.op = "refresh_session", NEW step \in {"disable", "release"}
    PROVE  Shape(Leaving(t, step))
  BY DEF Shape, Leaving, Idle, IndexSteps

LEMMA Finishes ==
    ASSUME TypeOK, Shapes, NEW p \in Tasks, Finish(p)
    PROVE  task' \in [Tasks -> Task] /\ Shapes'
  BY IdleType, IdleShape, OneTask DEF Finish

LEMMA Leaves ==
    ASSUME TypeOK, Shapes, NEW p \in Tasks, InFlight(p),
           NEW step \in {"disable", "release"}, Leave(p, step)
    PROVE  task' \in [Tasks -> Task] /\ Shapes'
<1>1. task[p] \in Task
  BY DEF TypeOK
<1>2. Leaving(task[p], step) \in Task /\ Shape(Leaving(task[p], step))
  BY <1>1, LeavingType, LeavingShape DEF InFlight, Steps
<1>. QED
  BY <1>2, OneTask DEF Leave

LEMMA Returns ==
    ASSUME TypeOK, Shapes, NEW p \in Tasks, Return(p)
    PROVE  task' \in [Tasks -> Task] /\ Shapes'
  BY Finishes, Leaves DEF Return

LEMMA SavesOne ==
    ASSUME TypeOK, Shapes, NEW p \in Tasks, NEW op \in AllOps,
           op # "refresh_session", ToSave(p, op) \/ SaveAfterShift(p, op)
    PROVE  task' \in [Tasks -> Task] /\ Shapes'
  BY FreshSavingType, FreshSavingShape, OneTask, ShiftedTasks
     DEF ToSave, SaveAfterShift

-----------------------------------------------------------------------------
(* Every step preserves IInv *)

\* A task that has something left to do runs in a live process.
LEMMA BusyMeansUp ==
    ASSUME QuietWhenDown, NEW p \in Tasks, task[p].at # "idle"
    PROVE  up # "down"
  BY DEF QuietWhenDown, Busy

\* The steps of save().
LEMMA SaveSteps ==
    ASSUME IInv, NEW p \in Tasks,
           AcquireSaveLock(p) \/ SnapshotForSave(p) \/ WriteAccounts(p) \/ WriteError(p)
    PROVE  IInv'
<1>. DEFINE t == task[p]
<1>a. TypeOK /\ Shapes /\ CursorReset /\ QuietWhenDown
  BY DEF IInv
<1>b. t \in Task /\ Shape(t)
  BY <1>a DEF TypeOK, Shapes
<1>c. up # "down" /\ up' = up /\ UNCHANGED memory
  BY <1>a, BusyMeansUp
     DEF AcquireSaveLock, SnapshotForSave, WriteAccounts, WriteError
<1>d. CursorReset' /\ QuietWhenDown'
  BY <1>a, <1>c DEF CursorReset, QuietWhenDown, memory
<1>1. CASE AcquireSaveLock(p)
  <2>. DEFINE u == [t EXCEPT !.at = "read"]
  <2>1. u \in Task
    BY <1>b, TaskUpdates DEF Steps
  <2>2. Shape(u)
    BY <1>1, <1>b DEF AcquireSaveLock, Shape, IndexSteps, Task
  <2>3. task' = [task EXCEPT ![p] = u]
    BY <1>1 DEF AcquireSaveLock, Goto
  <2>. HIDE DEF u
  <2>4. task' \in [Tasks -> Task] /\ Shapes'
    BY <1>a, <2>1, <2>2, <2>3, OneTask
  <2>. QED
    BY <1>1, <1>a, <1>d, <2>4
       DEF AcquireSaveLock, IInv, TypeOK, memory, counters, history
<1>2. CASE SnapshotForSave(p)
  <2>. DEFINE u == [[t EXCEPT !.list = accounts] EXCEPT !.at = "write"]
  <2>1. u \in Task
    BY <1>a, <1>b, TaskUpdates DEF TypeOK, Steps
  <2>2. Shape(u)
    BY <1>2, <1>b DEF SnapshotForSave, Shape, IndexSteps, Task
  <2>3. task' = [task EXCEPT ![p] = u]
    BY <1>2 DEF SnapshotForSave
  <2>. HIDE DEF u
  <2>4. task' \in [Tasks -> Task] /\ Shapes'
    BY <1>a, <2>1, <2>2, <2>3, OneTask
  <2>. QED
    BY <1>2, <1>a, <1>d, <2>4
       DEF SnapshotForSave, IInv, TypeOK, memory, counters, history
<1>3. CASE WriteAccounts(p)
  <2>1. File(t.list) \in [kind : {"none", "torn", "ok"}, list : Seq(SavedAccount)]
    BY <1>b, TaskFields, SavedType DEF File
  <2>2. ASSUME t.then = "idle" PROVE task' \in [Tasks -> Task] /\ Shapes'
    <3>1. Finish(p)
      BY <1>3, <2>2 DEF WriteAccounts
    <3>. QED
      BY <1>a, <3>1, Finishes
  <2>3. ASSUME t.then # "idle" PROVE task' \in [Tasks -> Task] /\ Shapes'
    <3>. DEFINE e == [t EXCEPT !.list = <<>>]
                u == [e EXCEPT !.at = t.then]
    <3>1. t.then \in {"clear_failure", "release"} /\ t.then \in Steps
      BY <1>b, <2>3, TaskFields DEF Steps
    <3>2. <<>> \in Seq(Account)
      OBVIOUS
    <3>3. e \in Task
      BY <1>b, <3>2, TaskUpdates
    <3>4. u \in Task
      BY <3>1, <3>3, TaskUpdates
    <3>5. Shape(u)
      BY <1>3, <1>b, <3>1 DEF WriteAccounts, Shape, IndexSteps, Task
    <3>6. task' = [task EXCEPT ![p] = u]
      BY <1>3, <2>3 DEF WriteAccounts
    <3>. HIDE DEF u
    <3>. QED
      BY <1>a, <3>4, <3>5, <3>6, OneTask
  <2>4. task' \in [Tasks -> Task] /\ Shapes'
    BY <2>2, <2>3
  <2>. QED
    BY <1>3, <1>a, <1>d, <2>1, <2>4
       DEF WriteAccounts, IInv, TypeOK, memory, counters
<1>4. CASE WriteError(p)
  <2>1. Torn \in [kind : {"none", "torn", "ok"}, list : Seq(SavedAccount)]
    BY DEF Torn
  <2>2. ASSUME InFlight(p) PROVE task' \in [Tasks -> Task] /\ Shapes'
    <3>. DEFINE e == [t EXCEPT !.list = <<>>]
                u == [e EXCEPT !.at = "release"]
    <3>1. <<>> \in Seq(Account) /\ "release" \in Steps
      BY DEF Steps
    <3>2. e \in Task
      BY <1>b, <3>1, TaskUpdates
    <3>3. u \in Task
      BY <3>1, <3>2, TaskUpdates
    <3>4. Shape(u)
      BY <1>4, <1>b, <2>2 DEF InFlight, Shape, IndexSteps, Task
    <3>5. task' = [task EXCEPT ![p] = u]
      BY <1>4, <2>2 DEF WriteError
    <3>. HIDE DEF u
    <3>. QED
      BY <1>a, <3>3, <3>4, <3>5, OneTask
  <2>3. ASSUME ~InFlight(p) PROVE task' \in [Tasks -> Task] /\ Shapes'
    <3>1. Finish(p)
      BY <1>4, <2>3 DEF WriteError
    <3>. QED
      BY <1>a, <3>1, Finishes
  <2>4. task' \in [Tasks -> Task] /\ Shapes'
    BY <2>2, <2>3
  <2>. QED
    BY <1>4, <1>a, <1>d, <2>1, <2>4 DEF WriteError, IInv, TypeOK, memory
<1>. QED
  BY <1>1, <1>2, <1>3, <1>4

\* What every operation needs to know about the task that takes the step.
LEMMA TaskFacts ==
    ASSUME IInv, NEW p \in Tasks
    PROVE  /\ TypeOK /\ Shapes /\ CursorReset /\ QuietWhenDown
           /\ task[p] \in Task /\ Shape(task[p])
  BY DEF IInv, TypeOK, Shapes

\* A live process stays quiet-when-down, whatever its tasks do.
LEMMA StaysQuiet ==
    ASSUME up # "down", up' = up
    PROVE  QuietWhenDown'
  BY DEF QuietWhenDown

\* A looked-up account is an account.
LEMMA AccountAt ==
    ASSUME TypeOK, NEW i \in DOMAIN accounts
    PROVE  /\ accounts[i] \in Account /\ i \in Nat /\ i > 0
           /\ \A a \in Account : [accounts EXCEPT ![i] = a] \in Seq(Account)
           /\ \A a \in Account : Len([accounts EXCEPT ![i] = a]) = Len(accounts)
<1>1. accounts \in Seq(Account)
  BY DEF TypeOK
<1>2. i \in 1..Len(accounts) /\ Len(accounts) \in Nat
  BY <1>1
<1>. QED
  BY <1>1, <1>2

\* A started operation that keeps an account with its index.
LEMMA LooksUp ==
    ASSUME TypeOK, Shapes, NEW p \in Tasks, NEW t \in Task,
           NEW i \in DOMAIN accounts, NEW step \in IndexSteps,
           t.op = "refresh_session" => step = "oauth",
           task' = [task EXCEPT ![p] =
              [t EXCEPT !.idx = i, !.acct = accounts[i], !.at = step]]
    PROVE  task' \in [Tasks -> Task] /\ Shapes'
<1>. DEFINE u1 == [t EXCEPT !.idx = i]
            u2 == [u1 EXCEPT !.acct = accounts[i]]
            u  == [u2 EXCEPT !.at = step]
<1>1. accounts[i] \in Account /\ i \in Nat /\ i > 0 /\ step \in Steps
  BY AccountAt DEF Steps
<1>2. u1 \in Task
  BY <1>1, TaskUpdates
<1>3. u2 \in Task
  BY <1>1, <1>2, TaskUpdates
<1>4. u \in Task
  BY <1>1, <1>3, TaskUpdates
<1>5. Shape(u)
  BY <1>1 DEF Shape, IndexSteps, Task
<1>6. task' = [task EXCEPT ![p] = u]
  OBVIOUS
<1>. HIDE DEF u
<1>. QED
  BY <1>4, <1>5, <1>6, OneTask

\* Moving one task to another step.
LEMMA Goes ==
    ASSUME TypeOK, Shapes, NEW p \in Tasks, NEW step \in Steps, Goto(p, step),
           Shape([task[p] EXCEPT !.at = step])
    PROVE  task' \in [Tasks -> Task] /\ Shapes'
<1>1. task[p] \in Task
  BY DEF TypeOK
<1>. DEFINE u == [task[p] EXCEPT !.at = step]
<1>2. u \in Task
  BY <1>1, TaskUpdates
<1>3. task' = [task EXCEPT ![p] = u] /\ Shape(u)
  BY DEF Goto
<1>. HIDE DEF u
<1>. QED
  BY <1>2, <1>3, OneTask

LEMMA GoesToRelease ==
    ASSUME TypeOK, Shapes, NEW p \in Tasks, InFlight(p), Goto(p, "release")
    PROVE  task' \in [Tasks -> Task] /\ Shapes'
<1>1. task[p] \in Task /\ "release" \in Steps
  BY DEF TypeOK, Steps
<1>2. Shape([task[p] EXCEPT !.at = "release"])
  BY <1>1 DEF InFlight, Shape, IndexSteps, Task
<1>. QED
  BY <1>1, <1>2, Goes

LEMMA BeginRefreshStep ==
    ASSUME IInv, NEW p \in Tasks, NEW s \in Sessions, BeginRefresh(p, s)
    PROVE  IInv'
<1>. DEFINE u1 == [Idle EXCEPT !.op = "refresh_session"]
            u2 == [u1 EXCEPT !.at = "find"]
            u  == [u2 EXCEPT !.sid = s]
<1>1. TypeOK /\ Shapes /\ CursorReset /\ QuietWhenDown
  BY TaskFacts
<1>2. u1 \in Task
  BY IdleType, TaskUpdates DEF AllOps
<1>3. u2 \in Task
  BY <1>2, TaskUpdates DEF Steps
<1>4. u \in Task
  BY <1>3, TaskUpdates
<1>5. Shape(u)
  BY DEF Shape, Idle, IndexSteps
<1>6. task' = [task EXCEPT ![p] = u]
  BY DEF BeginRefresh
<1>. HIDE DEF u
<1>7. task' \in [Tasks -> Task] /\ Shapes'
  BY <1>1, <1>4, <1>5, <1>6, OneTask
<1>8. CursorReset' /\ QuietWhenDown'
  BY <1>1 DEF BeginRefresh, Starts, memory, CursorReset, QuietWhenDown
<1>. QED
  BY <1>1, <1>7, <1>8 DEF BeginRefresh, IInv, TypeOK, memory, counters, history

LEMMA FindSessionStep ==
    ASSUME IInv, NEW p \in Tasks, FindSession(p)
    PROVE  IInv'
<1>1. TypeOK /\ Shapes /\ CursorReset /\ QuietWhenDown /\ task[p] \in Task
  BY TaskFacts
<1>2. ASSUME Goto(p, "release") PROVE task' \in [Tasks -> Task] /\ Shapes'
  BY <1>1, <1>2, GoesToRelease DEF FindSession
<1>3. ASSUME NEW i \in DOMAIN accounts,
             task' = [task EXCEPT ![p].idx = i, ![p].acct = accounts[i],
                                  ![p].at = "oauth"]
      PROVE  task' \in [Tasks -> Task] /\ Shapes'
  <2>1. task' = [task EXCEPT ![p] =
            [task[p] EXCEPT !.idx = i, !.acct = accounts[i], !.at = "oauth"]]
    BY <1>3
  <2>. QED
    BY <1>1, <2>1, LooksUp DEF IndexSteps
<1>4. task' \in [Tasks -> Task] /\ Shapes'
  BY <1>2, <1>3 DEF FindSession
<1>5. CursorReset' /\ QuietWhenDown'
  BY <1>1, BusyMeansUp, StaysQuiet DEF FindSession, memory, CursorReset
<1>. QED
  BY <1>1, <1>4, <1>5 DEF FindSession, IInv, TypeOK, memory, counters, history

\* Overwriting a position keeps the list's type and length, wherever it points.
LEMMA OverwriteType ==
    ASSUME NEW list \in Seq(Account), NEW i, NEW a \in Account
    PROVE  /\ [list EXCEPT ![i] = a] \in Seq(Account)
           /\ Len([list EXCEPT ![i] = a]) = Len(list)
<1>1. Len(list) \in Nat /\ list \in [1..Len(list) -> Account]
  OBVIOUS
<1>2. [list EXCEPT ![i] = a] \in [1..Len(list) -> Account]
  BY <1>1
<1>. QED
  BY <1>1, <1>2

\* A step that keeps the length of the list and the cursor keeps CursorReset.
LEMMA SameLength ==
    ASSUME CursorReset, current_index' = current_index, Len(accounts') = Len(accounts)
    PROVE  CursorReset'
  BY DEF CursorReset

LEMMA ReplaceAccountStep ==
    ASSUME IInv, NEW p \in Tasks, ReplaceAccount(p)
    PROVE  IInv'
<1>. DEFINE t == task[p]
            fresh == [t.acct EXCEPT !.token = issued + 1]
            stale == t.idx <= Len(accounts) /\ accounts[t.idx].user # fresh.user
            next == [Saving(t, "clear_failure") EXCEPT !.acct = fresh]
<1>1. TypeOK /\ Shapes /\ CursorReset /\ QuietWhenDown /\ t \in Task /\ Shape(t)
  BY TaskFacts
<1>2. t.at = "oauth" /\ issued + 1 \in 0..MaxToken
  BY <1>1, BoundsAssumption, SMTT(30) DEF ReplaceAccount, TypeOK
<1>3. t.acct \in Account
  BY <1>1, <1>2 DEF Shape, IndexSteps
<1>4. fresh \in Account
  BY <1>2, <1>3 DEF Account
<1>5. Saving(t, "clear_failure") \in Task
  BY <1>1, SavingType
<1>6. next \in Task
  BY <1>4, <1>5, TaskUpdates
<1>7. Shape(next)
  BY DEF Shape, Saving, Idle, IndexSteps
<1>. HIDE DEF next, fresh
<1>8. ASSUME t.idx <= Len(accounts)
      PROVE  /\ task' \in [Tasks -> Task] /\ Shapes'
             /\ accounts' \in Seq(Account) /\ Len(accounts') = Len(accounts)
  <2>1. accounts' = [accounts EXCEPT ![t.idx] = fresh]
    BY <1>8 DEF ReplaceAccount, fresh
  <2>2. BecomeAndShift(p, next) \/ task' = [task EXCEPT ![p] = next]
    BY <1>8 DEF ReplaceAccount, next, fresh
  <2>3. task' \in [Tasks -> Task] /\ Shapes'
    BY <1>1, <1>6, <1>7, <2>2, OneTask, ShiftedTasks
  <2>4. accounts' \in Seq(Account) /\ Len(accounts') = Len(accounts)
    BY <1>1, <1>4, <2>1, OverwriteType DEF TypeOK
  <2>. QED
    BY <2>3, <2>4
<1>9. ASSUME ~(t.idx <= Len(accounts))
      PROVE  /\ task' \in [Tasks -> Task] /\ Shapes'
             /\ accounts' \in Seq(Account) /\ Len(accounts') = Len(accounts)
  <2>1. accounts' = accounts /\ Return(p)
    BY <1>9 DEF ReplaceAccount
  <2>. QED
    BY <1>1, <2>1, Returns DEF TypeOK
<1>10. /\ task' \in [Tasks -> Task] /\ Shapes'
      /\ accounts' \in Seq(Account) /\ Len(accounts') = Len(accounts)
  BY <1>8, <1>9
<1>11. UNCHANGED <<up, current_index, disk, save_lock, refreshing, refresh_failures,
                   orphans, next_session, faults, history>> /\ issued' = issued + 1
  BY DEF ReplaceAccount
<1>12. CursorReset' /\ QuietWhenDown'
  BY <1>1, <1>2, <1>10, <1>11, SameLength, BusyMeansUp, StaysQuiet
<1>. QED
  BY <1>1, <1>2, <1>10, <1>11, <1>12 DEF IInv, TypeOK, history

LEMMA RefreshFailsStep ==
    ASSUME IInv, NEW p \in Tasks, RefreshFails(p)
    PROVE  IInv'
<1>. DEFINE t == task[p]
            count == IF refresh_failures[t.sid] = CounterMax
                     THEN CounterMax ELSE refresh_failures[t.sid] + 1
            step == IF count >= MAX_REFRESH_FAILURES THEN "disable" ELSE "release"
<1>1. TypeOK /\ Shapes /\ CursorReset /\ QuietWhenDown /\ t \in Task /\ Shape(t)
  BY TaskFacts
<1>2. t.at = "oauth" /\ UNCHANGED <<up, accounts, current_index, disk, save_lock,
                                    refreshing, orphans, counters, history>>
  BY DEF RefreshFails, memory
<1>3. ASSUME InFlight(p)
      PROVE  /\ task' \in [Tasks -> Task] /\ Shapes'
             /\ refresh_failures' \in [Sessions -> 0..CounterMax]
  <2>1. Leave(p, step) /\ step \in {"disable", "release"}
    BY <1>3 DEF RefreshFails
  <2>2. t.sid \in Sessions
    BY <1>1, TaskFields
  <2>3. refresh_failures[t.sid] \in 0..CounterMax
    BY <1>1, <2>2 DEF TypeOK
  <2>4. count \in 0..CounterMax
    BY <2>3, BoundsAssumption
  <2>5. refresh_failures' = [refresh_failures EXCEPT ![t.sid] = count]
    BY <1>3 DEF RefreshFails
  <2>. HIDE DEF step, count
  <2>6. task' \in [Tasks -> Task] /\ Shapes'
    BY <1>1, <1>3, <2>1, Leaves
  <2>. QED
    BY <1>1, <2>4, <2>5, <2>6 DEF TypeOK
<1>4. ASSUME ~InFlight(p)
      PROVE  /\ task' \in [Tasks -> Task] /\ Shapes'
             /\ refresh_failures' \in [Sessions -> 0..CounterMax]
  <2>1. Finish(p) /\ refresh_failures' = refresh_failures
    BY <1>4 DEF RefreshFails
  <2>. QED
    BY <1>1, <2>1, Finishes DEF TypeOK
<1>5. CursorReset' /\ QuietWhenDown'
  BY <1>1, <1>2, BusyMeansUp, StaysQuiet DEF CursorReset
<1>. QED
  BY <1>1, <1>2, <1>3, <1>4, <1>5 DEF IInv, TypeOK, counters, history

LEMMA DisableStep ==
    ASSUME IInv, NEW p \in Tasks, DisableBySessionId(p)
    PROVE  IInv'
<1>. DEFINE t == task[p]
<1>1. TypeOK /\ Shapes /\ CursorReset /\ QuietWhenDown /\ t \in Task /\ Shape(t)
  BY TaskFacts
<1>2. t.at = "disable" /\ UNCHANGED <<up, current_index, disk, save_lock,
            refreshing, refresh_failures, orphans, counters, history>>
  BY DEF DisableBySessionId
<1>3. t.op = "refresh_session"
  BY <1>1, <1>2 DEF Shape
<1>4. ASSUME NEW i \in DOMAIN accounts,
             accounts' = [accounts EXCEPT ![i].enable = FALSE],
             task' = [task EXCEPT ![p] = Saving(t, "release")]
      PROVE  /\ task' \in [Tasks -> Task] /\ Shapes'
             /\ accounts' \in Seq(Account) /\ Len(accounts') = Len(accounts)
  <2>1. Saving(t, "release") \in Task /\ Shape(Saving(t, "release"))
    BY <1>1, <1>3, SavingType, SavingShape
  <2>2. accounts[i] \in Account
    BY <1>1, AccountAt
  <2>3. [accounts[i] EXCEPT !.enable = FALSE] \in Account
    BY <2>2 DEF Account
  <2>. QED
    BY <1>1, <1>4, <2>1, <2>3, OneTask, OverwriteType DEF TypeOK
<1>5. ASSUME accounts' = accounts, Goto(p, "release")
      PROVE  /\ task' \in [Tasks -> Task] /\ Shapes'
             /\ accounts' \in Seq(Account) /\ Len(accounts') = Len(accounts)
  BY <1>1, <1>3, <1>5, GoesToRelease DEF InFlight, TypeOK
<1>6. /\ task' \in [Tasks -> Task] /\ Shapes'
      /\ accounts' \in Seq(Account) /\ Len(accounts') = Len(accounts)
  BY <1>4, <1>5 DEF DisableBySessionId
<1>7. CursorReset' /\ QuietWhenDown'
  BY <1>1, <1>2, <1>6, SameLength, BusyMeansUp, StaysQuiet
<1>. QED
  BY <1>1, <1>2, <1>6, <1>7 DEF IInv, TypeOK, counters, history

LEMMA ClearRefreshFailureStep ==
    ASSUME IInv, NEW p \in Tasks, ClearRefreshFailure(p)
    PROVE  IInv'
<1>1. TypeOK /\ Shapes /\ CursorReset /\ QuietWhenDown
  BY TaskFacts
<1>2. task' \in [Tasks -> Task] /\ Shapes'
  BY <1>1, Returns DEF ClearRefreshFailure
<1>3. refresh_failures' \in [Sessions -> 0..CounterMax]
  <2>1. 0 \in 0..CounterMax
    BY BoundsAssumption
  <2>2. refresh_failures \in [Sessions -> 0..CounterMax]
    BY <1>1 DEF TypeOK
  <2>3. refresh_failures' = [refresh_failures EXCEPT ![task[p].acct.session_id] = 0]
    BY DEF ClearRefreshFailure
  <2>. QED
    BY <2>1, <2>2, <2>3
<1>4. CursorReset' /\ QuietWhenDown'
  BY <1>1, BusyMeansUp, StaysQuiet DEF ClearRefreshFailure, memory, CursorReset
<1>. QED
  BY <1>1, <1>2, <1>3, <1>4
     DEF ClearRefreshFailure, IInv, TypeOK, memory, counters, history

\* Steps that end an operation: guard-set release, a stale index, an empty list.
LEMMA FinishSteps ==
    ASSUME IInv, NEW p \in Tasks,
           ReleaseSession(p) \/ OutOfRange(p) \/ PickFromEmpty(p)
    PROVE  IInv'
<1>1. TypeOK /\ Shapes /\ CursorReset /\ QuietWhenDown
  BY TaskFacts
<1>2. Finish(p) /\ task[p].at # "idle"
  BY DEF ReleaseSession, OutOfRange, PickFromEmpty
<1>3. task' \in [Tasks -> Task] /\ Shapes'
  BY <1>1, <1>2, Finishes
<1>4. /\ refreshing' \subseteq refreshing
      /\ UNCHANGED <<up, accounts, current_index, disk, save_lock,
                     refresh_failures, orphans, counters, history>>
  BY DEF ReleaseSession, OutOfRange, PickFromEmpty, memory
<1>5. CursorReset' /\ QuietWhenDown'
  BY <1>1, <1>2, <1>4, BusyMeansUp, StaysQuiet DEF CursorReset
<1>. QED
  BY <1>1, <1>3, <1>4, <1>5 DEF IInv, TypeOK, counters, history

\* A fresh task for an operation.
LEMMA StartedType ==
    ASSUME NEW op \in AllOps, NEW step \in Steps, NEW s \in Sessions
    PROVE  [Idle EXCEPT !.op = op, !.at = step, !.sid = s] \in Task
<1>. DEFINE u1 == [Idle EXCEPT !.op = op]
            u2 == [u1 EXCEPT !.at = step]
<1>1. u1 \in Task
  BY IdleType, TaskUpdates
<1>2. u2 \in Task
  BY <1>1, TaskUpdates
<1>3. [u2 EXCEPT !.sid = s] \in Task
  BY <1>2, TaskUpdates
<1>. QED
  BY <1>3

LEMMA BeginIndexedStep ==
    ASSUME IInv, NEW p \in Tasks, NEW op \in IndexOps, NEW s \in Sessions,
           BeginIndexed(p, op, s)
    PROVE  IInv'
<1>1. TypeOK /\ Shapes /\ CursorReset /\ QuietWhenDown
  BY TaskFacts
<1>2. up = "serving" /\ UNCHANGED <<up, accounts, current_index, disk, save_lock,
            refreshing, refresh_failures, orphans, counters, history>>
  BY DEF BeginIndexed, Starts, memory
<1>3. PICK i \in DOMAIN accounts : task' = [task EXCEPT ![p] =
               [Idle EXCEPT !.op = op, !.at = "indexed", !.sid = s, !.idx = i,
                            !.acct = accounts[i]]]
  BY DEF BeginIndexed
<1>. DEFINE u1 == [Idle EXCEPT !.op = op, !.at = "indexed", !.sid = s]
            u2 == [u1 EXCEPT !.idx = i]
            u  == [u2 EXCEPT !.acct = accounts[i]]
<1>4. accounts[i] \in Account /\ i \in Nat /\ i > 0
  BY <1>1, AccountAt
<1>5. u1 \in Task
  BY StartedType DEF IndexOps, AllOps, Steps, IndexSteps
<1>6. u2 \in Task
  BY <1>4, <1>5, TaskUpdates
<1>7. u \in Task
  BY <1>4, <1>6, TaskUpdates
<1>8. Shape(u)
  BY <1>4 DEF Shape, Idle, IndexOps, IndexSteps
<1>9. task' = [task EXCEPT ![p] = u]
  BY <1>3
<1>. HIDE DEF u
<1>10. task' \in [Tasks -> Task] /\ Shapes'
  BY <1>1, <1>7, <1>8, <1>9, OneTask
<1>11. CursorReset' /\ QuietWhenDown'
  BY <1>1, <1>2, StaysQuiet DEF CursorReset
<1>. QED
  BY <1>1, <1>2, <1>10, <1>11 DEF IInv, TypeOK, counters, history

\* The cursor arithmetic of delete: the only step that shortens the list by one.
LEMMA DeleteStep ==
    ASSUME IInv, NEW p \in Tasks, Delete(p)
    PROVE  IInv'
<1>1. TypeOK /\ Shapes /\ CursorReset /\ QuietWhenDown
      /\ task[p] \in Task /\ Shape(task[p])
  BY TaskFacts
<1>2. task[p].at = "indexed" /\ UNCHANGED <<up, disk, save_lock, refreshing,
            refresh_failures, orphans, counters, history>>
  BY DEF Delete, IndexedAt
<1>3. task' \in [Tasks -> Task] /\ Shapes'
  BY <1>1, SavesOne DEF Delete, AllOps
<1>4. accounts \in Seq(Account) /\ Len(accounts) \in Nat /\ current_index \in Nat
  BY <1>1 DEF TypeOK
<1>5. accounts' = RemoveAt(accounts, task[p].idx) /\ task[p].idx <= Len(accounts)
  BY DEF Delete, InRange
<1>6. current_index' = IF current_index >= Len(accounts) - 1 THEN 0 ELSE current_index
  BY DEF Delete
<1>7. task[p].idx \in DOMAIN accounts
  BY <1>1, <1>2, <1>4, <1>5, TaskFields DEF Shape, IndexSteps
<1>8. accounts' \in Seq(Account) /\ Len(accounts') = Len(accounts) - 1
  BY <1>4, <1>5, <1>7, RemoveAtType
<1>9. current_index' \in Nat /\ CursorReset'
  BY <1>4, <1>6, <1>7, <1>8 DEF CursorReset
<1>. QED
  BY <1>1, <1>2, <1>3, <1>8, <1>9, BusyMeansUp, StaysQuiet
     DEF IInv, TypeOK, counters, history

LEMMA ReadEnableStep ==
    ASSUME IInv, NEW p \in Tasks, ReadEnable(p)
    PROVE  IInv'
<1>. DEFINE t == task[p]
            v == IF accounts[t.idx].enable THEN 0 ELSE 1
            u1 == [t EXCEPT !.n = v]
            u == [u1 EXCEPT !.at = "set_enable"]
<1>1. TypeOK /\ Shapes /\ CursorReset /\ QuietWhenDown /\ t \in Task /\ Shape(t)
  BY TaskFacts
<1>2. t.at = "indexed" /\ t.op = "toggle" /\ UNCHANGED <<up, accounts, current_index,
         disk, save_lock, refreshing, refresh_failures, orphans, counters, history>>
  BY DEF ReadEnable, IndexedAt, memory
<1>3. u1 \in Task
  BY <1>1, TaskUpdates
<1>4. u \in Task
  BY <1>3, TaskUpdates DEF Steps, IndexSteps
<1>5. Shape(u)
  BY <1>1, <1>2 DEF Shape, IndexSteps, Task
<1>6. task' = [task EXCEPT ![p] = u]
  BY DEF ReadEnable
<1>. HIDE DEF u
<1>7. task' \in [Tasks -> Task] /\ Shapes'
  BY <1>1, <1>4, <1>5, <1>6, OneTask
<1>8. CursorReset' /\ QuietWhenDown'
  BY <1>1, <1>2, BusyMeansUp, StaysQuiet DEF CursorReset
<1>. QED
  BY <1>1, <1>2, <1>7, <1>8 DEF IInv, TypeOK, counters, history

LEMMA SetEnableStep ==
    ASSUME IInv, NEW p \in Tasks, SetEnable(p)
    PROVE  IInv'
<1>. DEFINE t == task[p]
            a == [accounts[t.idx] EXCEPT !.enable = (t.n = 1)]
<1>1. TypeOK /\ Shapes /\ CursorReset /\ QuietWhenDown /\ t \in Task /\ Shape(t)
  BY TaskFacts
<1>2. t.at = "set_enable" /\ t.idx <= Len(accounts)
      /\ UNCHANGED <<up, current_index, disk, save_lock, refreshing,
                     refresh_failures, orphans, counters, history>>
  BY DEF SetEnable, InRange
<1>3. accounts \in Seq(Account) /\ Len(accounts) \in Nat
  BY <1>1 DEF TypeOK
<1>4. t.idx \in DOMAIN accounts
  BY <1>1, <1>2, <1>3, TaskFields DEF Shape, IndexSteps
<1>5. accounts[t.idx] \in Account
  BY <1>1, <1>4, AccountAt
<1>6. a \in Account
  BY <1>5 DEF Account
<1>7. accounts' = [accounts EXCEPT ![t.idx] = a]
  BY DEF SetEnable
<1>8. accounts' \in Seq(Account) /\ Len(accounts') = Len(accounts)
  BY <1>3, <1>6, <1>7, OverwriteType, ZenonT(60)
<1>9. task' \in [Tasks -> Task] /\ Shapes'
  BY <1>1, SavesOne DEF SetEnable, AllOps
<1>10. CursorReset' /\ QuietWhenDown'
  BY <1>1, <1>2, <1>8, SameLength, BusyMeansUp, StaysQuiet
<1>. QED
  BY <1>1, <1>2, <1>8, <1>9, <1>10 DEF IInv, TypeOK, counters, history

LEMMA CloneAccountStep ==
    ASSUME IInv, NEW p \in Tasks, CloneAccount(p)
    PROVE  IInv'
<1>. DEFINE t == task[p]
            u1 == [t EXCEPT !.acct = accounts[t.idx]]
            u2 == [u1 EXCEPT !.moved = FALSE]
            u == [u2 EXCEPT !.at = "oauth"]
<1>1. TypeOK /\ Shapes /\ CursorReset /\ QuietWhenDown /\ t \in Task /\ Shape(t)
  BY TaskFacts
<1>2. t.at = "indexed" /\ t.op = "refresh_account" /\ t.idx <= Len(accounts)
      /\ UNCHANGED <<up, accounts, current_index, disk, save_lock, refreshing,
                     refresh_failures, orphans, counters, history>>
  BY DEF CloneAccount, IndexedAt, InRange, memory
<1>3. accounts \in Seq(Account) /\ Len(accounts) \in Nat
  BY <1>1 DEF TypeOK
<1>4. t.idx \in DOMAIN accounts
  BY <1>1, <1>2, <1>3, TaskFields DEF Shape, IndexSteps
<1>5. accounts[t.idx] \in Account
  BY <1>1, <1>4, AccountAt
<1>6. u1 \in Task
  BY <1>1, <1>5, TaskUpdates
<1>7. u2 \in Task
  BY <1>6, TaskUpdates
<1>8. u \in Task
  BY <1>7, TaskUpdates DEF Steps, IndexSteps
<1>9. Shape(u)
  BY <1>1, <1>2, <1>5 DEF Shape, IndexSteps, Task
<1>10. task' = [task EXCEPT ![p] = u]
  BY DEF CloneAccount
<1>. HIDE DEF u
<1>11. task' \in [Tasks -> Task] /\ Shapes'
  BY <1>1, <1>8, <1>9, <1>10, OneTask
<1>12. CursorReset' /\ QuietWhenDown'
  BY <1>1, <1>2, BusyMeansUp, StaysQuiet DEF CursorReset
<1>. QED
  BY <1>1, <1>2, <1>11, <1>12 DEF IInv, TypeOK, counters, history

LEMMA AddStep ==
    ASSUME IInv, NEW p \in Tasks, NEW u \in Users, NEW pid \in Projects, Add(p, u, pid)
    PROVE  IInv'
<1>. DEFINE new == [user |-> u, session_id |-> next_session, token |-> issued + 1,
                    project_id |-> pid, enable |-> TRUE]
<1>1. TypeOK /\ Shapes /\ CursorReset /\ QuietWhenDown
  BY TaskFacts
<1>2. /\ up = "serving" /\ next_session <= MaxSession /\ issued < MaxToken
      /\ next_session' = next_session + 1 /\ issued' = issued + 1
      /\ UNCHANGED <<up, current_index, disk, save_lock, refreshing,
                     refresh_failures, orphans, faults, history>>
  BY DEF Add, Starts
<1>3. next_session \in Sessions /\ issued + 1 \in 0..MaxToken
  BY <1>1, <1>2, BoundsAssumption DEF TypeOK, Sessions
<1>4. new \in Account
  BY <1>3 DEF Account
<1>5. accounts \in Seq(Account) /\ Len(accounts) \in Nat /\ current_index \in Nat
  BY <1>1 DEF TypeOK
<1>. HIDE DEF new
<1>6. \/ \E i \in DOMAIN accounts : accounts' = [accounts EXCEPT ![i] = new]
      \/ accounts' = Append(accounts, new)
  BY DEF Add, new
<1>7. accounts' \in Seq(Account) /\ Len(accounts') \in {Len(accounts), Len(accounts) + 1}
  BY <1>4, <1>5, <1>6, OverwriteType, AppendProperties
<1>8. task' \in [Tasks -> Task] /\ Shapes'
  BY <1>1, SavesOne DEF Add, AllOps
<1>9. CursorReset' /\ QuietWhenDown'
  BY <1>1, <1>2, <1>5, <1>7, StaysQuiet DEF CursorReset
<1>. QED
  BY <1>1, <1>2, <1>3, <1>7, <1>8, <1>9, BoundsAssumption DEF IInv, TypeOK, history

\* clear() and the bulk write of refresh_all(): the cursor restarts.
LEMMA BulkSteps ==
    ASSUME IInv, NEW p \in Tasks, Clear(p) \/ CommitRefreshAll(p)
    PROVE  IInv'
<1>1. TypeOK /\ Shapes /\ CursorReset /\ QuietWhenDown /\ task[p] \in Task
  BY TaskFacts
<1>2. accounts' \in Seq(Account) /\ current_index' = 0 /\ CursorReset'
  <2>1. <<>> \in Seq(Account) /\ task[p].list \in Seq(Account)
    BY <1>1, TaskFields
  <2>2. accounts' \in {<<>>, task[p].list} /\ current_index' = 0
    BY DEF Clear, CommitRefreshAll
  <2>. QED
    BY <2>1, <2>2 DEF CursorReset
<1>3. task' \in [Tasks -> Task] /\ Shapes'
  BY <1>1, SavesOne DEF Clear, CommitRefreshAll, AllOps
<1>4. up # "down" /\ UNCHANGED <<up, disk, save_lock, refreshing, refresh_failures,
                                 orphans, counters, history>>
  BY <1>1, BusyMeansUp DEF Clear, CommitRefreshAll, Starts
<1>. QED
  BY <1>1, <1>2, <1>3, <1>4, StaysQuiet DEF IInv, TypeOK, counters, history

LEMMA UpdateProjectIdStep ==
    ASSUME IInv, NEW p \in Tasks, NEW s \in Sessions, NEW pid \in Projects,
           UpdateProjectId(p, s, pid)
    PROVE  IInv'
<1>1. TypeOK /\ Shapes /\ CursorReset /\ QuietWhenDown
  BY TaskFacts
<1>2. PICK i \in DOMAIN accounts : accounts' = [accounts EXCEPT ![i].project_id = pid]
  BY DEF UpdateProjectId
<1>3. accounts[i] \in Account /\ accounts \in Seq(Account)
  BY <1>1, AccountAt DEF TypeOK
<1>4. [accounts[i] EXCEPT !.project_id = pid] \in Account
  BY <1>3 DEF Account
<1>5. accounts' \in Seq(Account) /\ Len(accounts') = Len(accounts)
  BY <1>2, <1>3, <1>4, OverwriteType
<1>6. task' \in [Tasks -> Task] /\ Shapes'
  BY <1>1, SavesOne DEF UpdateProjectId, AllOps
<1>7. up # "down" /\ UNCHANGED <<up, current_index, disk, save_lock, refreshing,
            refresh_failures, orphans, counters, history>>
  BY DEF UpdateProjectId, Starts
<1>. QED
  BY <1>1, <1>5, <1>6, <1>7, SameLength, StaysQuiet DEF IInv, TypeOK, counters, history

LEMMA RefreshAllOfType ==
    ASSUME NEW list \in Seq(Account)
    PROVE  RefreshAllOf(list) \in Task /\ Shape(RefreshAllOf(list))
<1>. DEFINE u1 == [Idle EXCEPT !.op = "refresh_all"]
            u2 == [u1 EXCEPT !.at = "oauth_all"]
<1>1. u1 \in Task
  BY IdleType, TaskUpdates DEF AllOps
<1>2. u2 \in Task
  BY <1>1, TaskUpdates DEF Steps
<1>3. [u2 EXCEPT !.list = list] \in Task
  BY <1>2, TaskUpdates
<1>4. Shape(RefreshAllOf(list))
  BY DEF Shape, RefreshAllOf, Idle, IndexSteps
<1>. QED
  BY <1>3, <1>4 DEF RefreshAllOf

LEMMA BeginRefreshAllStep ==
    ASSUME IInv, NEW p \in Tasks, BeginRefreshAll(p)
    PROVE  IInv'
<1>1. TypeOK /\ Shapes /\ CursorReset /\ QuietWhenDown
  BY TaskFacts
<1>2. RefreshAllOf(accounts) \in Task /\ Shape(RefreshAllOf(accounts))
  BY <1>1, RefreshAllOfType DEF TypeOK
<1>3. task' \in [Tasks -> Task] /\ Shapes'
  BY <1>1, <1>2, OneTask DEF BeginRefreshAll
<1>4. up # "down" /\ UNCHANGED <<up, accounts, current_index, disk, save_lock,
            refreshing, refresh_failures, orphans, counters, history>>
  BY DEF BeginRefreshAll, Starts, memory
<1>. QED
  BY <1>1, <1>3, <1>4, SameLength, StaysQuiet DEF IInv, TypeOK, counters, history

LEMMA RefreshNextStep ==
    ASSUME IInv, NEW p \in Tasks, RefreshNext(p)
    PROVE  IInv'
<1>. DEFINE t == task[p]
            i == t.n + 1
            fresh == [t.list EXCEPT ![i].token = issued + 1]
            v == [t EXCEPT !.n = i]
            w == [v EXCEPT !.list = fresh]
<1>1. TypeOK /\ Shapes /\ CursorReset /\ QuietWhenDown /\ t \in Task /\ Shape(t)
  BY TaskFacts
<1>2. /\ t.at = "oauth_all" /\ t.n < Len(t.list)
      /\ UNCHANGED <<up, accounts, current_index, disk, save_lock, refreshing,
                     orphans, next_session, faults, history>>
  BY DEF RefreshNext, memory
<1>3. t.list \in Seq(Account) /\ t.n \in Nat
  BY <1>1, TaskFields
<1>4. i \in Nat /\ i \in DOMAIN t.list
  BY <1>2, <1>3
<1>5. v \in Task /\ Shape(v)
  <2>1. v \in Task
    BY <1>1, <1>4, TaskUpdates
  <2>2. Shape(v)
    BY <1>1, <1>2 DEF Shape, IndexSteps, Task
  <2>. QED
    BY <2>1, <2>2
<1>6. ASSUME issued < MaxToken, issued' = issued + 1,
             refresh_failures' = [refresh_failures EXCEPT ![t.list[i].session_id] = 0],
             task' = [task EXCEPT ![p].n = i, ![p].list = fresh]
      PROVE  /\ task' \in [Tasks -> Task] /\ Shapes' /\ issued' \in 0..MaxToken
             /\ refresh_failures' \in [Sessions -> 0..CounterMax]
  <2>1. issued + 1 \in 0..MaxToken /\ 0 \in 0..CounterMax
    BY <1>1, <1>6, BoundsAssumption DEF TypeOK
  <2>2. t.list[i] \in Account
    BY <1>3, <1>4
  <2>3. [t.list[i] EXCEPT !.token = issued + 1] \in Account
    BY <2>1, <2>2 DEF Account
  <2>4. fresh \in Seq(Account)
    BY <1>3, <2>3, OverwriteType
  <2>5. w \in Task
    BY <1>5, <2>4, TaskUpdates
  <2>6. Shape(w)
    BY <1>1, <1>2 DEF Shape, IndexSteps, Task
  <2>7. task' = [task EXCEPT ![p] = w]
    BY <1>6
  <2>8. refresh_failures \in [Sessions -> 0..CounterMax]
    BY <1>1 DEF TypeOK
  <2>9. refresh_failures' \in [Sessions -> 0..CounterMax]
    BY <1>6, <2>1, <2>8
  <2>. HIDE DEF w
  <2>10. task' \in [Tasks -> Task] /\ Shapes'
    BY <1>1, <2>5, <2>6, <2>7, OneTask
  <2>. QED
    BY <1>6, <2>1, <2>9, <2>10
<1>7. ASSUME task' = [task EXCEPT ![p].n = i], UNCHANGED <<issued, refresh_failures>>
      PROVE  /\ task' \in [Tasks -> Task] /\ Shapes' /\ issued' \in 0..MaxToken
             /\ refresh_failures' \in [Sessions -> 0..CounterMax]
  <2>1. task' = [task EXCEPT ![p] = v]
    BY <1>7
  <2>. HIDE DEF v
  <2>2. task' \in [Tasks -> Task] /\ Shapes'
    BY <1>1, <1>5, <2>1, OneTask
  <2>. QED
    BY <1>1, <1>7, <2>2 DEF TypeOK
<1>8. /\ task' \in [Tasks -> Task] /\ Shapes' /\ issued' \in 0..MaxToken
      /\ refresh_failures' \in [Sessions -> 0..CounterMax]
  BY <1>6, <1>7 DEF RefreshNext
<1>9. CursorReset' /\ QuietWhenDown'
  BY <1>1, <1>2, BusyMeansUp, StaysQuiet DEF CursorReset
<1>. QED
  BY <1>1, <1>2, <1>8, <1>9 DEF IInv, TypeOK, history

LEMMA BeginPickStep ==
    ASSUME IInv, NEW p \in Tasks, NEW excl \in Sessions, BeginPick(p, excl)
    PROVE  IInv'
<1>. DEFINE u1 == [Idle EXCEPT !.op = "get_token", !.at = "pick", !.sid = excl]
            u == [u1 EXCEPT !.n = Len(accounts)]
<1>1. TypeOK /\ Shapes /\ CursorReset /\ QuietWhenDown
  BY TaskFacts
<1>2. up # "down" /\ accounts # <<>> /\ UNCHANGED <<up, accounts, current_index,
         disk, save_lock, refreshing, refresh_failures, orphans, counters, history>>
  BY DEF BeginPick, Starts, memory
<1>3. Len(accounts) \in Nat /\ Len(accounts) > 0
  BY <1>1, <1>2, EmptySeq DEF TypeOK
<1>4. u1 \in Task
  BY StartedType DEF AllOps, Steps
<1>5. u \in Task
  BY <1>3, <1>4, TaskUpdates
<1>6. Shape(u)
  BY <1>3 DEF Shape, Idle, IndexSteps
<1>7. task' = [task EXCEPT ![p] = u]
  BY DEF BeginPick
<1>. HIDE DEF u
<1>8. task' \in [Tasks -> Task] /\ Shapes'
  BY <1>1, <1>5, <1>6, <1>7, OneTask
<1>. QED
  BY <1>1, <1>2, <1>8, SameLength, StaysQuiet DEF IInv, TypeOK, counters, history

\* The only step that advances the cursor takes it modulo the current length.
LEMMA PickStep ==
    ASSUME IInv, NEW p \in Tasks, Pick(p)
    PROVE  IInv'
<1>. DEFINE t == task[p]
            u == [t EXCEPT !.n = t.n - 1]
<1>1. TypeOK /\ Shapes /\ CursorReset /\ QuietWhenDown /\ t \in Task /\ Shape(t)
  BY TaskFacts
<1>2. t.at = "pick" /\ accounts # <<>> /\ UNCHANGED <<up, accounts, disk, save_lock,
            refreshing, refresh_failures, orphans, counters, history>>
  BY DEF Pick
<1>3. Len(accounts) \in Nat /\ Len(accounts) > 0 /\ current_index \in Nat
  BY <1>1, <1>2, EmptySeq DEF TypeOK
<1>4. current_index' \in Nat /\ current_index' < Len(accounts)
  <2>1. current_index' = (current_index + 1) % Len(accounts)
    BY DEF Pick
  <2>. QED
    BY <1>3, <2>1
<1>5. ASSUME t.n # 1, task' = [task EXCEPT ![p] = u]
      PROVE  task' \in [Tasks -> Task] /\ Shapes'
  <2>1. t.n - 1 \in Nat /\ t.n - 1 > 0
    BY <1>1, <1>2, <1>5, TaskFields DEF Shape
  <2>2. u \in Task
    BY <1>1, <2>1, TaskUpdates
  <2>3. Shape(u)
    BY <1>1, <1>2, <2>1 DEF Shape, IndexSteps, Task
  <2>. HIDE DEF u
  <2>. QED
    BY <1>1, <1>5, <2>2, <2>3, OneTask
<1>6. task' \in [Tasks -> Task] /\ Shapes'
  <2>1. Finish(p) \/ (t.n # 1 /\ task' = [task EXCEPT ![p] = u])
    BY DEF Pick
  <2>. QED
    BY <1>1, <1>5, <2>1, Finishes
<1>7. CursorReset' /\ QuietWhenDown'
  BY <1>1, <1>2, <1>4, BusyMeansUp, StaysQuiet DEF CursorReset
<1>. QED
  BY <1>1, <1>2, <1>4, <1>6, <1>7 DEF IInv, TypeOK, counters, history

-----------------------------------------------------------------------------
(* Start, restart and dropped futures *)

LEMMA LoadNothingStep ==
    ASSUME IInv, LoadNothing
    PROVE  IInv'
<1>1. TypeOK /\ Shapes /\ CursorReset /\ QuietWhenDown
  BY DEF IInv
<1>2. accounts' \in Seq(Account) /\ CursorReset'
  BY DEF LoadNothing, CursorReset
<1>3. faults' \in Nat
  BY <1>1 DEF LoadNothing, TypeOK
<1>4. Shapes' /\ QuietWhenDown'
  BY <1>1 DEF LoadNothing, Shapes, QuietWhenDown
<1>. QED
  BY <1>1, <1>2, <1>3, <1>4 DEF LoadNothing, IInv, TypeOK

LEMMA LoadStep ==
    ASSUME IInv, Load
    PROVE  IInv'
<1>. DEFINE n == Len(disk.list)
            loaded == [i \in 1..n |->
                [user |-> disk.list[i].user, session_id |-> next_session + i - 1,
                 token |-> disk.list[i].token,
                 project_id |-> disk.list[i].project_id,
                 enable |-> disk.list[i].enable]]
<1>1. TypeOK /\ Shapes /\ CursorReset /\ QuietWhenDown
  BY DEF IInv
<1>2. /\ next_session + n <= MaxSession + 1 /\ next_session' = next_session + n
      /\ accounts' = loaded /\ current_index' = 0 /\ behind' = FALSE
      /\ UNCHANGED <<disk, save_lock, refreshing, refresh_failures, orphans,
                     issued, faults, dropped>>
  BY DEF Load
<1>3. disk.list \in Seq(SavedAccount) /\ n \in Nat /\ next_session \in Nat \ {0}
  BY <1>1 DEF TypeOK
<1>4. ASSUME NEW i \in 1..n PROVE loaded[i] \in Account
  <2>1. disk.list[i] \in SavedAccount
    BY <1>3
  <2>2. next_session + i - 1 \in Sessions
    BY <1>2, <1>3, BoundsAssumption, SMTT(30) DEF Sessions
  <2>. QED
    BY <2>1, <2>2 DEF Account, SavedAccount
<1>5. loaded \in [1..n -> Account]
  BY <1>4
<1>. HIDE DEF loaded
<1>6. loaded \in Seq(Account)
  BY <1>3, <1>5
<1>7. task' \in [Tasks -> Task] /\ Shapes'
  <2>1. RefreshAllOf(loaded) \in Task /\ Shape(RefreshAllOf(loaded))
    BY <1>6, RefreshAllOfType
  <2>2. task' = task \/ task' = [task EXCEPT ![Main] = RefreshAllOf(loaded)]
    BY DEF Load, loaded
  <2>. QED
    BY <1>1, <2>1, <2>2, TasksAssumption, OneTask DEF TypeOK, Shapes
<1>8. up' \in {"boot", "serving"}
  BY DEF Load
<1>9. CursorReset' /\ QuietWhenDown'
  BY <1>2, <1>8 DEF CursorReset, QuietWhenDown
<1>10. next_session' \in Nat \ {0}
  BY <1>2, <1>3
<1>. QED
  BY <1>1, <1>2, <1>6, <1>7, <1>8, <1>9, <1>10 DEF IInv, TypeOK

LEMMA ServeStep ==
    ASSUME IInv, Serve
    PROVE  IInv'
  BY DEF Serve, IInv, TypeOK, Shapes, CursorReset, QuietWhenDown, memory,
         counters, history

LEMMA CrashStep ==
    ASSUME IInv, Crash
    PROVE  IInv'
<1>1. TypeOK
  BY DEF IInv
<1>2. ASSUME NEW l \in Seq(Account)
      PROVE  File(l) \in [kind : {"none", "torn", "ok"}, list : Seq(SavedAccount)]
  BY SavedType DEF File
<1>3. ASSUME NEW p \in Tasks PROVE task[p].list \in Seq(Account)
  BY <1>1, TaskFields DEF TypeOK
<1>4. disk' \in [kind : {"none", "torn", "ok"}, list : Seq(SavedAccount)]
  <2>1. \/ disk' = disk \/ disk' = Torn
        \/ \E l \in orphans : disk' = File(l)
        \/ \E p \in Tasks : disk' = File(task[p].list)
    BY DEF Crash
  <2>2. orphans \subseteq Seq(Account)
    BY <1>1 DEF TypeOK
  <2>3. Torn \in [kind : {"none", "torn", "ok"}, list : Seq(SavedAccount)]
    BY DEF Torn
  <2>. QED
    BY <1>1, <1>2, <1>3, <2>1, <2>2, <2>3 DEF TypeOK
<1>5. task' \in [Tasks -> Task] /\ Shapes' /\ QuietWhenDown'
  BY IdleType, IdleShape DEF Crash, Shapes, QuietWhenDown, Busy, Idle
<1>6. accounts' \in Seq(Account) /\ current_index' \in Nat /\ CursorReset'
  BY DEF Crash, CursorReset
<1>7. refresh_failures' \in [Sessions -> 0..CounterMax]
  BY BoundsAssumption DEF Crash
<1>8. /\ up' = "down" /\ save_lock' = NoTask /\ refreshing' = {} /\ orphans' = {}
      /\ behind' = FALSE /\ dropped' = FALSE /\ faults' \in Nat
      /\ UNCHANGED <<next_session, issued>>
  BY <1>1 DEF Crash, TypeOK
<1>. QED
  BY <1>1, <1>4, <1>5, <1>6, <1>7, <1>8 DEF IInv, TypeOK

LEMMA DropFutureStep ==
    ASSUME IInv, NEW p \in Tasks, DropFuture(p)
    PROVE  IInv'
<1>1. TypeOK /\ Shapes /\ CursorReset /\ QuietWhenDown /\ task[p] \in Task
  BY TaskFacts
<1>2. task' \in [Tasks -> Task] /\ Shapes'
  BY <1>1, Finishes DEF DropFuture
<1>3. orphans' \subseteq Seq(Account)
  BY <1>1, TaskFields DEF DropFuture, TypeOK
<1>4. save_lock' \in Tasks \cup {NoTask}
  BY <1>1 DEF DropFuture, TypeOK
<1>5. CursorReset' /\ QuietWhenDown'
  BY <1>1, StaysQuiet DEF DropFuture, memory, CursorReset
<1>. QED
  BY <1>1, <1>2, <1>3, <1>4, <1>5 DEF DropFuture, IInv, TypeOK, memory, counters

LEMMA OrphanLandsStep ==
    ASSUME IInv, OrphanLands
    PROVE  IInv'
<1>1. TypeOK /\ Shapes /\ CursorReset /\ QuietWhenDown
  BY DEF IInv
<1>2. PICK l \in orphans : disk' = File(l) /\ orphans' = orphans \ {l}
  BY DEF OrphanLands
<1>3. File(l) \in [kind : {"none", "torn", "ok"}, list : Seq(SavedAccount)]
  BY <1>1, SavedType DEF File, TypeOK
<1>4. Shapes' /\ CursorReset' /\ QuietWhenDown'
  BY <1>1 DEF OrphanLands, memory, Shapes, CursorReset, QuietWhenDown, Busy
<1>. QED
  BY <1>1, <1>2, <1>3, <1>4 DEF OrphanLands, IInv, TypeOK, memory, counters, history

-----------------------------------------------------------------------------
(* Theorems *)

LEMMA Inductive == IInv /\ [Next]_vars => IInv'
<1>. SUFFICES ASSUME IInv, [Next]_vars PROVE IInv'
  OBVIOUS
<1>1. CASE UNCHANGED vars
  BY <1>1 DEF vars, IInv, TypeOK, Shapes, CursorReset, QuietWhenDown, Busy
<1>2. ASSUME NEW p \in Tasks, Begin(p) PROVE IInv'
  BY <1>2, BeginRefreshStep, BeginIndexedStep, AddStep, UpdateProjectIdStep,
     BulkSteps, BeginRefreshAllStep, BeginPickStep DEF Begin
<1>3. ASSUME NEW p \in Tasks, Step(p) PROVE IInv'
  BY <1>3, SaveSteps, FindSessionStep, ReplaceAccountStep, RefreshFailsStep,
     DisableStep, ClearRefreshFailureStep, FinishSteps, DeleteStep, ReadEnableStep,
     SetEnableStep, CloneAccountStep, RefreshNextStep, BulkSteps, PickStep DEF Step
<1>4. ASSUME NEW p \in Tasks, AcquireSaveLock(p) \/ WriteError(p) \/ DropFuture(p)
      PROVE  IInv'
  BY <1>4, SaveSteps, DropFutureStep
<1>5. CASE LoadNothing \/ Load \/ Serve \/ Crash \/ OrphanLands
  BY <1>5, LoadNothingStep, LoadStep, ServeStep, CrashStep, OrphanLandsStep
<1>. QED
  BY <1>1, <1>2, <1>3, <1>4, <1>5 DEF Next

LEMMA InitIInv == Init => IInv
<1>. SUFFICES ASSUME Init PROVE IInv
  OBVIOUS
<1>1. TypeOK
  BY TypeInit
<1>2. Shapes /\ QuietWhenDown
  BY IdleShape DEF Init, Shapes, QuietWhenDown, Busy, Idle
<1>. QED
  BY <1>1, <1>2 DEF Init, IInv, CursorReset

THEOREM Invariance == Spec => []IInv
  BY InitIInv, Inductive, PTL DEF Spec

\* Every variable keeps its type; in particular a failure counter never passes
\* the threshold and session ids never leave their range.
THEOREM TypeCorrect == Spec => []TypeOK
<1>1. IInv => TypeOK
  BY DEF IInv
<1>. QED
  BY <1>1, Invariance, PTL

\* get_token's unchecked state.accounts[idx] is in bounds in every reachable
\* state, for any number of tasks, accounts, faults and dropped handlers.
THEOREM CursorSafe == Spec => []CursorInRange
<1>1. IInv => CursorInRange
  BY EmptySeq DEF IInv, TypeOK, CursorReset, CursorInRange
<1>. QED
  BY <1>1, Invariance, PTL

-----------------------------------------------------------------------------
(* The guard set *)

\* q stays in, or out of, the guard set across the step, under the same session.
KeepsFlight(q) ==
    /\ (task'[q].op = "refresh_session") <=> InFlight(q)
    /\ InFlight(q) => task'[q].sid = task[q].sid

LEMMA OneKeeps ==
    ASSUME TypeOK, NEW p \in Tasks, NEW t, task' = [task EXCEPT ![p] = t],
           t.op = "refresh_session" <=> InFlight(p),
           InFlight(p) => t.sid = task[p].sid
    PROVE  \A q \in Tasks : KeepsFlight(q)
<1>. TAKE q \in Tasks
<1>1. CASE q = p
  BY <1>1 DEF KeepsFlight, TypeOK
<1>2. CASE q # p
  BY <1>2 DEF KeepsFlight, TypeOK, InFlight
<1>. QED
  BY <1>1, <1>2

LEMMA ShiftKeeps ==
    ASSUME TypeOK, NEW p \in Tasks, NEW t, BecomeAndShift(p, t),
           t.op = "refresh_session" <=> InFlight(p),
           InFlight(p) => t.sid = task[p].sid
    PROVE  \A q \in Tasks : KeepsFlight(q)
<1>. TAKE q \in Tasks
<1>1. CASE q = p
  BY <1>1 DEF KeepsFlight, BecomeAndShift
<1>2. CASE q # p
  <2>1. task[q] \in Task
    BY DEF TypeOK
  <2>2. task'[q].op = task[q].op /\ task'[q].sid = task[q].sid
    BY <1>2, <2>1 DEF BecomeAndShift, Task
  <2>. QED
    BY <2>2 DEF KeepsFlight, InFlight
<1>. QED
  BY <1>1, <1>2

LEMMA SameGuard ==
    ASSUME GuardMatchesFlights, refreshing' = refreshing,
           \A q \in Tasks : KeepsFlight(q)
    PROVE  GuardMatchesFlights'
  BY DEF GuardMatchesFlights, KeepsFlight, InFlight

\* A finished task is in no flight; finishing a task that was in none is harmless.
LEMMA FinishKeeps ==
    ASSUME TypeOK, NEW p \in Tasks, Finish(p), ~InFlight(p)
    PROVE  \A q \in Tasks : KeepsFlight(q)
<1>1. Idle.op # "refresh_session"
  BY DEF Idle
<1>. QED
  BY <1>1, OneKeeps DEF Finish

LEMMA LeaveKeeps ==
    ASSUME TypeOK, NEW p \in Tasks, NEW step, Leave(p, step)
    PROVE  \A q \in Tasks : KeepsFlight(q)
<1>1. Leaving(task[p], step).op = task[p].op /\ Leaving(task[p], step).sid = task[p].sid
  BY DEF Leaving, Idle
<1>. QED
  BY <1>1, OneKeeps DEF Leave, InFlight

LEMMA GotoKeeps ==
    ASSUME TypeOK, NEW p \in Tasks, NEW step, Goto(p, step)
    PROVE  \A q \in Tasks : KeepsFlight(q)
<1>. DEFINE u == [task[p] EXCEPT !.at = step]
<1>1. task[p] \in Task
  BY DEF TypeOK
<1>2. u.op = task[p].op /\ u.sid = task[p].sid
  BY <1>1 DEF Task
<1>3. task' = [task EXCEPT ![p] = u]
  BY DEF Goto
<1>. HIDE DEF u
<1>. QED
  BY <1>2, <1>3, OneKeeps DEF InFlight

LEMMA SaveKeeps ==
    ASSUME TypeOK, NEW p \in Tasks, ~InFlight(p), NEW op, op # "refresh_session",
           ToSave(p, op) \/ SaveAfterShift(p, op)
    PROVE  \A q \in Tasks : KeepsFlight(q)
<1>1. Saving([Idle EXCEPT !.op = op], "idle").op # "refresh_session"
  BY DEF Saving, Idle
<1>. QED
  BY <1>1, OneKeeps, ShiftKeeps DEF ToSave, SaveAfterShift

\* The operations other than refresh_session never are in the guard set.
LEMMA Outsiders ==
    ASSUME IInv, NEW p \in Tasks,
           \/ task[p].at \in {"idle", "indexed", "set_enable", "oauth_all", "pick"}
           \/ task[p].op # "refresh_session"
    PROVE  ~InFlight(p)
  BY TaskFacts DEF Shape, InFlight, IndexSteps

\* Steps of save() and of refresh_session itself.
LEMMA FlightSteps ==
    ASSUME IInv, NEW p \in Tasks,
           \/ AcquireSaveLock(p) \/ SnapshotForSave(p) \/ WriteAccounts(p) \/ WriteError(p)
           \/ FindSession(p) \/ ReplaceAccount(p) \/ RefreshFails(p)
           \/ DisableBySessionId(p) \/ ClearRefreshFailure(p)
    PROVE  refreshing' = refreshing /\ \A q \in Tasks : KeepsFlight(q)
<1>. DEFINE t == task[p]
<1>a. TypeOK /\ t \in Task /\ Shape(t)
  BY TaskFacts
<1>b. refreshing' = refreshing
  BY DEF AcquireSaveLock, SnapshotForSave, WriteAccounts, WriteError, FindSession,
         ReplaceAccount, RefreshFails, DisableBySessionId, ClearRefreshFailure
<1>1. CASE AcquireSaveLock(p)
  BY <1>1, <1>a, <1>b, GotoKeeps DEF AcquireSaveLock
<1>2. CASE SnapshotForSave(p)
  <2>. DEFINE u == [[t EXCEPT !.list = accounts] EXCEPT !.at = "write"]
  <2>1. u.op = t.op /\ u.sid = t.sid
    BY <1>a DEF Task
  <2>2. task' = [task EXCEPT ![p] = u]
    BY <1>2 DEF SnapshotForSave
  <2>. HIDE DEF u
  <2>. QED
    BY <1>a, <1>b, <2>1, <2>2, OneKeeps DEF InFlight
<1>3. CASE WriteAccounts(p)
  <2>1. CASE t.then = "idle"
    <3>1. ~InFlight(p) /\ Finish(p)
      BY <1>3, <1>a, <2>1 DEF WriteAccounts, Shape, InFlight
    <3>. QED
      BY <1>a, <1>b, <3>1, FinishKeeps
  <2>2. CASE t.then # "idle"
    <3>. DEFINE u == [[t EXCEPT !.list = <<>>] EXCEPT !.at = t.then]
    <3>1. u.op = t.op /\ u.sid = t.sid
      BY <1>a DEF Task
    <3>2. task' = [task EXCEPT ![p] = u]
      BY <1>3, <2>2 DEF WriteAccounts
    <3>. HIDE DEF u
    <3>. QED
      BY <1>a, <1>b, <3>1, <3>2, OneKeeps DEF InFlight
  <2>. QED
    BY <2>1, <2>2
<1>4. CASE WriteError(p)
  <2>1. CASE InFlight(p)
    <3>. DEFINE u == [[t EXCEPT !.list = <<>>] EXCEPT !.at = "release"]
    <3>1. u.op = t.op /\ u.sid = t.sid
      BY <1>a DEF Task
    <3>2. task' = [task EXCEPT ![p] = u]
      BY <1>4, <2>1 DEF WriteError
    <3>. HIDE DEF u
    <3>. QED
      BY <1>a, <1>b, <3>1, <3>2, OneKeeps DEF InFlight
  <2>2. CASE ~InFlight(p)
    <3>1. Finish(p)
      BY <1>4, <2>2 DEF WriteError
    <3>. QED
      BY <1>a, <1>b, <2>2, <3>1, FinishKeeps
  <2>. QED
    BY <2>1, <2>2
<1>5. CASE FindSession(p)
  <2>1. ASSUME Goto(p, "release") PROVE \A q \in Tasks : KeepsFlight(q)
    BY <1>a, <2>1, GotoKeeps
  <2>2. ASSUME NEW i \in DOMAIN accounts,
               task' = [task EXCEPT ![p].idx = i, ![p].acct = accounts[i],
                                    ![p].at = "oauth"]
        PROVE  \A q \in Tasks : KeepsFlight(q)
    <3>. DEFINE u == [t EXCEPT !.idx = i, !.acct = accounts[i], !.at = "oauth"]
    <3>1. u.op = t.op /\ u.sid = t.sid
      BY <1>a DEF Task
    <3>2. task' = [task EXCEPT ![p] = u]
      BY <2>2
    <3>. HIDE DEF u
    <3>. QED
      BY <1>a, <3>1, <3>2, OneKeeps DEF InFlight
  <2>. QED
    BY <1>5, <1>b, <2>1, <2>2 DEF FindSession
<1>6. CASE ReplaceAccount(p)
  <2>. DEFINE fresh == [t.acct EXCEPT !.token = issued + 1]
              next == [Saving(t, "clear_failure") EXCEPT !.acct = fresh]
  <2>1. next.op = t.op /\ next.sid = t.sid
    BY DEF Saving, Idle
  <2>2. BecomeAndShift(p, next) \/ task' = [task EXCEPT ![p] = next] \/ Return(p)
    BY <1>6 DEF ReplaceAccount
  <2>. HIDE DEF next
  <2>. QED
    BY <1>a, <1>b, <2>1, <2>2, OneKeeps, ShiftKeeps, LeaveKeeps, FinishKeeps
       DEF Return, InFlight
<1>7. CASE RefreshFails(p)
  <2>1. (\E step : Leave(p, step)) \/ (~InFlight(p) /\ Finish(p))
    BY <1>7 DEF RefreshFails
  <2>. QED
    BY <1>a, <1>b, <2>1, LeaveKeeps, FinishKeeps
<1>8. CASE DisableBySessionId(p)
  <2>1. Saving(t, "release").op = t.op /\ Saving(t, "release").sid = t.sid
    BY DEF Saving, Idle
  <2>2. task' = [task EXCEPT ![p] = Saving(t, "release")] \/ Goto(p, "release")
    BY <1>8 DEF DisableBySessionId
  <2>. QED
    BY <1>a, <1>b, <2>1, <2>2, OneKeeps, GotoKeeps DEF InFlight
<1>9. CASE ClearRefreshFailure(p)
  BY <1>9, <1>a, <1>b, LeaveKeeps, FinishKeeps DEF ClearRefreshFailure, Return
<1>. QED
  BY <1>1, <1>2, <1>3, <1>4, <1>5, <1>6, <1>7, <1>8, <1>9

\* Operations started by the environment, other than refresh_session.
LEMMA OutsiderBegins ==
    ASSUME IInv, NEW p \in Tasks, Begin(p), ~(\E s \in Sessions : BeginRefresh(p, s))
    PROVE  refreshing' = refreshing /\ \A q \in Tasks : KeepsFlight(q)
<1>1. TypeOK
  BY TaskFacts
<1>2. CASE \E op \in IndexOps, s \in Sessions : BeginIndexed(p, op, s)
  <2>1. PICK op \in IndexOps, s \in Sessions, i \in DOMAIN accounts :
            /\ Starts(p, op) /\ refreshing' = refreshing
            /\ task' = [task EXCEPT ![p] =
                 [Idle EXCEPT !.op = op, !.at = "indexed", !.sid = s, !.idx = i,
                              !.acct = accounts[i]]]
    BY <1>2 DEF BeginIndexed
  <2>2. ~InFlight(p)
    BY <2>1, Outsiders DEF Starts, Busy
  <2>. DEFINE u == [Idle EXCEPT !.op = op, !.at = "indexed", !.sid = s, !.idx = i,
                                !.acct = accounts[i]]
  <2>3. u.op # "refresh_session"
    BY DEF Idle, IndexOps
  <2>4. task' = [task EXCEPT ![p] = u]
    BY <2>1
  <2>. HIDE DEF u
  <2>. QED
    BY <1>1, <2>1, <2>2, <2>3, <2>4, OneKeeps
<1>3. CASE \/ \E u \in Users, pid \in Projects : Add(p, u, pid)
           \/ \E s \in Sessions, pid \in Projects : UpdateProjectId(p, s, pid)
           \/ Clear(p)
  <2>1. /\ ~Busy(p) /\ refreshing' = refreshing
        /\ ToSave(p, "add") \/ ToSave(p, "project_id") \/ SaveAfterShift(p, "clear")
    BY <1>3 DEF Add, UpdateProjectId, Clear, Starts
  <2>2. ~InFlight(p)
    BY <2>1, Outsiders DEF Busy
  <2>. QED
    BY <1>1, <2>1, <2>2, SaveKeeps
<1>4. CASE BeginRefreshAll(p)
  <2>1. ~InFlight(p)
    BY <1>4, Outsiders DEF BeginRefreshAll, Starts, Busy
  <2>2. RefreshAllOf(accounts).op # "refresh_session"
    BY DEF RefreshAllOf, Idle
  <2>. QED
    BY <1>1, <1>4, <2>1, <2>2, OneKeeps DEF BeginRefreshAll
<1>5. CASE \E s \in Sessions : BeginPick(p, s)
  <2>1. PICK s \in Sessions : BeginPick(p, s)
    BY <1>5
  <2>2. ~InFlight(p)
    BY <2>1, Outsiders DEF BeginPick, Starts, Busy
  <2>. DEFINE u == [Idle EXCEPT !.op = "get_token", !.at = "pick", !.sid = s,
                                !.n = Len(accounts)]
  <2>3. u.op # "refresh_session"
    BY DEF Idle
  <2>4. task' = [task EXCEPT ![p] = u]
    BY <2>1 DEF BeginPick
  <2>. HIDE DEF u
  <2>. QED
    BY <1>1, <2>1, <2>2, <2>3, <2>4, OneKeeps DEF BeginPick
<1>. QED
  BY <1>2, <1>3, <1>4, <1>5 DEF Begin

\* Later steps of those operations.
LEMMA OutsiderSteps ==
    ASSUME IInv, NEW p \in Tasks,
           \/ OutOfRange(p) \/ Delete(p) \/ ReadEnable(p) \/ SetEnable(p)
           \/ CloneAccount(p) \/ RefreshNext(p) \/ CommitRefreshAll(p)
           \/ Pick(p) \/ PickFromEmpty(p) \/ DropFuture(p)
    PROVE  refreshing' = refreshing /\ \A q \in Tasks : KeepsFlight(q)
<1>. DEFINE t == task[p]
<1>1. TypeOK /\ t \in Task
  BY TaskFacts
<1>2. ~InFlight(p)
  BY Outsiders, SpawnedAssumption
     DEF OutOfRange, Delete, ReadEnable, SetEnable, CloneAccount, RefreshNext,
         CommitRefreshAll, Pick, PickFromEmpty, DropFuture, IndexedAt
<1>3. refreshing' = refreshing
  BY DEF OutOfRange, Delete, ReadEnable, SetEnable, CloneAccount, RefreshNext,
         CommitRefreshAll, Pick, PickFromEmpty, DropFuture
<1>4. ASSUME OutOfRange(p) \/ PickFromEmpty(p) \/ DropFuture(p)
      PROVE  \A q \in Tasks : KeepsFlight(q)
  BY <1>1, <1>2, <1>4, FinishKeeps DEF OutOfRange, PickFromEmpty, DropFuture
<1>5. ASSUME Delete(p) \/ SetEnable(p) \/ CommitRefreshAll(p)
      PROVE  \A q \in Tasks : KeepsFlight(q)
  BY <1>1, <1>2, <1>5, SaveKeeps DEF Delete, SetEnable, CommitRefreshAll
<1>6. ASSUME ReadEnable(p) PROVE \A q \in Tasks : KeepsFlight(q)
  <2>. DEFINE v == IF accounts[t.idx].enable THEN 0 ELSE 1
              u == [t EXCEPT !.n = v, !.at = "set_enable"]
  <2>1. u.op = t.op
    BY <1>1 DEF Task
  <2>2. task' = [task EXCEPT ![p] = u]
    BY <1>6 DEF ReadEnable
  <2>. HIDE DEF u
  <2>. QED
    BY <1>1, <1>2, <2>1, <2>2, OneKeeps DEF InFlight
<1>7. ASSUME CloneAccount(p) PROVE \A q \in Tasks : KeepsFlight(q)
  <2>. DEFINE u == [t EXCEPT !.acct = accounts[t.idx], !.moved = FALSE, !.at = "oauth"]
  <2>1. u.op = t.op
    BY <1>1 DEF Task
  <2>2. task' = [task EXCEPT ![p] = u]
    BY <1>7 DEF CloneAccount
  <2>. HIDE DEF u
  <2>. QED
    BY <1>1, <1>2, <2>1, <2>2, OneKeeps DEF InFlight
<1>8. ASSUME RefreshNext(p) PROVE \A q \in Tasks : KeepsFlight(q)
  <2>. DEFINE fresh == [t.list EXCEPT ![t.n + 1].token = issued + 1]
              u == [t EXCEPT !.n = t.n + 1]
              v == [u EXCEPT !.list = fresh]
  <2>1. u.op = t.op /\ v.op = t.op
    BY <1>1 DEF Task
  <2>2. task' = [task EXCEPT ![p] = v] \/ task' = [task EXCEPT ![p] = u]
    BY <1>8 DEF RefreshNext
  <2>. HIDE DEF u, v
  <2>. QED
    BY <1>1, <1>2, <2>1, <2>2, OneKeeps DEF InFlight
<1>9. ASSUME Pick(p) PROVE \A q \in Tasks : KeepsFlight(q)
  <2>. DEFINE u == [t EXCEPT !.n = t.n - 1]
  <2>1. u.op = t.op
    BY <1>1 DEF Task
  <2>2. task' = [task EXCEPT ![p] = u] \/ Finish(p)
    BY <1>9 DEF Pick
  <2>. HIDE DEF u
  <2>. QED
    BY <1>1, <1>2, <2>1, <2>2, OneKeeps, FinishKeeps DEF InFlight
<1>. QED
  BY <1>3, <1>4, <1>5, <1>6, <1>7, <1>8, <1>9

\* Entering the guard set: the session was in no flight.
LEMMA EntersGuard ==
    ASSUME IInv, GuardMatchesFlights, NEW p \in Tasks, NEW s \in Sessions,
           BeginRefresh(p, s)
    PROVE  GuardMatchesFlights'
<1>. DEFINE u == [Idle EXCEPT !.op = "refresh_session", !.at = "find", !.sid = s]
<1>1. TypeOK /\ ~InFlight(p)
  BY TaskFacts, Outsiders DEF BeginRefresh, Starts, Busy
<1>2. u.op = "refresh_session" /\ u.sid = s
  BY DEF Idle
<1>3. /\ task' = [task EXCEPT ![p] = u]
      /\ s \notin refreshing /\ refreshing' = refreshing \cup {s}
  BY DEF BeginRefresh
<1>. HIDE DEF u
<1>4. task'[p].op = "refresh_session" /\ task'[p].sid = s
      /\ \A q \in Tasks : q # p => task'[q] = task[q]
  BY <1>1, <1>2, <1>3 DEF TypeOK
<1>. QED
  BY <1>1, <1>3, <1>4 DEF GuardMatchesFlights, InFlight

\* Leaving it: no other flight is of this session.
LEMMA LeavesGuard ==
    ASSUME IInv, GuardMatchesFlights, NEW p \in Tasks, ReleaseSession(p)
    PROVE  GuardMatchesFlights'
<1>1. TypeOK /\ Shape(task[p]) /\ Idle.op # "refresh_session"
  BY TaskFacts DEF Idle
<1>2. /\ InFlight(p) /\ refreshing' = refreshing \ {task[p].sid}
      /\ task' = [task EXCEPT ![p] = Idle]
  BY <1>1 DEF ReleaseSession, Finish, Shape, InFlight
<1>3. task'[p].op # "refresh_session" /\ \A q \in Tasks : q # p => task'[q] = task[q]
  BY <1>1, <1>2 DEF TypeOK
<1>. QED
  BY <1>2, <1>3 DEF GuardMatchesFlights, InFlight

LEMMA ProcessKeepsGuard ==
    ASSUME IInv, GuardMatchesFlights,
           LoadNothing \/ Load \/ Serve \/ Crash \/ OrphanLands
    PROVE  GuardMatchesFlights'
<1>1. CASE LoadNothing \/ Serve \/ OrphanLands
  BY <1>1 DEF LoadNothing, Serve, OrphanLands, GuardMatchesFlights, InFlight
<1>2. CASE Load
  <2>1. TypeOK /\ Main \in Tasks /\ ~InFlight(Main)
    BY <1>2, TasksAssumption, Outsiders DEF IInv, Load, QuietWhenDown, Busy
  <2>2. task' = task \/ \E l : task' = [task EXCEPT ![Main] = RefreshAllOf(l)]
    BY <1>2 DEF Load
  <2>3. \A l : RefreshAllOf(l).op # "refresh_session"
    BY DEF RefreshAllOf, Idle
  <2>4. \A q \in Tasks : KeepsFlight(q)
    BY <2>1, <2>2, <2>3, OneKeeps DEF KeepsFlight, InFlight
  <2>. QED
    BY <1>2, <2>4, SameGuard DEF Load
<1>3. CASE Crash
  <2>1. refreshing' = {} /\ \A q \in Tasks : task'[q].op # "refresh_session"
    BY <1>3 DEF Crash, Idle
  <2>. QED
    BY <2>1 DEF GuardMatchesFlights, InFlight
<1>. QED
  BY <1>1, <1>2, <1>3

LEMMA GuardInductive ==
    IInv /\ GuardMatchesFlights /\ [Next]_vars => GuardMatchesFlights'
<1>. SUFFICES ASSUME IInv, GuardMatchesFlights, [Next]_vars PROVE GuardMatchesFlights'
  OBVIOUS
<1>1. CASE UNCHANGED vars
  BY <1>1 DEF vars, GuardMatchesFlights, InFlight
<1>2. ASSUME NEW p \in Tasks, Begin(p) PROVE GuardMatchesFlights'
  BY <1>2, EntersGuard, OutsiderBegins, SameGuard
<1>3. ASSUME NEW p \in Tasks, Step(p) PROVE GuardMatchesFlights'
  BY <1>3, FlightSteps, OutsiderSteps, LeavesGuard, SameGuard DEF Step
<1>4. ASSUME NEW p \in Tasks, AcquireSaveLock(p) \/ WriteError(p) \/ DropFuture(p)
      PROVE  GuardMatchesFlights'
  BY <1>4, FlightSteps, OutsiderSteps, SameGuard
<1>5. CASE LoadNothing \/ Load \/ Serve \/ Crash \/ OrphanLands
  BY <1>5, ProcessKeepsGuard
<1>. QED
  BY <1>1, <1>2, <1>3, <1>4, <1>5 DEF Next

\* The set of sessions being refreshed is exactly the set of sessions some
\* refresh_session is working on, one each: no return path leaks an entry, which
\* would block the session's refreshes for ever.
THEOREM GuardCorrect == Spec => []GuardMatchesFlights
<1>1. Init => GuardMatchesFlights
  BY DEF Init, GuardMatchesFlights, InFlight, Idle
<1>2. IInv /\ GuardMatchesFlights /\ [Next]_vars => GuardMatchesFlights'
  BY GuardInductive
<1>. QED
  BY <1>1, <1>2, Invariance, PTL DEF Spec

-----------------------------------------------------------------------------
(* What a step of one task does to the others and to the list              *)

\* The index q holds, if any, still belongs to the user it was looked up for.
Held(q) ==
    task[q].at \in IndexSteps /\ ~task[q].moved =>
        /\ task[q].idx \in DOMAIN accounts
        /\ accounts[task[q].idx].user = task[q].acct.user

\* No user leaves its position.
SameUsers ==
    /\ DOMAIN accounts \subseteq DOMAIN accounts'
    /\ \A i \in DOMAIN accounts : accounts'[i].user = accounts[i].user

\* The other tasks stay as they are, or are warned that indices shifted.
Elsewhere(p) == \A q \in Tasks \ {p} : task'[q] = task[q]
Warned(p) == \A q \in Tasks \ {p} :
    /\ task'[q].at = task[q].at /\ task'[q].list = task[q].list
    /\ task[q].at \in IndexSteps => task'[q].moved

\* Every step of an operation, save() and dropped handlers apart: whoever
\* changes the list saves it next, and nothing but the list, the cursor, the
\* guard set, the counters and the tasks change.
Effect(p) ==
    /\ (Elsewhere(p) /\ SameUsers) \/ Warned(p)
    /\ Held(p)'
    /\ task[p].at \notin {"read", "write"} /\ task'[p].at \notin {"read", "write"}
    /\ task'[p].at = "lock" \/ (task[p].at # "lock" /\ accounts' = accounts)
    /\ UNCHANGED <<up, disk, save_lock, orphans, behind, dropped>>

LEMMA Others ==
    ASSUME TypeOK, NEW p \in Tasks, NEW t
    PROVE  /\ task' = [task EXCEPT ![p] = t] => Elsewhere(p) /\ task'[p] = t
           /\ BecomeAndShift(p, t) => Warned(p) /\ task'[p] = t
<1>1. ASSUME task' = [task EXCEPT ![p] = t] PROVE Elsewhere(p) /\ task'[p] = t
  BY <1>1 DEF TypeOK, Elsewhere
<1>2. ASSUME BecomeAndShift(p, t) PROVE Warned(p) /\ task'[p] = t
  <2>1. ASSUME NEW q \in Tasks \ {p}
        PROVE  /\ task'[q].at = task[q].at /\ task'[q].list = task[q].list
               /\ task[q].at \in IndexSteps => task'[q].moved
    <3>1. task[q] \in Task
      BY DEF TypeOK
    <3>2. CASE task[q].at \in IndexSteps
      <4>1. task'[q] = [task[q] EXCEPT !.moved = TRUE]
        BY <1>2, <3>2 DEF BecomeAndShift
      <4>. QED
        BY <3>1, <4>1 DEF Task
    <3>3. CASE task[q].at \notin IndexSteps
      BY <1>2, <3>3 DEF BecomeAndShift
    <3>. QED
      BY <3>2, <3>3
  <2>. QED
    BY <1>2, <2>1 DEF Warned, BecomeAndShift
<1>. QED
  BY <1>1, <1>2

\* Where the helpers send a task.
LEMMA Destinations ==
    ASSUME TypeOK, NEW p \in Tasks
    PROVE  /\ Finish(p) => Elsewhere(p) /\ task'[p].at = "idle"
           /\ \A step : Goto(p, step) => Elsewhere(p) /\ task'[p].at = step
           /\ \A step : Leave(p, step) => Elsewhere(p) /\ task'[p].at = step
           /\ Return(p) => Elsewhere(p) /\ task'[p].at \in {"idle", "release"}
           /\ \A op : ToSave(p, op) => Elsewhere(p) /\ task'[p].at = "lock"
           /\ \A op : SaveAfterShift(p, op) => Warned(p) /\ task'[p].at = "lock"
<1>0. task[p] \in Task
  BY DEF TypeOK
<1>1. Finish(p) => Elsewhere(p) /\ task'[p].at = "idle"
  <2>1. Idle.at = "idle"
    BY DEF Idle
  <2>. QED
    BY <2>1, Others DEF Finish
<1>2. ASSUME NEW step, Goto(p, step) PROVE Elsewhere(p) /\ task'[p].at = step
  <2>. DEFINE u == [task[p] EXCEPT !.at = step]
  <2>1. u.at = step
    BY <1>0 DEF Task
  <2>2. task' = [task EXCEPT ![p] = u]
    BY <1>2 DEF Goto
  <2>. HIDE DEF u
  <2>. QED
    BY <2>1, <2>2, Others
<1>3. ASSUME NEW step, Leave(p, step) PROVE Elsewhere(p) /\ task'[p].at = step
  <2>1. Leaving(task[p], step).at = step
    BY DEF Leaving, Idle
  <2>. QED
    BY <1>3, <2>1, Others DEF Leave
<1>4. ASSUME NEW op
      PROVE  /\ ToSave(p, op) => Elsewhere(p) /\ task'[p].at = "lock"
             /\ SaveAfterShift(p, op) => Warned(p) /\ task'[p].at = "lock"
  <2>1. Saving([Idle EXCEPT !.op = op], "idle").at = "lock"
    BY DEF Saving, Idle
  <2>. QED
    BY <2>1, Others DEF ToSave, SaveAfterShift
<1>. QED
  BY <1>1, <1>2, <1>3, <1>4 DEF Return

\* A task that stops holding an index holds none wrongly.
LEMMA HoldsNone ==
    ASSUME NEW p \in Tasks, task'[p].at \notin IndexSteps
    PROVE  Held(p)'
  BY DEF Held

\* Overwriting a position with the same user moves nobody.
LEMMA SameUserThere ==
    ASSUME NEW i, NEW a, accounts' = [accounts EXCEPT ![i] = a],
           i \in DOMAIN accounts => a.user = accounts[i].user
    PROVE  SameUsers
<1>1. DOMAIN accounts' = DOMAIN accounts
  OBVIOUS
<1>2. ASSUME NEW j \in DOMAIN accounts PROVE accounts'[j].user = accounts[j].user
  BY <1>2
<1>. QED
  BY <1>1, <1>2 DEF SameUsers

\* Looking an account up yields its index and its user.
LEMMA HoldsWhatItFound ==
    ASSUME TypeOK, NEW p \in Tasks, NEW t \in Task, NEW i \in DOMAIN accounts,
           NEW step \in IndexSteps, accounts' = accounts,
           task' = [task EXCEPT ![p] =
              [t EXCEPT !.idx = i, !.acct = accounts[i], !.at = step]]
    PROVE  Elsewhere(p) /\ task'[p].at = step /\ Held(p)'
<1>. DEFINE u == [t EXCEPT !.idx = i, !.acct = accounts[i], !.at = step]
<1>1. u.idx = i /\ u.acct = accounts[i] /\ u.at = step
  BY DEF Task
<1>2. task' = [task EXCEPT ![p] = u]
  OBVIOUS
<1>. HIDE DEF u
<1>3. Elsewhere(p) /\ task'[p] = u
  BY <1>2, Others
<1>. QED
  BY <1>1, <1>3 DEF Held

LEMMA NobodyMoves ==
    ASSUME accounts' = accounts
    PROVE  SameUsers
  BY DEF SameUsers

-----------------------------------------------------------------------------
(* The effect of every operation *)

LEMMA FlightEffects ==
    ASSUME IInv, NEW p \in Tasks,
           \/ FindSession(p) \/ ReplaceAccount(p) \/ RefreshFails(p)
           \/ DisableBySessionId(p) \/ ClearRefreshFailure(p) \/ ReleaseSession(p)
    PROVE  Effect(p)
<1>. DEFINE t == task[p]
<1>a. TypeOK /\ t \in Task /\ Shape(t)
  BY TaskFacts
<1>1. CASE FindSession(p)
  <2>1. ASSUME Goto(p, "release")
        PROVE  Elsewhere(p) /\ Held(p)' /\ task'[p].at \notin {"read", "write", "lock"}
    <3>1. Elsewhere(p) /\ task'[p].at = "release"
      BY <1>a, <2>1, Destinations
    <3>. QED
      BY <3>1, HoldsNone DEF IndexSteps
  <2>2. ASSUME NEW i \in DOMAIN accounts,
               task' = [task EXCEPT ![p].idx = i, ![p].acct = accounts[i],
                                    ![p].at = "oauth"]
        PROVE  Elsewhere(p) /\ Held(p)' /\ task'[p].at \notin {"read", "write", "lock"}
    <3>1. task' = [task EXCEPT ![p] =
              [t EXCEPT !.idx = i, !.acct = accounts[i], !.at = "oauth"]]
      BY <2>2
    <3>. QED
      BY <1>1, <1>a, <3>1, HoldsWhatItFound DEF FindSession, IndexSteps, memory
  <2>3. Elsewhere(p) /\ Held(p)' /\ task'[p].at \notin {"read", "write", "lock"}
    BY <1>1, <2>1, <2>2 DEF FindSession
  <2>. QED
    BY <1>1, <2>3, NobodyMoves DEF FindSession, Effect, memory, history
<1>2. CASE ReplaceAccount(p)
  <2>. DEFINE fresh == [t.acct EXCEPT !.token = issued + 1]
              stale == t.idx <= Len(accounts) /\ accounts[t.idx].user # fresh.user
              next == [Saving(t, "clear_failure") EXCEPT !.acct = fresh]
  <2>1. /\ t.at = "oauth"
        /\ UNCHANGED <<up, disk, save_lock, orphans, behind, dropped>>
    BY <1>2 DEF ReplaceAccount, history
  <2>2. next.at = "lock"
    BY DEF Saving, Idle
  <2>3. t.idx \in Nat /\ t.idx > 0 /\ accounts \in Seq(Account)
    BY <1>a, <2>1 DEF Shape, IndexSteps, Task, TypeOK
  <2>4. CASE t.idx <= Len(accounts) /\ stale
    <3>1. BecomeAndShift(p, next)
      BY <1>2, <2>4 DEF ReplaceAccount
    <3>. HIDE DEF next
    <3>2. Warned(p) /\ task'[p].at = "lock"
      BY <1>a, <2>2, <3>1, Others
    <3>. QED
      BY <2>1, <3>2, HoldsNone DEF Effect, IndexSteps
  <2>5. CASE t.idx <= Len(accounts) /\ ~stale
    <3>1. task' = [task EXCEPT ![p] = next] /\ accounts' = [accounts EXCEPT ![t.idx] = fresh]
      BY <1>2, <2>5 DEF ReplaceAccount
    <3>2. fresh.user = accounts[t.idx].user
      BY <2>5
    <3>. HIDE DEF next, fresh
    <3>3. Elsewhere(p) /\ task'[p].at = "lock"
      BY <1>a, <2>2, <3>1, Others
    <3>4. SameUsers
      BY <3>1, <3>2, SameUserThere
    <3>. QED
      BY <2>1, <3>3, <3>4, HoldsNone DEF Effect, IndexSteps
  <2>6. CASE ~(t.idx <= Len(accounts))
    <3>1. Return(p) /\ accounts' = accounts
      BY <1>2, <2>6 DEF ReplaceAccount
    <3>2. Elsewhere(p) /\ task'[p].at \in {"idle", "release"}
      BY <1>a, <3>1, Destinations
    <3>. QED
      BY <2>1, <3>1, <3>2, HoldsNone, NobodyMoves DEF Effect, IndexSteps
  <2>. QED
    BY <2>4, <2>5, <2>6
<1>3. CASE RefreshFails(p)
  <2>1. /\ t.at = "oauth" /\ accounts' = accounts
        /\ UNCHANGED <<up, disk, save_lock, orphans, behind, dropped>>
        /\ Finish(p) \/ Leave(p, "disable") \/ Leave(p, "release")
    BY <1>3 DEF RefreshFails, memory, history
  <2>2. Elsewhere(p) /\ task'[p].at \in {"idle", "disable", "release"}
    BY <1>a, <2>1, Destinations
  <2>. QED
    BY <2>1, <2>2, HoldsNone, NobodyMoves DEF Effect, IndexSteps
<1>4. CASE DisableBySessionId(p)
  <2>1. t.at = "disable" /\ UNCHANGED <<up, disk, save_lock, orphans, behind, dropped>>
    BY <1>4 DEF DisableBySessionId, history
  <2>2. ASSUME NEW i \in DOMAIN accounts,
               accounts' = [accounts EXCEPT ![i].enable = FALSE],
               task' = [task EXCEPT ![p] = Saving(t, "release")]
        PROVE  Effect(p)
    <3>1. Saving(t, "release").at = "lock"
      BY DEF Saving, Idle
    <3>2. Elsewhere(p) /\ task'[p].at = "lock"
      BY <1>a, <2>2, <3>1, Others
    <3>3. accounts[i] \in Account
      BY <1>a, AccountAt
    <3>4. [accounts[i] EXCEPT !.enable = FALSE].user = accounts[i].user
      BY <3>3 DEF Account
    <3>5. SameUsers
      BY <2>2, <3>4, SameUserThere
    <3>. QED
      BY <2>1, <3>2, <3>5, HoldsNone DEF Effect, IndexSteps
  <2>3. ASSUME accounts' = accounts, Goto(p, "release") PROVE Effect(p)
    BY <1>a, <2>1, <2>3, Destinations, HoldsNone, NobodyMoves DEF Effect, IndexSteps
  <2>. QED
    BY <1>4, <2>2, <2>3 DEF DisableBySessionId
<1>5. CASE ClearRefreshFailure(p) \/ ReleaseSession(p)
  <2>1. /\ t.at \in {"clear_failure", "release"} /\ accounts' = accounts
        /\ UNCHANGED <<up, disk, save_lock, orphans, behind, dropped>>
        /\ Finish(p) \/ Return(p)
    BY <1>5 DEF ClearRefreshFailure, ReleaseSession, memory, history
  <2>2. Elsewhere(p) /\ task'[p].at \in {"idle", "release"}
    BY <1>a, <2>1, Destinations
  <2>. QED
    BY <2>1, <2>2, HoldsNone, NobodyMoves DEF Effect, IndexSteps
<1>. QED
  BY <1>1, <1>2, <1>3, <1>4, <1>5

\* What the environment starts.
LEMMA BeginEffects ==
    ASSUME IInv, NEW p \in Tasks, Begin(p)
    PROVE  Effect(p)
<1>a. TypeOK
  BY TaskFacts
<1>1. ASSUME NEW s \in Sessions, BeginRefresh(p, s) PROVE Effect(p)
  <2>. DEFINE u == [Idle EXCEPT !.op = "refresh_session", !.at = "find", !.sid = s]
  <2>1. u.at = "find"
    BY DEF Idle
  <2>2. task' = [task EXCEPT ![p] = u]
    BY <1>1 DEF BeginRefresh
  <2>. HIDE DEF u
  <2>3. Elsewhere(p) /\ task'[p].at = "find"
    BY <1>a, <2>1, <2>2, Others
  <2>. QED
    BY <1>1, <2>3, HoldsNone, NobodyMoves
       DEF Effect, IndexSteps, BeginRefresh, Starts, Busy, memory, history
<1>2. ASSUME NEW op \in IndexOps, NEW s \in Sessions, BeginIndexed(p, op, s)
      PROVE  Effect(p)
  <2>1. PICK i \in DOMAIN accounts : task' = [task EXCEPT ![p] =
               [Idle EXCEPT !.op = op, !.at = "indexed", !.sid = s, !.idx = i,
                            !.acct = accounts[i]]]
    BY <1>2 DEF BeginIndexed
  <2>. DEFINE u == [Idle EXCEPT !.op = op, !.at = "indexed", !.sid = s, !.idx = i,
                                !.acct = accounts[i]]
  <2>2. u.at = "indexed" /\ u.idx = i /\ u.acct = accounts[i]
    BY DEF Idle
  <2>3. task' = [task EXCEPT ![p] = u] /\ accounts' = accounts
    BY <1>2, <2>1 DEF BeginIndexed, memory
  <2>. HIDE DEF u
  <2>4. Elsewhere(p) /\ task'[p] = u
    BY <1>a, <2>3, Others
  <2>5. Held(p)'
    BY <2>2, <2>3, <2>4 DEF Held
  <2>. QED
    BY <1>2, <2>2, <2>3, <2>4, <2>5, NobodyMoves
       DEF Effect, BeginIndexed, Starts, Busy, memory, history
<1>3. ASSUME NEW u \in Users, NEW pid \in Projects, Add(p, u, pid) PROVE Effect(p)
  <2>. DEFINE new == [user |-> u, session_id |-> next_session, token |-> issued + 1,
                      project_id |-> pid, enable |-> TRUE]
  <2>1. /\ ~Busy(p) /\ ToSave(p, "add")
        /\ UNCHANGED <<up, disk, save_lock, orphans, behind, dropped>>
        /\ \/ \E i \in DOMAIN accounts :
                FirstOf(i, u) /\ accounts' = [accounts EXCEPT ![i] = new]
           \/ accounts' = Append(accounts, new)
    BY <1>3 DEF Add, Starts, history
  <2>2. new.user = u
    OBVIOUS
  <2>. HIDE DEF new
  <2>3. SameUsers
    <3>1. ASSUME NEW i \in DOMAIN accounts, FirstOf(i, u),
                 accounts' = [accounts EXCEPT ![i] = new]
          PROVE  SameUsers
      BY <2>2, <3>1, SameUserThere DEF FirstOf
    <3>2. ASSUME accounts' = Append(accounts, new) PROVE SameUsers
      <4>1. accounts \in Seq(Account)
        BY <1>a DEF TypeOK
      <4>2. /\ DOMAIN accounts \subseteq DOMAIN Append(accounts, new)
            /\ \A i \in DOMAIN accounts : Append(accounts, new)[i] = accounts[i]
        BY <4>1
      <4>. QED
        BY <3>2, <4>2 DEF SameUsers
    <3>. QED
      BY <2>1, <3>1, <3>2
  <2>4. Elsewhere(p) /\ task'[p].at = "lock"
    BY <1>a, <2>1, Destinations
  <2>. QED
    BY <2>1, <2>3, <2>4, HoldsNone DEF Effect, IndexSteps, Busy
<1>4. ASSUME NEW s \in Sessions, NEW pid \in Projects, UpdateProjectId(p, s, pid)
      PROVE  Effect(p)
  <2>1. PICK i \in DOMAIN accounts :
            accounts' = [accounts EXCEPT ![i].project_id = pid]
    BY <1>4 DEF UpdateProjectId
  <2>2. accounts[i] \in Account
    BY <1>a, AccountAt
  <2>3. [accounts[i] EXCEPT !.project_id = pid].user = accounts[i].user
    BY <2>2 DEF Account
  <2>4. SameUsers
    BY <2>1, <2>3, SameUserThere
  <2>5. /\ ~Busy(p) /\ ToSave(p, "project_id")
        /\ UNCHANGED <<up, disk, save_lock, orphans, behind, dropped>>
    BY <1>4 DEF UpdateProjectId, Starts, history
  <2>6. Elsewhere(p) /\ task'[p].at = "lock"
    BY <1>a, <2>5, Destinations
  <2>. QED
    BY <2>4, <2>5, <2>6, HoldsNone DEF Effect, IndexSteps, Busy
<1>5. ASSUME Clear(p) PROVE Effect(p)
  <2>1. Warned(p) /\ task'[p].at = "lock"
    BY <1>a, <1>5, Destinations DEF Clear
  <2>. QED
    BY <1>5, <2>1, HoldsNone DEF Effect, IndexSteps, Clear, Starts, Busy, history
<1>6. ASSUME BeginRefreshAll(p) PROVE Effect(p)
  <2>1. RefreshAllOf(accounts).at = "oauth_all"
    BY DEF RefreshAllOf, Idle
  <2>2. Elsewhere(p) /\ task'[p].at = "oauth_all"
    BY <1>a, <1>6, <2>1, Others DEF BeginRefreshAll
  <2>. QED
    BY <1>6, <2>2, HoldsNone, NobodyMoves
       DEF Effect, IndexSteps, BeginRefreshAll, Starts, Busy, memory, history
<1>7. ASSUME NEW s \in Sessions, BeginPick(p, s) PROVE Effect(p)
  <2>. DEFINE u == [Idle EXCEPT !.op = "get_token", !.at = "pick", !.sid = s,
                                !.n = Len(accounts)]
  <2>1. u.at = "pick"
    BY DEF Idle
  <2>2. task' = [task EXCEPT ![p] = u]
    BY <1>7 DEF BeginPick
  <2>. HIDE DEF u
  <2>3. Elsewhere(p) /\ task'[p].at = "pick"
    BY <1>a, <2>1, <2>2, Others
  <2>. QED
    BY <1>7, <2>3, HoldsNone, NobodyMoves
       DEF Effect, IndexSteps, BeginPick, Starts, Busy, memory, history
<1>. QED
  BY <1>1, <1>2, <1>3, <1>4, <1>5, <1>6, <1>7 DEF Begin

-----------------------------------------------------------------------------
(* The steps of save() *)

LEMMA Snapshots ==
    ASSUME TypeOK, NEW p \in Tasks, SnapshotForSave(p)
    PROVE  Elsewhere(p) /\ task'[p].at = "write" /\ task'[p].list = accounts
<1>. DEFINE u == [[task[p] EXCEPT !.list = accounts] EXCEPT !.at = "write"]
<1>1. task[p] \in Task
  BY DEF TypeOK
<1>2. u.at = "write" /\ u.list = accounts
  BY <1>1 DEF Task
<1>3. task' = [task EXCEPT ![p] = u]
  BY DEF SnapshotForSave
<1>. HIDE DEF u
<1>. QED
  BY <1>2, <1>3, Others

LEMMA Writes ==
    ASSUME TypeOK, NEW p \in Tasks, WriteAccounts(p) \/ WriteError(p)
    PROVE  Elsewhere(p) /\ task'[p].at \in {"idle", "clear_failure", "release"}
<1>. DEFINE t == task[p]
            u == [[t EXCEPT !.list = <<>>] EXCEPT !.at = t.then]
            v == [[t EXCEPT !.list = <<>>] EXCEPT !.at = "release"]
<1>1. t \in Task
  BY DEF TypeOK
<1>2. t.then \in {"idle", "clear_failure", "release"} /\ u.at = t.then /\ v.at = "release"
  BY <1>1 DEF Task
<1>3. task' = [task EXCEPT ![p] = u] \/ task' = [task EXCEPT ![p] = v] \/ Finish(p)
  BY DEF WriteAccounts, WriteError
<1>. HIDE DEF u, v
<1>. QED
  BY <1>2, <1>3, Others, Destinations

\* The later steps of what it started.
LEMMA LaterEffects ==
    ASSUME IInv, IndexStable, NEW p \in Tasks,
           \/ OutOfRange(p) \/ Delete(p) \/ ReadEnable(p) \/ SetEnable(p)
           \/ CloneAccount(p) \/ RefreshNext(p) \/ CommitRefreshAll(p)
           \/ Pick(p) \/ PickFromEmpty(p)
    PROVE  Effect(p)
<1>. DEFINE t == task[p]
<1>a. TypeOK /\ t \in Task /\ Shape(t) /\ Held(p) /\ accounts \in Seq(Account)
  BY TaskFacts DEF IndexStable, Held, TypeOK
<1>b. /\ t.at \notin {"lock", "read", "write"}
      /\ UNCHANGED <<up, disk, save_lock, orphans, behind, dropped>>
  BY DEF OutOfRange, Delete, ReadEnable, SetEnable, CloneAccount, RefreshNext,
         CommitRefreshAll, Pick, PickFromEmpty, IndexedAt, memory, history
<1>1. CASE OutOfRange(p) \/ PickFromEmpty(p)
  <2>1. Finish(p) /\ accounts' = accounts
    BY <1>1 DEF OutOfRange, PickFromEmpty, memory
  <2>2. Elsewhere(p) /\ task'[p].at = "idle"
    BY <1>a, <2>1, Destinations
  <2>. QED
    BY <1>b, <2>1, <2>2, HoldsNone, NobodyMoves DEF Effect, IndexSteps
<1>2. CASE Delete(p) \/ CommitRefreshAll(p)
  <2>1. SaveAfterShift(p, "delete") \/ SaveAfterShift(p, "refresh_all")
    BY <1>2 DEF Delete, CommitRefreshAll
  <2>2. Warned(p) /\ task'[p].at = "lock"
    BY <1>a, <2>1, Destinations
  <2>. QED
    BY <1>b, <2>2, HoldsNone DEF Effect, IndexSteps
<1>3. CASE ReadEnable(p)
  <2>. DEFINE v == IF accounts[t.idx].enable THEN 0 ELSE 1
              u == [t EXCEPT !.n = v, !.at = "set_enable"]
  <2>1. u.at = "set_enable" /\ u.idx = t.idx /\ u.acct = t.acct /\ u.moved = t.moved
    BY <1>a DEF Task
  <2>2. task' = [task EXCEPT ![p] = u] /\ accounts' = accounts /\ t.at = "indexed"
    BY <1>3 DEF ReadEnable, IndexedAt, memory
  <2>. HIDE DEF u
  <2>3. Elsewhere(p) /\ task'[p] = u
    BY <1>a, <2>2, Others
  <2>4. Held(p)'
    BY <1>a, <2>1, <2>2, <2>3 DEF Held, IndexSteps
  <2>. QED
    BY <1>b, <2>1, <2>2, <2>3, <2>4, NobodyMoves DEF Effect
<1>4. CASE SetEnable(p)
  <2>1. t.idx \in DOMAIN accounts
    BY <1>4, <1>a DEF SetEnable, InRange, Shape, IndexSteps, Task
  <2>2. accounts[t.idx] \in Account
    BY <1>a, <2>1, AccountAt
  <2>3. [accounts[t.idx] EXCEPT !.enable = (t.n = 1)].user = accounts[t.idx].user
    BY <2>2 DEF Account
  <2>4. accounts' = [accounts EXCEPT ![t.idx].enable = (t.n = 1)] /\ ToSave(p, "toggle")
    BY <1>4 DEF SetEnable
  <2>5. SameUsers
    BY <2>3, <2>4, SameUserThere
  <2>6. Elsewhere(p) /\ task'[p].at = "lock"
    BY <1>a, <2>4, Destinations
  <2>. QED
    BY <1>b, <2>5, <2>6, HoldsNone DEF Effect, IndexSteps
<1>5. CASE CloneAccount(p)
  <2>. DEFINE u == [t EXCEPT !.acct = accounts[t.idx], !.moved = FALSE, !.at = "oauth"]
  <2>1. t.idx \in DOMAIN accounts
    BY <1>5, <1>a DEF CloneAccount, IndexedAt, InRange, Shape, IndexSteps, Task
  <2>2. u.at = "oauth" /\ u.idx = t.idx /\ u.acct = accounts[t.idx]
    BY <1>a DEF Task
  <2>3. task' = [task EXCEPT ![p] = u] /\ accounts' = accounts
    BY <1>5 DEF CloneAccount, memory
  <2>. HIDE DEF u
  <2>4. Elsewhere(p) /\ task'[p] = u
    BY <1>a, <2>3, Others
  <2>5. Held(p)'
    BY <2>1, <2>2, <2>3, <2>4 DEF Held
  <2>. QED
    BY <1>b, <2>2, <2>3, <2>4, <2>5, NobodyMoves DEF Effect
<1>6. CASE RefreshNext(p)
  <2>. DEFINE fresh == [t.list EXCEPT ![t.n + 1].token = issued + 1]
              u == [t EXCEPT !.n = t.n + 1]
              v == [u EXCEPT !.list = fresh]
  <2>1. u.at = t.at /\ v.at = t.at
    BY <1>a DEF Task
  <2>2. /\ task' = [task EXCEPT ![p] = v] \/ task' = [task EXCEPT ![p] = u]
        /\ accounts' = accounts /\ t.at = "oauth_all"
    BY <1>6 DEF RefreshNext, memory
  <2>. HIDE DEF u, v
  <2>3. Elsewhere(p) /\ task'[p].at = "oauth_all"
    BY <1>a, <2>1, <2>2, Others
  <2>. QED
    BY <1>b, <2>2, <2>3, HoldsNone, NobodyMoves DEF Effect, IndexSteps
<1>7. CASE Pick(p)
  <2>. DEFINE u == [t EXCEPT !.n = t.n - 1]
  <2>1. u.at = t.at
    BY <1>a DEF Task
  <2>2. /\ task' = [task EXCEPT ![p] = u] \/ Finish(p)
        /\ accounts' = accounts /\ t.at = "pick"
    BY <1>7 DEF Pick
  <2>. HIDE DEF u
  <2>3. Elsewhere(p) /\ task'[p].at \in {"pick", "idle"}
    BY <1>a, <2>1, <2>2, Others, Destinations
  <2>. QED
    BY <1>b, <2>2, <2>3, HoldsNone, NobodyMoves DEF Effect, IndexSteps
<1>. QED
  BY <1>1, <1>2, <1>3, <1>4, <1>5, <1>6, <1>7

-----------------------------------------------------------------------------
(* Indices held across an await *)

LEMMA EffectKeepsIndices ==
    ASSUME TypeOK, IndexStable, NEW p \in Tasks,
           (Elsewhere(p) /\ SameUsers) \/ Warned(p), Held(p)'
    PROVE  IndexStable'
<1>1. ASSUME NEW q \in Tasks, q # p, Elsewhere(p), SameUsers PROVE Held(q)'
  <2>1. task'[q] = task[q] /\ Held(q)
    BY <1>1 DEF Elsewhere, IndexStable, Held
  <2>. QED
    BY <1>1, <2>1 DEF SameUsers, Held
<1>2. ASSUME NEW q \in Tasks, q # p, Warned(p) PROVE Held(q)'
  BY <1>2 DEF Warned, Held
<1>3. \A q \in Tasks : Held(q)'
  BY <1>1, <1>2
<1>. QED
  BY <1>3 DEF IndexStable, Held

\* The steps of save() hold no index, and neither do dropped handlers.
LEMMA SaveEffects ==
    ASSUME IInv, NEW p \in Tasks,
           \/ AcquireSaveLock(p) \/ SnapshotForSave(p) \/ WriteAccounts(p)
           \/ WriteError(p) \/ DropFuture(p)
    PROVE  Elsewhere(p) /\ SameUsers /\ Held(p)' /\ UNCHANGED <<up, accounts>>
<1>. DEFINE t == task[p]
<1>a. TypeOK /\ t \in Task /\ Shape(t)
  BY TaskFacts
<1>b. UNCHANGED <<up, accounts>>
  BY DEF AcquireSaveLock, SnapshotForSave, WriteAccounts, WriteError, DropFuture, memory
<1>1. CASE AcquireSaveLock(p)
  <2>1. Elsewhere(p) /\ task'[p].at = "read"
    BY <1>1, <1>a, Destinations DEF AcquireSaveLock
  <2>. QED
    BY <1>b, <2>1, HoldsNone, NobodyMoves DEF IndexSteps
<1>2. CASE SnapshotForSave(p)
  <2>1. Elsewhere(p) /\ task'[p].at = "write"
    BY <1>2, <1>a, Snapshots
  <2>. QED
    BY <1>b, <2>1, HoldsNone, NobodyMoves DEF IndexSteps
<1>3. CASE WriteAccounts(p) \/ WriteError(p)
  <2>1. Elsewhere(p) /\ task'[p].at \in {"idle", "clear_failure", "release"}
    BY <1>3, <1>a, Writes
  <2>. QED
    BY <1>b, <2>1, HoldsNone, NobodyMoves DEF IndexSteps
<1>4. CASE DropFuture(p)
  <2>1. Elsewhere(p) /\ task'[p].at = "idle"
    BY <1>4, <1>a, Destinations DEF DropFuture
  <2>. QED
    BY <1>b, <2>1, HoldsNone, NobodyMoves DEF IndexSteps
<1>. QED
  BY <1>1, <1>2, <1>3, <1>4

LEMMA IndexInductive == IInv /\ IndexStable /\ [Next]_vars => IndexStable'
<1>. SUFFICES ASSUME IInv, IndexStable, [Next]_vars PROVE IndexStable'
  OBVIOUS
<1>a. TypeOK
  BY DEF IInv
<1>1. CASE UNCHANGED vars
  BY <1>1 DEF vars, IndexStable
<1>2. ASSUME NEW p \in Tasks, Begin(p) \/ Step(p) \/ AcquireSaveLock(p)
                              \/ WriteError(p) \/ DropFuture(p)
      PROVE  IndexStable'
  <2>1. (Elsewhere(p) /\ SameUsers) \/ Warned(p)
    BY <1>2, SaveEffects, FlightEffects, BeginEffects, LaterEffects DEF Step, Effect
  <2>2. Held(p)'
    BY <1>2, SaveEffects, FlightEffects, BeginEffects, LaterEffects DEF Step, Effect
  <2>. QED
    BY <1>a, <2>1, <2>2, EffectKeepsIndices
<1>3. CASE LoadNothing \/ Load
  <2>1. \A q \in Tasks : task[q].at = "idle"
    BY <1>3 DEF IInv, QuietWhenDown, Busy, LoadNothing, Load
  <2>2. task' = task \/ \E l : task' = [task EXCEPT ![Main] = RefreshAllOf(l)]
    BY <1>3 DEF LoadNothing, Load
  <2>3. \A l : RefreshAllOf(l).at = "oauth_all"
    BY DEF RefreshAllOf, Idle
  <2>4. \A q \in Tasks : task'[q].at \in {"idle", "oauth_all"}
    BY <1>a, <2>1, <2>2, <2>3 DEF TypeOK
  <2>. QED
    BY <2>4 DEF IndexStable, IndexSteps
<1>4. CASE Serve \/ OrphanLands
  BY <1>4 DEF Serve, OrphanLands, memory, IndexStable
<1>5. CASE Crash
  BY <1>5 DEF Crash, IndexStable, Idle, IndexSteps
<1>. QED
  BY <1>1, <1>2, <1>3, <1>4, <1>5 DEF Next

\* An index looked up before an await still is the position of the user it was
\* looked up for when the handler acts on it, unless a deletion, a bulk
\* replacement or a stale overwrite came between: toggles, project ids and
\* account additions of other handlers never shift one.
THEOREM IndicesStable == Spec => []IndexStable
<1>1. Init => IndexStable
  BY DEF Init, IndexStable, Idle, IndexSteps
<1>2. IInv /\ IndexStable /\ [Next]_vars => IndexStable'
  BY IndexInductive
<1>. QED
  BY <1>1, <1>2, Invariance, PTL DEF Spec

-----------------------------------------------------------------------------
(* Saves lose no update *)

\* Nobody has a snapshot still to take.
AllSnapped == \A q \in Tasks : task[q].at \notin {"lock", "read"}

\* What makes SavesLoseNothing inductive.  The lock is held exactly by the task
\* between its acquisition and its write; a write without the lock is the
\* leftover of a dropped handler; and whether or not the file is known to be
\* behind, the last snapshot taken is the list.
SaveInv ==
    /\ SaveLockHeld
    /\ ~dropped => orphans = {}
    /\ (up # "down" /\ ~dropped /\ AllSnapped) =>
         IF save_lock = NoTask THEN ~behind => Agrees(accounts)
         ELSE task[save_lock].list = accounts

LEMMA SaveInvSuffices == SaveInv => SavesLoseNothing
  BY DEF SaveInv, SavesLoseNothing, AllSnapped

\* A task between acquisition and write is known by the lock.
LEMMA HolderIs ==
    ASSUME SaveLockHeld, NEW p \in Tasks
    PROVE  /\ task[p].at \in {"read", "write"} => save_lock = p
           /\ task[p].at \notin {"read", "write"} => save_lock # p
  BY DEF SaveLockHeld

\* An operation outside save() either leaves the list alone or still has to
\* save it.
LEMMA EffectKeepsSaves ==
    ASSUME TypeOK, SaveInv, NEW p \in Tasks, Effect(p)
    PROVE  SaveInv'
<1>1. ASSUME NEW q \in Tasks, q # p
      PROVE  task'[q].at = task[q].at /\ task'[q].list = task[q].list
  BY <1>1 DEF Effect, Elsewhere, Warned
<1>2. SaveLockHeld'
  <2>1. ASSUME NEW q \in Tasks
        PROVE  task'[q].at \in {"read", "write"} <=> save_lock' = q
    <3>1. CASE q = p
      BY <3>1 DEF Effect, SaveInv, SaveLockHeld
    <3>2. CASE q # p
      BY <3>2, <1>1 DEF Effect, SaveInv, SaveLockHeld
    <3>. QED
      BY <3>1, <3>2
  <2>. QED
    BY <2>1 DEF SaveLockHeld
<1>3. ~dropped' => orphans' = {}
  BY DEF Effect, SaveInv
<1>4. ASSUME up' # "down", ~dropped', AllSnapped'
      PROVE  IF save_lock' = NoTask THEN ~behind' => Agrees(accounts)'
             ELSE task'[save_lock'].list = accounts'
  <2>1. task'[p].at # "lock"
    BY <1>4 DEF AllSnapped
  <2>2. accounts' = accounts /\ task[p].at # "lock" /\ task[p].at # "read"
    BY <2>1 DEF Effect
  <2>3. AllSnapped
    BY <1>1, <1>4, <2>2 DEF AllSnapped
  <2>4. IF save_lock = NoTask THEN ~behind => Agrees(accounts)
        ELSE task[save_lock].list = accounts
    BY <1>4, <2>3 DEF SaveInv, Effect
  <2>5. CASE save_lock = NoTask
    BY <2>2, <2>4, <2>5 DEF Effect, Agrees
  <2>6. CASE save_lock # NoTask
    <3>1. save_lock \in Tasks /\ save_lock # p
      BY <2>6, HolderIs DEF TypeOK, SaveInv, Effect
    <3>2. task'[save_lock].list = task[save_lock].list
      BY <1>1, <3>1
    <3>. QED
      BY <2>2, <2>4, <2>6, <3>2 DEF Effect
  <2>. QED
    BY <2>5, <2>6
<1>. QED
  BY <1>2, <1>3, <1>4 DEF SaveInv

LEMMA AcquireKeepsSaves ==
    ASSUME TypeOK, SaveInv, NEW p \in Tasks, AcquireSaveLock(p)
    PROVE  SaveInv'
<1>1. Elsewhere(p) /\ task'[p].at = "read"
  BY Destinations DEF AcquireSaveLock
<1>2. /\ save_lock = NoTask /\ save_lock' = p /\ NoTask \notin Tasks
      /\ UNCHANGED <<up, disk, orphans, behind, dropped>>
  BY TasksAssumption DEF AcquireSaveLock, history
<1>3. SaveLockHeld'
  <2>1. ASSUME NEW q \in Tasks
        PROVE  task'[q].at \in {"read", "write"} <=> save_lock' = q
    <3>1. CASE q = p
      BY <1>1, <1>2, <3>1
    <3>2. CASE q # p
      BY <1>1, <1>2, <3>2 DEF Elsewhere, SaveInv, SaveLockHeld
    <3>. QED
      BY <3>1, <3>2
  <2>. QED
    BY <2>1 DEF SaveLockHeld
<1>4. ~AllSnapped'
  BY <1>1 DEF AllSnapped
<1>. QED
  BY <1>2, <1>3, <1>4 DEF SaveInv

LEMMA SnapshotKeepsSaves ==
    ASSUME TypeOK, SaveInv, NEW p \in Tasks, SnapshotForSave(p)
    PROVE  SaveInv'
<1>1. Elsewhere(p) /\ task'[p].at = "write" /\ task'[p].list = accounts
  BY Snapshots
<1>2. /\ task[p].at = "read" /\ accounts' = accounts
      /\ UNCHANGED <<up, disk, save_lock, orphans, behind, dropped>>
  BY DEF SnapshotForSave, memory, history
<1>3. save_lock = p /\ NoTask \notin Tasks
  BY <1>2, HolderIs, TasksAssumption DEF SaveInv
<1>4. SaveLockHeld'
  <2>1. ASSUME NEW q \in Tasks
        PROVE  task'[q].at \in {"read", "write"} <=> save_lock' = q
    <3>1. CASE q = p
      BY <1>1, <1>2, <1>3, <3>1
    <3>2. CASE q # p
      BY <1>1, <1>2, <3>2 DEF Elsewhere, SaveInv, SaveLockHeld
    <3>. QED
      BY <3>1, <3>2
  <2>. QED
    BY <2>1 DEF SaveLockHeld
<1>. QED
  BY <1>1, <1>2, <1>3, <1>4 DEF SaveInv

\* Both ways a write ends: the file holds what was snapped, or is known behind.
LEMMA WriteKeepsSaves ==
    ASSUME TypeOK, SaveInv, NEW p \in Tasks, WriteAccounts(p) \/ WriteError(p)
    PROVE  SaveInv'
<1>1. Elsewhere(p) /\ task'[p].at \in {"idle", "clear_failure", "release"}
  BY Writes
<1>2. /\ task[p].at = "write" /\ accounts' = accounts /\ save_lock' = NoTask
      /\ UNCHANGED <<up, orphans, dropped>>
  BY DEF WriteAccounts, WriteError, memory
<1>3. save_lock = p /\ NoTask \notin Tasks
  BY <1>2, HolderIs, TasksAssumption DEF SaveInv
<1>4. SaveLockHeld'
  <2>1. ASSUME NEW q \in Tasks
        PROVE  task'[q].at \notin {"read", "write"} /\ save_lock' # q
    <3>1. CASE q = p
      BY <1>1, <1>2, <1>3, <3>1
    <3>2. CASE q # p
      BY <1>1, <1>2, <1>3, <3>2 DEF Elsewhere, SaveInv, SaveLockHeld
    <3>. QED
      BY <3>1, <3>2
  <2>. QED
    BY <2>1 DEF SaveLockHeld
<1>5. ASSUME up' # "down", ~dropped', AllSnapped', ~behind' PROVE Agrees(accounts)'
  <2>1. WriteAccounts(p)
    BY <1>5 DEF WriteError
  <2>2. AllSnapped
    BY <1>1, <1>2, <1>5 DEF AllSnapped, Elsewhere
  <2>3. task[p].list = accounts
    BY <1>2, <1>3, <1>5, <2>2 DEF SaveInv
  <2>4. disk' = File(accounts)
    BY <2>1, <2>3 DEF WriteAccounts
  <2>. QED
    BY <1>2, <2>4 DEF Agrees, File
<1>. QED
  BY <1>2, <1>4, <1>5 DEF SaveInv

LEMMA DropKeepsSaves ==
    ASSUME TypeOK, SaveInv, NEW p \in Tasks, DropFuture(p)
    PROVE  SaveInv'
<1>1. Elsewhere(p) /\ task'[p].at = "idle"
  BY Destinations DEF DropFuture
<1>2. dropped' /\ save_lock' = IF save_lock = p THEN NoTask ELSE save_lock
  BY DEF DropFuture
<1>3. SaveLockHeld'
  <2>1. ASSUME NEW q \in Tasks
        PROVE  task'[q].at \in {"read", "write"} <=> save_lock' = q
    <3>1. CASE q = p
      BY <1>1, <1>2, <3>1, TasksAssumption
    <3>2. CASE q # p
      BY <1>1, <1>2, <3>2, TasksAssumption DEF Elsewhere, SaveInv, SaveLockHeld
    <3>. QED
      BY <3>1, <3>2
  <2>. QED
    BY <2>1 DEF SaveLockHeld
<1>. QED
  BY <1>2, <1>3 DEF SaveInv

LEMMA ProcessKeepsSaves ==
    ASSUME IInv, SaveInv, LoadNothing \/ Load \/ Serve \/ Crash \/ OrphanLands
    PROVE  SaveInv'
<1>a. TypeOK /\ NoTask \notin Tasks
  BY TasksAssumption DEF IInv
<1>b. ASSUME up = "down"
      PROVE  save_lock = NoTask /\ \A q \in Tasks : task[q].at = "idle"
  BY <1>a, <1>b, HolderIs DEF IInv, QuietWhenDown, Busy, SaveInv, TypeOK
<1>1. CASE LoadNothing
  <2>1. /\ save_lock = NoTask /\ accounts' = <<>> /\ behind' = (disk.kind # "none")
        /\ UNCHANGED <<disk, save_lock, task, orphans, dropped>>
    BY <1>1, <1>b DEF LoadNothing
  <2>2. ~behind' => Agrees(accounts)'
    BY <2>1 DEF Agrees
  <2>. QED
    BY <2>1, <2>2 DEF SaveInv, SaveLockHeld
<1>2. CASE Load
  <2>. DEFINE n == Len(disk.list)
              loaded == [i \in 1..n |->
                [user |-> disk.list[i].user, session_id |-> next_session + i - 1,
                 token |-> disk.list[i].token,
                 project_id |-> disk.list[i].project_id,
                 enable |-> disk.list[i].enable]]
  <2>1. /\ up = "down" /\ disk.kind = "ok" /\ accounts' = loaded
        /\ UNCHANGED <<disk, save_lock, orphans, dropped>>
        /\ task' = task \/ task' = [task EXCEPT ![Main] = RefreshAllOf(loaded)]
    BY <1>2 DEF Load
  <2>2. disk.list \in Seq(SavedAccount)
    BY <1>a DEF TypeOK
  <2>3. \A i \in 1..n : disk.list[i] \in SavedAccount
    BY <2>2, ElementOfSeq
  <2>4. ASSUME NEW i \in 1..n PROVE Strip(loaded[i]) = disk.list[i]
    <3>1. disk.list[i] \in SavedAccount
      BY <2>3
    <3>2. disk.list[i] = [user |-> disk.list[i].user, token |-> disk.list[i].token,
                          project_id |-> disk.list[i].project_id,
                          enable |-> disk.list[i].enable]
      BY <3>1 DEF SavedAccount
    <3>. QED
      BY <3>2 DEF Strip
  <2>5. DOMAIN loaded = 1..n /\ disk.list = [i \in 1..n |-> disk.list[i]]
    BY <2>2
  <2>. HIDE DEF loaded
  <2>6. Saved(loaded) = disk.list
    BY <2>4, <2>5 DEF Saved
  <2>7. Agrees(accounts)'
    BY <2>1, <2>6 DEF Agrees
  <2>8. save_lock = NoTask /\ \A q \in Tasks : task[q].at = "idle"
    BY <2>1, <1>b
  <2>9. RefreshAllOf(loaded).at = "oauth_all"
    BY DEF RefreshAllOf, Idle
  <2>10. \A q \in Tasks : task'[q].at \in {"idle", "oauth_all"}
    BY <1>a, <2>1, <2>8, <2>9 DEF TypeOK
  <2>11. SaveLockHeld'
    BY <1>a, <2>1, <2>8, <2>10 DEF SaveLockHeld
  <2>. QED
    BY <2>1, <2>7, <2>8, <2>11 DEF SaveInv
<1>3. CASE Serve
  BY <1>3 DEF Serve, memory, history, SaveInv, SaveLockHeld, AllSnapped, Agrees
<1>4. CASE Crash
  <2>1. /\ up' = "down" /\ save_lock' = NoTask /\ orphans' = {}
        /\ \A q \in Tasks : task'[q].at = "idle"
    BY <1>4 DEF Crash, Idle
  <2>2. SaveLockHeld'
    BY <1>a, <2>1 DEF SaveLockHeld
  <2>. QED
    BY <2>1, <2>2 DEF SaveInv
<1>5. CASE OrphanLands
  <2>1. orphans # {} /\ UNCHANGED <<save_lock, task, dropped>>
    BY <1>5 DEF OrphanLands, history
  <2>2. dropped' /\ SaveLockHeld'
    BY <2>1 DEF SaveInv, SaveLockHeld
  <2>. QED
    BY <2>2 DEF SaveInv
<1>. QED
  BY <1>1, <1>2, <1>3, <1>4, <1>5

LEMMA SaveInductive == IInv /\ IndexStable /\ SaveInv /\ [Next]_vars => SaveInv'
<1>. SUFFICES ASSUME IInv, IndexStable, SaveInv, [Next]_vars PROVE SaveInv'
  OBVIOUS
<1>a. TypeOK
  BY DEF IInv
<1>1. CASE UNCHANGED vars
  BY <1>1 DEF vars, SaveInv, SaveLockHeld, AllSnapped, Agrees
<1>2. ASSUME NEW p \in Tasks, Begin(p) PROVE SaveInv'
  BY <1>2, <1>a, BeginEffects, EffectKeepsSaves
<1>3. ASSUME NEW p \in Tasks, Step(p) PROVE SaveInv'
  BY <1>3, <1>a, FlightEffects, LaterEffects, EffectKeepsSaves,
     SnapshotKeepsSaves, WriteKeepsSaves DEF Step
<1>4. ASSUME NEW p \in Tasks, AcquireSaveLock(p) \/ WriteError(p) \/ DropFuture(p)
      PROVE  SaveInv'
  BY <1>4, <1>a, AcquireKeepsSaves, WriteKeepsSaves, DropKeepsSaves
<1>5. CASE LoadNothing \/ Load \/ Serve \/ Crash \/ OrphanLands
  BY <1>5, ProcessKeepsSaves
<1>. QED
  BY <1>1, <1>2, <1>3, <1>4, <1>5 DEF Next

\* However many operations change the list and save it concurrently, the file
\* ends up with the list in memory: no save overwrites a newer one, unless a
\* write has failed, the file could not be read or a handler was dropped.
THEOREM SavesSafe == Spec => []SavesLoseNothing
<1>1. Init => SaveInv
  BY TasksAssumption DEF Init, SaveInv, SaveLockHeld, Idle
<1>2. IInv /\ IndexStable /\ SaveInv /\ [Next]_vars => SaveInv'
  BY SaveInductive
<1>. QED
  BY <1>1, <1>2, SaveInvSuffices, Invariance, IndicesStable, PTL DEF Spec

\* save_lock does what its name says: two tasks are never between their
\* snapshot and their write at the same time.
THEOREM SaveLockExclusive == Spec => []SaveLockHeld
<1>1. Init => SaveInv
  BY TasksAssumption DEF Init, SaveInv, SaveLockHeld, Idle
<1>2. IInv /\ IndexStable /\ SaveInv /\ [Next]_vars => SaveInv'
  BY SaveInductive
<1>3. SaveInv => SaveLockHeld
  BY DEF SaveInv
<1>. QED
  BY <1>1, <1>2, <1>3, Invariance, IndicesStable, PTL DEF Spec

=============================================================================
