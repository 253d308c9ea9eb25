-------------------------- MODULE TokenRefreshTask --------------------------
(***************************************************************************)
(* The background refresh of access tokens, credential/refresh_task.rs:    *)
(* cycles, one task per account that is due, permits and retries, beside   *)
(* the refreshes that 401 answers trigger and the WebUI's operations.      *)
(*                                                                         *)
(* refresh_session is reduced to what a cycle sees of it: the guard, the   *)
(* answer of the OAuth server and the failure counter.  Its steps and its  *)
(* races on the account list are the subject of CredentialStore.           *)
(***************************************************************************)
EXTENDS Integers, Sequences, FiniteSets, SequencesExt

CONSTANTS
    Accounts,                   \* accounts in the list at start
    MAX_CONCURRENT_REFRESHES,   \* 3 in the code
    MAX_ATTEMPTS_PER_CYCLE,     \* 5 in the code
    MAX_REFRESH_FAILURES,       \* 5 in the code
    CounterMax                  \* u32::MAX in the code

ASSUME NumbersAssumption ==
    /\ Accounts \in Nat
    /\ MAX_CONCURRENT_REFRESHES \in Nat \ {0}
    /\ MAX_ATTEMPTS_PER_CYCLE \in Nat \ {0}
    /\ MAX_REFRESH_FAILURES \in Nat \ {0}
    /\ CounterMax \in Nat /\ CounterMax >= MAX_REFRESH_FAILURES

VARIABLES
    accounts,   \* State.accounts; due: within five minutes of the token's expiry
    failures,   \* refresh_failures
    guard,      \* refreshing_sessions: who refreshes, and the index looked up
    cycle,      \* the loop sleeps, or waits for the tasks of a cycle
    task,       \* refresh_with_retry for the entries of the list it was started on
    permits,    \* free permits of the cycle's semaphore
    waiting     \* tasks queueing for a permit, in FIFO order

accountVars == <<accounts, failures>>
semaphore == <<permits, waiting>>
vars == <<accountVars, guard, cycle, task, semaphore>>

Sessions == 1..Accounts
Tasks == 1..Accounts

Free == [by |-> "nobody", idx |-> 0]
NoTask == [pc |-> "none", session |-> 0, attempt |-> 0]

\* load() numbers the accounts; some are disabled, some due.
Init ==
    /\ \E enable, due \in [Sessions -> BOOLEAN] :
         accounts = [i \in 1..Accounts |->
                        [session |-> i, enable |-> enable[i], due |-> due[i]]]
    /\ failures = [s \in Sessions |-> 0]
    /\ guard = [s \in Sessions |-> Free]
    /\ cycle = "sleep"
    /\ task = [k \in Tasks |-> NoTask]
    /\ permits = MAX_CONCURRENT_REFRESHES /\ waiting = <<>>

-----------------------------------------------------------------------------
(* find_by_session_id *)

Absent(s) == \A i \in DOMAIN accounts : accounts[i].session # s

\* i is the position of the first entry of s, the one every look-up finds.
First(i, s) ==
    /\ i \in DOMAIN accounts
    /\ accounts[i].session = s
    /\ \A j \in 1..(i - 1) : accounts[j].session # s

\* refresh_session lets a flight for s in and finds its account enabled at i;
\* the call to the OAuth server is sent.
Takes(i, s, who) ==
    /\ guard[s] = Free
    /\ First(i, s) /\ accounts[i].enable
    /\ guard' = [guard EXCEPT ![s] = [by |-> who, idx |-> i]]

-----------------------------------------------------------------------------
(* schedule_refresh_cycle *)

\* The loop wakes up; every entry that is enabled and due gets a task.
StartCycle ==
    /\ cycle = "sleep"
    /\ cycle' = "wait"
    /\ task' = [k \in Tasks |->
          IF k \in DOMAIN accounts /\ accounts[k].enable /\ accounts[k].due
          THEN [pc |-> "start", session |-> accounts[k].session, attempt |-> 1]
          ELSE NoTask]
    /\ permits' = MAX_CONCURRENT_REFRESHES /\ waiting' = <<>>
    /\ UNCHANGED <<accountVars, guard>>

\* All tasks have been awaited; the loop sleeps for one second to half an hour.
EndCycle ==
    /\ cycle = "wait" /\ \A k \in Tasks : task[k] = NoTask
    /\ cycle' = "sleep"
    /\ UNCHANGED <<accountVars, guard, task, semaphore>>

-----------------------------------------------------------------------------
(* refresh_with_retry *)

Holders == {k \in Tasks : task[k].pc \in {"permitted", "call"}}

AcquirePermit(k) ==
    /\ task[k].pc = "start"
    /\ IF permits > 0
       THEN /\ permits' = permits - 1
            /\ task' = [task EXCEPT ![k].pc = "permitted"]
            /\ UNCHANGED waiting
       ELSE /\ waiting' = Append(waiting, k)
            /\ task' = [task EXCEPT ![k].pc = "queued"]
            /\ UNCHANGED permits
    /\ UNCHANGED <<accountVars, guard, cycle>>

\* Task k goes on as t without its permit, which the first in the queue takes
\* over.
DropPermit(k, t) ==
    IF waiting = <<>>
    THEN /\ permits' = permits + 1
         /\ task' = [task EXCEPT ![k] = t]
         /\ UNCHANGED waiting
    ELSE /\ waiting' = Tail(waiting)
         /\ task' = [task EXCEPT ![k] = t, ![Head(waiting)].pc = "permitted"]
         /\ UNCHANGED permits

\* Mutant: one attempt too many.
AfterError_OneMore(k) == IF task[k].attempt > MAX_ATTEMPTS_PER_CYCLE THEN NoTask
                         ELSE [task[k] EXCEPT !.pc = "delay"]

\* An error leads to a delay and the next attempt, if there is one left.
AfterError(k) == IF task[k].attempt >= MAX_ATTEMPTS_PER_CYCLE THEN NoTask
                 ELSE [task[k] EXCEPT !.pc = "delay"]

\* refresh_session up to the network call: the session is being refreshed or
\* disabled, which ends the task, or is not found, which is an error.
Begin(k) ==
    LET s == task[k].session IN
    /\ task[k].pc = "permitted"
    /\ \/ /\ \E i \in DOMAIN accounts : Takes(i, s, "task")
          /\ task' = [task EXCEPT ![k].pc = "call"]
          /\ UNCHANGED semaphore
       \/ /\ guard[s] # Free \/ \E i \in DOMAIN accounts : First(i, s) /\ ~accounts[i].enable
          /\ DropPermit(k, NoTask) /\ UNCHANGED guard
       \/ /\ guard[s] = Free /\ Absent(s)
          /\ DropPermit(k, AfterError(k)) /\ UNCHANGED guard
    /\ UNCHANGED <<accountVars, cycle>>

DelayOver(k) ==
    /\ task[k].pc = "delay"
    /\ task' = [task EXCEPT ![k].pc = "start", ![k].attempt = @ + 1]
    /\ UNCHANGED <<accountVars, guard, cycle, semaphore>>

-----------------------------------------------------------------------------
(* The answer of the OAuth server in refresh_session(s), and what follows. *)

\* replace_account writes the refreshed copy, enabled as it was when it was
\* read, at the index looked up before the call.  Whatever stands there by now
\* is overwritten: after a deletion it may be a neighbour, and an account that
\* was deleted itself comes back.
Replace(s) ==
    /\ guard[s].idx <= Len(accounts)
    /\ accounts' = [accounts EXCEPT ![guard[s].idx] =
                       [session |-> s, enable |-> TRUE, due |-> FALSE]]

\* Replaced and saved: the failure counter is cleared.
Refreshed(s) == Replace(s) /\ failures' = [failures EXCEPT ![s] = 0]

\* Saving the refreshed account fails: an error, the counter keeps its value.
Unsaved(s) == Replace(s) /\ UNCHANGED failures

\* Deletions have left the list shorter than the index: an error that leaves
\* the account as it is, listed and due if it was not the one deleted.
OutOfRange(s) == guard[s].idx > Len(accounts) /\ UNCHANGED accountVars

\* record_refresh_failure: the counter saturates, and only a success clears it.
CountFailure(s) ==
    failures' = [failures EXCEPT ![s] = IF @ = CounterMax THEN CounterMax ELSE @ + 1]

Fails(s) ==
    /\ CountFailure(s) /\ failures'[s] < MAX_REFRESH_FAILURES
    /\ UNCHANGED accounts

\* disable_by_session_id disables the first entry of s there is by now.
FailsForGood(s) ==
    /\ CountFailure(s) /\ failures'[s] >= MAX_REFRESH_FAILURES
    /\ accounts' = [i \in DOMAIN accounts |->
          IF First(i, s) THEN [accounts[i] EXCEPT !.enable = FALSE] ELSE accounts[i]]

AnswerOk(s) == Refreshed(s) \/ FailsForGood(s)
AnswerErr(s) == Fails(s) \/ OutOfRange(s) \/ Unsaved(s)

\* Mutant: the permit is held through the delay.
TaskAnswered_SleepsWithPermit(k) ==
    LET s == task[k].session IN
    /\ task[k].pc = "call"
    /\ \/ AnswerOk(s) /\ DropPermit(k, NoTask)
       \/ /\ AnswerErr(s)
          /\ task' = [task EXCEPT ![k] = AfterError(k)]
          /\ UNCHANGED semaphore
    /\ guard' = [guard EXCEPT ![s] = Free]
    /\ UNCHANGED cycle

\* Mutant: an error returns before the session leaves the guard.
TaskAnswered_LeaksGuard(k) ==
    LET s == task[k].session IN
    /\ task[k].pc = "call"
    /\ \/ /\ AnswerOk(s) /\ DropPermit(k, NoTask)
          /\ guard' = [guard EXCEPT ![s] = Free]
       \/ AnswerErr(s) /\ DropPermit(k, AfterError(k)) /\ UNCHANGED guard
    /\ UNCHANGED cycle

TaskAnswered(k) ==
    LET s == task[k].session IN
    /\ task[k].pc = "call"
    /\ \/ AnswerOk(s) /\ DropPermit(k, NoTask)
       \/ AnswerErr(s) /\ DropPermit(k, AfterError(k))
    /\ guard' = [guard EXCEPT ![s] = Free]
    /\ UNCHANGED cycle

-----------------------------------------------------------------------------
(* What happens beside the loop. *)

\* trigger_background_refresh after a 401.
Trigger(s) ==
    /\ \E i \in DOMAIN accounts : Takes(i, s, "trigger")
    /\ UNCHANGED <<accountVars, cycle, task, semaphore>>

TriggerAnswered(s) ==
    /\ guard[s].by = "trigger"
    /\ AnswerOk(s) \/ AnswerErr(s)
    /\ guard' = [guard EXCEPT ![s] = Free]
    /\ UNCHANGED <<cycle, task, semaphore>>

\* Time passes; an operator toggles or deletes.
Expire(i) ==
    /\ i \in DOMAIN accounts
    /\ accounts' = [accounts EXCEPT ![i].due = TRUE]
    /\ UNCHANGED <<failures, guard, cycle, task, semaphore>>

Toggle(i) ==
    /\ i \in DOMAIN accounts
    /\ accounts' = [accounts EXCEPT ![i].enable = ~@]
    /\ UNCHANGED <<failures, guard, cycle, task, semaphore>>

Delete(i) ==
    /\ i \in DOMAIN accounts
    /\ accounts' = RemoveAt(accounts, i)
    /\ UNCHANGED <<failures, guard, cycle, task, semaphore>>

-----------------------------------------------------------------------------

TaskStep(k) == AcquirePermit(k) \/ Begin(k) \/ DelayOver(k) \/ TaskAnswered(k)

Next ==
    \/ StartCycle \/ EndCycle
    \/ \E k \in Tasks : TaskStep(k)
    \/ \E s \in Sessions : Trigger(s) \/ TriggerAnswered(s)
    \/ \E i \in 1..Accounts : Expire(i) \/ Toggle(i) \/ Delete(i)

Spec == Init /\ [][Next]_vars

\* Timers fire, tasks are scheduled and the OAuth server answers or times out.
FairSpec ==
    /\ Spec
    /\ WF_vars(StartCycle \/ EndCycle)
    /\ \A k \in Tasks : WF_vars(TaskStep(k))
    /\ \A s \in Sessions : WF_vars(TriggerAnswered(s))

Account == [session : Sessions, enable : BOOLEAN, due : BOOLEAN]

TypeOK ==
    /\ accounts \in Seq(Account) /\ Len(accounts) <= Accounts
    /\ failures \in [Sessions -> 0..CounterMax]
    /\ guard \in [Sessions -> [by : {"nobody", "task", "trigger"}, idx : 0..Accounts]]
    /\ cycle \in {"sleep", "wait"}
    /\ task \in [Tasks -> {NoTask} \cup
            [pc : {"start", "queued", "permitted", "call", "delay"},
             session : Sessions, attempt : 1..MAX_ATTEMPTS_PER_CYCLE]]
    /\ permits \in 0..MAX_CONCURRENT_REFRESHES
    /\ waiting \in Seq(Tasks)

-----------------------------------------------------------------------------
(* Properties *)

\* Permits are held during calls only, "so that sleeping does not count against
\* the limit" (refresh_task.rs:127): every other permit is free, however tasks
\* end, retry or are skipped, none is idle while a task queues for one, and a
\* queueing task queues once.
PermitsForCalls ==
    cycle = "wait" =>
        /\ permits + Cardinality(Holders) = MAX_CONCURRENT_REFRESHES
        /\ waiting # <<>> => permits = 0
        /\ \A k \in Tasks : Cardinality({i \in DOMAIN waiting : waiting[i] = k})
                            = IF task[k].pc = "queued" THEN 1 ELSE 0

\* The account look-ups find for s is enabled and due.
Due(s) == \E i \in DOMAIN accounts : First(i, s) /\ accounts[i].enable /\ accounts[i].due

\* No account is forgotten: one that is enabled and due is refreshed, or is
\* disabled or leaves the list, although a cycle waits for its slowest task
\* before it looks again, a task gives way to a triggered refresh that may
\* fail, an answer may find its index out of range or write over a neighbour,
\* and an account may fall due just after the look.
DueServed == \A s \in Sessions : Due(s) ~> ~Due(s)

=============================================================================
