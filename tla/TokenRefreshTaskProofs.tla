----------------------- MODULE TokenRefreshTaskProofs -----------------------
(***************************************************************************)
(* Theorems about TokenRefreshTask, for every number of accounts, permits  *)
(* and attempts.                                                           *)
(***************************************************************************)
EXTENDS TokenRefreshTask, SequenceLemmas, SequenceTheorems, FiniteSetTheorems, TLAPS

-----------------------------------------------------------------------------
(* The inductive invariant *)

\* The permits that are not free are held by as many tasks.
Counted == permits + Cardinality(Holders) = MAX_CONCURRENT_REFRESHES

\* The queue holds exactly the tasks that wait, each once, and only while no
\* permit is free.
QueuedOnce ==
    /\ \A i, j \in DOMAIN waiting : waiting[i] = waiting[j] => i = j
    /\ \A s \in Tasks : task[s].pc = "queued" <=> \E i \in DOMAIN waiting : waiting[i] = s
    /\ waiting # <<>> => permits = 0

\* A task that is delayed has an attempt left.
AttemptLeft == \A s \in Tasks : task[s].pc = "delay" => task[s].attempt < MAX_ATTEMPTS_PER_CYCLE

IInv == TypeOK /\ Counted /\ QueuedOnce /\ AttemptLeft

Kinds == {NoTask} \cup [pc : {"start", "queued", "permitted", "call", "delay"},
                        session : Sessions, attempt : 1..MAX_ATTEMPTS_PER_CYCLE]

\* The set of holders and its size are finite.
LEMMA HoldersFinite == IsFiniteSet(Holders) /\ Cardinality(Holders) \in Nat
<1>1. Holders \in SUBSET Tasks
  BY DEF Holders
<1>2. IsFiniteSet(Tasks)
  BY NumbersAssumption, FS_Interval DEF Tasks
<1>3. IsFiniteSet(Holders)
  BY <1>1, <1>2, FS_Subset
<1> QED
  BY <1>3, FS_CardinalityType

\* Nobody holds a permit when every task is at its start or absent.
LEMMA NobodyHolds ==
    ASSUME \A s \in Tasks : task[s].pc \notin {"permitted", "call"}
    PROVE  Cardinality(Holders) = 0
<1>1. Holders = {}
  BY DEF Holders
<1> QED
  BY <1>1, FS_EmptySet

\* The start satisfies the invariant.
LEMMA Start == Init => IInv
<1> SUFFICES ASSUME Init
             PROVE  IInv
  OBVIOUS
<1>1. TypeOK
  <2>1. PICK enable \in [Sessions -> BOOLEAN], due \in [Sessions -> BOOLEAN] :
          accounts = [i \in 1..Accounts |->
                         [session |-> i, enable |-> enable[i], due |-> due[i]]]
    BY DEF Init
  <2>2. \A i \in 1..Accounts :
          [session |-> i, enable |-> enable[i], due |-> due[i]] \in Account
    BY DEF Account, Sessions
  <2>3. accounts \in Seq(Account) /\ Len(accounts) = Accounts
    BY <2>1, <2>2, NumbersAssumption
  <2>4. guard \in [Sessions -> [by : {"nobody", "task", "trigger"}, idx : 0..Accounts]]
    BY NumbersAssumption DEF Init, Free
  <2> QED
    BY <2>3, <2>4, NumbersAssumption DEF Init, TypeOK
<1>2. Counted
  BY NobodyHolds, NumbersAssumption DEF Init, Counted, NoTask
<1>3. QueuedOnce /\ AttemptLeft
  BY DEF Init, QueuedOnce, AttemptLeft, NoTask
<1> QED
  BY <1>1, <1>2, <1>3 DEF IInv

-----------------------------------------------------------------------------
(* Giving a permit back *)

\* A holder that goes on without its permit leaves the invariant's statements
\* about permits and queue true: either the permit is free again, or the first
\* of the queue holds it.
LEMMA Dropping ==
    ASSUME IInv, NEW s \in Holders, NEW t \in Kinds,
           t.pc \notin {"permitted", "call", "queued"},
           t.pc = "delay" => t.attempt < MAX_ATTEMPTS_PER_CYCLE,
           DropPermit(s, t)
    PROVE  /\ task' \in [Tasks -> Kinds]
           /\ permits' \in 0..MAX_CONCURRENT_REFRESHES
           /\ waiting' \in Seq(Tasks)
           /\ Counted' /\ QueuedOnce' /\ AttemptLeft'
<1> USE DEF IInv, Kinds
<1>s. s \in Tasks /\ task[s].pc \in {"permitted", "call"}
  BY DEF Holders
<1>t. task \in [Tasks -> Kinds] /\ permits \in Nat /\ waiting \in Seq(Tasks)
  BY NumbersAssumption DEF TypeOK
<1>c. IsFiniteSet(Holders) /\ Cardinality(Holders) \in Nat /\ Cardinality(Holders) > 0
  BY HoldersFinite, FS_EmptySet
<1>r. IsFiniteSet(Holders \ {s}) /\ Cardinality(Holders \ {s}) = Cardinality(Holders) - 1
  BY <1>c, FS_RemoveElement
<1>1. CASE waiting = <<>>
  <2>1. /\ permits' = permits + 1 /\ waiting' = waiting
        /\ task' = [task EXCEPT ![s] = t]
    BY <1>1 DEF DropPermit
  <2>2. Holders' = Holders \ {s}
    BY <2>1, <1>s, <1>t DEF Holders
  <2>3. Counted'
    BY <2>1, <2>2, <1>r, <1>c, <1>t, NumbersAssumption DEF Counted
  <2>4. task' \in [Tasks -> Kinds]
    BY <2>1, <1>s, <1>t
  <2>5. permits' \in 0..MAX_CONCURRENT_REFRESHES
    BY <2>1, <1>c, <1>t, NumbersAssumption DEF Counted
  <2>6. QueuedOnce'
    BY <2>1, <1>s, <1>t, <1>1 DEF QueuedOnce
  <2>7. AttemptLeft'
    BY <2>1, <1>s, <1>t DEF AttemptLeft
  <2> QED
    BY <2>1, <2>3, <2>4, <2>5, <2>6, <2>7, <1>t
<1>2. CASE waiting # <<>>
  <2> DEFINE h == Head(waiting)
  <2>1. /\ permits' = permits /\ waiting' = Tail(waiting)
        /\ task' = [task EXCEPT ![s] = t, ![h].pc = "permitted"]
    BY <1>2 DEF DropPermit
  <2>h. /\ Len(waiting) \in Nat /\ Len(waiting) > 0 /\ h = waiting[1]
        /\ DOMAIN waiting = 1..Len(waiting)
    BY <1>2, <1>t
  <2>2. h \in Tasks /\ task[h].pc = "queued" /\ h # s
    BY <2>h, <1>s, <1>t DEF QueuedOnce
  <2>k. task[h] \in [pc : {"start", "queued", "permitted", "call", "delay"},
                     session : Sessions, attempt : 1..MAX_ATTEMPTS_PER_CYCLE]
    BY <2>2, <1>t DEF NoTask
  <2>v. /\ task'[h] = [task[h] EXCEPT !.pc = "permitted"]
        /\ task'[s] = t
        /\ \A r \in Tasks \ {s, h} : task'[r] = task[r]
    BY <2>1, <2>2, <1>s, <1>t
  <2>p. task'[h].pc = "permitted"
    BY <2>v, <2>k
  <2>3. Holders' = (Holders \ {s}) \cup {h}
    BY <2>p, <2>v, <2>2, <1>s DEF Holders
  <2>4. h \notin Holders
    BY <2>2 DEF Holders
  <2>5. Cardinality(Holders') = Cardinality(Holders)
    <3>1. h \notin Holders \ {s}
      BY <2>4
    <3>2. Cardinality((Holders \ {s}) \cup {h}) = Cardinality(Holders \ {s}) + 1
      BY <3>1, <1>r, FS_AddElement
    <3> HIDE DEF h
    <3> QED
      BY <3>2, <2>3, <1>r, <1>c
  <2>6. Counted'
    BY <2>1, <2>5 DEF Counted
  <2>7. task' \in [Tasks -> Kinds]
    <3>1. [task[h] EXCEPT !.pc = "permitted"] \in Kinds
      BY <2>k
    <3>2. \A r \in Tasks : task'[r] \in Kinds
      BY <3>1, <2>v, <1>t
    <3>3. task' = [r \in Tasks |-> task'[r]]
      BY <2>1, <1>t
    <3> QED
      BY <3>2, <3>3
  <2>8. waiting' \in Seq(Tasks) /\ Len(waiting') = Len(waiting) - 1
        /\ \A i \in 1..Len(waiting) - 1 : waiting'[i] = waiting[i + 1]
    BY <2>1, <1>2, <1>t, HeadTailProperties, <2>h
  <2>d. DOMAIN waiting' = 1..Len(waiting) - 1
    BY <2>8
  <2>9. QueuedOnce'
    <3>1. ASSUME NEW i \in DOMAIN waiting', NEW j \in DOMAIN waiting', waiting'[i] = waiting'[j]
          PROVE  i = j
      <4>1. i + 1 \in DOMAIN waiting /\ j + 1 \in DOMAIN waiting
        BY <2>d, <2>h
      <4>2. waiting[i + 1] = waiting[j + 1]
        BY <3>1, <2>8, <2>d
      <4>3. i + 1 = j + 1
        BY <4>1, <4>2 DEF QueuedOnce
      <4> QED
        BY <4>3, <2>d, <2>h
    <3>2. ASSUME NEW r \in Tasks
          PROVE  task'[r].pc = "queued" <=> \E i \in DOMAIN waiting' : waiting'[i] = r
      <4>1. CASE r = h
        <5>1. \A i \in DOMAIN waiting' : waiting'[i] # h
          <6> SUFFICES ASSUME NEW i \in DOMAIN waiting', waiting'[i] = h
                       PROVE  FALSE
            OBVIOUS
          <6>1. i + 1 \in DOMAIN waiting /\ 1 \in DOMAIN waiting /\ waiting[i + 1] = waiting[1]
            BY <2>d, <2>h, <2>8
          <6>2. i + 1 = 1
            BY <6>1 DEF QueuedOnce
          <6> QED
            BY <6>2, <2>d, <2>h
        <5> QED
          BY <5>1, <4>1, <2>p
      <4>2. CASE r # h
        <5>1. task'[r].pc = "queued" <=> task[r].pc = "queued"
          BY <4>2, <2>v, <1>s
        <5>2. (\E i \in DOMAIN waiting : waiting[i] = r)
                  => \E i \in DOMAIN waiting' : waiting'[i] = r
          <6> SUFFICES ASSUME NEW i \in DOMAIN waiting, waiting[i] = r
                       PROVE  \E k \in DOMAIN waiting' : waiting'[k] = r
            OBVIOUS
          <6>1. i \in 1..Len(waiting) /\ i # 1
            BY <2>h, <4>2
          <6>2. i - 1 \in DOMAIN waiting' /\ waiting'[i - 1] = waiting[(i - 1) + 1]
            BY <6>1, <2>8, <2>d, <2>h
          <6>3. (i - 1) + 1 = i
            BY <6>1
          <6> QED
            BY <6>2, <6>3
        <5>3. (\E i \in DOMAIN waiting' : waiting'[i] = r)
                  => \E i \in DOMAIN waiting : waiting[i] = r
          <6> SUFFICES ASSUME NEW i \in DOMAIN waiting', waiting'[i] = r
                       PROVE  \E k \in DOMAIN waiting : waiting[k] = r
            OBVIOUS
          <6>1. i + 1 \in DOMAIN waiting /\ waiting[i + 1] = r
            BY <2>d, <2>h, <2>8
          <6> QED
            BY <6>1
        <5> QED
          BY <5>1, <5>2, <5>3 DEF QueuedOnce
      <4> QED
        BY <4>1, <4>2
    <3> QED
      BY <3>1, <3>2, <2>1, <1>2 DEF QueuedOnce
  <2>10. AttemptLeft'
    BY <2>v, <2>p DEF AttemptLeft
  <2> QED
    BY <2>1, <2>6, <2>7, <2>8, <2>9, <2>10 DEF TypeOK
<1> QED
  BY <1>1, <1>2

-----------------------------------------------------------------------------
(* The loop *)

LEMMA StartCycleKeeps == IInv /\ StartCycle => IInv'
<1> SUFFICES ASSUME IInv, StartCycle
             PROVE  IInv'
  OBVIOUS
<1>1. /\ task' \in [Tasks -> Kinds]
      /\ \A k \in Tasks : task'[k].pc \in {"none", "start"}
  <2> DEFINE first(k) == [pc |-> "start", session |-> accounts[k].session, attempt |-> 1]
             Due1(k) == k \in DOMAIN accounts /\ accounts[k].enable /\ accounts[k].due
  <2>1. task' = [k \in Tasks |-> IF Due1(k) THEN first(k) ELSE NoTask]
    BY DEF StartCycle
  <2>2. \A k \in DOMAIN accounts : first(k) \in Kinds
    <3> SUFFICES ASSUME NEW k \in DOMAIN accounts
                 PROVE  first(k) \in Kinds
      OBVIOUS
    <3>1. accounts[k].session \in Sessions
      <4>1. accounts[k] \in Account
        BY DEF IInv, TypeOK
      <4> QED
        BY <4>1 DEF Account
    <3>2. 1 \in 1..MAX_ATTEMPTS_PER_CYCLE
      BY NumbersAssumption
    <3> QED
      BY <3>1, <3>2 DEF Kinds
  <2>3. NoTask \in Kinds /\ NoTask.pc = "none" /\ \A k : first(k).pc = "start"
    BY DEF Kinds, NoTask
  <2> HIDE DEF first
  <2> QED
    BY <2>1, <2>2, <2>3
<1>2. task' \in [Tasks -> Kinds]
  BY <1>1
<1>3. TypeOK'
  BY <1>2, NumbersAssumption DEF IInv, TypeOK, StartCycle, accountVars, Kinds
<1>4. Holders' = {}
  BY <1>1 DEF Holders
<1>5. Counted'
  BY <1>4, FS_EmptySet, NumbersAssumption DEF Counted, StartCycle
<1>6. QueuedOnce' /\ AttemptLeft'
  BY <1>1 DEF StartCycle, QueuedOnce, AttemptLeft
<1> QED
  BY <1>3, <1>5, <1>6 DEF IInv

\* Steps that leave the tasks and the semaphore alone.
LEMMA BesideKeeps ==
    ASSUME IInv, UNCHANGED <<task, semaphore>>, TypeOK'
    PROVE  IInv'
BY DEF IInv, semaphore, Counted, Holders, QueuedOnce, AttemptLeft

-----------------------------------------------------------------------------
(* One task *)

LEMMA AcquirePermitKeeps ==
    ASSUME IInv, NEW s \in Tasks, AcquirePermit(s)
    PROVE  IInv'
<1> USE DEF IInv
<1>t. task \in [Tasks -> Kinds] /\ permits \in Nat /\ waiting \in Seq(Tasks)
  BY NumbersAssumption DEF TypeOK, Kinds
<1>k. task[s] \in [pc : {"start", "queued", "permitted", "call", "delay"},
                   session : Sessions, attempt : 1..MAX_ATTEMPTS_PER_CYCLE]
  BY <1>t DEF AcquirePermit, NoTask, Kinds
<1>f. task[s].pc = "start" /\ s \notin Holders
  BY DEF AcquirePermit, Holders
<1>1. CASE permits > 0
  <2>1. /\ permits' = permits - 1 /\ waiting' = waiting
        /\ task' = [task EXCEPT ![s].pc = "permitted"]
    BY <1>1 DEF AcquirePermit
  <2>2. Holders' = Holders \cup {s}
    BY <2>1, <1>t, <1>k DEF Holders
  <2>3. Cardinality(Holders') = Cardinality(Holders) + 1
    BY <2>2, <1>f, HoldersFinite, FS_AddElement
  <2>4. Counted'
    BY <2>1, <2>3, <1>t, HoldersFinite, NumbersAssumption DEF Counted
  <2>5. task' \in [Tasks -> Kinds]
    BY <2>1, <1>t, <1>k DEF Kinds
  <2>6. TypeOK'
    <3>1. permits' \in 0..MAX_CONCURRENT_REFRESHES
      BY <2>1, <1>1, <1>t, NumbersAssumption DEF TypeOK
    <3> QED
      BY <2>1, <2>5, <3>1 DEF TypeOK, AcquirePermit, accountVars, Kinds
  <2>7. QueuedOnce'
    BY <2>1, <1>t, <1>f, <1>1 DEF QueuedOnce
  <2>8. AttemptLeft'
    BY <2>1, <1>t, <1>k DEF AttemptLeft
  <2> QED
    BY <2>4, <2>6, <2>7, <2>8
<1>2. CASE ~(permits > 0)
  <2>1. /\ permits' = permits /\ waiting' = Append(waiting, s)
        /\ task' = [task EXCEPT ![s].pc = "queued"]
    BY <1>2 DEF AcquirePermit
  <2>2. Holders' = Holders
    BY <2>1, <1>t, <1>k, <1>f DEF Holders
  <2>3. Counted'
    BY <2>1, <2>2 DEF Counted
  <2>4. task' \in [Tasks -> Kinds]
    BY <2>1, <1>t, <1>k DEF Kinds
  <2>5. TypeOK'
    BY <2>1, <2>4, <1>t DEF TypeOK, AcquirePermit, accountVars, Kinds
  <2>w. /\ DOMAIN waiting = 1..Len(waiting) /\ Len(waiting) \in Nat
        /\ DOMAIN waiting' = 1..Len(waiting) + 1
        /\ \A i \in 1..Len(waiting) : waiting'[i] = waiting[i]
        /\ waiting'[Len(waiting) + 1] = s
    BY <2>1, <1>t
  <2>n. \A i \in DOMAIN waiting : waiting[i] # s
    BY <1>f DEF QueuedOnce
  <2>6. QueuedOnce'
    <3>1. ASSUME NEW i \in DOMAIN waiting', NEW j \in DOMAIN waiting', waiting'[i] = waiting'[j]
          PROVE  i = j
      <4>1. i = Len(waiting) + 1 \/ i \in DOMAIN waiting
        BY <2>w
      <4>2. j = Len(waiting) + 1 \/ j \in DOMAIN waiting
        BY <2>w
      <4> QED
        BY <4>1, <4>2, <3>1, <2>w, <2>n DEF QueuedOnce
    <3>2. ASSUME NEW r \in Tasks
          PROVE  task'[r].pc = "queued" <=> \E i \in DOMAIN waiting' : waiting'[i] = r
      <4>1. CASE r = s
        <5>1. task'[s].pc = "queued"
          BY <2>1, <1>t, <1>k
        <5> QED
          BY <5>1, <4>1, <2>w
      <4>2. CASE r # s
        <5>1. task'[r] = task[r]
          BY <4>2, <2>1, <1>t
        <5> QED
          BY <5>1, <4>2, <2>w DEF QueuedOnce
      <4> QED
        BY <4>1, <4>2
    <3>3. permits' = 0
      BY <1>2, <1>t, <2>1
    <3> QED
      BY <3>1, <3>2, <3>3 DEF QueuedOnce
  <2>7. AttemptLeft'
    BY <2>1, <1>t, <1>k DEF AttemptLeft
  <2> QED
    BY <2>3, <2>5, <2>6, <2>7
<1> QED
  BY <1>1, <1>2

\* What an error leads to: a task that has ended, or one that is delayed.
LEMMA AfterErrorGoesOn ==
    ASSUME TypeOK, NEW s \in Holders
    PROVE  /\ AfterError(s) \in Kinds
           /\ AfterError(s).pc \notin {"permitted", "call", "queued"}
           /\ AfterError(s).pc = "delay" => AfterError(s).attempt < MAX_ATTEMPTS_PER_CYCLE
<1>1. task[s] \in [pc : {"start", "queued", "permitted", "call", "delay"},
                   session : Sessions, attempt : 1..MAX_ATTEMPTS_PER_CYCLE]
  BY DEF Holders, TypeOK, NoTask
<1> QED
  BY <1>1, NumbersAssumption DEF AfterError, Kinds, NoTask

\* A session that enters the guard enters it with an index of the list.
LEMMA TakesTyped ==
    ASSUME TypeOK, NEW s \in Sessions, NEW who \in {"task", "trigger"},
           \E i \in DOMAIN accounts : Takes(i, s, who)
    PROVE  guard' \in [Sessions -> [by : {"nobody", "task", "trigger"}, idx : 0..Accounts]]
<1>1. PICK i \in DOMAIN accounts : guard' = [guard EXCEPT ![s] = [by |-> who, idx |-> i]]
  BY DEF Takes
<1>2. i \in 0..Accounts
  BY NumbersAssumption DEF TypeOK
<1>3. guard \in [Sessions -> [by : {"nobody", "task", "trigger"}, idx : 0..Accounts]]
  BY DEF TypeOK
<1> QED
  BY <1>1, <1>2, <1>3

LEMMA BeginKeeps ==
    ASSUME IInv, NEW k \in Tasks, Begin(k)
    PROVE  IInv'
<1> USE DEF IInv
<1>t. task \in [Tasks -> Kinds] /\ permits \in Nat /\ waiting \in Seq(Tasks)
  BY NumbersAssumption DEF TypeOK, Kinds
<1>k. task[k] \in [pc : {"start", "queued", "permitted", "call", "delay"},
                   session : Sessions, attempt : 1..MAX_ATTEMPTS_PER_CYCLE]
  BY <1>t DEF Begin, NoTask, Kinds
<1>f. task[k].pc = "permitted" /\ k \in Holders /\ UNCHANGED <<accountVars, cycle>>
  BY DEF Begin, Holders
<1>1. CASE /\ \E i \in DOMAIN accounts : Takes(i, task[k].session, "task")
           /\ task' = [task EXCEPT ![k].pc = "call"]
           /\ UNCHANGED semaphore
  <2>1. task' \in [Tasks -> Kinds]
    BY <1>1, <1>t, <1>k DEF Kinds
  <2>2. guard' \in [Sessions -> [by : {"nobody", "task", "trigger"}, idx : 0..Accounts]]
    BY <1>1, <1>k, TakesTyped
  <2>3. TypeOK'
    BY <1>1, <1>f, <2>1, <2>2 DEF TypeOK, accountVars, semaphore, Kinds
  <2>4. Holders' = Holders
    BY <1>1, <1>t, <1>k, <1>f DEF Holders
  <2>5. Counted'
    BY <1>1, <2>4 DEF Counted, semaphore
  <2>6. QueuedOnce' /\ AttemptLeft'
    BY <1>1, <1>t, <1>k, <1>f DEF QueuedOnce, AttemptLeft, semaphore
  <2> QED
    BY <2>3, <2>5, <2>6
<1>2. ASSUME NEW t \in {NoTask, AfterError(k)}, DropPermit(k, t), UNCHANGED guard
      PROVE  IInv'
  <2>1. /\ t \in Kinds /\ t.pc \notin {"permitted", "call", "queued"}
        /\ t.pc = "delay" => t.attempt < MAX_ATTEMPTS_PER_CYCLE
    BY <1>f, AfterErrorGoesOn DEF Kinds, NoTask
  <2>2. /\ task' \in [Tasks -> Kinds] /\ permits' \in 0..MAX_CONCURRENT_REFRESHES
        /\ waiting' \in Seq(Tasks) /\ Counted' /\ QueuedOnce' /\ AttemptLeft'
    BY <1>2, <2>1, <1>f, Dropping
  <2> QED
    BY <1>2, <1>f, <2>2 DEF TypeOK, accountVars, Kinds
<1> QED
  BY <1>1, <1>2 DEF Begin

LEMMA DelayOverKeeps ==
    ASSUME IInv, NEW k \in Tasks, DelayOver(k)
    PROVE  IInv'
<1> USE DEF IInv
<1>t. task \in [Tasks -> Kinds] /\ permits \in Nat /\ waiting \in Seq(Tasks)
  BY NumbersAssumption DEF TypeOK, Kinds
<1>k. task[k] \in [pc : {"start", "queued", "permitted", "call", "delay"},
                   session : Sessions, attempt : 1..MAX_ATTEMPTS_PER_CYCLE]
  BY <1>t DEF DelayOver, NoTask, Kinds
<1>f. task[k].pc = "delay" /\ task[k].attempt + 1 \in 1..MAX_ATTEMPTS_PER_CYCLE
  BY <1>k, NumbersAssumption DEF DelayOver, AttemptLeft
<1> DEFINE next == [pc |-> "start", session |-> task[k].session,
                    attempt |-> task[k].attempt + 1]
<1>1. /\ task' = [task EXCEPT ![k] = next]
      /\ UNCHANGED <<accountVars, guard, cycle, semaphore>>
  BY <1>k, <1>t DEF DelayOver
<1>2. next \in Kinds /\ next.pc = "start"
  BY <1>f, <1>k DEF Kinds
<1> HIDE DEF next
<1>3. task' \in [Tasks -> Kinds]
  BY <1>1, <1>2, <1>t
<1>4. TypeOK'
  BY <1>1, <1>3 DEF TypeOK, accountVars, semaphore, Kinds
<1>5. Holders' = Holders
  BY <1>1, <1>2, <1>f, <1>t DEF Holders
<1>6. Counted'
  BY <1>1, <1>5 DEF Counted, semaphore
<1>7. QueuedOnce' /\ AttemptLeft'
  BY <1>1, <1>2, <1>t, <1>f DEF QueuedOnce, AttemptLeft, semaphore
<1> QED
  BY <1>4, <1>6, <1>7

-----------------------------------------------------------------------------
(* The answer of the OAuth server *)

\* What TypeOK says of the account list and of the failure counters.
AccountsTyped == accounts \in Seq(Account) /\ Len(accounts) <= Accounts
FailuresTyped == failures \in [Sessions -> 0..CounterMax]

\* The refreshed copy replaces an entry of the list, or the list stays.
LEMMA ReplaceTyped ==
    ASSUME TypeOK, NEW s \in Sessions, Replace(s)
    PROVE  AccountsTyped'
<1> DEFINE fresh == [session |-> s, enable |-> TRUE, due |-> FALSE]
<1>1. fresh \in Account
  BY DEF Account
<1>2. accounts' = [accounts EXCEPT ![guard[s].idx] = fresh]
  BY DEF Replace
<1>3. /\ accounts \in Seq(Account) /\ Len(accounts) <= Accounts
      /\ DOMAIN accounts = 1..Len(accounts) /\ Len(accounts) \in Nat
      /\ \A i \in 1..Len(accounts) : accounts[i] \in Account
  BY DEF TypeOK
<1> HIDE DEF fresh
<1>4. accounts' \in [1..Len(accounts) -> Account]
  BY <1>1, <1>2, <1>3
<1>5. accounts' \in Seq(Account) /\ Len(accounts') = Len(accounts)
  BY <1>3, <1>4
<1> QED
  BY <1>3, <1>5 DEF AccountsTyped

\* A failure counter saturates.
LEMMA CountTyped ==
    ASSUME TypeOK, NEW s \in Sessions, CountFailure(s)
    PROVE  FailuresTyped'
<1>1. failures \in [Sessions -> 0..CounterMax]
  BY DEF TypeOK
<1>2. (IF failures[s] = CounterMax THEN CounterMax ELSE failures[s] + 1) \in 0..CounterMax
  BY <1>1, NumbersAssumption
<1> QED
  BY <1>1, <1>2 DEF CountFailure, FailuresTyped

\* Whatever the answer, list and counters keep their types.
LEMMA AnswerTyped ==
    ASSUME TypeOK, NEW s \in Sessions, AnswerOk(s) \/ AnswerErr(s)
    PROVE  AccountsTyped' /\ FailuresTyped'
<1>0. AccountsTyped /\ FailuresTyped
  BY DEF TypeOK, AccountsTyped, FailuresTyped
<1>1. CASE Refreshed(s)
  <2>1. FailuresTyped'
    BY <1>1, <1>0, NumbersAssumption DEF Refreshed, FailuresTyped
  <2> QED
    BY <2>1, <1>1, ReplaceTyped DEF Refreshed
<1>2. CASE Unsaved(s)
  BY <1>2, <1>0, ReplaceTyped DEF Unsaved, FailuresTyped
<1>3. CASE OutOfRange(s)
  BY <1>3, <1>0 DEF OutOfRange, accountVars, AccountsTyped, FailuresTyped
<1>4. CASE Fails(s)
  BY <1>4, <1>0, CountTyped DEF Fails, AccountsTyped
<1>5. CASE FailsForGood(s)
  <2> DEFINE After(i) == IF First(i, s) THEN [accounts[i] EXCEPT !.enable = FALSE]
                         ELSE accounts[i]
  <2>1. accounts' = [i \in DOMAIN accounts |-> After(i)]
    BY <1>5 DEF FailsForGood
  <2>2. \A i \in DOMAIN accounts : accounts[i] \in Account
    BY <1>0 DEF AccountsTyped
  <2>3. \A i \in DOMAIN accounts : After(i) \in Account
    BY <2>2 DEF Account
  <2>4. DOMAIN accounts = 1..Len(accounts) /\ Len(accounts) \in Nat
    BY <1>0 DEF AccountsTyped
  <2> HIDE DEF After
  <2>5. accounts' \in Seq(Account) /\ Len(accounts') = Len(accounts)
    BY <2>1, <2>3, <2>4
  <2> QED
    BY <2>5, <1>0, <1>5, CountTyped DEF FailsForGood, AccountsTyped
<1> QED
  BY <1>1, <1>2, <1>3, <1>4, <1>5 DEF AnswerOk, AnswerErr

\* A session that leaves the guard leaves it typed.
LEMMA ReleasedTyped ==
    ASSUME TypeOK, NEW s, guard' = [guard EXCEPT ![s] = Free]
    PROVE  guard' \in [Sessions -> [by : {"nobody", "task", "trigger"}, idx : 0..Accounts]]
<1>1. Free \in [by : {"nobody", "task", "trigger"}, idx : 0..Accounts]
  BY NumbersAssumption DEF Free
<1>2. guard \in [Sessions -> [by : {"nobody", "task", "trigger"}, idx : 0..Accounts]]
  BY DEF TypeOK
<1> QED
  BY <1>1, <1>2

LEMMA TaskAnsweredKeeps ==
    ASSUME IInv, NEW k \in Tasks, TaskAnswered(k)
    PROVE  IInv'
<1> USE DEF IInv
<1>f. k \in Holders
  BY DEF TaskAnswered, Holders
<1>s. task[k].session \in Sessions
  BY DEF TaskAnswered, TypeOK, NoTask
<1>1. PICK t \in {NoTask, AfterError(k)} : DropPermit(k, t)
  BY DEF TaskAnswered
<1>2. /\ t \in Kinds /\ t.pc \notin {"permitted", "call", "queued"}
      /\ t.pc = "delay" => t.attempt < MAX_ATTEMPTS_PER_CYCLE
  BY <1>f, AfterErrorGoesOn DEF Kinds, NoTask
<1>3. /\ task' \in [Tasks -> Kinds] /\ permits' \in 0..MAX_CONCURRENT_REFRESHES
      /\ waiting' \in Seq(Tasks) /\ Counted' /\ QueuedOnce' /\ AttemptLeft'
  BY <1>1, <1>2, <1>f, Dropping
<1>4. AccountsTyped' /\ FailuresTyped'
  BY <1>s, AnswerTyped DEF TaskAnswered
<1>5. guard' \in [Sessions -> [by : {"nobody", "task", "trigger"}, idx : 0..Accounts]]
  BY ReleasedTyped DEF TaskAnswered
<1>6. cycle' \in {"sleep", "wait"}
  BY DEF TaskAnswered, TypeOK
<1> QED
  BY <1>3, <1>4, <1>5, <1>6 DEF TypeOK, Kinds, AccountsTyped, FailuresTyped

-----------------------------------------------------------------------------
(* What happens beside the loop *)

LEMMA TriggersKeep ==
    ASSUME IInv, NEW s \in Sessions, Trigger(s) \/ TriggerAnswered(s)
    PROVE  IInv'
<1>1. CASE Trigger(s)
  <2>1. guard' \in [Sessions -> [by : {"nobody", "task", "trigger"}, idx : 0..Accounts]]
    BY <1>1, TakesTyped DEF Trigger, IInv
  <2>2. TypeOK'
    BY <1>1, <2>1 DEF TypeOK, IInv, Trigger, accountVars, semaphore
  <2> QED
    BY <2>2, <1>1, BesideKeeps DEF Trigger
<1>2. CASE TriggerAnswered(s)
  <2>1. AccountsTyped' /\ FailuresTyped'
    BY <1>2, AnswerTyped DEF TriggerAnswered, IInv
  <2>2. guard' \in [Sessions -> [by : {"nobody", "task", "trigger"}, idx : 0..Accounts]]
    BY <1>2, ReleasedTyped DEF TriggerAnswered, IInv
  <2>3. TypeOK'
    BY <1>2, <2>1, <2>2 DEF TypeOK, IInv, TriggerAnswered, semaphore,
                            AccountsTyped, FailuresTyped
  <2> QED
    BY <2>3, <1>2, BesideKeeps DEF TriggerAnswered
<1> QED
  BY <1>1, <1>2

LEMMA OthersKeep ==
    ASSUME IInv, NEW i \in 1..Accounts, Expire(i) \/ Toggle(i) \/ Delete(i)
    PROVE  IInv'
<1>0. /\ i \in DOMAIN accounts /\ accounts[i] \in Account
      /\ accounts \in Seq(Account) /\ Len(accounts) <= Accounts
      /\ i \in 1..Len(accounts) /\ Len(accounts) \in Nat
  BY DEF Expire, Toggle, Delete, IInv, TypeOK
<1>1. AccountsTyped'
  <2>1. CASE Expire(i) \/ Toggle(i)
    <3>1. PICK a \in Account : accounts' = [accounts EXCEPT ![i] = a]
      <4>1. [accounts[i] EXCEPT !.due = TRUE] \in Account
            /\ [accounts[i] EXCEPT !.enable = ~accounts[i].enable] \in Account
        BY <1>0 DEF Account
      <4> QED
        BY <4>1, <2>1 DEF Expire, Toggle
    <3> QED
      BY <3>1, <1>0 DEF AccountsTyped
  <2>2. CASE Delete(i)
    <3> DEFINE t == RemoveAt(accounts, i)
    <3>1. t \in Seq(Account) /\ DOMAIN t = 1..Len(accounts) - 1
      BY <1>0, Removed
    <3>2. accounts' = t
      BY <2>2 DEF Delete
    <3> HIDE DEF t
    <3>3. Len(t) = Len(accounts) - 1
      BY <3>1, <1>0
    <3> QED
      BY <3>1, <3>2, <3>3, <1>0, NumbersAssumption DEF AccountsTyped
  <2> QED
    BY <2>1, <2>2
<1>2. UNCHANGED <<failures, guard, cycle, task, semaphore>>
  BY DEF Expire, Toggle, Delete
<1>3. TypeOK'
  BY <1>1, <1>2 DEF TypeOK, IInv, semaphore, AccountsTyped
<1> QED
  BY <1>2, <1>3, BesideKeeps

-----------------------------------------------------------------------------
(* Theorems *)

\* Every step keeps the invariant.
LEMMA Inductive == IInv /\ [Next]_vars => IInv'
<1> SUFFICES ASSUME IInv, [Next]_vars
             PROVE  IInv'
  OBVIOUS
<1>1. CASE StartCycle
  BY <1>1, StartCycleKeeps
<1>2. CASE EndCycle
  <2>1. TypeOK'
    BY <1>2 DEF EndCycle, IInv, TypeOK, accountVars, semaphore
  <2> QED
    BY <2>1, <1>2, BesideKeeps DEF EndCycle
<1>3. ASSUME NEW k \in Tasks, TaskStep(k)
      PROVE  IInv'
  BY <1>3, AcquirePermitKeeps, BeginKeeps, DelayOverKeeps, TaskAnsweredKeeps DEF TaskStep
<1>4. ASSUME NEW s \in Sessions, Trigger(s) \/ TriggerAnswered(s)
      PROVE  IInv'
  BY <1>4, TriggersKeep
<1>5. ASSUME NEW i \in 1..Accounts, Expire(i) \/ Toggle(i) \/ Delete(i)
      PROVE  IInv'
  BY <1>5, OthersKeep
<1>6. CASE UNCHANGED vars
  <2>1. TypeOK'
    BY <1>6 DEF vars, IInv, TypeOK, accountVars, semaphore
  <2> QED
    BY <2>1, <1>6, BesideKeeps DEF vars
<1> QED
  BY <1>1, <1>2, <1>3, <1>4, <1>5, <1>6 DEF Next

\* The invariant says what the property asks of permits and queue.
LEMMA Enough == IInv => PermitsForCalls
<1> SUFFICES ASSUME IInv, NEW k \in Tasks
             PROVE  Cardinality({i \in DOMAIN waiting : waiting[i] = k})
                    = IF task[k].pc = "queued" THEN 1 ELSE 0
  BY DEF IInv, PermitsForCalls, Counted, QueuedOnce
<1> DEFINE places == {i \in DOMAIN waiting : waiting[i] = k}
<1>1. CASE task[k].pc = "queued"
  <2>1. PICK i \in DOMAIN waiting : waiting[i] = k
    BY <1>1 DEF IInv, QueuedOnce
  <2>2. places = {i}
    BY <2>1 DEF IInv, QueuedOnce
  <2>3. Cardinality(places) = 1
    BY <2>2, FS_Singleton
  <2> QED
    BY <1>1, <2>3
<1>2. CASE task[k].pc # "queued"
  <2>1. places = {}
    BY <1>2 DEF IInv, QueuedOnce
  <2>2. Cardinality(places) = 0
    BY <2>1, FS_EmptySet
  <2> QED
    BY <1>2, <2>2
<1> QED
  BY <1>1, <1>2

\* The invariant holds in every reachable state.
LEMMA Invariant == Spec => []IInv
BY Start, Inductive, PTL DEF Spec

\* Attempts stay within a cycle's limit, failure counters within their width,
\* permits within the semaphore, and the list never grows.
THEOREM TypeCorrect == Spec => []TypeOK
<1>1. IInv => TypeOK
  BY DEF IInv
<1> QED
  BY <1>1, Invariant, PTL

\* Permits are held during calls only, and tasks queue once and for a reason,
\* for every number of accounts and permits.
THEOREM PermitsCorrect == Spec => []PermitsForCalls
BY Enough, Invariant, PTL
=============================================================================
