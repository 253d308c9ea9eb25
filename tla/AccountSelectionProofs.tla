----------------------- MODULE AccountSelectionProofs -----------------------
(* Theorems about AccountSelection, for every value of its constants. *)
EXTENDS AccountSelection, SequenceTheorems, FiniteSetTheorems, TLAPS

\* Restricting a pool keeps what the set asks for, nothing else.
LEMMA DomainOfRestriction ==
    ASSUME NEW f, NEW S
    PROVE  DOMAIN Restrict(f, S) = S
BY DEF Restrict

-----------------------------------------------------------------------------
(* The pools *)

\* Taking accounts out of both maps keeps them disjoint.
LEMMA RemovalKeepsDisjoint ==
    ASSUME NEW s, PoolsDisjoint, Removed(s)
    PROVE  PoolsDisjoint'
<1> SUFFICES ASSUME NEW p \in Pools
             PROVE  (DOMAIN active'[p]) \cap cooldown'[p] = {}
  BY DEF PoolsDisjoint
<1>1. DOMAIN active'[p] = DOMAIN active[p] \ {s}
  BY DomainOfRestriction DEF Removed
<1>2. cooldown'[p] = cooldown[p] \ {s}
  BY DEF Removed
<1> QED
  BY <1>1, <1>2 DEF PoolsDisjoint

\* Whatever a quota answer says, it moves the account from one map to the other
\* and never leaves it in both.
LEMMA QuotaKeepsDisjoint ==
    ASSUME NEW s, NEW groups, PoolsDisjoint, UpdateFromQuota(s, groups)
    PROVE  PoolsDisjoint'
<1> SUFFICES ASSUME NEW p \in Pools
             PROVE  (DOMAIN active'[p]) \cap cooldown'[p] = {}
  BY DEF PoolsDisjoint
<1> DEFINE g == groups[p]
<1>d. (DOMAIN active[p]) \cap cooldown[p] = {}
  BY DEF PoolsDisjoint
<1>1. CASE p \notin DOMAIN groups
  BY <1>1, <1>d DEF UpdateFromQuota
<1>2. CASE p \in DOMAIN groups /\ Cools(g)
  <2>1. active'[p] = Restrict(active[p], DOMAIN active[p] \ {s})
    BY <1>2 DEF UpdateFromQuota
  <2>2. DOMAIN active'[p] = DOMAIN active[p] \ {s}
    BY <2>1, DomainOfRestriction
  <2>3. cooldown'[p] = cooldown[p] \cup {s}
    BY <1>2 DEF UpdateFromQuota
  <2> QED
    BY <2>2, <2>3, <1>d
<1>3. CASE p \in DOMAIN groups /\ ~Cools(g) /\ Activates(g)
  <2>1. DOMAIN active'[p] = DOMAIN active[p] \cup {s}
    BY <1>3 DEF UpdateFromQuota
  <2>2. cooldown'[p] = cooldown[p] \ {s}
    BY <1>3 DEF UpdateFromQuota
  <2> QED
    BY <2>1, <2>2, <1>d
<1>4. CASE p \in DOMAIN groups /\ ~Cools(g) /\ ~Activates(g)
  BY <1>4, <1>d DEF UpdateFromQuota
<1> QED
  BY <1>1, <1>2, <1>3, <1>4

\* Synchronising with the enabled accounts only takes entries out.
LEMMA SyncKeepsDisjoint ==
    ASSUME PoolsDisjoint, Sync
    PROVE  PoolsDisjoint'
<1> SUFFICES ASSUME NEW p \in Pools
             PROVE  (DOMAIN active'[p]) \cap cooldown'[p] = {}
  BY DEF PoolsDisjoint
<1> DEFINE valid == Enabled(refresher.list)
<1>1. DOMAIN active'[p] = DOMAIN active[p] \cap valid
  BY DomainOfRestriction DEF Sync
<1>2. cooldown'[p] = cooldown[p] \cap valid
  BY DEF Sync
<1> QED
  BY <1>1, <1>2 DEF PoolsDisjoint

\* Every step keeps the two maps of every pool disjoint.
LEMMA StepKeepsDisjoint ==
    ASSUME PoolsDisjoint, [Next]_vars
    PROVE  PoolsDisjoint'
<1> USE DEF Others, store, pools
<1>u. ASSUME UNCHANGED pools PROVE PoolsDisjoint'
  BY <1>u DEF PoolsDisjoint
<1>1. CASE RefresherStep
  <2>1. CASE Snapshot \/ CycleEnds
    BY <2>1, <1>u DEF Snapshot, CycleEnds
  <2>2. CASE Sync
    BY <2>2, SyncKeepsDisjoint
  <2>3. CASE Fetch
    BY <2>3, <1>u, QuotaKeepsDisjoint DEF Fetch
  <2> QED
    BY <1>1, <2>1, <2>2, <2>3 DEF RefresherStep
<1>2. ASSUME NEW r \in Requests, RequestStep(r) PROVE PoolsDisjoint'
  <2>1. CASE DropStale(r)
    BY <2>1, RemovalKeepsDisjoint DEF DropStale
  <2>2. CASE ~DropStale(r)
    BY <1>2, <2>2, <1>u DEF RequestStep, FromPool, LeavePool, LookUp, Count, Rotate,
       RotateNothing, Fail, Answer
  <2> QED
    BY <2>1, <2>2
<1>3. ASSUME NEW h \in Handlers, HandlerStep(h) PROVE PoolsDisjoint'
  <2>1. CASE Purge(h)
    BY <2>1, RemovalKeepsDisjoint DEF Purge
  <2>2. CASE ~Purge(h)
    BY <1>3, <2>2, <1>u DEF HandlerStep, ReadFlag, SetFlag, DeleteAt, Replace,
       CommitRefreshAll
  <2> QED
    BY <2>1, <2>2
<1>4. ASSUME NEW r \in Requests, NEW p \in Pools \cup {NoPool}, BeginRequest(r, p)
      PROVE  PoolsDisjoint'
  BY <1>4, <1>u DEF BeginRequest
<1>5. ASSUME NEW h \in Handlers, NEW op \in HandlerOps, NEW s \in Sessions,
             BeginAdmin(h, op, s)
      PROVE  PoolsDisjoint'
  BY <1>5, <1>u DEF BeginAdmin
<1>6. CASE Add
  BY <1>6, <1>u DEF Add
<1>7. ASSUME NEW s \in Sessions, Break(s) PROVE PoolsDisjoint'
  BY <1>7, <1>u DEF Break
<1>8. CASE UNCHANGED vars
  BY <1>8, <1>u DEF vars
<1> QED
  BY <1>1, <1>2, <1>3, <1>4, <1>5, <1>6, <1>7, <1>8 DEF Next

\* No account is ever both available and cooling down in a quota group: not even
\* when quota answers of old snapshots, removals by requests and removals by the
\* WebUI arrive in any order.
THEOREM DisjointPools == Spec => []PoolsDisjoint
<1>1. Init => PoolsDisjoint
  BY DEF Init, PoolsDisjoint
<1>2. PoolsDisjoint /\ [Next]_vars => PoolsDisjoint'
  BY StepKeepsDisjoint
<1> QED
  BY <1>1, <1>2, PTL DEF Spec

-----------------------------------------------------------------------------
(* Types and the cursor *)

\* What the types do not say and the steps need: a rotation has rounds left, a
\* handler that is at work has found an account, a refresh has read it.
AtWork ==
    /\ \A r \in Requests : req[r].at = "rotate" => req[r].rounds > 0
    /\ \A h \in Handlers :
          handler[h].at # "idle" => handler[h].idx > 0 /\ handler[h].sid # 0
    /\ \A h \in Handlers : handler[h].at = "refresh" => handler[h].copy # <<>>

IInv == TypeOK /\ AtWork

\* The enabled sessions of a list of accounts.
LEMMA EnabledType ==
    ASSUME NEW list \in Seq(Account)
    PROVE  Enabled(list) \subseteq Sessions
<1>1. DOMAIN list = 1..Len(list) /\ \A j \in 1..Len(list) : list[j] \in Account
  BY ElementOfSeq
<1>2. \A a \in Account : a.session_id \in Sessions
  BY DEF Account
<1> QED
  BY <1>1, <1>2 DEF Enabled

LEMMA RemoveAtType ==
    ASSUME NEW S, NEW s \in Seq(S), NEW i \in DOMAIN s
    PROVE  RemoveAt(s, i) \in Seq(S) /\ Len(RemoveAt(s, i)) = Len(s) - 1
<1> DEFINE front == SubSeq(s, 1, i - 1)
           back  == SubSeq(s, i + 1, Len(s))
<1>1. i \in 1..Len(s) /\ Len(s) \in Nat
  OBVIOUS
<1>2. front \in Seq(S) /\ Len(front) = i - 1
  BY <1>1, SubSeqProperties
<1>3. back \in Seq(S) /\ Len(back) = Len(s) - i
  BY <1>1, SubSeqProperties
<1>4. RemoveAt(s, i) = front \o back
  BY DEF RemoveAt
<1> HIDE DEF front, back
<1>5. front \o back \in Seq(S) /\ Len(front \o back) = (i - 1) + (Len(s) - i)
  BY <1>2, <1>3, ConcatProperties
<1> QED
  BY <1>1, <1>4, <1>5

\* Replacing one element keeps the list a list, of the same length.
LEMMA ReplaceType ==
    ASSUME NEW S, NEW s \in Seq(S), NEW i \in DOMAIN s, NEW x \in S
    PROVE  [s EXCEPT ![i] = x] \in Seq(S) /\ Len([s EXCEPT ![i] = x]) = Len(s)
  BY ExceptSeq

LEMMA IdleRequestType == IdleRequest \in Request
  BY DEF IdleRequest, Request

LEMMA IdleHandlerType == IdleHandler \in Handler
  BY DEF IdleHandler, Handler, HandlerOps

\* The count of enabled accounts is a number.
LEMMA EnabledCount ==
    ASSUME NEW list \in Seq(Account)
    PROVE  Cardinality({i \in DOMAIN list : list[i].enable}) \in Nat
<1>1. DOMAIN list = 1..Len(list) /\ Len(list) \in Nat
  OBVIOUS
<1>2. IsFiniteSet(1..Len(list))
  BY <1>1, FS_Interval
<1>3. IsFiniteSet({i \in DOMAIN list : list[i].enable})
  BY <1>1, <1>2, FS_Subset
<1> QED
  BY <1>3, FS_CardinalityType

\* The part of the invariant about one request.
RequestOK(t) == t \in Request /\ (t.at = "rotate" => t.rounds > 0)

\* The part about one handler.
HandlerOK(t) ==
    /\ t \in Handler
    /\ t.at # "idle" => t.idx > 0 /\ t.sid # 0
    /\ t.at = "refresh" => t.copy # <<>>

LEMMA Parts ==
    IInv <=> /\ accounts \in Seq(Account)
             /\ current_index \in Nat /\ (current_index = 0 \/ current_index < Len(accounts))
             /\ active \in [Pools -> Quota] /\ cooldown \in [Pools -> SUBSET Sessions]
             /\ refresher \in Refresher
             /\ req \in [Requests -> Request] /\ \A r \in Requests : RequestOK(req[r])
             /\ handler \in [Handlers -> Handler] /\ \A h \in Handlers : HandlerOK(handler[h])
             /\ next_session \in 1..(MaxSession + 1)
             /\ served \in [Sessions -> Nat]
            
  BY DEF IInv, TypeOK, AtWork, RequestOK, HandlerOK

\* A step that changes one request keeps the invariant if the new value fits.
LEMMA OneRequest ==
    ASSUME IInv, NEW r \in Requests, NEW t, RequestOK(t), Becomes(r, t), UNCHANGED Others
    PROVE  IInv'
<1> USE DEF Others, store, pools
<1>1. req' \in [Requests -> Request] /\ \A q \in Requests : RequestOK(req'[q])
  BY DEF Becomes, RequestOK, IInv, TypeOK, AtWork
<1> QED
  BY <1>1, Zenon DEF IInv, TypeOK, AtWork, RequestOK

\* The same for a step that changes one handler.
LEMMA OneHandler ==
    ASSUME IInv, NEW h \in Handlers, NEW t, HandlerOK(t),
           handler' = [handler EXCEPT ![h] = t],
           UNCHANGED <<store, pools, refresher, req, next_session, served>>
    PROVE  IInv'
<1> USE DEF store, pools
<1>1. handler' \in [Handlers -> Handler] /\ \A g \in Handlers : HandlerOK(handler'[g])
  BY DEF HandlerOK, IInv, TypeOK, AtWork
<1> QED
  BY <1>1, Zenon DEF IInv, TypeOK, AtWork, HandlerOK

\* The history that every change of the list resets keeps its types.
LEMMA ListChangesType ==
    ASSUME IInv, ListChanges
    PROVE  /\ req' \in [Requests -> Request] /\ \A r \in Requests : RequestOK(req'[r])
           /\ served' \in [Sessions -> Nat]
<1>1. ASSUME NEW t \in Request PROVE Disturbed(t) \in Request /\ Disturbed(t).at = t.at
                                    /\ Disturbed(t).rounds = t.rounds
  BY DEF Disturbed, Request
<1>2. ASSUME NEW r \in Requests PROVE RequestOK(Disturbed(req[r])) /\ req[r] \in Request
  BY <1>1, Parts DEF RequestOK
<1>3. req' = [r \in Requests |-> Disturbed(req[r])]
  BY DEF ListChanges
<1>4. req' \in [Requests -> Request] /\ \A r \in Requests : RequestOK(req'[r])
  BY <1>1, <1>2, <1>3
<1>5. served' \in [Sessions -> Nat]
  BY Parts DEF ListChanges
<1> QED
  BY <1>4, <1>5

LEMMA ServeType ==
    ASSUME served \in [Sessions -> Nat], NEW s \in Sessions
    PROVE  Serve(s) \in [Sessions -> Nat]
<1> DEFINE more == [served EXCEPT ![s] = @ + 1]
<1>1. more \in [Sessions -> Nat]
  OBVIOUS
<1> HIDE DEF more
<1>2. [t \in Sessions |-> IF more[t] > 0 THEN more[t] - 1 ELSE 0] \in [Sessions -> Nat]
  BY <1>1
<1>3. Serve(s) \in {more, [t \in Sessions |-> IF more[t] > 0 THEN more[t] - 1 ELSE 0]}
  BY DEF Serve, more
<1> QED
  BY <1>1, <1>2, <1>3

LEMMA QuotaType ==
    ASSUME NEW f, NEW S \in SUBSET Sessions, f \in [S -> 0..MaxFraction]
    PROVE  f \in Quota
  BY DEF Quota

\* Entries of a pool are accounts with a fraction.
LEMMA PoolEntries ==
    ASSUME IInv, NEW p \in Pools
    PROVE  /\ DOMAIN active[p] \in SUBSET Sessions
           /\ active[p] \in [DOMAIN active[p] -> 0..MaxFraction]
           /\ active[p] \in Quota
           /\ cooldown[p] \in SUBSET Sessions
<1>1. active[p] \in Quota /\ cooldown[p] \in SUBSET Sessions
  BY Parts
<1>2. PICK S \in SUBSET Sessions : active[p] \in [S -> 0..MaxFraction]
  BY <1>1 DEF Quota
<1> QED
  BY <1>1, <1>2

LEMMA RestrictQuota ==
    ASSUME IInv, NEW p \in Pools, NEW S \in SUBSET (DOMAIN active[p])
    PROVE  Restrict(active[p], S) \in Quota
<1>1. Restrict(active[p], S) \in [S -> 0..MaxFraction]
  BY PoolEntries DEF Restrict
<1>2. S \in SUBSET Sessions
  BY PoolEntries
<1> QED
  BY <1>1, <1>2, QuotaType

LEMMA RemovedType ==
    ASSUME IInv, NEW s, Removed(s)
    PROVE  active' \in [Pools -> Quota] /\ cooldown' \in [Pools -> SUBSET Sessions]
<1>1. \A p \in Pools : Restrict(active[p], DOMAIN active[p] \ {s}) \in Quota
  BY RestrictQuota
<1>2. \A p \in Pools : cooldown[p] \ {s} \in SUBSET Sessions
  BY PoolEntries
<1> QED
  BY <1>1, <1>2, Zenon DEF Removed

\* A quota answer adds an account with a fraction, or takes one out.
LEMMA UpdateType ==
    ASSUME IInv, NEW s \in Sessions, NEW G \in SUBSET Pools, NEW groups \in [G -> Group],
           UpdateFromQuota(s, groups)
    PROVE  active' \in [Pools -> Quota] /\ cooldown' \in [Pools -> SUBSET Sessions]
<1>1. active' = [p \in Pools |-> active'[p]] /\ cooldown' = [p \in Pools |-> cooldown'[p]]
  BY DEF UpdateFromQuota
<1>2. ASSUME NEW p \in Pools PROVE active'[p] \in Quota
  <2>1. CASE p \notin G
    BY <2>1, PoolEntries DEF UpdateFromQuota
  <2>2. CASE p \in G /\ Cools(groups[p])
    <3>1. active'[p] = Restrict(active[p], DOMAIN active[p] \ {s})
      BY <2>2 DEF UpdateFromQuota
    <3> QED
      BY <3>1, RestrictQuota
  <2>3. CASE p \in G /\ ~Cools(groups[p]) /\ Activates(groups[p])
    <3> DEFINE S == DOMAIN active[p] \cup {s}
               f == [t \in S |-> IF t = s THEN groups[p].fraction ELSE active[p][t]]
    <3>1. active'[p] = f
      BY <2>3 DEF UpdateFromQuota
    <3>2. groups[p] \in Group
      BY <2>3
    <3>3. groups[p].fraction \in 0..MaxFraction
      BY <2>3, <3>2 DEF Group, Activates
    <3>4. f \in [S -> 0..MaxFraction] /\ S \in SUBSET Sessions
      BY <3>3, PoolEntries
    <3> HIDE DEF f, S
    <3> QED
      BY <3>1, <3>4, QuotaType
  <2>4. CASE p \in G /\ ~Cools(groups[p]) /\ ~Activates(groups[p])
    BY <2>4, PoolEntries DEF UpdateFromQuota
  <2> QED
    BY <2>1, <2>2, <2>3, <2>4
<1>3. ASSUME NEW p \in Pools PROVE cooldown'[p] \in SUBSET Sessions
  <2>1. cooldown'[p] \in {cooldown[p], cooldown[p] \cup {s}, cooldown[p] \ {s}}
    BY DEF UpdateFromQuota
  <2> QED
    BY <2>1, PoolEntries
<1> QED
  BY <1>1, <1>2, <1>3

-----------------------------------------------------------------------------
(* The invariant is inductive *)

LEMMA InvInit == Init => IInv
<1> SUFFICES ASSUME Init PROVE IInv
  OBVIOUS
<1>1. accounts \in Seq(Account) /\ Len(accounts) \in 0..MaxSession
  <2>1. PICK n \in 0..MaxSession : accounts \in [1..n -> Account]
    BY InitialAssumption DEF Init
  <2>2. n \in Nat /\ accounts \in Seq(Account)
    BY <2>1, NumbersAssumption
  <2> QED
    BY <2>1, <2>2, LenProperties
<1>2. active \in [Pools -> Quota]
  <2>1. [s \in {} |-> 0] \in Quota
    <3>1. [s \in {} |-> 0] \in [{} -> 0..MaxFraction] /\ {} \in SUBSET Sessions
      OBVIOUS
    <3> QED
      BY <3>1, Zenon DEF Quota
  <2> QED
    BY <2>1, Zenon DEF Init
<1>3. refresher \in Refresher
  BY DEF Init, Asleep, Refresher
<1>4. next_session \in 1..(MaxSession + 1)
  BY <1>1, NumbersAssumption DEF Init
<1>5. req \in [Requests -> Request] /\ \A r \in Requests : RequestOK(req[r])
  BY IdleRequestType DEF Init, RequestOK, IdleRequest
<1>6. handler \in [Handlers -> Handler] /\ \A h \in Handlers : HandlerOK(handler[h])
  BY IdleHandlerType DEF Init, HandlerOK, IdleHandler
<1>7. /\ current_index = 0 /\ cooldown \in [Pools -> SUBSET Sessions]
      /\ served \in [Sessions -> Nat]
  BY DEF Init
<1> QED
  BY <1>1, <1>2, <1>3, <1>4, <1>5, <1>6, <1>7, Parts

\* The refresher.
LEMMA InvRefresher ==
    ASSUME IInv, RefresherStep
    PROVE  IInv'
<1> USE DEF store, pools
<1>0. refresher.list \in Seq(Account)
  BY Parts DEF Refresher
<1>1. CASE Snapshot
  <2>1. refresher' \in Refresher
    BY <1>1, Parts DEF Snapshot, Refresher
  <2> QED
    BY <1>1, <2>1, Zenon DEF Snapshot, IInv, TypeOK, AtWork
<1>2. CASE Sync
  <2>2. refresher' \in Refresher
    BY <1>2, Parts DEF Sync, Refresher
  <2>3. \A p \in Pools :
           Restrict(active[p], DOMAIN active[p] \cap Enabled(refresher.list)) \in Quota
    BY RestrictQuota
  <2>4. \A p \in Pools : cooldown[p] \cap Enabled(refresher.list) \in SUBSET Sessions
    BY PoolEntries
  <2>5. active' \in [Pools -> Quota] /\ cooldown' \in [Pools -> SUBSET Sessions]
    BY <1>2, <2>3, <2>4, Zenon DEF Sync
  <2> QED
    BY <1>2, <2>2, <2>5, Zenon DEF Sync, IInv, TypeOK, AtWork
<1>3. CASE Fetch
  <2>1. refresher.list # <<>>
    BY <1>3 DEF Fetch
  <2>2. Head(refresher.list) \in Account /\ Tail(refresher.list) \in Seq(Account)
    BY <1>0, <2>1
  <2>3. Head(refresher.list).session_id \in Sessions
    BY <2>2 DEF Account
  <2>4. refresher' \in Refresher
    BY <1>3, <2>2, Parts DEF Fetch, Refresher
  <2>5. active' \in [Pools -> Quota] /\ cooldown' \in [Pools -> SUBSET Sessions]
    BY <1>3, <2>3, UpdateType, Parts DEF Fetch
  <2> QED
    BY <1>3, <2>4, <2>5, Zenon DEF Fetch, IInv, TypeOK, AtWork
<1>4. CASE CycleEnds
  <2>1. refresher' \in Refresher
    BY <1>4 DEF CycleEnds, Asleep, Refresher
  <2> QED
    BY <1>4, <2>1, Zenon DEF CycleEnds, IInv, TypeOK, AtWork
<1> QED
  BY <1>1, <1>2, <1>3, <1>4 DEF RefresherStep

\* The loops of one request, up to the rotation.
LEMMA InvRequest ==
    ASSUME IInv, NEW r \in Requests, RequestStep(r), ~Rotate(r)
    PROVE  IInv'
<1> DEFINE t == req[r]
<1>0. RequestOK(t) /\ t \in Request
  BY Parts
<1>t. /\ t.pool \in Pools \cup {NoPool} /\ t.used \in SUBSET Sessions /\ t.attempts \in Nat
      /\ t.capacity \in Nat /\ t.tries \in Nat /\ t.sid \in Sessions \cup {0} /\ t.rounds \in Nat
  BY <1>0 DEF Request
<1>1. CASE FromPool(r)
  <2>1. PICK s \in Selectable(t.pool, t.used) :
           Becomes(r, [t EXCEPT !.at = "lookup", !.sid = s, !.tries = @ - 1])
    BY <1>1 DEF FromPool
  <2>2. t.tries > 0
    BY <1>1 DEF FromPool
  <2>3. s \in Sessions
    BY PoolEntries DEF Selectable, Candidates
  <2>5. t.tries - 1 \in Nat
    BY <1>t, <2>2
  <2>4. RequestOK([t EXCEPT !.at = "lookup", !.sid = s, !.tries = @ - 1])
    <3> HIDE DEF t
    <3> QED
      BY <1>0, <2>5, <2>3 DEF RequestOK, Request
  <2> QED
    BY <1>1, <2>1, <2>4, OneRequest DEF FromPool
<1>2. CASE LeavePool(r)
  <2>1. RequestOK([t EXCEPT !.at = "count"])
    BY <1>0 DEF RequestOK, Request
  <2> QED
    BY <1>2, <2>1, OneRequest DEF LeavePool
<1>3. CASE LookUp(r)
  <2>1. CASE Becomes(r, Chosen(t, t.sid)) /\ \E i \in DOMAIN accounts : First(i, t.sid)
    <3>1. PICK i \in DOMAIN accounts : First(i, t.sid)
      BY <2>1
    <3>2. accounts[i] \in Account
      BY Parts, ElementOfSeq
    <3>3. t.sid \in Sessions
      BY <3>1, <3>2 DEF First, Account
    <3>4. RequestOK(Chosen(t, t.sid))
      BY <1>0, <1>t, <3>3 DEF Chosen, RequestOK, Request
    <3> QED
      BY <1>3, <2>1, <3>4, OneRequest DEF LookUp
  <2>2. CASE Becomes(r, [t EXCEPT !.at = "stale"])
    <3>1. RequestOK([t EXCEPT !.at = "stale"])
      BY <1>0 DEF RequestOK, Request
    <3> QED
      BY <1>3, <2>2, <3>1, OneRequest DEF LookUp
  <2> QED
    BY <1>3, <2>1, <2>2 DEF LookUp
<1>4. CASE DropStale(r)
  <2>1. RequestOK([t EXCEPT !.at = "select"])
    BY <1>0 DEF RequestOK, Request
  <2>2. req' \in [Requests -> Request] /\ \A q \in Requests : RequestOK(req'[q])
    BY <1>4, <2>1, Parts DEF DropStale, Becomes, RequestOK
  <2>3. active' \in [Pools -> Quota] /\ cooldown' \in [Pools -> SUBSET Sessions]
    BY <1>4, RemovedType DEF DropStale
  <2> QED
    BY <1>4, <2>2, <2>3, Zenon DEF DropStale, IInv, TypeOK, AtWork, RequestOK, store
<1>5. CASE Count(r)
  <2> DEFINE u == [t EXCEPT !.at = IF accounts = <<>> THEN "error" ELSE "rotate",
                            !.rounds = Len(accounts), !.since = "alone"]
  <2>1. Len(accounts) \in Nat /\ (accounts # <<>> => Len(accounts) > 0)
    BY Parts
  <2>2. RequestOK(u)
    BY <1>0, <2>1 DEF RequestOK, Request
  <2>3. Becomes(r, u) /\ UNCHANGED Others
    BY <1>5 DEF Count
  <2> HIDE DEF u
  <2> QED
    BY <2>2, <2>3, OneRequest
<1>6. CASE RotateNothing(r)
  <2>1. RequestOK([t EXCEPT !.at = "error", !.rounds = 0])
    BY <1>0 DEF RequestOK, Request
  <2> QED
    BY <1>6, <2>1, OneRequest DEF RotateNothing
<1>i. RequestOK(IdleRequest)
  BY IdleRequestType DEF RequestOK, IdleRequest
<1>7. CASE Fail(r)
  BY <1>7, <1>i, OneRequest DEF Fail
<1>8. ASSUME NEW outcome \in Outcomes, Answer(r, outcome) PROVE IInv'
  <2> DEFINE failures == IF outcome = "capacity" THEN t.capacity + 1 ELSE 0
             u == [t EXCEPT !.at = "select", !.sid = 0, !.tries = PoolTries,
                            !.attempts = @ - 1, !.capacity = failures]
  <2>1. ASSUME t.attempts > 1 PROVE RequestOK(u)
    <3>1. t.attempts - 1 \in Nat /\ failures \in Nat /\ PoolTries \in Nat
      BY <1>t, <2>1, NumbersAssumption
    <3> HIDE DEF t, failures
    <3> QED
      BY <1>0, <3>1 DEF RequestOK, Request
  <2>2. (t.attempts > 1 /\ Becomes(r, u)) \/ Becomes(r, IdleRequest)
    BY <1>8 DEF Answer
  <2>3. UNCHANGED Others
    BY <1>8 DEF Answer
  <2> HIDE DEF u
  <2> QED
    BY <2>1, <2>2, <2>3, <1>i, OneRequest
<1> QED
  BY <1>1, <1>2, <1>3, <1>4, <1>5, <1>6, <1>7, <1>8 DEF RequestStep

\* One round of the rotation: the cursor stays within the list.
LEMMA InvRotate ==
    ASSUME IInv, NEW r \in Requests, Rotate(r)
    PROVE  IInv'
<1> DEFINE t == req[r]
           a == accounts[current_index + 1]
<1>0. RequestOK(t) /\ t \in Request
  BY Parts
<1>1. t.at = "rotate" /\ t.rounds \in Nat /\ t.rounds > 0 /\ t.used \in SUBSET Sessions
  BY <1>0 DEF Rotate, RequestOK, Request
<1>2. accounts \in Seq(Account) /\ Len(accounts) \in Nat /\ Len(accounts) > 0
  BY Parts DEF Rotate
<1>3. current_index + 1 \in 1..Len(accounts)
  BY <1>2, Parts
<1>4. a \in Account /\ a.session_id \in Sessions
  <2>1. a \in Account
    BY <1>2, <1>3, ElementOfSeq
  <2> QED
    BY <2>1 DEF Account
<1>5. current_index' \in Nat /\ current_index' < Len(accounts)
  <2>1. current_index' = (current_index + 1) % Len(accounts)
    BY DEF Rotate
  <2> QED
    BY <2>1, <1>2, <1>3
<1>6. served' \in [Sessions -> Nat]
  <2>1. served' \in {Serve(a.session_id), [s \in Sessions |-> 0], served}
    BY DEF Rotate
  <2>2. served \in [Sessions -> Nat]
    BY Parts
  <2>3. Serve(a.session_id) \in [Sessions -> Nat]
    BY <1>4, <2>2, ServeType
  <2> QED
    BY <2>1, <2>2, <2>3
<1>7. PICK u \in {Chosen(t, a.session_id), [t EXCEPT !.at = "error", !.rounds = 0],
                  [t EXCEPT !.rounds = @ - 1]} :
         /\ AfterRotation(r, u)
         /\ u = [t EXCEPT !.rounds = @ - 1] => t.rounds # 1
  <2>1. CASE a.enable /\ a.session_id \notin t.used
    <3>1. AfterRotation(r, Chosen(t, a.session_id))
      BY <2>1 DEF Rotate
    <3>2. Chosen(t, a.session_id).at = "call"
      BY <1>0 DEF Chosen, Request
    <3>3. [t EXCEPT !.rounds = @ - 1].at = "rotate"
      BY <1>0, <1>1 DEF Request
    <3> HIDE DEF t, a
    <3> QED
      BY <3>1, <3>2, <3>3
  <2>2. CASE ~(a.enable /\ a.session_id \notin t.used) /\ t.rounds = 1
    <3>1. AfterRotation(r, [t EXCEPT !.at = "error", !.rounds = 0])
      BY <2>2 DEF Rotate
    <3>2. [t EXCEPT !.at = "error", !.rounds = 0].at = "error"
      BY <1>0 DEF Request
    <3>3. [t EXCEPT !.rounds = @ - 1].at = "rotate"
      BY <1>0, <1>1 DEF Request
    <3> QED
      BY <3>1, <3>2, <3>3
  <2>3. CASE ~(a.enable /\ a.session_id \notin t.used) /\ t.rounds # 1
    <3>1. AfterRotation(r, [t EXCEPT !.rounds = @ - 1])
      BY <2>3 DEF Rotate
    <3> QED
      BY <3>1, <2>3
  <2> QED
    BY <2>1, <2>2, <2>3
<1>8. RequestOK(u)
  <2> HIDE DEF t, a
  <2>1. RequestOK(Chosen(t, a.session_id))
    <3>1. t.used \cup {a.session_id} \in SUBSET Sessions
      BY <1>1, <1>4
    <3> QED
      BY <1>0, <1>4, <3>1 DEF Chosen, RequestOK, Request
  <2>2. RequestOK([t EXCEPT !.at = "error", !.rounds = 0])
    BY <1>0 DEF RequestOK, Request
  <2>3. ASSUME t.rounds # 1 PROVE RequestOK([t EXCEPT !.rounds = @ - 1])
    <3>1. t.rounds - 1 \in Nat /\ t.rounds - 1 > 0
      BY <1>1, <2>3
    <3> QED
      BY <1>0, <3>1 DEF RequestOK, Request
  <2> QED
    BY <1>7, <2>1, <2>2, <2>3
<1>9. req' \in [Requests -> Request] /\ \A q \in Requests : RequestOK(req'[q])
  <2>1. ASSUME NEW q \in Requests
        PROVE  RequestOK(req[q]) /\ RequestOK([req[q] EXCEPT !.since = "contended"])
    <3>1. RequestOK(req[q])
      BY Parts
    <3>2. ASSUME NEW v, RequestOK(v) PROVE RequestOK([v EXCEPT !.since = "contended"])
      BY <3>2 DEF RequestOK, Request
    <3> QED
      BY <3>1, <3>2
  <2> HIDE DEF t, a
  <2>2. ASSUME NEW q \in Requests PROVE RequestOK(req'[q])
    <3>1. req'[q] \in {u, req[q], [req[q] EXCEPT !.since = "contended"]}
      BY <1>7 DEF AfterRotation
    <3> QED
      BY <3>1, <2>1, <1>8
  <2>3. req' = [q \in Requests |-> req'[q]]
    BY <1>7 DEF AfterRotation
  <2> QED
    BY <2>2, <2>3 DEF RequestOK
<1>10. UNCHANGED <<accounts, pools, refresher, handler, next_session>>
  BY DEF Rotate
<1> QED
  BY <1>5, <1>6, <1>9, <1>10, Zenon DEF IInv, TypeOK, AtWork, RequestOK, pools

LEMMA InvBeginRequest ==
    ASSUME IInv, NEW r \in Requests, NEW p \in Pools \cup {NoPool}, BeginRequest(r, p)
    PROVE  IInv'
<1> DEFINE n == Cardinality({i \in DOMAIN accounts : accounts[i].enable})
           u == [IdleRequest EXCEPT !.at = "select", !.pool = p, !.tries = PoolTries,
                                    !.attempts = IF n < 1 THEN 1 ELSE n]
<1>1. n \in Nat
  BY EnabledCount, Parts
<1> HIDE DEF n
<1>2. RequestOK(u)
  BY <1>1, NumbersAssumption DEF RequestOK, Request, IdleRequest
<1>3. Becomes(r, u) /\ UNCHANGED Others
  BY DEF BeginRequest, n
<1> HIDE DEF u
<1> QED
  BY <1>2, <1>3, OneRequest

LEMMA InvBeginAdmin ==
    ASSUME IInv, NEW h \in Handlers, NEW op \in HandlerOps, NEW s \in Sessions,
           BeginAdmin(h, op, s)
    PROVE  IInv'
<1>1. PICK i \in DOMAIN accounts :
         handler' = [handler EXCEPT ![h] =
                [at |-> op, sid |-> s, idx |-> i, on |-> FALSE,
                 copy |-> CASE op = "refresh" -> <<accounts[i]>>
                            [] op = "refresh_all" -> accounts
                            [] OTHER -> <<>>]]
  BY DEF BeginAdmin
<1> DEFINE c == CASE op = "refresh" -> <<accounts[i]>>
                  [] op = "refresh_all" -> accounts
                  [] OTHER -> <<>>
           u == [at |-> op, sid |-> s, idx |-> i, on |-> FALSE, copy |-> c]
<1>2. accounts \in Seq(Account) /\ accounts[i] \in Account /\ i \in Nat /\ i > 0
  BY Parts, ElementOfSeq
<1>3. <<accounts[i]>> \in Seq(Account) /\ <<accounts[i]>> # <<>>
  BY <1>2
<1>4. c \in Seq(Account) /\ (op = "refresh" => c # <<>>)
  BY <1>2, <1>3
<1>5. handler' = [handler EXCEPT ![h] = u]
  BY <1>1
<1> HIDE DEF c
<1>6. HandlerOK(u)
  BY <1>2, <1>4 DEF HandlerOK, Handler, Sessions
<1>7. UNCHANGED <<store, pools, refresher, req, next_session, served>>
  BY DEF BeginAdmin
<1> HIDE DEF u
<1> QED
  BY <1>5, <1>6, <1>7, OneHandler

\* A step of a handler that changes the list: what is left to show is the new
\* list, the cursor and the handler.
LEMMA ListStep ==
    ASSUME IInv, NEW h \in Handlers, NEW t, HandlerOK(t),
           handler' = [handler EXCEPT ![h] = t],
           accounts' \in Seq(Account),
           current_index' \in Nat,
           current_index' = 0 \/ current_index' < Len(accounts'),
           ListChanges \/ UNCHANGED <<req, served>>,
           UNCHANGED <<pools, refresher, next_session>>
    PROVE  IInv'
<1>1. handler' \in [Handlers -> Handler] /\ \A g \in Handlers : HandlerOK(handler'[g])
  BY Parts DEF HandlerOK
<1>2. /\ req' \in [Requests -> Request] /\ \A r \in Requests : RequestOK(req'[r])
      /\ served' \in [Sessions -> Nat]
  <2>1. CASE UNCHANGED <<req, served>>
    BY <2>1, Parts
  <2> QED
    BY <2>1, ListChangesType
<1> QED
  BY <1>1, <1>2, Zenon DEF IInv, TypeOK, AtWork, RequestOK, HandlerOK, pools

LEMMA InvHandler ==
    ASSUME IInv, NEW h \in Handlers, HandlerStep(h)
    PROVE  IInv'
<1> DEFINE t == handler[h]
<1>0. t \in Handler /\ HandlerOK(t) /\ HandlerOK(IdleHandler)
  BY Parts, IdleHandlerType DEF HandlerOK, IdleHandler
<1>s. accounts \in Seq(Account) /\ Len(accounts) \in Nat /\ DOMAIN accounts = 1..Len(accounts)
  BY Parts
<1>e. \A i \in 1..Len(accounts) : accounts[i] \in Account
  BY <1>s, ElementOfSeq
<1>c. current_index \in Nat /\ (current_index = 0 \/ current_index < Len(accounts))
  BY Parts
<1>i. t.at # "idle" => t.idx \in Nat /\ t.idx > 0
  BY <1>0 DEF HandlerOK, Handler
<1>p. HandlerOK([t EXCEPT !.at = "purge"]) \/ t.at = "idle"
  BY <1>0 DEF HandlerOK, Handler
<1>1. CASE ReadFlag(h)
  <2>1. ASSUME t.idx <= Len(accounts)
        PROVE  HandlerOK([t EXCEPT !.at = "set", !.on = ~accounts[t.idx].enable])
    <3>1. accounts[t.idx].enable \in BOOLEAN
      <4>1. accounts[t.idx] \in Account
        BY <1>1, <1>i, <1>e, <1>s, <2>1 DEF ReadFlag
      <4> QED
        BY <4>1 DEF Account
    <3>2. t.at # "idle"
      BY <1>1 DEF ReadFlag
    <3> HIDE DEF t
    <3> QED
      BY <1>0, <3>1, <3>2 DEF HandlerOK, Handler
  <2> QED
    BY <1>1, <2>1, <1>0, OneHandler DEF ReadFlag
<1>2. CASE SetFlag(h)
  <2>1. accounts' \in Seq(Account) /\ Len(accounts') = Len(accounts)
    <3>1. CASE t.idx <= Len(accounts)
      <4>1. t.idx \in DOMAIN accounts /\ accounts[t.idx] \in Account
        BY <1>2, <1>i, <1>s, <1>e, <3>1 DEF SetFlag
      <4>2. t.on \in BOOLEAN
        BY <1>0 DEF Handler
      <4>3. [accounts[t.idx] EXCEPT !.enable = t.on] \in Account
        BY <4>1, <4>2 DEF Account
      <4>4. accounts' = [accounts EXCEPT ![t.idx] = [accounts[t.idx] EXCEPT !.enable = t.on]]
        BY <1>2, <3>1 DEF SetFlag
      <4> QED
        BY <4>1, <4>3, <4>4, <1>s, ReplaceType
    <3> QED
      BY <1>2, <3>1, <1>s DEF SetFlag
  <2>2. ListChanges \/ UNCHANGED <<req, served>>
    BY <1>2 DEF SetFlag
  <2>3. handler' = [handler EXCEPT ![h] = IF t.on THEN IdleHandler ELSE [t EXCEPT !.at = "purge"]]
    BY <1>2 DEF SetFlag
  <2>4. HandlerOK(IF t.on THEN IdleHandler ELSE [t EXCEPT !.at = "purge"])
    BY <1>0, <1>p, <1>2 DEF SetFlag
  <2>5. UNCHANGED <<current_index, pools, refresher, next_session>>
    BY <1>2 DEF SetFlag
  <2> QED
    BY <2>1, <2>2, <2>3, <2>4, <2>5, <1>c, ListStep
<1>3. CASE DeleteAt(h)
  <2>1. /\ accounts' \in Seq(Account) /\ current_index' \in Nat
        /\ current_index' = 0 \/ current_index' < Len(accounts')
    <3>1. CASE t.idx <= Len(accounts)
      <4>1. t.idx \in DOMAIN accounts
        BY <1>3, <1>i, <1>s, <3>1 DEF DeleteAt
      <4>2. accounts' = RemoveAt(accounts, t.idx)
        BY <1>3, <3>1 DEF DeleteAt
      <4>3. accounts' \in Seq(Account) /\ Len(accounts') = Len(accounts) - 1
        BY <4>1, <4>2, <1>s, RemoveAtType
      <4>4. current_index' = IF current_index >= Len(accounts) - 1 THEN 0 ELSE current_index
        BY <1>3, <3>1 DEF DeleteAt
      <4> QED
        BY <4>3, <4>4, <1>c, <1>s
    <3>2. CASE ~(t.idx <= Len(accounts))
      BY <1>3, <3>2, <1>s, <1>c DEF DeleteAt, store
    <3> QED
      BY <3>1, <3>2
  <2>2. ListChanges \/ UNCHANGED <<req, served>>
    BY <1>3 DEF DeleteAt
  <2>3. \/ handler' = [handler EXCEPT ![h] = IdleHandler]
        \/ handler' = [handler EXCEPT ![h] = [t EXCEPT !.at = "purge"]]
    BY <1>3 DEF DeleteAt
  <2>4. HandlerOK(IdleHandler) /\ HandlerOK([t EXCEPT !.at = "purge"])
    BY <1>0, <1>p, <1>3 DEF DeleteAt
  <2>5. UNCHANGED <<pools, refresher, next_session>>
    BY <1>3 DEF DeleteAt
  <2> QED
    BY <2>1, <2>2, <2>3, <2>4, <2>5, ListStep
<1>4. CASE Purge(h)
  <2>1. active' \in [Pools -> Quota] /\ cooldown' \in [Pools -> SUBSET Sessions]
    BY <1>4, RemovedType DEF Purge
  <2>2. handler' \in [Handlers -> Handler] /\ \A g \in Handlers : HandlerOK(handler'[g])
    BY <1>4, <1>0, Parts DEF Purge, HandlerOK
  <2> QED
    BY <1>4, <2>1, <2>2, Zenon DEF Purge, IInv, TypeOK, AtWork, HandlerOK, store
<1>5. CASE Replace(h)
  <2>1. accounts' \in Seq(Account) /\ Len(accounts') = Len(accounts)
    <3>1. CASE UNCHANGED accounts
      BY <3>1, <1>s
    <3>2. CASE t.idx <= Len(accounts) /\ accounts' = [accounts EXCEPT ![t.idx] = t.copy[1]]
      <4>1. t.idx \in DOMAIN accounts
        BY <1>5, <1>i, <1>s, <3>2 DEF Replace
      <4>2. t.copy \in Seq(Account) /\ t.copy # <<>>
        BY <1>0, <1>5 DEF HandlerOK, Handler, Replace
      <4>3. t.copy[1] \in Account
        BY <4>2
      <4> QED
        BY <4>1, <4>3, <3>2, <1>s, ReplaceType
    <3> QED
      BY <1>5, <3>1, <3>2 DEF Replace
  <2>2. ListChanges \/ UNCHANGED <<req, served>>
    BY <1>5 DEF Replace
  <2>3. handler' = [handler EXCEPT ![h] = IdleHandler]
    BY <1>5 DEF Replace
  <2>4. UNCHANGED <<current_index, pools, refresher, next_session>>
    BY <1>5 DEF Replace
  <2> QED
    BY <2>1, <2>2, <2>3, <2>4, <1>0, <1>c, ListStep
<1>6. CASE CommitRefreshAll(h)
  <2>1. t.copy \in Seq(Account)
    BY <1>0 DEF Handler
  <2> QED
    BY <1>6, <2>1, <1>0, ListStep DEF CommitRefreshAll
<1> QED
  BY <1>1, <1>2, <1>3, <1>4, <1>5, <1>6 DEF HandlerStep

\* Changes of the list by nobody's handler: the environment's operations.
LEMMA InvEnvironment ==
    ASSUME IInv, Add \/ \E s \in Sessions : Break(s)
    PROVE  IInv'
<1>s. accounts \in Seq(Account) /\ Len(accounts) \in Nat /\ DOMAIN accounts = 1..Len(accounts)
  BY Parts
<1>c. current_index \in Nat /\ (current_index = 0 \/ current_index < Len(accounts))
  BY Parts
<1>1. /\ accounts' \in Seq(Account) /\ Len(accounts') \in Nat
      /\ Len(accounts') >= Len(accounts)
      /\ next_session' \in 1..(MaxSession + 1)
  <2>1. CASE Add
    <3> DEFINE new == [session_id |-> next_session, enable |-> TRUE]
    <3>1. next_session \in Sessions /\ next_session' \in 1..(MaxSession + 1)
      BY <2>1, Parts, NumbersAssumption DEF Add, Sessions
    <3>2. new \in Account
      BY <3>1 DEF Account
    <3>3. CASE accounts' = Append(accounts, new)
      BY <3>1, <3>2, <3>3, <1>s, AppendProperties
    <3>4. ASSUME NEW i \in DOMAIN accounts, accounts' = [accounts EXCEPT ![i] = new]
          PROVE  accounts' \in Seq(Account) /\ Len(accounts') = Len(accounts)
      BY <3>2, <3>4, <1>s, ReplaceType
    <3> QED
      BY <2>1, <3>1, <3>3, <3>4, <1>s DEF Add
  <2>2. ASSUME NEW s \in Sessions, Break(s)
        PROVE  /\ accounts' \in Seq(Account) /\ Len(accounts') = Len(accounts)
               /\ next_session' = next_session
    <3>1. PICK i \in DOMAIN accounts :
             accounts' = [accounts EXCEPT ![i] = [accounts[i] EXCEPT !.enable = FALSE]]
      BY <2>2, Zenon DEF Break
    <3>2. accounts[i] \in Account
      BY <1>s, ElementOfSeq
    <3>3. [accounts[i] EXCEPT !.enable = FALSE] \in Account
      BY <3>2 DEF Account
    <3> QED
      <4>1. accounts' \in Seq(Account) /\ Len(accounts') = Len(accounts)
        BY <3>1, <3>3, <1>s, ReplaceType
      <4>2. next_session' = next_session
        BY <2>2 DEF Break
      <4> QED
        BY <4>1, <4>2
  <2> QED
    BY <2>1, <2>2, <1>s, Parts
<1>2. /\ req' \in [Requests -> Request] /\ \A r \in Requests : RequestOK(req'[r])
      /\ served' \in [Sessions -> Nat]
  BY ListChangesType DEF Add, Break
<1>3. current_index' = current_index
  BY DEF Add, Break
<1>4. current_index' \in Nat /\ (current_index' = 0 \/ current_index' < Len(accounts'))
  BY <1>1, <1>3, <1>c, <1>s
<1>5. UNCHANGED <<pools, refresher, handler>>
  BY DEF Add, Break
<1> QED
  BY <1>1, <1>2, <1>4, <1>5, Zenon DEF IInv, TypeOK, AtWork, RequestOK, pools

\* The invariant is inductive.
LEMMA InvStep == IInv /\ [Next]_vars => IInv'
<1> SUFFICES ASSUME IInv, [Next]_vars PROVE IInv'
  OBVIOUS
<1>1. CASE RefresherStep
  BY <1>1, InvRefresher
<1>2. ASSUME NEW r \in Requests, RequestStep(r) PROVE IInv'
  BY <1>2, InvRequest, InvRotate
<1>3. ASSUME NEW r \in Requests, NEW p \in Pools \cup {NoPool}, BeginRequest(r, p)
      PROVE  IInv'
  BY <1>3, InvBeginRequest
<1>4. ASSUME NEW h \in Handlers, HandlerStep(h) PROVE IInv'
  BY <1>4, InvHandler
<1>5. ASSUME NEW h \in Handlers, NEW op \in HandlerOps, NEW s \in Sessions,
             BeginAdmin(h, op, s)
      PROVE  IInv'
  BY <1>5, InvBeginAdmin
<1>6. CASE Add \/ \E s \in Sessions : Break(s)
  BY <1>6, InvEnvironment
<1>7. CASE UNCHANGED vars
  BY <1>7, Zenon DEF vars, IInv, TypeOK, AtWork
<1> QED
  BY <1>1, <1>2, <1>3, <1>4, <1>5, <1>6, <1>7 DEF Next

\* Types hold and the shared cursor always indexes the list, so that a rotation
\* can never read past its end, whatever deletions and write-backs come between
\* its rounds.
THEOREM TypeCorrect == Spec => []TypeOK
<1>1. IInv => TypeOK
  BY DEF IInv
<1> QED
  BY <1>1, InvInit, InvStep, PTL DEF Spec

-----------------------------------------------------------------------------
(* The tries of a request: when it gives up, it has tried every enabled    *)
(* account it could have tried, and the rotation it falls back on is fair.  *)

(* The invariant: parts about one request, over the list and the cursor *)

\* The accounts of the list that the request has not tried.
Left(t, list) == Enabled(list) \ t.used

\* Position i of a list of n comes up within so many rounds from the cursor c.
Ahead(i, n, c, rounds) ==
    \/ c + 1 <= i /\ i < c + 1 + rounds
    \/ i + n < c + 1 + rounds

\* The session the pool offered is one the request has not tried.
Fresh(t) == t.at = "lookup" => t.sid \notin t.used

\* The rounds left reach every account left.
Scanned(t, list, c) ==
    t.at = "rotate" /\ t.since = "alone" =>
        \A i \in DOMAIN list :
            list[i].enable /\ list[i].session_id \notin t.used =>
                Ahead(i, Len(list), c, t.rounds)

NoneLeft(t, list) == t.at = "error" /\ t.since = "alone" => Left(t, list) = {}

\* The attempts left, after the one that is running, suffice for the accounts left.
Enough(t, list) ==
    t.at # "idle" /\ t.steady =>
        Cardinality(Left(t, list)) <= IF t.at = "call" THEN t.attempts - 1 ELSE t.attempts

TriesOK(t, list, c) ==
    Fresh(t) /\ Scanned(t, list, c) /\ NoneLeft(t, list) /\ Enough(t, list)

Tries == \A r \in Requests : TriesOK(req[r], accounts, current_index)

-----------------------------------------------------------------------------
(* Counting accounts *)

\* There are at most as many enabled sessions as enabled positions: two
\* positions may hold one session, no position two.
LEMMA EnabledBound ==
    ASSUME NEW list \in Seq(Account)
    PROVE  /\ IsFiniteSet(Enabled(list))
           /\ Cardinality(Enabled(list)) <=
                Cardinality({i \in DOMAIN list : list[i].enable})
<1> DEFINE S == {i \in DOMAIN list : list[i].enable}
           f == [i \in S |-> list[i].session_id]
<1>1. IsFiniteSet(S)
  <2>1. DOMAIN list = 1..Len(list) /\ Len(list) \in Nat
    OBVIOUS
  <2>2. IsFiniteSet(1..Len(list))
    BY <2>1, FS_Interval
  <2> QED
    BY <2>1, <2>2, FS_Subset
<1>2. f \in Surjection(S, Enabled(list))
  <2>1. f \in [S -> Enabled(list)]
    BY DEF Enabled
  <2>2. \A s \in Enabled(list) : \E i \in S : f[i] = s
    BY DEF Enabled
  <2> HIDE DEF f, S
  <2> QED
    BY <2>1, <2>2 DEF Surjection
<1> HIDE DEF f, S
<1>3. IsFiniteSet(Enabled(list)) /\ Cardinality(Enabled(list)) <= Cardinality(S)
  BY <1>1, <1>2, FS_Surjection
<1> QED
  BY <1>3 DEF S

LEMMA LeftFinite ==
    ASSUME NEW list \in Seq(Account), NEW t
    PROVE  IsFiniteSet(Left(t, list)) /\ Cardinality(Left(t, list)) \in Nat
<1>1. IsFiniteSet(Left(t, list))
  BY EnabledBound, FS_Subset DEF Left
<1> QED
  BY <1>1, FS_CardinalityType

\* An account that is chosen is one account less to try.
LEMMA ChosenLeaves ==
    ASSUME NEW list \in Seq(Account), NEW t \in Request, NEW s \in Left(t, list)
    PROVE  Cardinality(Left(Chosen(t, s), list)) = Cardinality(Left(t, list)) - 1
<1>1. Chosen(t, s).used = t.used \cup {s}
  BY DEF Chosen, Request
<1>2. Left(Chosen(t, s), list) = Left(t, list) \ {s}
  BY <1>1 DEF Left
<1> QED
  BY <1>2, LeftFinite, FS_RemoveElement

\* Choosing an account left keeps the request's part of the invariant.
LEMMA ChosenOK ==
    ASSUME NEW list \in Seq(Account), NEW c, NEW t \in Request, NEW s \in Left(t, list),
           t.at \in {"lookup", "rotate"}, Enough(t, list)
    PROVE  TriesOK(Chosen(t, s), list, c)
<1> DEFINE u == Chosen(t, s)
<1>1. u.at = "call" /\ u.steady = t.steady /\ u.attempts = t.attempts /\ t.attempts \in Nat
  BY DEF Chosen, Request
<1>2. Cardinality(Left(u, list)) = Cardinality(Left(t, list)) - 1
  BY ChosenLeaves
<1>3. Cardinality(Left(t, list)) \in Nat
  BY LeftFinite
<1>4. Enough(u, list)
  <2>1. t.steady => Cardinality(Left(t, list)) <= t.attempts
    BY DEF Enough
  <2> HIDE DEF u
  <2> QED
    BY <1>1, <1>2, <1>3, <2>1 DEF Enough
<1> HIDE DEF u
<1>5. TriesOK(u, list, c)
  BY <1>1, <1>4 DEF TriesOK, Fresh, Scanned, NoneLeft
<1> QED
  BY <1>5 DEF u

-----------------------------------------------------------------------------
(* Steps that leave the list and the cursor alone *)

LEMMA IdleOK ==
    ASSUME NEW list, NEW c
    PROVE  TriesOK(IdleRequest, list, c)
BY DEF TriesOK, Fresh, Scanned, NoneLeft, Enough, IdleRequest

\* A step that changes one request only.
LEMMA OneTries ==
    ASSUME IInv, Tries, NEW r \in Requests, NEW t, TriesOK(t, accounts, current_index),
           Becomes(r, t), UNCHANGED store
    PROVE  Tries'
<1>1. accounts' = accounts /\ current_index' = current_index
  BY DEF store
<1>2. ASSUME NEW q \in Requests PROVE TriesOK(req'[q], accounts, current_index)
  <2>1. req'[q] = IF q = r THEN t ELSE req[q]
    BY Parts DEF Becomes
  <2> QED
    BY <2>1 DEF Tries
<1> QED
  BY <1>1, <1>2, Zenon DEF Tries

\* A step that changes no request.
LEMMA NoTries ==
    ASSUME Tries, UNCHANGED <<store, req>>
    PROVE  Tries'
BY Zenon DEF Tries, store

\* The steps of a request before and after the rotation.
LEMMA TriesRequest ==
    ASSUME IInv, Tries, NEW r \in Requests, RequestStep(r), ~Rotate(r)
    PROVE  Tries'
<1> DEFINE t == req[r]
           ok(u) == TriesOK(u, accounts, current_index)
<1>0. t \in Request /\ ok(t) /\ accounts \in Seq(Account)
  BY Parts DEF Tries
<1>e. Enough(t, accounts)
  BY <1>0 DEF TriesOK
<1>1. CASE FromPool(r)
  <2>1. PICK s \in Selectable(t.pool, t.used) :
           Becomes(r, [t EXCEPT !.at = "lookup", !.sid = s, !.tries = @ - 1])
    BY <1>1 DEF FromPool
  <2> DEFINE u == [t EXCEPT !.at = "lookup", !.sid = s, !.tries = @ - 1]
  <2>2. s \notin t.used
    BY DEF Selectable, Candidates
  <2>3. /\ u.at = "lookup" /\ u.sid = s /\ u.used = t.used
        /\ u.steady = t.steady /\ u.attempts = t.attempts
    <3> HIDE DEF t
    <3> QED
      BY <1>0 DEF Request
  <2>4. t.at = "select" /\ UNCHANGED store
    BY <1>1 DEF FromPool, Others
  <2>5. Becomes(r, u)
    BY <2>1
  <2> HIDE DEF u
  <2>6. ok(u)
    BY <1>e, <2>2, <2>3, <2>4 DEF TriesOK, Fresh, Scanned, NoneLeft, Enough, Left
  <2> QED
    BY <2>4, <2>5, <2>6, OneTries
<1>2. CASE LeavePool(r)
  <2> DEFINE u == [t EXCEPT !.at = "count"]
  <2>1. u.at = "count" /\ u.used = t.used /\ u.steady = t.steady /\ u.attempts = t.attempts
    BY <1>0 DEF Request
  <2>2. t.at = "select" /\ Becomes(r, u) /\ UNCHANGED store
    BY <1>2 DEF LeavePool, Others
  <2> HIDE DEF u
  <2>3. ok(u)
    BY <1>e, <2>1, <2>2 DEF TriesOK, Fresh, Scanned, NoneLeft, Enough, Left
  <2> QED
    BY <2>2, <2>3, OneTries
<1>3. CASE LookUp(r)
  <2>0. t.at = "lookup" /\ UNCHANGED store
    BY <1>3 DEF LookUp, Others
  <2>1. CASE Becomes(r, Chosen(t, t.sid))
             /\ \E i \in DOMAIN accounts : First(i, t.sid) /\ accounts[i].enable
    <3>1. t.sid \in Enabled(accounts)
      BY <2>1, Zenon DEF First, Enabled
    <3>2. t.sid \notin t.used
      BY <1>0, <2>0 DEF TriesOK, Fresh
    <3>3. ok(Chosen(t, t.sid))
      BY <1>0, <1>e, <2>0, <3>1, <3>2, ChosenOK DEF Left
    <3> QED
      BY <2>0, <2>1, <3>3, OneTries
  <2>2. CASE Becomes(r, [t EXCEPT !.at = "stale"])
    <3> DEFINE u == [t EXCEPT !.at = "stale"]
    <3>1. u.at = "stale" /\ u.used = t.used /\ u.steady = t.steady /\ u.attempts = t.attempts
      BY <1>0 DEF Request
    <3>2. Becomes(r, u)
      BY <2>2
    <3> HIDE DEF u
    <3>3. ok(u)
      BY <1>e, <2>0, <3>1 DEF TriesOK, Fresh, Scanned, NoneLeft, Enough, Left
    <3> QED
      BY <2>0, <3>2, <3>3, OneTries
  <2> QED
    BY <1>3, <2>1, <2>2 DEF LookUp
<1>4. CASE DropStale(r)
  <2> DEFINE u == [t EXCEPT !.at = "select"]
  <2>1. u.at = "select" /\ u.used = t.used /\ u.steady = t.steady /\ u.attempts = t.attempts
    BY <1>0 DEF Request
  <2>2. t.at = "stale" /\ Becomes(r, u) /\ UNCHANGED store
    BY <1>4 DEF DropStale
  <2> HIDE DEF u
  <2>3. ok(u)
    BY <1>e, <2>1, <2>2 DEF TriesOK, Fresh, Scanned, NoneLeft, Enough, Left
  <2> QED
    BY <2>2, <2>3, OneTries
<1>5. CASE Count(r)
  <2> DEFINE u == [t EXCEPT !.at = IF accounts = <<>> THEN "error" ELSE "rotate",
                            !.rounds = Len(accounts), !.since = "alone"]
  <2>1. /\ u.at = IF accounts = <<>> THEN "error" ELSE "rotate"
        /\ u.rounds = Len(accounts)
        /\ u.used = t.used /\ u.steady = t.steady /\ u.attempts = t.attempts
    <3> HIDE DEF t
    <3> QED
      BY <1>0 DEF Request
  <2>2. t.at = "count" /\ Becomes(r, u) /\ UNCHANGED store
    BY <1>5 DEF Count, Others
  <2> HIDE DEF u
  <2>3. Scanned(u, accounts, current_index)
    <3>1. current_index \in Nat /\ Len(accounts) \in Nat /\ DOMAIN accounts = 1..Len(accounts)
      BY Parts
    <3>2. \A i \in 1..Len(accounts) : Ahead(i, Len(accounts), current_index, Len(accounts))
      BY <3>1 DEF Ahead
    <3> QED
      BY <2>1, <3>1, <3>2 DEF Scanned
  <2>4. NoneLeft(u, accounts)
    <3>1. accounts = <<>> => Enabled(accounts) = {}
      BY DEF Enabled
    <3> QED
      BY <2>1, <3>1 DEF NoneLeft, Left
  <2>5. Enough(u, accounts)
    BY <1>e, <2>1, <2>2 DEF Enough, Left
  <2>6. ok(u)
    BY <2>1, <2>3, <2>4, <2>5 DEF TriesOK, Fresh
  <2> QED
    BY <2>2, <2>6, OneTries
<1>6. CASE RotateNothing(r)
  <2> DEFINE u == [t EXCEPT !.at = "error", !.rounds = 0]
  <2>1. u.at = "error" /\ u.used = t.used /\ u.steady = t.steady /\ u.attempts = t.attempts
    BY <1>0 DEF Request
  <2>2. t.at = "rotate" /\ accounts = <<>> /\ Becomes(r, u) /\ UNCHANGED store
    BY <1>6 DEF RotateNothing, Others
  <2> HIDE DEF u
  <2>3. Left(u, accounts) = {}
    BY <2>2 DEF Left, Enabled
  <2>4. ok(u)
    BY <1>e, <2>1, <2>2, <2>3 DEF TriesOK, Fresh, Scanned, NoneLeft, Enough, Left
  <2> QED
    BY <2>2, <2>4, OneTries
<1>7. CASE Fail(r)
  BY <1>7, IdleOK, OneTries DEF Fail, Others
<1>8. ASSUME NEW outcome \in Outcomes, Answer(r, outcome) PROVE Tries'
  <2> DEFINE failures == IF outcome = "capacity" THEN t.capacity + 1 ELSE 0
             u == [t EXCEPT !.at = "select", !.sid = 0, !.tries = PoolTries,
                            !.attempts = @ - 1, !.capacity = failures]
  <2>1. u.at = "select" /\ u.used = t.used /\ u.steady = t.steady /\ u.attempts = t.attempts - 1
    <3> HIDE DEF t, failures
    <3> QED
      BY <1>0 DEF Request
  <2>2. t.at = "call" /\ UNCHANGED store /\ (Becomes(r, u) \/ Becomes(r, IdleRequest))
    BY <1>8 DEF Answer, Others
  <2> HIDE DEF u
  <2>3. ok(u)
    BY <1>e, <2>1, <2>2 DEF TriesOK, Fresh, Scanned, NoneLeft, Enough, Left
  <2> QED
    BY <2>2, <2>3, IdleOK, OneTries
<1> QED
  BY <1>1, <1>2, <1>3, <1>4, <1>5, <1>6, <1>7, <1>8 DEF RequestStep

\* A request begins with as many attempts as there are enabled accounts.
LEMMA TriesBegin ==
    ASSUME IInv, Tries, NEW r \in Requests, NEW p \in Pools \cup {NoPool}, BeginRequest(r, p)
    PROVE  Tries'
<1> DEFINE n == Cardinality({i \in DOMAIN accounts : accounts[i].enable})
           u == [IdleRequest EXCEPT !.at = "select", !.pool = p, !.tries = PoolTries,
                                    !.attempts = IF n < 1 THEN 1 ELSE n]
<1>1. Becomes(r, u) /\ UNCHANGED store
  BY DEF BeginRequest, Others
<1>2. u.at = "select" /\ u.used = {} /\ u.attempts = IF n < 1 THEN 1 ELSE n
  BY DEF IdleRequest
<1>3. n \in Nat /\ Cardinality(Enabled(accounts)) <= n
  BY Parts, EnabledCount, EnabledBound
<1>4. Cardinality(Enabled(accounts)) \in Nat
  BY Parts, EnabledBound, FS_CardinalityType
<1> HIDE DEF u, n
<1>5. Left(u, accounts) = Enabled(accounts)
  BY <1>2 DEF Left
<1>6. TriesOK(u, accounts, current_index)
  BY <1>2, <1>3, <1>4, <1>5 DEF TriesOK, Fresh, Scanned, NoneLeft, Enough
<1> QED
  BY <1>1, <1>6, OneTries

-----------------------------------------------------------------------------
(* The rotation *)

\* A position the rotation has still to reach, other than the one under the
\* cursor, is still to be reached when the cursor has moved on by one.
LEMMA AheadMoves ==
    ASSUME NEW n \in Nat, NEW c \in 0..(n - 1), NEW i \in 1..n, i # c + 1,
           NEW rounds \in Nat, rounds > 0, Ahead(i, n, c, rounds)
    PROVE  /\ Ahead(i, n, (c + 1) % n, rounds - 1)
           /\ rounds # 1
<1>1. CASE c + 1 < n
  <2>1. (c + 1) % n = c + 1
    BY <1>1
  <2> QED
    BY <2>1, <1>1 DEF Ahead
<1>2. CASE c + 1 = n
  <2>1. (c + 1) % n = 0
    BY <1>2
  <2> QED
    BY <2>1, <1>2 DEF Ahead
<1> QED
  BY <1>1, <1>2

LEMMA TriesRotate ==
    ASSUME IInv, Tries, NEW r \in Requests, Rotate(r)
    PROVE  Tries'
<1> DEFINE t == req[r]
           n == Len(accounts)
           c == current_index
           d == (c + 1) % n
           a == accounts[c + 1]
<1>0. t \in Request /\ RequestOK(t) /\ TriesOK(t, accounts, c) /\ t.at = "rotate"
  BY Parts DEF Tries, Rotate
<1>1. t.rounds \in Nat /\ t.rounds > 0
  BY <1>0 DEF RequestOK, Request
<1>2. /\ accounts \in Seq(Account) /\ n \in Nat /\ n > 0 /\ DOMAIN accounts = 1..n
      /\ c \in 0..(n - 1)
  BY Parts DEF Rotate
<1>3. accounts' = accounts /\ current_index' = d
  BY DEF Rotate
<1>4. Scanned(t, accounts, c) /\ Enough(t, accounts)
  BY <1>0 DEF TriesOK
<1> HIDE DEF d
<1>5. PICK u : AfterRotation(r, u) /\ TriesOK(u, accounts, d)
  <2>1. CASE a.enable /\ a.session_id \notin t.used
    <3>1. a.session_id \in Left(t, accounts)
      <4>1. c + 1 \in {j \in DOMAIN accounts : accounts[j].enable}
        BY <1>2, <2>1
      <4> QED
        BY <4>1, <2>1 DEF Left, Enabled
    <3>2. AfterRotation(r, Chosen(t, a.session_id))
      BY <2>1 DEF Rotate
    <3>3. TriesOK(Chosen(t, a.session_id), accounts, d)
      BY <1>0, <1>2, <1>4, <3>1, ChosenOK
    <3> QED
      BY <3>2, <3>3
  <2>2. ASSUME ~(a.enable /\ a.session_id \notin t.used),
               t.since = "alone", NEW i \in DOMAIN accounts,
               accounts[i].enable, accounts[i].session_id \notin t.used
        PROVE  Ahead(i, n, d, t.rounds - 1) /\ t.rounds # 1
    <3>1. i # c + 1
      BY <2>2
    <3>2. Ahead(i, n, c, t.rounds)
      BY <1>0, <1>4, <2>2 DEF Scanned
    <3> HIDE DEF t, n, c
    <3> QED
      BY <1>1, <1>2, <3>1, <3>2, AheadMoves DEF d
  <2>3. CASE ~(a.enable /\ a.session_id \notin t.used) /\ t.rounds = 1
    <3> DEFINE u == [t EXCEPT !.at = "error", !.rounds = 0]
    <3>1. /\ u.at = "error" /\ u.used = t.used /\ u.since = t.since
          /\ u.steady = t.steady /\ u.attempts = t.attempts
      BY <1>0 DEF Request
    <3>2. AfterRotation(r, u)
      BY <2>3 DEF Rotate
    <3> HIDE DEF u
    <3>3. t.since = "alone" => Left(t, accounts) = {}
      BY <2>2, <2>3 DEF Left, Enabled
    <3>4. TriesOK(u, accounts, d)
      BY <1>0, <1>4, <3>1, <3>3 DEF TriesOK, Fresh, Scanned, NoneLeft, Enough, Left
    <3> QED
      BY <3>2, <3>4
  <2>4. CASE ~(a.enable /\ a.session_id \notin t.used) /\ t.rounds # 1
    <3> DEFINE u == [t EXCEPT !.rounds = @ - 1]
    <3>1. /\ u.at = "rotate" /\ u.used = t.used /\ u.since = t.since
          /\ u.rounds = t.rounds - 1
          /\ u.steady = t.steady /\ u.attempts = t.attempts
      BY <1>0 DEF Request
    <3>2. AfterRotation(r, u)
      BY <2>4 DEF Rotate
    <3> HIDE DEF u
    <3>3. Scanned(u, accounts, d)
      BY <2>2, <2>4, <3>1 DEF Scanned
    <3>4. TriesOK(u, accounts, d)
      BY <1>0, <1>4, <3>1, <3>3 DEF TriesOK, Fresh, NoneLeft, Enough, Left
    <3> QED
      BY <3>2, <3>4
  <2> QED
    BY <2>1, <2>3, <2>4
<1>6. ASSUME NEW q \in Requests, q # r PROVE TriesOK(req'[q], accounts, d)
  <2> DEFINE v == req[q]
             w == [v EXCEPT !.since = "contended"]
  <2>1. v \in Request /\ TriesOK(v, accounts, c)
    BY Parts DEF Tries
  <2>2. req'[q] = IF v.at = "rotate" /\ v.since = "alone" THEN w ELSE v
    BY <1>5, <1>6 DEF AfterRotation
  <2>3. /\ w.since = "contended" /\ w.at = v.at /\ w.used = v.used /\ w.sid = v.sid
        /\ w.steady = v.steady /\ w.attempts = v.attempts
    <3> HIDE DEF v
    <3> QED
      BY <2>1 DEF Request
  <2> HIDE DEF v, w, c
  <2>4. TriesOK(w, accounts, d)
    BY <2>1, <2>3 DEF TriesOK, Fresh, Scanned, NoneLeft, Enough, Left
  <2>5. ASSUME ~(v.at = "rotate" /\ v.since = "alone") PROVE TriesOK(v, accounts, d)
    BY <2>1, <2>5 DEF TriesOK, Scanned
  <2> QED
    BY <2>2, <2>4, <2>5
<1>7. req'[r] = u
  BY <1>5 DEF AfterRotation
<1> QED
  BY <1>3, <1>5, <1>6, <1>7 DEF Tries

-----------------------------------------------------------------------------
(* Changes of the list, and the theorems *)

\* A change of the list makes every request forget what it relied on.
LEMMA TriesChange ==
    ASSUME IInv, Tries, ListChanges
    PROVE  Tries'
<1> SUFFICES ASSUME NEW r \in Requests
             PROVE  TriesOK(req'[r], accounts', current_index')
  BY DEF Tries
<1> DEFINE t == req[r]
           u == Disturbed(t)
<1>1. t \in Request /\ Fresh(t)
  BY Parts DEF Tries, TriesOK
<1>2. /\ u.at = t.at /\ u.used = t.used /\ u.sid = t.sid
      /\ u.steady = (t.at = "idle")
      /\ t.at \in {"rotate", "error"} => u.since = "changed"
  <2> HIDE DEF t
  <2> QED
    BY <1>1 DEF Disturbed, Request
<1>3. req'[r] = u
  BY DEF ListChanges
<1> HIDE DEF t, u
<1>4. TriesOK(u, accounts', current_index')
  BY <1>1, <1>2 DEF TriesOK, Fresh, Scanned, NoneLeft, Enough
<1> QED
  BY <1>3, <1>4

LEMMA TriesStep == IInv /\ Tries /\ [Next]_vars => Tries'
<1> SUFFICES ASSUME IInv, Tries, [Next]_vars PROVE Tries'
  OBVIOUS
<1>1. CASE RefresherStep
  BY <1>1, NoTries DEF RefresherStep, Snapshot, Sync, Fetch, CycleEnds
<1>2. ASSUME NEW r \in Requests, RequestStep(r) PROVE Tries'
  BY <1>2, TriesRequest, TriesRotate
<1>3. ASSUME NEW r \in Requests, NEW p \in Pools \cup {NoPool}, BeginRequest(r, p)
      PROVE  Tries'
  BY <1>3, TriesBegin
<1>4. ASSUME NEW h \in Handlers, HandlerStep(h) PROVE Tries'
  <2>1. CASE ReadFlag(h) \/ Purge(h)
    BY <2>1, NoTries DEF ReadFlag, Purge
  <2>2. CASE SetFlag(h)
    BY <2>2, NoTries, TriesChange DEF SetFlag, store
  <2>3. CASE DeleteAt(h)
    BY <2>3, NoTries, TriesChange DEF DeleteAt
  <2>4. CASE Replace(h)
    BY <2>4, NoTries, TriesChange DEF Replace, store
  <2>5. CASE CommitRefreshAll(h)
    BY <2>5, TriesChange DEF CommitRefreshAll
  <2> QED
    BY <1>4, <2>1, <2>2, <2>3, <2>4, <2>5 DEF HandlerStep
<1>5. ASSUME NEW h \in Handlers, NEW op \in HandlerOps, NEW s \in Sessions,
             BeginAdmin(h, op, s)
      PROVE  Tries'
  BY <1>5, NoTries DEF BeginAdmin
<1>6. CASE Add \/ \E s \in Sessions : Break(s)
  BY <1>6, TriesChange DEF Add, Break
<1>7. CASE UNCHANGED vars
  BY <1>7, NoTries DEF vars, store
<1> QED
  BY <1>1, <1>2, <1>3, <1>4, <1>5, <1>6, <1>7 DEF Next

LEMMA TriesInvariant == Spec => [](IInv /\ Tries)
<1>1. Init => IInv /\ Tries
  BY InvInit, IdleOK DEF Init, Tries
<1>2. IInv /\ Tries /\ [Next]_vars => IInv' /\ Tries'
  BY InvStep, TriesStep
<1> QED
  BY <1>1, <1>2, PTL DEF Spec

\* A request that rotates alone reports "no token" only when no enabled account
\* is left that it has not tried: the rounds counted before the rotation suffice
\* from every position of the shared cursor, for lists of any length.
THEOREM RotationReachesAll == Spec => []ErrorMeansNone
<1>1. Tries => ErrorMeansNone
  BY DEF Tries, TriesOK, NoneLeft, Left, ErrorMeansNone, Untried
<1> QED
  BY <1>1, TriesInvariant, PTL

\* On its last attempt a request has tried every enabled account, in whatever
\* mix of pool hits, stale entries and rotations it came by them, as long as the
\* list stays as it was when the attempts were counted.
THEOREM AttemptsSuffice == Spec => []LastAttemptIsLast
<1>1. IInv /\ Tries => LastAttemptIsLast
  <2> SUFFICES ASSUME IInv, Tries, NEW r \in Requests,
                      req[r].at = "call", req[r].attempts = 1, req[r].steady
               PROVE  Left(req[r], accounts) = {}
    BY DEF LastAttemptIsLast, Untried, Left
  <2>1. accounts \in Seq(Account) /\ Enough(req[r], accounts)
    BY Parts DEF Tries, TriesOK
  <2>2. IsFiniteSet(Left(req[r], accounts)) /\ Cardinality(Left(req[r], accounts)) \in Nat
    BY <2>1, LeftFinite
  <2>3. Cardinality(Left(req[r], accounts)) = 0
    BY <2>1, <2>2 DEF Enough
  <2> QED
    BY <2>2, <2>3, FS_EmptySet
<1> QED
  BY <1>1, TriesInvariant, PTL
-----------------------------------------------------------------------------
(* Fairness of the rotation *)

\* The rounds until the cursor c comes to position i of a list of n.
Turn(i, n, c) == IF i > c THEN i - c - 1 ELSE i + n - c - 1

\* Nobody has been served more than once in this round, somebody is still to be
\* served, and who is still to be served comes before who has been.
FairOK(list, c, times) ==
    /\ \A s \in Sessions : times[s] \in {0, 1}
    /\ Enabled(list) # {} => \E s \in Enabled(list) : times[s] = 0
    /\ \A i, j \in DOMAIN list :
          /\ list[i].enable /\ times[list[i].session_id] = 1
          /\ list[j].enable /\ times[list[j].session_id] = 0
          => Turn(j, Len(list), c) < Turn(i, Len(list), c)

Fair == OneEach(accounts) => FairOK(accounts, current_index, served)

\* The cursor moves on: the position under it becomes the last one, every other
\* comes one round earlier.
LEMMA TurnMoves ==
    ASSUME NEW n \in Nat, NEW c \in 0..(n - 1), NEW i \in 1..n
    PROVE  /\ Turn(i, n, c) \in 0..(n - 1)
           /\ i = c + 1 <=> Turn(i, n, c) = 0
           /\ Turn(i, n, (c + 1) % n) =
                IF i = c + 1 THEN n - 1 ELSE Turn(i, n, c) - 1
<1>1. CASE c + 1 < n
  <2>1. (c + 1) % n = c + 1
    BY <1>1
  <2> QED
    BY <2>1, <1>1 DEF Turn
<1>2. CASE c + 1 = n
  <2>1. (c + 1) % n = 0
    BY <1>2
  <2> QED
    BY <2>1, <1>2 DEF Turn
<1> QED
  BY <1>1, <1>2

\* A round begins: nobody has been served.
LEMMA FairAnew ==
    ASSUME NEW list \in Seq(Account), NEW c, NEW times, times = [s \in Sessions |-> 0]
    PROVE  FairOK(list, c, times)
<1>1. \A i \in DOMAIN list : list[i].session_id \in Sessions
  <2> SUFFICES ASSUME NEW i \in DOMAIN list PROVE list[i].session_id \in Sessions
    OBVIOUS
  <2>1. list[i] \in Account
    BY ElementOfSeq
  <2> QED
    BY <2>1 DEF Account
<1>2. Enabled(list) \subseteq Sessions
  BY <1>1 DEF Enabled
<1> QED
  BY <1>1, <1>2 DEF FairOK

LEMMA FairRotate ==
    ASSUME IInv, Fair, NEW r \in Requests, Rotate(r)
    PROVE  Fair'
<1> SUFFICES ASSUME OneEach(accounts')
             PROVE  FairOK(accounts', current_index', served')
  BY DEF Fair
<1> DEFINE n == Len(accounts)
           c == current_index
           d == (c + 1) % n
           a == accounts[c + 1]
           s == a.session_id
           zero == [u \in Sessions |-> 0]
<1>1. accounts' = accounts /\ current_index' = d
  BY DEF Rotate
<1>2. /\ accounts \in Seq(Account) /\ n \in Nat /\ n > 0 /\ DOMAIN accounts = 1..n
      /\ c \in 0..(n - 1) /\ c + 1 \in 1..n /\ served \in [Sessions -> Nat]
  BY Parts DEF Rotate
<1>3. OneEach(accounts) /\ FairOK(accounts, c, served)
  BY <1>1 DEF Fair
<1>4. a \in Account /\ s \in Sessions
  <2>1. a \in Account
    BY <1>2, ElementOfSeq
  <2> QED
    BY <2>1 DEF Account
<1>5. served' = zero \/ (a.enable /\ served' = Serve(s)) \/ (~a.enable /\ served' = served)
  BY DEF Rotate
<1>6. \A i \in 1..n : /\ Turn(i, n, c) \in 0..(n - 1)
                      /\ i = c + 1 <=> Turn(i, n, c) = 0
                      /\ Turn(i, n, d) = IF i = c + 1 THEN n - 1 ELSE Turn(i, n, c) - 1
  BY <1>2, TurnMoves
<1>7. \A i \in 1..n : accounts[i].session_id \in Sessions
  <2> SUFFICES ASSUME NEW i \in 1..n PROVE accounts[i].session_id \in Sessions
    OBVIOUS
  <2>1. accounts[i] \in Account
    BY <1>2, ElementOfSeq
  <2> QED
    BY <2>1 DEF Account
<1>8. \A i \in 1..n : accounts[i].enable => accounts[i].session_id \in Enabled(accounts)
  BY <1>2 DEF Enabled
<1> HIDE DEF n, c, d, a, s
<1>9. CASE served' = zero
  BY <1>1, <1>2, <1>9, FairAnew
<1>10. CASE ~a.enable /\ served' = served
  <2>1. ASSUME NEW i \in 1..n, NEW j \in 1..n,
               accounts[i].enable, served[accounts[i].session_id] = 1,
               accounts[j].enable, served[accounts[j].session_id] = 0
        PROVE  Turn(j, n, d) < Turn(i, n, d)
    <3>1. i # c + 1 /\ j # c + 1
      BY <1>10, <2>1 DEF a
    <3>2. Turn(j, n, c) < Turn(i, n, c)
      BY <1>2, <1>3, <2>1 DEF FairOK, n
    <3> QED
      BY <1>2, <1>6, <3>1, <3>2
  <2> QED
    BY <2>1, <1>1, <1>2, <1>3, <1>10 DEF FairOK, n
<1>11. CASE a.enable /\ served' = Serve(s)
  <2> DEFINE more == [served EXCEPT ![s] = @ + 1]
  <2>1. served[s] = 0
    <3>1. s \in Enabled(accounts)
      BY <1>2, <1>8, <1>11 DEF a, s
    <3>2. PICK u \in Enabled(accounts) : served[u] = 0
      BY <1>3, <3>1 DEF FairOK
    <3>3. PICK j \in 1..n : accounts[j].enable /\ accounts[j].session_id = u
      BY <1>2 DEF Enabled
    <3>4. CASE served[s] = 1
      <4>1. Turn(j, n, c) < Turn(c + 1, n, c)
        BY <1>2, <1>3, <1>11, <3>2, <3>3, <3>4 DEF FairOK, a, s, n
      <4>2. Turn(c + 1, n, c) = 0 /\ Turn(j, n, c) \in 0..(n - 1)
        BY <1>2, <1>6
      <4> QED
        BY <4>1, <4>2, <1>2
    <3> QED
      BY <1>3, <1>4, <3>4 DEF FairOK
  <2>2. \A u \in Sessions : more[u] = IF u = s THEN 1 ELSE served[u]
    BY <1>2, <1>4, <2>1
  <2>3. \A u \in Sessions : more[u] \in {0, 1}
    BY <1>3, <2>2 DEF FairOK
  <2>4. \/ served' = more /\ \E u \in Enabled(accounts) : ~(more[u] > 0)
        \/ served' = [u \in Sessions |-> IF more[u] > 0 THEN more[u] - 1 ELSE 0]
    BY <1>11, Zenon DEF Serve
  <2> HIDE DEF more
  <2>5. CASE served' = [u \in Sessions |-> IF more[u] > 0 THEN more[u] - 1 ELSE 0]
    <3>1. \A u \in Sessions : (IF more[u] > 0 THEN more[u] - 1 ELSE 0) = 0
      BY <2>3
    <3>2. served' = zero
      BY <2>5, <3>1
    <3> QED
      BY <3>2, <1>1, <1>2, FairAnew
  <2>6. CASE served' = more /\ \E u \in Enabled(accounts) : ~(more[u] > 0)
    <3>1. \E u \in Enabled(accounts) : served'[u] = 0
      <4>1. PICK u \in Enabled(accounts) : ~(more[u] > 0)
        BY <2>6
      <4>2. u \in Sessions
        BY <1>2, <1>7 DEF Enabled
      <4>3. more[u] = 0
        BY <4>1, <4>2, <2>3
      <4> QED
        BY <4>3, <2>6
    <3>2. ASSUME NEW i \in 1..n, NEW j \in 1..n,
                 accounts[i].enable, more[accounts[i].session_id] = 1,
                 accounts[j].enable, more[accounts[j].session_id] = 0
          PROVE  Turn(j, n, d) < Turn(i, n, d)
      <4>1. j # c + 1 /\ accounts[j].session_id # s
        BY <2>2, <1>4, <1>7, <3>2 DEF a, s
      <4>2. served[accounts[j].session_id] = 0
        BY <2>2, <4>1, <1>7, <3>2
      <4>3. CASE i = c + 1
        BY <4>1, <4>3, <1>2, <1>6
      <4>4. CASE i # c + 1
        <5>1. accounts[i].session_id # s
          BY <4>4, <1>2, <1>3 DEF OneEach, a, s
        <5>2. served[accounts[i].session_id] = 1
          BY <5>1, <2>2, <1>7, <3>2
        <5>3. Turn(j, n, c) < Turn(i, n, c)
          BY <1>2, <1>3, <3>2, <4>2, <5>2 DEF FairOK, n
        <5> QED
          BY <4>1, <4>4, <5>3, <1>2, <1>6
      <4> QED
        BY <4>3, <4>4
    <3> QED
      BY <2>3, <2>6, <3>1, <3>2, <1>1, <1>2 DEF FairOK, n
  <2> QED
    BY <2>4, <2>5, <2>6
<1> QED
  BY <1>5, <1>9, <1>10, <1>11

\* A change of the list begins a new round.
LEMMA FairChange ==
    ASSUME ListChanges, accounts' \in Seq(Account)
    PROVE  Fair'
BY FairAnew DEF ListChanges, Fair

LEMMA FairStays ==
    ASSUME Fair, UNCHANGED <<store, served>>
    PROVE  Fair'
BY DEF Fair, store

LEMMA FairStep == IInv /\ Fair /\ [Next]_vars => Fair'
<1> SUFFICES ASSUME IInv, Fair, [Next]_vars PROVE Fair'
  OBVIOUS
<1>0. accounts' \in Seq(Account)
  BY InvStep, Parts DEF IInv, TypeOK
<1>1. CASE RefresherStep
  BY <1>1, FairStays DEF RefresherStep, Snapshot, Sync, Fetch, CycleEnds
<1>2. ASSUME NEW r \in Requests, RequestStep(r) PROVE Fair'
  <2>1. CASE Rotate(r)
    BY <2>1, FairRotate
  <2>2. CASE ~Rotate(r)
    BY <1>2, <2>2, FairStays
    DEF RequestStep, FromPool, LeavePool, LookUp, DropStale, Count, RotateNothing, Fail, Answer,
        Others
  <2> QED
    BY <2>1, <2>2
<1>3. ASSUME NEW r \in Requests, NEW p \in Pools \cup {NoPool}, BeginRequest(r, p)
      PROVE  Fair'
  BY <1>3, FairStays DEF BeginRequest, Others
<1>4. ASSUME NEW h \in Handlers, HandlerStep(h) PROVE Fair'
  <2>1. CASE ReadFlag(h) \/ Purge(h)
    BY <2>1, FairStays DEF ReadFlag, Purge
  <2>2. CASE SetFlag(h)
    BY <2>2, <1>0, FairStays, FairChange DEF SetFlag, store
  <2>3. CASE DeleteAt(h)
    BY <2>3, <1>0, FairStays, FairChange DEF DeleteAt
  <2>4. CASE Replace(h)
    BY <2>4, <1>0, FairStays, FairChange DEF Replace, store
  <2>5. CASE CommitRefreshAll(h)
    BY <2>5, <1>0, FairChange DEF CommitRefreshAll
  <2> QED
    BY <1>4, <2>1, <2>2, <2>3, <2>4, <2>5 DEF HandlerStep
<1>5. ASSUME NEW h \in Handlers, NEW op \in HandlerOps, NEW s \in Sessions,
             BeginAdmin(h, op, s)
      PROVE  Fair'
  BY <1>5, FairStays DEF BeginAdmin
<1>6. CASE Add \/ \E s \in Sessions : Break(s)
  BY <1>6, <1>0, FairChange DEF Add, Break
<1>7. CASE UNCHANGED vars
  BY <1>7, FairStays DEF vars, store
<1> QED
  BY <1>1, <1>2, <1>3, <1>4, <1>5, <1>6, <1>7 DEF Next

\* The rotation hands no account out twice before every other enabled one,
\* however many requests move the cursor, for lists of any length.
THEOREM RotationIsFair == Spec => []RotationFair
<1>1. Init => IInv /\ Fair
  <2>1. Init => Fair
    <3> SUFFICES ASSUME Init PROVE Fair
      OBVIOUS
    <3>1. accounts \in Seq(Account) /\ served = [s \in Sessions |-> 0]
      BY InvInit, Parts DEF Init
    <3> QED
      BY <3>1, FairAnew DEF Fair
  <2> QED
    BY <2>1, InvInit
<1>2. IInv /\ Fair /\ [Next]_vars => IInv' /\ Fair'
  BY InvStep, FairStep
<1>3. Fair => RotationFair
  BY DEF Fair, FairOK, RotationFair
<1> QED
  BY <1>1, <1>2, <1>3, PTL DEF Spec
=============================================================================
