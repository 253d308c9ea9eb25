-------------------------- MODULE AccountSelection --------------------------
(***************************************************************************)
(* Which account a gateway request gets: the quota pools                   *)
(* (src/quota_pool), the round-robin fallback of src/credential/store.rs   *)
(* and the retry loop of the Claude and OpenAI handlers, while the quota   *)
(* refresher and the WebUI change the pools and the account list.          *)
(*                                                                         *)
(* The store is reduced to what selection reads: session ids, enable flags *)
(* and the cursor.  Its own races are the subject of CredentialStore.      *)
(* A step is one lock section of the store or of the pool manager, or one  *)
(* answer of the backend.                                                  *)
(***************************************************************************)
EXTENDS Integers, Sequences, SequencesExt, FiniteSets, Functions

CONSTANTS
    Pools, NoPool,      \* quota groups; NoPool stands for an empty model name
    Requests,           \* gateway requests that may run at the same time
    Handlers,           \* WebUI handlers that may run at the same time
    Operations,         \* what happens besides requests: subset of AllOperations
    InitialLists,       \* account lists at start
    Outcomes,           \* what the backend may answer
    PoolTries,          \* hits on the pool before the rotation takes over
    MODEL_CAPACITY_EXHAUSTED_MAX_RETRIES,
    MaxFraction,        \* quota fractions are 0..MaxFraction
    MaxSession          \* bound on session ids

None == -1              \* remainingFraction is missing
HandlerOps == {"toggle", "delete", "refresh", "refresh_all"}
AllOperations == HandlerOps \cup {"quota", "add", "break"}
AllOutcomes == {"ok", "auth", "quota", "capacity", "fatal"}

Sessions == 1..MaxSession
Account == [session_id : Sessions, enable : BOOLEAN]

\* No account is in the list twice.
OneEach(list) ==
    \A i, j \in DOMAIN list : list[i].session_id = list[j].session_id => i = j

ASSUME PoolsAssumption == NoPool \notin Pools
ASSUME OperationsAssumption ==
    Operations \subseteq AllOperations /\ Outcomes \subseteq AllOutcomes
ASSUME NumbersAssumption ==
    /\ PoolTries \in Nat /\ MODEL_CAPACITY_EXHAUSTED_MAX_RETRIES \in Nat \ {0}
    /\ MaxFraction \in Nat /\ MaxSession \in Nat
ASSUME InitialAssumption ==
    \A l \in InitialLists :
        /\ \E n \in 0..MaxSession : l \in [1..n -> Account]
        /\ OneEach(l)

VARIABLES
    accounts, current_index,    \* the store's list and cursor
    active, cooldown,           \* the two maps of every pool
    refresher,                  \* the quota refresher
    req,                        \* what each gateway request is doing
    handler,                    \* what each WebUI handler is doing
    next_session,               \* fresh session ids
    served                      \* history: rotation picks since the list changed

store == <<accounts, current_index>>
pools == <<active, cooldown>>
vars == <<accounts, current_index, active, cooldown, refresher, req, handler,
          next_session, served>>

-----------------------------------------------------------------------------
(* Types and look-ups *)

\* list: what is left of the snapshot of this cycle.
Refresher == [at : {"sleep", "sync", "fetch"}, list : Seq(Account)]

\* used: the sessions this request has tried; attempts, tries, rounds: what is
\* left of the three loops; capacity: consecutive capacity errors; since: what
\* happened to list and cursor since the rotation counted its rounds; steady: the
\* list has not changed since the request began.
Request == [at : {"idle", "select", "lookup", "stale", "count", "rotate", "call",
                  "error"},
            pool : Pools \cup {NoPool}, used : SUBSET Sessions, attempts : Nat,
            capacity : Nat, tries : Nat, sid : Sessions \cup {0}, rounds : Nat,
            since : {"alone", "contended", "changed"}, steady : BOOLEAN]

\* copy: what a refresh has read of the list and will write back.
Handler == [at : {"idle", "set", "purge"} \cup HandlerOps,
            sid : Sessions \cup {0}, idx : Nat, on : BOOLEAN, copy : Seq(Account)]

IdleRequest == [at |-> "idle", pool |-> NoPool, used |-> {}, attempts |-> 0,
                capacity |-> 0, tries |-> 0, sid |-> 0, rounds |-> 0,
                since |-> "alone", steady |-> TRUE]
IdleHandler == [at |-> "idle", sid |-> 0, idx |-> 0, on |-> FALSE, copy |-> <<>>]
Asleep == [at |-> "sleep", list |-> <<>>]

Quota == UNION {[S -> 0..MaxFraction] : S \in SUBSET Sessions}

\* The types, and the cursor within the list it indexes.
TypeOK ==
    /\ accounts \in Seq(Account)
    /\ current_index \in Nat /\ (current_index = 0 \/ current_index < Len(accounts))
    /\ active \in [Pools -> Quota] /\ cooldown \in [Pools -> SUBSET Sessions]
    /\ refresher \in Refresher
    /\ req \in [Requests -> Request]
    /\ handler \in [Handlers -> Handler]
    /\ next_session \in 1..(MaxSession + 1)
    /\ served \in [Sessions -> Nat]
   

Enabled(list) == {list[i].session_id : i \in {j \in DOMAIN list : list[j].enable}}

First(i, s) ==
    /\ i \in DOMAIN accounts /\ accounts[i].session_id = s
    /\ \A j \in 1..(i - 1) : accounts[j].session_id # s

InPools == UNION {DOMAIN active[p] \cup cooldown[p] : p \in Pools}

-----------------------------------------------------------------------------
(* History *)

\* The list or the cursor changed otherwise than by a rotation.
Disturbed(t) ==
    [t EXCEPT !.since = IF t.at \in {"rotate", "error"} THEN "changed" ELSE @,
              !.steady = t.at = "idle"]
ListChanges ==
    /\ req' = [r \in Requests |-> Disturbed(req[r])]
    /\ served' = [s \in Sessions |-> 0]

\* A round ends when every enabled account has been served in it.
Serve(s) ==
    LET more == [served EXCEPT ![s] = @ + 1] IN
    IF \A t \in Enabled(accounts) : more[t] > 0
    THEN [t \in Sessions |-> IF more[t] > 0 THEN more[t] - 1 ELSE 0]
    ELSE more

-----------------------------------------------------------------------------
(* The quota pools: manager.rs *)

\* remove_session, in every pool.
Removed(s) ==
    /\ active' = [p \in Pools |-> Restrict(active[p], DOMAIN active[p] \ {s})]
    /\ cooldown' = [p \in Pools |-> cooldown[p] \ {s}]

\* What a quota answer says of one group.
Group == [fraction : {None} \cup 0..MaxFraction, reset : {"none", "past", "future"}]
Cools(g) == \/ g.fraction = 0 /\ g.reset = "future"
            \/ g.fraction = None /\ g.reset # "none"
Activates(g) == g.fraction # None /\ ~Cools(g)

\* Mutant: an account that has quota again stays in cooldown.
UpdateFromQuota_KeepsCooldown(s, groups) ==
    /\ active' = [p \in Pools |->
         IF p \notin DOMAIN groups THEN active[p]
         ELSE IF Cools(groups[p]) THEN Restrict(active[p], DOMAIN active[p] \ {s})
         ELSE IF Activates(groups[p])
              THEN [t \in DOMAIN active[p] \cup {s} |->
                        IF t = s THEN groups[p].fraction ELSE active[p][t]]
              ELSE active[p]]
    /\ cooldown' = [p \in Pools |->
         IF p \in DOMAIN groups /\ Cools(groups[p]) THEN cooldown[p] \cup {s}
         ELSE cooldown[p]]

UpdateFromQuota(s, groups) ==
    /\ active' = [p \in Pools |->
         IF p \notin DOMAIN groups THEN active[p]
         ELSE IF Cools(groups[p]) THEN Restrict(active[p], DOMAIN active[p] \ {s})
         ELSE IF Activates(groups[p])
              THEN [t \in DOMAIN active[p] \cup {s} |->
                        IF t = s THEN groups[p].fraction ELSE active[p][t]]
              ELSE active[p]]
    /\ cooldown' = [p \in Pools |->
         IF p \notin DOMAIN groups THEN cooldown[p]
         ELSE IF Cools(groups[p]) THEN cooldown[p] \cup {s}
         ELSE IF Activates(groups[p]) THEN cooldown[p] \ {s}
         ELSE cooldown[p]]

\* selector.rs, power of two choices: of two distinct random candidates the one
\* with more quota.
Candidates(p, used) == UNION {DOMAIN active[q] \ used : q \in Pools \cap {p}}
Selectable(p, used) ==
    {s \in Candidates(p, used) :
        \/ Candidates(p, used) = {s}
        \/ \E t \in Candidates(p, used) \ {s} : active[p][s] >= active[p][t]}

-----------------------------------------------------------------------------
(* The quota refresher: refresher.rs *)

Snapshot ==
    /\ refresher.at = "sleep" /\ "quota" \in Operations
    /\ refresher' = [at |-> "sync", list |-> accounts]
    /\ UNCHANGED <<store, pools, req, handler, next_session, served>>

\* Mutant: only deleted accounts leave the pools.
Sync_KeepsDisabled ==
    LET valid == {refresher.list[i].session_id : i \in DOMAIN refresher.list} IN
    /\ refresher.at = "sync"
    /\ active' = [p \in Pools |-> Restrict(active[p], DOMAIN active[p] \cap valid)]
    /\ cooldown' = [p \in Pools |-> cooldown[p] \cap valid]
    /\ refresher' = [refresher EXCEPT !.at = "fetch"]
    /\ UNCHANGED <<store, req, handler, next_session, served>>

Sync ==
    LET valid == Enabled(refresher.list) IN
    /\ refresher.at = "sync"
    /\ active' = [p \in Pools |-> Restrict(active[p], DOMAIN active[p] \cap valid)]
    /\ cooldown' = [p \in Pools |-> cooldown[p] \cap valid]
    /\ refresher' = [refresher EXCEPT !.at = "fetch"]
    /\ UNCHANGED <<store, req, handler, next_session, served>>

\* One account of the snapshot: its quota arrives, or the call fails, or the
\* account is disabled and skipped.
Fetch ==
    LET a == Head(refresher.list) IN
    /\ refresher.at = "fetch" /\ refresher.list # <<>>
    /\ \/ /\ a.enable
          /\ \E G \in SUBSET Pools : \E groups \in [G -> Group] :
                UpdateFromQuota(a.session_id, groups)
       \/ UNCHANGED pools
    /\ refresher' = [refresher EXCEPT !.list = Tail(@)]
    /\ UNCHANGED <<store, req, handler, next_session, served>>

CycleEnds ==
    /\ refresher.at = "fetch" /\ refresher.list = <<>>
    /\ refresher' = Asleep
    /\ UNCHANGED <<store, pools, req, handler, next_session, served>>

-----------------------------------------------------------------------------
(* get_token_for_model_excluding and get_token_excluding *)

Becomes(r, t) == req' = [req EXCEPT ![r] = t]
Others == <<store, pools, refresher, handler, next_session, served>>

\* An account has been chosen: the handler notes it and calls the backend.
Chosen(t, s) == [t EXCEPT !.at = "call", !.sid = s, !.used = @ \cup {s}, !.rounds = 0]

\* Mutant: the tries are not counted.
FromPool_Uncounted(r) ==
    LET t == req[r] IN
    /\ t.at = "select"
    /\ \E s \in Selectable(t.pool, t.used) :
         Becomes(r, [t EXCEPT !.at = "lookup", !.sid = s])
    /\ UNCHANGED Others

FromPool(r) ==
    LET t == req[r] IN
    /\ t.at = "select" /\ t.tries > 0
    /\ \E s \in Selectable(t.pool, t.used) :
         Becomes(r, [t EXCEPT !.at = "lookup", !.sid = s, !.tries = @ - 1])
    /\ UNCHANGED Others

LeavePool(r) ==
    LET t == req[r] IN
    /\ t.at = "select"
    /\ t.tries = 0 \/ Candidates(t.pool, t.used) = {}
    /\ Becomes(r, [t EXCEPT !.at = "count"])
    /\ UNCHANGED Others

LookUp(r) ==
    LET t == req[r] IN
    /\ t.at = "lookup"
    /\ \/ \E i \in DOMAIN accounts :
            /\ First(i, t.sid) /\ accounts[i].enable
            /\ Becomes(r, Chosen(t, t.sid))
       \/ /\ \A i \in DOMAIN accounts : First(i, t.sid) => ~accounts[i].enable
          /\ Becomes(r, [t EXCEPT !.at = "stale"])
    /\ UNCHANGED Others

DropStale(r) ==
    /\ req[r].at = "stale"
    /\ Removed(req[r].sid)
    /\ Becomes(r, [req[r] EXCEPT !.at = "select"])
    /\ UNCHANGED <<store, refresher, handler, next_session, served>>

Count(r) ==
    LET t == req[r] IN
    /\ t.at = "count"
    /\ Becomes(r, [t EXCEPT !.at = IF accounts = <<>> THEN "error" ELSE "rotate",
                            !.rounds = Len(accounts), !.since = "alone"])
    /\ UNCHANGED Others

\* One round of the rotation, seen by the other rotating requests.
AfterRotation(r, t) ==
    req' = [q \in Requests |->
              IF q = r THEN t
              ELSE IF req[q].at = "rotate" /\ req[q].since = "alone"
                   THEN [req[q] EXCEPT !.since = "contended"] ELSE req[q]]

\* Mutant: one round too few.
Rotate_OneRoundShort(r) ==
    LET t == req[r]
        a == accounts[current_index + 1]
        usable == a.enable /\ a.session_id \notin t.used
    IN  /\ t.at = "rotate" /\ accounts # <<>>
        /\ current_index' = (current_index + 1) % Len(accounts)
        /\ AfterRotation(r, IF usable THEN Chosen(t, a.session_id)
                            ELSE IF t.rounds <= 2 THEN [t EXCEPT !.at = "error", !.rounds = 0]
                            ELSE [t EXCEPT !.rounds = @ - 1])
        /\ served' = CASE usable -> Serve(a.session_id)
                       [] ~usable /\ a.enable -> [s \in Sessions |-> 0]
                       [] OTHER -> served
        /\ UNCHANGED <<accounts, pools, refresher, handler, next_session>>

\* Mutant: the cursor moves past the end of the list.
Rotate_NoWrap(r) ==
    LET t == req[r]
        a == accounts[current_index + 1]
        usable == a.enable /\ a.session_id \notin t.used
    IN  /\ t.at = "rotate" /\ accounts # <<>>
        /\ current_index' = current_index + 1
        /\ AfterRotation(r, IF usable THEN Chosen(t, a.session_id)
                            ELSE IF t.rounds = 1 THEN [t EXCEPT !.at = "error", !.rounds = 0]
                            ELSE [t EXCEPT !.rounds = @ - 1])
        /\ UNCHANGED <<accounts, pools, refresher, handler, next_session, served>>

\* Mutant: the cursor stays on the account it has just handed out.
Rotate_Sticks(r) ==
    LET t == req[r]
        a == accounts[current_index + 1]
        usable == a.enable /\ a.session_id \notin t.used
    IN  /\ t.at = "rotate" /\ accounts # <<>>
        /\ current_index' = IF usable THEN current_index
                            ELSE (current_index + 1) % Len(accounts)
        /\ AfterRotation(r, IF usable THEN Chosen(t, a.session_id)
                            ELSE IF t.rounds = 1 THEN [t EXCEPT !.at = "error", !.rounds = 0]
                            ELSE [t EXCEPT !.rounds = @ - 1])
        /\ served' = CASE usable -> Serve(a.session_id)
                       [] ~usable /\ a.enable -> [s \in Sessions |-> 0]
                       [] OTHER -> served
        /\ UNCHANGED <<accounts, pools, refresher, handler, next_session>>

Rotate(r) ==
    LET t == req[r]
        a == accounts[current_index + 1]
        usable == a.enable /\ a.session_id \notin t.used
    IN  /\ t.at = "rotate" /\ accounts # <<>>
        /\ current_index' = (current_index + 1) % Len(accounts)
        /\ AfterRotation(r, IF usable THEN Chosen(t, a.session_id)
                            ELSE IF t.rounds = 1 THEN [t EXCEPT !.at = "error", !.rounds = 0]
                            ELSE [t EXCEPT !.rounds = @ - 1])
        /\ served' = CASE usable -> Serve(a.session_id)
                       [] ~usable /\ a.enable -> [s \in Sessions |-> 0]
                       [] OTHER -> served
        /\ UNCHANGED <<accounts, pools, refresher, handler, next_session>>

RotateNothing(r) ==
    /\ req[r].at = "rotate" /\ accounts = <<>>
    /\ Becomes(r, [req[r] EXCEPT !.at = "error", !.rounds = 0])
    /\ UNCHANGED Others

-----------------------------------------------------------------------------
(* The request: claude/handler.rs and openai/handler.rs *)

\* Mutant: one attempt too few.
BeginRequest_OneShort(r, p) ==
    LET enabled == Cardinality({i \in DOMAIN accounts : accounts[i].enable}) IN
    /\ req[r].at = "idle"
    /\ Becomes(r, [IdleRequest EXCEPT !.at = "select", !.pool = p, !.tries = PoolTries,
                        !.attempts = IF enabled <= 1 THEN 1 ELSE enabled - 1])
    /\ UNCHANGED Others

BeginRequest(r, p) ==
    LET enabled == Cardinality({i \in DOMAIN accounts : accounts[i].enable}) IN
    /\ req[r].at = "idle"
    /\ Becomes(r, [IdleRequest EXCEPT !.at = "select", !.pool = p, !.tries = PoolTries,
                        !.attempts = IF enabled < 1 THEN 1 ELSE enabled])
    /\ UNCHANGED Others

\* The backend answers.  Authentication (401, whose background refresh is one of
\* the Operations), quota (403, 429) and capacity errors go on with the next
\* account as long as there are attempts.
Answer(r, outcome) ==
    LET t == req[r]
        failures == IF outcome = "capacity" THEN t.capacity + 1 ELSE 0
        again == /\ outcome \in {"auth", "quota", "capacity"} /\ t.attempts > 1
                 /\ failures < MODEL_CAPACITY_EXHAUSTED_MAX_RETRIES
    IN  /\ t.at = "call"
        /\ Becomes(r, IF again
                      THEN [t EXCEPT !.at = "select", !.sid = 0, !.tries = PoolTries,
                                     !.attempts = @ - 1, !.capacity = failures]
                      ELSE IdleRequest)
        /\ UNCHANGED Others

\* No account could be chosen: the request fails at once.
Fail(r) ==
    /\ req[r].at = "error"
    /\ Becomes(r, IdleRequest)
    /\ UNCHANGED Others

-----------------------------------------------------------------------------
(* WebUI handlers and the other operations on the list *)

BeginAdmin(h, op, s) ==
    /\ handler[h].at = "idle" /\ op \in Operations \cap HandlerOps
    /\ \E i \in DOMAIN accounts :
         /\ First(i, s)
         /\ handler' = [handler EXCEPT ![h] =
                [at |-> op, sid |-> s, idx |-> i, on |-> FALSE,
                 copy |-> CASE op = "refresh" -> <<accounts[i]>>
                            [] op = "refresh_all" -> accounts
                            [] OTHER -> <<>>]]
    /\ UNCHANGED <<store, pools, refresher, req, next_session, served>>

ReadFlag(h) ==
    LET t == handler[h] IN
    /\ t.at = "toggle"
    /\ handler' = [handler EXCEPT ![h] =
          IF t.idx <= Len(accounts)
          THEN [t EXCEPT !.at = "set", !.on = ~accounts[t.idx].enable]
          ELSE IdleHandler]
    /\ UNCHANGED <<store, pools, refresher, req, next_session, served>>

\* set_enable ignores an index out of range, and its error is ignored.
SetFlag(h) ==
    LET t == handler[h] IN
    /\ t.at = "set"
    /\ IF t.idx <= Len(accounts)
       THEN accounts' = [accounts EXCEPT ![t.idx].enable = t.on] /\ ListChanges
       ELSE UNCHANGED <<accounts, req, served>>
    /\ handler' = [handler EXCEPT ![h] =
                     IF t.on THEN IdleHandler ELSE [t EXCEPT !.at = "purge"]]
    /\ UNCHANGED <<current_index, pools, refresher, next_session>>

\* delete; when its save fails, the pools are not cleaned.
DeleteAt(h) ==
    LET t == handler[h] IN
    /\ t.at = "delete"
    /\ IF t.idx <= Len(accounts)
       THEN /\ accounts' = RemoveAt(accounts, t.idx)
            /\ current_index' = IF current_index >= Len(accounts) - 1 THEN 0
                                ELSE current_index
            /\ ListChanges
            /\ handler' \in {[handler EXCEPT ![h] = [t EXCEPT !.at = "purge"]],
                             [handler EXCEPT ![h] = IdleHandler]}
       ELSE /\ handler' = [handler EXCEPT ![h] = IdleHandler]
            /\ UNCHANGED <<store, req, served>>
    /\ UNCHANGED <<pools, refresher, next_session>>

Purge(h) ==
    /\ handler[h].at = "purge"
    /\ Removed(handler[h].sid)
    /\ handler' = [handler EXCEPT ![h] = IdleHandler]
    /\ UNCHANGED <<store, refresher, req, next_session, served>>

\* refresh_session, started by hand, by the clock or by a 401 answer: the copy goes
\* back to the index it was read from, flag and session id included, unless that
\* index is gone or the token call failed.
Replace(h) ==
    LET t == handler[h] IN
    /\ t.at = "refresh"
    /\ \/ /\ t.idx <= Len(accounts)
          /\ accounts' = [accounts EXCEPT ![t.idx] = t.copy[1]] /\ ListChanges
       \/ UNCHANGED <<accounts, req, served>>
    /\ handler' = [handler EXCEPT ![h] = IdleHandler]
    /\ UNCHANGED <<current_index, pools, refresher, next_session>>

\* refresh_all writes the whole list back and resets the cursor.
CommitRefreshAll(h) ==
    /\ handler[h].at = "refresh_all"
    /\ accounts' = handler[h].copy /\ current_index' = 0
    /\ ListChanges
    /\ handler' = [handler EXCEPT ![h] = IdleHandler]
    /\ UNCHANGED <<pools, refresher, next_session>>

\* add(): a new account, or a known one under a new session id.
Add ==
    LET new == [session_id |-> next_session, enable |-> TRUE] IN
    /\ next_session <= MaxSession /\ "add" \in Operations
    /\ next_session' = next_session + 1
    /\ \/ accounts' = Append(accounts, new)
       \/ \E i \in DOMAIN accounts : accounts' = [accounts EXCEPT ![i] = new]
    /\ ListChanges
    /\ UNCHANGED <<current_index, pools, refresher, handler>>

\* disable_by_session_id after repeated refresh failures; the pools keep it.
Break(s) ==
    /\ "break" \in Operations
    /\ \E i \in DOMAIN accounts :
         /\ First(i, s) /\ accounts[i].enable
         /\ accounts' = [accounts EXCEPT ![i].enable = FALSE]
    /\ ListChanges
    /\ UNCHANGED <<current_index, pools, refresher, handler, next_session>>

-----------------------------------------------------------------------------
(* Specification *)

Init ==
    /\ accounts \in InitialLists /\ current_index = 0
    /\ active = [p \in Pools |-> [s \in {} |-> 0]]
    /\ cooldown = [p \in Pools |-> {}]
    /\ refresher = Asleep
    /\ req = [r \in Requests |-> IdleRequest]
    /\ handler = [h \in Handlers |-> IdleHandler]
    /\ next_session = Len(accounts) + 1
    /\ served = [s \in Sessions |-> 0]

RefresherStep == Snapshot \/ Sync \/ Fetch \/ CycleEnds
RequestStep(r) ==
    \/ FromPool(r) \/ LeavePool(r) \/ LookUp(r) \/ DropStale(r) \/ Count(r)
    \/ Rotate(r) \/ RotateNothing(r) \/ Fail(r)
    \/ \E outcome \in Outcomes : Answer(r, outcome)
HandlerStep(h) ==
    \/ ReadFlag(h) \/ SetFlag(h) \/ DeleteAt(h) \/ Purge(h)
    \/ Replace(h) \/ CommitRefreshAll(h)

Next ==
    \/ RefresherStep
    \/ \E r \in Requests :
         RequestStep(r) \/ \E p \in Pools \cup {NoPool} : BeginRequest(r, p)
    \/ \E h \in Handlers :
         HandlerStep(h) \/ \E op \in HandlerOps, s \in Sessions : BeginAdmin(h, op, s)
    \/ Add
    \/ \E s \in Sessions : Break(s)

Spec == Init /\ [][Next]_vars

\* Tasks are scheduled, timers fire, the backend answers or times out.
Fairness ==
    /\ WF_vars(RefresherStep)
    /\ \A r \in Requests : WF_vars(RequestStep(r))
    /\ \A h \in Handlers : WF_vars(HandlerStep(h))

FairSpec == Spec /\ Fairness

-----------------------------------------------------------------------------
(* Properties *)

\* An account is never both available and cooling down in one group, whatever
\* sequence of quota answers and removals arrives: the WebUI would show one and
\* the selection use the other.
PoolsDisjoint == \A p \in Pools : DOMAIN active[p] \cap cooldown[p] = {}

\* A request that rotates alone reports "no token" only if no enabled account
\* is left that it has not tried: the rounds it counted suffice from wherever
\* the shared cursor stands.
Untried(r) == Enabled(accounts) \ req[r].used
ErrorMeansNone ==
    \A r \in Requests :
        req[r].at = "error" /\ req[r].since = "alone" => Untried(r) = {}

\* A request gives up on quota or authentication errors only after every enabled
\* account has failed: on the last attempt none is left untried, whether pool or
\* rotation chose, as long as the list stays as it was.
LastAttemptIsLast ==
    \A r \in Requests :
        req[r].at = "call" /\ req[r].attempts = 1 /\ req[r].steady => Untried(r) = {}

\* The rotation is fair: while the list stays as it is, no account is handed
\* out twice before every other enabled account has been, however many requests
\* move the cursor, provided none of them skips an account it has tried and no
\* refresh has written an account back to a second position.
RotationFair == OneEach(accounts) => \A s \in Sessions : served[s] <= 1

\* A stale pool entry goes away by itself: once an account stays disabled or
\* deleted, the pools end up without it, though a quota answer that was on its
\* way may put it back after the handler removed it.
DisabledStaysOut ==
    \A s \in Sessions :
        <>[](s \notin Enabled(accounts)) => <>[](s \notin InPools)

\* Every request is answered: the loops over pool hits, rotation rounds and
\* accounts end although pools and list change under them.
Answered == \A r \in Requests : req[r].at # "idle" ~> req[r].at = "idle"

=============================================================================
