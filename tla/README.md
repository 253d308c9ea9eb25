# A TLA+ verification project for ant2api-rust

`ant2api-rust` is a gateway: it accepts requests in the Claude and OpenAI
formats, picks one of several Google accounts, converts the request, sends it to
Vertex and converts the answer (a stream of events or one document) back. A
WebUI manages the accounts. This directory holds TLA+ models of the program,
TLC configurations that check them on small instances, and proofs that TLAPS
checks for every instance.

Paths such as `credential/store.rs` are relative to `src/src/`.

## 1. Inventory

| Component | State it keeps | Operations | Hard behaviour |
|---|---|---|---|
| Account store `credential/store.rs` | account list and round-robin cursor behind one RwLock; `accounts.json`; `save_lock`; set of sessions being refreshed; failure counters | `load`, `save`, `add`, `delete`, `set_enable`, `clear`, `update_project_id`, `refresh_session`, `refresh_account`, `refresh_all`, `get_token*` | indices and clones held across network calls, bulk write of an old snapshot, saves against changes, crashes, dropped handlers |
| OAuth `credential/oauth.rs` | map of login states with a creation time | `generate`, `validate`, token exchange and refresh | one-time use, expiry |
| Background refresh `credential/refresh_task.rs` | a semaphore of 3 permits per cycle | cycle, retry with delays | a cycle waits for all its tasks; retries |
| Quota pool `quota_pool/` | per-group active and cooldown maps | `update_from_quota`, `sync_valid_sessions`, `remove_session`, pick of two | pool entries of accounts disabled or deleted meanwhile |
| Gateway handlers `gateway/{claude,openai}/handler.rs` | per request: attempt counters, excluded sessions | account choice, retries on 401, 429, capacity errors | which error leads to which retry, and how often |
| Claude stream `gateway/claude/stream.rs` | open block, index, pending signature, tool calls | one event per upstream part | order and nesting of the events sent |
| OpenAI stream `gateway/openai/stream.rs` | role sent, tool calls, finish reason | one chunk per part | order of chunks, finish reason |
| Vertex client `vertex/client.rs`, `vertex/stream.rs` | byte buffer of an SSE stream | line reassembly, endpoint retry, error extraction | lines split over chunks |
| Signatures `signature/` | hot map, LRU cache, write queue, day files and their index | save, lookup, evict, persist, rebuild, clean up | read-modify-write of a cache entry against persist, crash, midnight |
| Runtime configuration `runtime_config.rs` | settings behind an RwLock, `.env` file | load, update, persist | several writers of one file |
| WebUI `gateway/manager/` | login sessions | handlers over all of the above | look-up and act in separate lock sections |
| Conversion `gateway/*/convert.rs`, `vertex/sanitize.rs`, `util/` | none | pure functions | deep schemas, signature look-up |

How they interact: web handlers and background tasks are tokio tasks that share
the store, the quota pool, the signature manager and the configuration through
`Arc`s. Each shared structure has its own lock, and no lock but `save_lock` is held
across an await that waits for I/O. Every decision taken in one lock section is
therefore old news in the next, and this is where most hazards are.

What makes the components correct: the store's cursor is a valid index, its
guard set is exact, its saves lose nothing, a refresh changes the account it was
asked to refresh; the quota pool names an account in at most one of active and
cooldown and does not bring back accounts that were removed; a request is retried
a bounded number of times and not with an account it has excluded or whose token the
upstream has refused; an event stream
is a well-formed sequence of messages and blocks whatever the upstream sends; a
stored signature is found again until it is cleaned up.

## 2. Modules, runs and proofs

| Part of the system | Modules | Runs | Proofs |
|---|---|---|---|
| account store (section 3) | `CredentialStore` | `store_sessions`, `store_list`, `store_dropped`, `doc_own_account` | `CredentialStoreProofs` |
| choice of an account (4) | `AccountSelection` | `select_pool`, `select_heals` | `AccountSelectionProofs` |
| streamed answers (5) | `UpstreamData`, `ClaudeWriter`, `OpenAIWriter`, `GatewayStream`, `GatewayStreamProperties`, `EventGrammar` | `stream` | `GatewayStreamProofs` |
| conversations (6) | `GatewayRequest`, `GatewayRequestProperties`, `ToolSchemaProperties` over `ModelTable`, `VertexContents`, `ClaudeConversion`, `OpenAIConversion`, `SchemaSanitizer`, `VertexErrors` and the two writers | `request` | `GatewayRequestProofs` |
| signature cache and store (7) | `SignatureStore` | `signatures`, `doc_hot_index` | `SignatureStoreProofs` |
| background refresh (8) | `TokenRefreshTask` | `refresh_cycle` | `TokenRefreshTaskProofs` |
| settings and model mapping (9) | `RuntimeConfig` | `settings` | `RuntimeConfigProofs` |

`SequenceLemmas` holds what `GatewayStreamProofs` and `GatewayRequestProofs` both need to
know of `FlattenSeq`, `FoldLeft` and least elements.

A module `M` with runs of its own has a module `MCM` that gives TLC its instances
and holds nothing the proofs use. A definition named `X_Y`, such as
`Enqueue_Unbounded`, is `X` with a plausible mistake; no specification uses it, and
each is named in `PROJECT.json` with the property that finds the mistake.

How the modules fit together. `GatewayStream` and `GatewayRequest` share the writers:
the first runs them against bytes, a channel and a client, the second against whole
conversations. `GatewayRequest` composes the pure algorithms of the conversion with
the signature cache and the two retry loops. The signature cache is a map there;
`SignatureStore` says when the files behind it keep their promise. The account list is
detailed in `CredentialStore` and reduced in `AccountSelection` and `TokenRefreshTask`
to what these see of it. `EventGrammar` is the abstract specification of a stream, and
`GatewayStream` is shown to implement it by TLC and by proof.

What is left of the plan: a module for the one-time login states of OAuth, and a theorem
about the signatures that come back (`SignaturesComeBack`), which the run `request`
checks.

## 3. The account store: `CredentialStore`

### State and steps

`accounts`, `current_index`, `refreshing`, `refresh_failures`, `save_lock` are the
fields of `Store`; `disk` is `accounts.json` (absent, truncated, or a list without
session ids, since `session_id` is `#[serde(skip)]`). `task[p]` says what the tokio
task `p` is doing: the operation, the point `at` which it is suspended, and its local
variables (`idx`, `acct`, the cloned `list`). An action is what happens between two
suspension points. Lock sections are atomic, because the code holds a lock for the
whole section and does not await inside it.

| Operation | Actions in order |
|---|---|
| `save` | `AcquireSaveLock`, `SnapshotForSave`, `WriteAccounts` or `WriteError` |
| `refresh_session` | `BeginRefresh`, `FindSession`, `ReplaceAccount` then save then `ClearRefreshFailure`, or `RefreshFails` then maybe `DisableBySessionId` then save; always `ReleaseSession` |
| WebUI delete, toggle, refresh | `BeginIndexed` (position by session id), then `Delete`, or `ReadEnable` and `SetEnable`, or `CloneAccount`, `ReplaceAccount`; or `OutOfRange` |
| `refresh_all` | `BeginRefreshAll`, `RefreshNext` for each, `CommitRefreshAll`, save |
| `add`, `clear`, project id | `Add`, `Clear`, `UpdateProjectId`, save |
| `get_token_excluding` | `BeginPick`, `Pick` for each round, or `PickFromEmpty` |
| start | `LoadNothing` or `Load`, `refresh_all` by `Main`, `Serve` |

The environment decides which operation starts, whether an OAuth call succeeds,
when a write or the first read fails, when the process dies (`Crash`), and when a
client closes its connection: the HTTP server then drops the handler's future at
the await where it is suspended (`DropFuture`). A file write already handed to
tokio's blocking pool is not undone by that; it is an `orphan` that lands later.
`refresh_session` runs only in spawned tasks and is never dropped.

Abstractions: e-mail and refresh token are one identity; tokens are numbered in
the order the server issues them, so that "older" can be said; expiry times are
left out; one account is excluded from a pick. The failure counter is the code's
`u32`, with `CounterMax` for its largest value: it goes on past the threshold when an
account is enabled again by hand, and saturates.

`behind`, `dropped` and the field `moved` are history variables: a write failed or
the file was unreadable; a future was dropped; the list shifted under an index.

### Runs

Two tasks suffice for every interleaving of two operations; two accounts are what
it takes for an index to be wrong, two failures and one success for the counters.
`MAX_REFRESH_FAILURES` is 1 (5 in the code): more only repeats the step that counts.
`CounterMax` is 2, so that `store_dropped`, where accounts fail, are disabled, enabled
again and fail, reaches the end of the counter, which the code reaches after 2^32
failures.
`CHECK_DEADLOCK FALSE` everywhere: session ids and tokens are bounded by `MaxSession`
and `MaxToken`, and a server with nothing to do stops.

| Run | Shows |
|---|---|
| `store_sessions` | the guard set is exact on every return path; an index stays right unless something the model marks has moved the list; after a crash, a failed read or a failed write the file is behind the list only for the reasons named (2.3 million states) |
| `store_list` | the cursor stays in range and saves lose nothing, with additions, deletions, toggles, clears, picks, refreshes by index and the bulk write of an old snapshot (1.4 million states) |
| `store_dropped` | with handlers dropped at any await, each refresh still ends and leaves the guard set; types, with the failure counter at its limit (253,000 states) |
| `doc_own_account` | counterexample: a refresh overwrites another account, which `store.rs:334` says it does not |

Other disagreements met on the way, which have no run of their own: a refresh that
ends after a toggle enables the account again (`store.rs:368` writes back the clone
of 307, `handler.rs:292`); the write of a dropped handler lands after a later save,
although `save_lock` is there to put saves in order (`store.rs:95`).

Fairness (`FairSpec`): every started task is scheduled (weak fairness of its
steps), which includes that an OAuth call answers or times out (the client is built
with a timeout, `credential/oauth.rs:441`, unless it is configured as 0);
`save_lock` is a tokio `Mutex`, whose waiters queue in FIFO order, hence strong
fairness of `AcquireSaveLock`. Nothing is assumed of the environment's choices.

### Proofs: `CredentialStoreProofs`

For every number of tasks, accounts, sessions and faults, from the assumptions
named in `CredentialStore`:

* `TypeCorrect`: `Spec => []TypeOK`, for every width `CounterMax` of the failure
  counter that holds the threshold;
* `CursorSafe`: `Spec => []CursorInRange`, so `state.accounts[idx]` cannot panic;
* `GuardCorrect`: `Spec => []GuardMatchesFlights`;
* `IndicesStable`: `Spec => []IndexStable`;
* `SavesSafe`: `Spec => []SavesLoseNothing`, and `SaveLockExclusive`, that `save_lock`
  is held exactly by the task between its acquisition and its write.

`CursorInRange` is not inductive: after the list has become empty an `add` makes
it non-empty, so one must know that the cursor was 0 (`CursorReset`). `TypeOK` is not
inductive either: `replace_account` writes the account a task carries, so at the
steps that use one it must be a real account and its index positive, and a picking
task has a round left (`Shape`). `Shape` also says which steps belong to
`refresh_session`, which the guard theorem needs: a task that finishes elsewhere than
in `ReleaseSession` is not in the guard set. `QuietWhenDown` says that nothing runs
before `load`. Their conjunction is `IInv`; `Inductive` has one lemma per action or
group of actions, and the temporal theorems follow by PTL. The guard theorem adds
`GuardInductive`, built on the observation that all steps but two keep every task's
flight (`KeepsFlight`).

The last three theorems share one description of a step outside `save()`:
`Effect(p)` says that task `p` either keeps every user at its position or warns all
tasks that hold an index, and that it either leaves the list alone or goes on to save
it. The second half is what `SavesLoseNothing` needs, and the reason why no change is
forgotten: whoever changes the list has a snapshot still to take. `SaveInv`
strengthens it: if nobody has, then either the lock is free and the file agrees with
the list (unless it is known to be `behind`), or its holder carries the list as it
is. A write without the lock is the leftover of a dropped handler, which
`SavesLoseNothing` excludes by `dropped`.

Model-checked only: `FlightsEnd` (liveness).

## 4. Choosing an account: `AccountSelection`

A request of either gateway, streaming or not, runs one loop: choose an account,
call the backend with it, and go on with another after a 401, 403, 429 or a
capacity error. The choice asks the quota pool of the model's group first
(`get_token_for_model_excluding`) and falls back to the rotation over the list
(`get_token_excluding`). Meanwhile the quota refresher fills the pools from a
snapshot of the list, WebUI handlers toggle and delete accounts and clean the
pools afterwards, refreshes write copies back, and accounts come and go.

### State and steps

`active` and `cooldown` are the two maps of every `QuotaPool`; `accounts` and
`current_index` are the store's, reduced to session ids and enable flags (the
store's own races are the subject of section 3, their effect here is `Replace`
and `CommitRefreshAll`). `refresher` holds what is left of the snapshot of the
cycle; `req[r]` holds the request's local variables: the sessions used, the attempts
left, the capacity errors in a row, the pool hits and rotation rounds left.

| Code | Actions in order |
|---|---|
| `get_token_for_model_excluding` | `FromPool`, `LookUp`, then the call or `DropStale` and again; `LeavePool` to the rotation |
| `get_token_excluding` | `Count`, `Rotate` for each round; `RotateNothing` on an empty list |
| handler loop | `BeginRequest` counts the attempts, `Answer` retries or ends, `Fail` without an account |
| `refresh_once` | `Snapshot`, `Sync`, `Fetch` for each account, `CycleEnds` |
| `handle_toggle`, `handle_delete` | `BeginAdmin`, then `ReadFlag`, `SetFlag` or `DeleteAt`, then `Purge` |
| `refresh_session`, `refresh_all` | `BeginAdmin` reads, `Replace` or `CommitRefreshAll` writes |
| `add`, `disable_by_session_id` | `Add`, `Break` |

The random choice of two candidates is `Selectable`: with one candidate that one,
otherwise any that is not below every other. A quota answer names for each group a
fraction or none, and a reset time that is missing, past or in the future.
`NoPool` is an empty model name. The constants `PoolTries` (3 in the code) and
`MODEL_CAPACITY_EXHAUSTED_MAX_RETRIES` (5) are 0 or 1 and 2 in the instances, so
that their limits are met within few accounts; `Operations` says which of the
operations besides requests take part in an instance, `Outcomes` what the backend
may answer. `served` and the fields `since` and `steady` are history variables.

### Runs

| Run | Shows |
|---|---|
| `select_pool` | two requests, quota answers and an added account: no account is both active and cooling down in a group; the cursor stays valid; a request is told that there is no account only if none was usable; it gives up on the last enabled account only, whether pool or rotation chose it; nobody is served twice by the rotation before everybody else once (1.1 million states, requests symmetric) |
| `select_heals` | one account and every operation but `add`: an account that is from some time on never enabled again leaves the pools for good; every request ends (10,770 states) |

One account at the start is enough for the races between pools and list (a second
comes by `Add`), and two requests for those on the cursor. `select_heals` has a single
account because liveness needs the whole state graph. Deadlock is checked: the
refresher or a request can always go on.

Fairness (`FairSpec`): the refresher's timer fires, requests and handlers are
scheduled and the backend answers or its client times out: weak fairness of each
task. Nothing is assumed of operators, clients or quota answers.

Two disagreements have no run: a quota answer for an account that was disabled while
it was under way puts it back into the pools (`refresher.rs:78`); `LookUp` checks the
flag, so this costs a pool hit, and `DisabledStaysOut` shows that it heals. Two
rotations in lockstep can step over an enabled account, so that one is told that no
token is usable (`store.rs:198` counts the accounts before 206 moves the cursor);
`ErrorMeansNone` therefore speaks of requests that rotated alone.

### Proofs: `AccountSelectionProofs`

* `DisjointPools`: `Spec => []PoolsDisjoint`. The property is inductive by itself;
  the proof has a lemma for each of the three ways the pools change (removal, quota
  answer, synchronisation).
* `TypeCorrect`: `Spec => []TypeOK`, which includes that the cursor indexes the list.
  It needs `AtWork`: a rotation has rounds left (the counter is a natural number), a
  handler at work has found an account, a refresh has read one. `OneRequest`,
  `OneHandler` and `ListStep` say once what every step that changes one request, one
  handler, or the list preserves.
* `RotationReachesAll`: `Spec => []ErrorMeansNone`, and `AttemptsSuffice`:
  `Spec => []LastAttemptIsLast`, for lists of any length and any number of requests.
  Neither is inductive: both follow from `IInv` and `Tries`, which says of every
  request that the session it looks up is one it has not tried (`Fresh`), that every
  untried enabled account lies within its remaining rounds from the cursor (`Scanned`,
  which only a request that rotates alone keeps), that none is left when it fails
  (`NoneLeft`), and that its remaining attempts are at least as many as the untried
  enabled accounts (`Enough`). `AheadMoves` is the arithmetic of one round, with the
  wrap of the cursor; `EnabledBound` says that the code's count of enabled positions
  bounds the number of enabled sessions, also when a write-back has put one session at
  two positions. A change of the list ends what `Scanned` and `Enough` promise, which
  is why the properties speak of `since = "alone"` and `steady`.

* `RotationIsFair`: `Spec => []RotationFair`. The invariant `Fair` says of the round
  that has begun since the list last changed: nobody has been served more than once,
  somebody is still to be served, and whoever is still to be served comes under the
  cursor before whoever has been (`Turn` counts the positions until then). The last
  part is what the proof turns on: the cursor moves by one, so the account it leaves is
  the last to come back. Requests that skip an account they have tried begin a new
  round. `OneEach`, the precondition, excludes the lists in which the write-back of a
  refresh has left one session at two positions: there the rotation hands it out twice
  a round.

Model-checked only: the liveness properties.

## 5. Streamed answers: `GatewayStream`

### State and steps

`handle_stream_with_retry` of both handlers is one task: it reads chunks of the
upstream body, cuts lines out of them (`vertex/stream.rs`), hands each datum to the
writer of its endpoint, sends the writer's events into a bounded channel, saves
signatures, and ends with `finish`. The client reads the channel at its own pace and
may leave at any moment.

The body is a sequence of lines; a byte is `<<n, part>>`, a quarter of line `n` (two
halves of its text, CR, LF), and chunks of 3 or 5 such bytes cut lines at every place.
`buf` and `processed` are the parser's buffer and offset, `todo` and `finishing` what
is left of the datum at hand, `writer` the record of the writer's fields, on which
`ClaudeWriter` and `OpenAIWriter` define each method as a map. `handed`, `read` and
`connected` describe channel and client.

| Code | Actions |
|---|---|
| connect and read | `Connect` or `ConnectFails`; `Chunk(n)`, `UpstreamEnds` (Network) |
| `StreamParser` | `TakeLine` for each whole line, `Drain` moves the rest to the front |
| receiver closure | `ProcessPart` for each part, `PartsDone`, then `Send` into the channel (waits when it is full) or `Sent`, `Save` |
| `finish` | `Finish` |
| client | `ClientReads`, `ClientLeaves` |

### The abstract specification and the run

`EventGrammar` says what a client may rely on: its only variable is the sequence of
events the client has read, and a step appends events that continue the last one. For
Claude: one `message_start` first, blocks that open, take deltas of their kind and
close in order of their index, a signature only at the end of a thinking block,
`message_delta` and `message_stop` last; for OpenAI: the role first, deltas, one finish
reason, `[DONE]`. `WellFormed` is `Grammar!Spec` with what the client has read for
`received`.

The run `stream` (733,000 states) has all bodies of two lines from one menu and of
three from a shorter one, a channel of one event (256 in the code, so that it fills),
one call, one image and two signatures. It shows that `GatewayStream` implements the
grammar; that the parser's offset never passes the end of its buffer, where the next
slice would panic (`TypeOK`); that a client that stays gets all text and calls, in order, of every line
that arrived whole; that the stop reason tells whether there was a call; that a
signature the upstream sends once is saved for one call at most; that the merged log
tells the same as the events; that no save is lost with a client that leaves; and that streams
end. `CHECK_DEADLOCK FALSE`: an answered stream stops.

Fairness: the task runs, the upstream sends or ends (its client has a timeout), and a
client that stays reads. Nothing makes a client leave.

What the model shows besides its properties: an empty upstream body gives the client
`message_delta` without `message_start`, which the grammar therefore allows; OpenAI
calls held back are lost if the body breaks off before a finish reason. Text parts
are whole strings, so the UTF-8 buffers of the OpenAI writer are left out.

### Proofs: `GatewayStreamProofs`

For every set of bodies, chunk sizes, calls, images, signatures and every capacity:

* `TypeCorrect`: `Spec => []TypeOK`;
* `SavesSurvive`: `Spec => []SavesOutliveClient`;
* `Implements`: `Spec => WellFormed`, the refinement: initial states map to initial
  states and every step appends continuing events to what was read, or stutters.

`WellFormed` needs to know how each method of a writer continues its output.
`ClaudeStands` and `ChatStands` say of a writer at rest how the last event it wrote
fits its open block, role and finish reason, and that the output so far is well
formed; one lemma per method shows that it keeps this. `IInv` adds types, the parser's
offsets, that nothing is written before `Connect`, and that saves are handed over.

* `LinesInOrder`: whatever the chunks, the line that `TakeLine` cuts out of the buffer
  is the line of the body after those already taken;
* `ClientHearsAll`: `Spec => []ClientGetsAll`;
* `SignaturesBoundOnce`: `Spec => []SignatureBoundOnce`;
* `StopReasonAgrees`: `Spec => []StopReasonTrue`;
* `LogComplete`: `Spec => []LogTellsAll`.

`InStep` is the invariant of the parser: the buffer holds the last bytes that
arrived, its offset is the start of a line, so `Taken` lines are done, none of which
ended the body, and before each chunk all whole lines are taken. `DataInv` says that
there are a number `n` of lines and a sequence of parts `P` that the writer has
processed such that `P` followed by `todo` are the parts of the first `n` lines, the
signatures held and saved come from `P`, each once if it came once (`SigsKept`), and
the client hears what `P` says (`Keeps`). For OpenAI it adds that the calls held back
are those of `P` that were not sent, and that those sent are the ones up to the last
line with a finish reason (`SentUpTo`). While lines are parsed `n` is `Taken`; at the
end it stands for `Arrived`. A lemma per method of a writer says what it makes heard
(`Utters`, `ChatUtters`) and what it may do with a signature (`SigStep`). `Tells` is the
invariant of the last two theorems: the log with its pending delta is the merged
output, and the calls the parser counted are those the writer has opened or still has
in `todo`. The folds over sequences that the properties are made of (`FlattenSeq`,
`Merged`) are functions over prefixes; lemmas say what they make of an appended
element, by a least counterexample where induction would be used elsewhere.

`StopReasonTrue` is stated for bodies whose parts are not an image and a call at once:
the parser would count the call of such a part and the writer show its image. The
upstream's parts are a union, so it sends none. Model-checked only: `StreamEnds`
(liveness).

## 6. Conversations: `GatewayRequest`

### State and steps

A conversation: the client's `history`, the request `vreq` made of it (`Convert`), the
attempts of the Vertex client and of the handler's loop over accounts
(`UpstreamFails` with what `extract_error_details` makes of the error, `Wake` after a
delay), the answer (`UpstreamAnswers`) converted back and its signatures put into
`cache`, and the client, which echoes all or a part of what it got, with results of
its calls (`ClientContinues`). `LoseSignatures` empties the cache, as a restart or the
clean-up may.

`ModelTable` is `util/model.rs` and the generation configs: families, thinking
budgets, output limits, with i32 scaled to `MaxInt` and its wrap. `VertexContents`,
`ClaudeConversion` and `OpenAIConversion` are the conversions of messages, with the
look-ups of signatures, the merging of messages that hold only calls, and the
response of whole answers. `SchemaSanitizer` has every rule of `vertex/sanitize.rs`
on JSON trees. `VertexErrors` classifies errors.

### Run

`request` (489,000 states) has four kinds of sessions: talks of three turns and up to
four parts in all, of Claude's thinking models and Gemini at both endpoints, streaming or
not, with clients that keep all, part or none of the thinking they got; every model with
budgets and limits at the edges where they are cut, exceeded or wrap; schemas
with any three keywords at a time; and upstream errors of every class, with two
accounts and three attempts. The cache is lost at most once. `CHECK_DEADLOCK FALSE`: a conversation ends.

It shows that thoughts go to Claude models with a signature from their own answer;
that Gemini gets back the signatures of first calls; that every call is sent once and
each result follows it; that thinking budgets stay below output limits; that a
sanitized schema has allowed keywords of the right types only and is a fixed point of
the sanitizer; that a token the upstream refused is not used again in the turn; and
that the two retry loops together are bounded.

Exceptions the properties name are what the code does: thoughts sent by the OpenAI
endpoint to Claude models without thinking go unsigned; the Claude endpoint sends a
Gemini call unsigned when the cache has no entry; for a first call without signature
the OpenAI endpoint injects a fallback although a comment forbids virtual signatures
(`openai/convert.rs:94`, 212); merging calls from several messages gives calls in
sequence (327) and not the parallel ones of line 95; the sum of budget and overhead
wraps near the greatest i32 for models of neither family; whole Claude answers merge all
thoughts under the last signature, and drop images.

Abstractions: the model stays the same in a conversation; names are sets; call ids are
present and unique; a delay is `sleeping` until `Wake`; signatures of at most 50
characters count as none. Not said by the properties, but seen: `required` may name
properties that were dropped; exclusive bounds of union types are not adjusted; all
but the first entry of `allOf` are lost; `/suffix` of a model name is kept for some
families although a comment says it is cut; `disable_token` is never read.

### Proofs: `GatewayRequestProofs`

For every number of accounts and attempts, every list of status codes to retry, every
session, any answers and errors of the upstream and any number of turns:

* `RefusalsRest`: `Spec => []RefusedTokenRests`;
* `TurnsBounded`: `Spec => []SendsBounded`;
* `BudgetsFit`: `Spec => []BudgetFits`;
* `CallsHaveResponses`: `Spec => []ResponsesFollowCalls`;
* `ThoughtsAreSigned`: `Spec => []ThoughtsSignedByTheirs`;
* `TypeCorrect`: `Spec => []TypeOK`.

`LoopInv` relates the counters of the two loops: the accounts before this one have had
at most all their attempts and this one as many as `attempt` says, and whoever was
refused is not the account asked now. `ConfigInv` says that the config under way is
the one built from the session's model and settings, and `ConfigFits` that such a
config fits, by cases over the model families and with the wrap of 32 bits. The
assumptions say that the numbers a client names are of 32 bits (they are
deserialized as `i32`) and that both loops run at least once (the code raises both
counts to one).

`CallsHaveResponses` goes once around the conversation. `ConversationInv` holds of all of
it: the client's history makes each call once and gives each result once, behind its
call (`Consistent`); the request under way pairs exactly those calls and results
(`Paired`); an answer that was delivered makes each of its calls once, and only calls
that are not in the history yet (`AnswersWith`). The first part needs the last, the
second the first, and the last needs that the upstream repeats no id
(`UpstreamAssumption`). The steps between them:

* from history to request (`HistoryPaired`): appending a content with new calls, or with
  results of calls made before, keeps `Paired` (`AppendPaired`), and so does each
  conversion of a message. At the OpenAI endpoint
  `merge_tool_only_assistant_messages` comes first: `MergedTalks` says that the messages
  still make each call once and before its result (`Talks`), because calls only move to
  earlier messages. `SanitizedPaired` says that the sanitizer
  drops no part with a call or result;
* from the upstream to the reply (`DeliveredAnswers`): the writers and the conversions
  of whole answers make each call of the parts once, held back or not, and the client
  that puts blocks or chunks together hears the same calls (`StreamAnswered`,
  `MessageAnswered`);
* from the reply to the history (`GoesOn`): the client repeats the calls it heard,
  whichever thinking it keeps, and answers each.

What a signature is looked up for, and whether the cache still has it, never matters to
this argument: `IsCache` is all that is known of the cache.

`ThoughtsAreSigned` goes around a second time, with the thoughts. `Theirs` says of a text
and a signature that the words are those of the parts of one answer up to some part, and
that the signature is of a part among these with no call behind it (where blocks arrive
one by one; else, of any part of the answer). `VoiceInv`, checked by TLC before it was
proved, says who keeps that: an entry of the cache has signature and words that were
there at the moment its call was made (`Bound`, `Remembers`); a thinking block in the
history is signed by `Theirs`, and the calls behind it are ones that know all of its text
(`Voiced`, `Quotes`), so that a block that came back without its signature may take the
one the next call has in the cache; no call is in two answers (`Gave`), so that the entry
found is of the same answer; and every thought of the request under way is signed
(`AllSigned`). The steps:

* from the upstream to reply and cache (`DeliveredOwns`): `Recites` follows the stream
  writer part by part, with the block that is open, the text it has sent and the
  signature it holds back (`AnswerRecited`), and `StreamVoiced` the client that puts the
  blocks together; for whole answers and for chunks it is enough that text and signature
  are of the answer (`OwnReplies`, `OwnChatWriters`);
* from the reply to the history (`EchoQuotes`), whichever thinking the client keeps:
  `EchoVoiced` needs that keeping only some blocks keeps their order;
* from history and cache to the request: `ClaudeSigned` for the look-ahead to the next
  call, `ChatSigned` for the messages of the OpenAI endpoint, where one that takes up the
  calls of later ones still begins with its own, which its thinking is from
  (`MergedQuotes`), and `SanitizedSigned` for the sanitizer.

The theorem is about the models that need signed thoughts (`ThoughtsNeedSignatures`), and
of these the model assumes that the upstream signs thoughts only, never a call or an image
(`SessionsAssumption`, after the comment at `claude/convert.rs:390`).

The texts, signatures, ids and pictures of the upstream are constant operators of
`GatewayRequest` (`Text`, `Sig`, `CallId`, `Picture`), of which only
`UpstreamAssumption` is known: their types, and that no two calls have one id.
`request.cfg` numbers them. `Keep` of `VertexContents` is the library's `SelectSeq`
written with `FlattenSeq`, since that one is RECURSIVE and cannot be reasoned about.

The sanitizer walks schemas by RECURSIVE operators, which the prover does not support.
`GatewayRequest` therefore takes what becomes of a schema as a constant operator
`Sanitized`; `request.cfg` gives it the value `ToolParameters`, and the two properties
of schemas are in `ToolSchemaProperties`. The theorems hold for any `Sanitized`, since
nothing in the loops, budgets or contents reads a schema.

The conversions are folds. `IterationExists` and `IterationRuns` say once, for the step of
each of them (`StepOf`), that the function `FoldLeft` chooses exists and that its values on
prefixes are the steps; a lemma per fold (`ClaudeContentsRun` to `ChatWritingRun`) gives
the run that the other proofs go along.

Model-checked only: the schema properties and `SignaturesComeBack`. The latter needs an
invariant of its own, which follows the signature of each call through writers, cache,
client and merges the way `VoiceInv` follows that of each thought, and ids that name
either calls or images but not both, since the cache keeps the two under one key.

## 7. Signatures: `SignatureStore`

### State and steps

Saves go to the hot map, the cached index and a bounded queue (`Save`, `PutHot`,
`PutIndex`, `Enqueue`); look-ups read the cached index, stamp it and put it back, and
follow it to the hot map or to the files of a day (`ReadCache`, `Stamp`, `LoadHot`,
`GetIndex`, `PutReaders`, `ReadData`), and a record of an old day is saved again
(`Migrate`). The worker batches (`Receive`, `Tick`), writes record, newline, index
line, newline of each entry (`Write`, `WriteFails`), and then updates index and hot map
(`UpdateIndex`, `EvictHot`). tokio's `File` hands each write to a thread: `flying` is
what is under way, `WriteLands` and `WriteBreaks` how it ends; a failure is reported
to the next write. `NextDay`, `CleanUp` and `Restart` (an exit, or a kill that loses
what is in flight) come at any time.

A file is a sequence of cells: a record, an index line, a newline, or the torn part of
a cell. The cache merges request id and call id; its capacity of 50,000 is never
reached; records have equal lengths; the date moves on once, by one day or two, and a
flush may last over one midnight.

### Runs

`signatures` (2.1 million states, the keys symmetric): one task saves twice, the same key
or one each, another looks up and migrates; batches of two, a queue of one, one fault.
After a failed write the run goes on until its batch has been written again
(`FailedBatchRewritten`): from then on only the types are promised. Types and
capacities; look-ups answer with their own entry;
index lines lead to records of their key; an entry whose hot copy was dropped is found
in the files, over restarts that interrupt no flush, until it is cleaned up.
`CHECK_DEADLOCK FALSE`: bounded saves end.

`doc_hot_index`: counterexample to "an empty date means that the entry is in memory"
(`signature/types.rs:44`): `cache.rs:49` puts back an entry that the worker has dated
and evicted in between, and the signature cannot be found until the next start.

The properties name what the code does not give: a failed write leaves the offset
wrong for the rest of the day, so that a look-up may answer with another entry's
signature; an exit between an index line and its newline glues two lines, and both
are lost; nothing flushes queue and batch at an exit; and of two entries of a key the
one that is queued last wins, also when it is the older one (`overtaken`: two handlers,
or a migration and a save, between their `put_hot` and `enqueue`), so that a confirmed
version is promised only for keys where that has not happened.

### Proofs: `SignatureStoreProofs`

For every number of keys and tasks and every size of queue, batch and retention:

* `TypeCorrect`: `Spec => []TypeOK`;
* `EntryIsOwnAlways`: `Spec => []EntryIsOwn`;
* `IndexPointsHomeAlways`: `Spec => []IndexPointsHome`;
* `ConfirmedSurvivesAlways`: `Spec => []ConfirmedSurvives`.

A look-up trusts the record it finds at an offset, so the second and the third rest on
where records lie. `Position` is the heart of `IInv`: at each of the four writes of an entry
the length of the data file, plus one for a cell in flight, is the writer's offset
plus what this entry has written so far, and after the first write the record lies at
the offset or is in flight to it. From it `LinesPoint` follows when the index line is
written; `ReadersPoint` and `TasksPoint` carry it over to cached indexes and to tasks
that have read one. `Points` allows for days that were cleaned up, and
`StillPoints` says that files which only grow, or are emptied when old, keep offsets
valid. `Position` also shows that what is in flight goes to a day that the clean-up
leaves alone, which is where the minimum of two days in `KeptDays` is needed.
`EntriesSaved` bounds every version anywhere by the newest saved; `TasksSound` and
`BatchFits` are the types of what tasks and worker carry. `FilesSound` is claimed as
long as no write has failed (`harm # "write"`), and `Unbroken` shows that a reported
failure implies one.

`ConfirmedSurvives` needs more, which holds as long as no restart has interrupted a
flush either (`Kept`, proved inductive on top of `IInv`). `IndexWhole`: every line of an
index file is one that the parser accepts, because each is followed by its newline, in
the file or in flight or next to be written, before another is added; `AddLine` and
`AddNewline` say what an added cell does to the parsed map. `InOrder`: along batch and
queue the versions of a key do not go back, unless the key was overtaken, since what is
queued without being overtaken is the newest save. `Confirmations`: a confirmed version
is not newer than one still to be confirmed, so that a line that lands never hides it
behind an older one. `FlushHeld`: what the worker has written, `ConfirmedHeld`: what it
has confirmed, is found through its day's index (`Held`). TLC checked each of these five
on the bounds of `signatures` before they were proved.

## 8. Background refresh: `TokenRefreshTask`

A cycle (`StartCycle`, `EndCycle`) starts a task per account that is due, waits for all
of them and sleeps; a task queues for a permit (`AcquirePermit`), calls
`refresh_session` (`Begin`, which gives way to a refresh under way; `TaskAnswered`),
returns the permit before the delay of a retry (`DelayOver`). `Trigger` and
`TriggerAnswered` are the refreshes 401 answers start, `Expire`, `Toggle` and `Delete`
the environment. The semaphore's waiters queue in FIFO order, and a semaphore is
made for each cycle. `refresh_session` is reduced to guard, look-up, answer and failure
counter: look-up and call are one step, the answer and what follows it another.

The look-up's index is kept until the answer, as in the code, and `accounts` is the
list it points into. A deletion in between shifts the list, and then the answer finds
its index past the end (`OutOfRange`: an error and a retry, though the account may
still be listed and due; nothing is counted), or `Replace` writes over a neighbour, or
the account that was deleted comes back. A task belongs to an entry of the list the
cycle was started on, since a session can come to stand in it twice.

Run `refresh_cycle` (105,700 states, two accounts and one permit, so that they compete;
two attempts, two failures, a counter that ends at 3; deadlock is checked): types;
permits are held during calls only, none is idle while a task queues, and a task queues
once; every account that look-ups find enabled and due is refreshed, disabled or gone
(`DueServed`). Two accounts give all three ends of a stale index. A session that stands
twice takes three accounts, which is beyond this run: `DueServed` speaks of the first
of its entries; the second is not refreshed for its own sake while both stand, because
each look-up finds the first, and the loop comes back to it every second. Accounts are not added, nor refreshed by
the WebUI's buttons, in this module; clearing the list is deleting each. Fairness:
timers fire, tasks are scheduled, OAuth calls answer or time out (`FairSpec`); nothing
is assumed of users and of which answer comes. The model shows besides that enabling an
account again keeps its failure count, so that the next failure disables it at once.

Proofs, for every number of accounts, permits and attempts and every width of the
counters: `TypeCorrect` (`[]TypeOK`, so attempts and counters stay within their limits
and stale write-backs never make the list longer) and `PermitsCorrect` (`[]PermitsForCalls`). `PermitsForCalls` counts, so the
proof keeps `Holders` finite and shows for each action how the cardinality changes;
it needs that only queued tasks are in `waiting`, each once (`QueuedOnce`), and that a
task in its delay has an attempt left (`AttemptLeft`). Model-checked only: `DueServed`.

## 9. Settings and model mapping: `RuntimeConfig`

Handlers save settings (`PostSettings`, `ReadEnv`, `CreateEnv`, `WriteEnv`,
`ApplySettings`) and model mappings (`PostMapping`, `CreateMapping`, `WriteMapping`,
`ApplyMapping`); a step is one access to a file or a shared snapshot. `WriteFails`
and `Restart` may come at each. Texts are classes: empty, plain, one that must be
quoted, one that a parser takes for a comment; three settings stand for seven.

Run `settings` (145,500 states; two symmetric handlers, two saves, one fault, first
`.env` files with duplicate and unknown keys): unless two saves of one file overlap or
one is cut short (`harm`), loading the files gives what is in use, and lines of other
keys stay. Overlapping saves do leave file and memory apart; the hazard is listed. A
text that begins with "#" and has no blank is not quoted and is read back as empty;
the property says so. Texts that the environment library reads as numbers, and
newlines in texts, are left out. `CHECK_DEADLOCK FALSE`: saves are bounded.

Proofs (`RuntimeConfigProofs`), for any number of requests, any texts and levels, any
first `.env` and any faults: `TypeCorrect` (`[]TypeOK`) and `SavesLast`
(`[]SavedLasts`). `LoadUpdated` is the lemma about the file: what `Updated` writes loads
to what will be applied and keeps the last line of every other key, which is the line
that counts. `EnvInv` says what holds between the read of `.env` and the last step of
a save that no other save overlaps: one request saves, it has computed such lines, it
alone has emptied the file, and the file otherwise still says of other keys what it
said at first. `MappingInv` is the same for the mapping. `AllTexts`, the set of all texts,
is there for the types only.

## 10. What is not modelled, and what is not proved

Not modelled: login states and HTTP calls of OAuth (one map behind one lock; the calls
are answers of the environment); login pages, quota display and chat test of the WebUI;
parsing of bodies, token counting, the model list and error texts; templates, logging,
the allocator's housekeeping (`memory.rs`) and HTTP plumbing, which do pure I/O. The
components' notes in `PROJECT.json` name what is left out of each.

Some hazards in `PROJECT.json` do happen in the code, and the properties leave them
out through a history variable instead of catching them: a truncated `accounts.json`
served as an empty list (`behind`), the late write of a dropped handler (`dropped`), an
index that a deletion has shifted under a toggle (`moved`), offsets after a failed write
and overlapping saves of `.env` (`harm`). Their notes say so. So do those of changes
that `refresh_all` undoes, and of day indexes that two look-ups put back over each
other, which no property sees.

Checked by TLC only is what the prover does not reach: liveness under fairness and
ENABLED (`FlightsEnd`, `DisabledStaysOut`, `Answered`, `StreamEnds`, `DueServed`), what
RECURSIVE operators compute (the schemas of section 6), and which signatures the
conversation of section 6 carries.
