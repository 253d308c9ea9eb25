--------------------------- MODULE SignatureStore ---------------------------
(***************************************************************************)
(* src/signature: saves go to a hot map, an index cache and a bounded      *)
(* queue; one worker batches the queue into a data file and an index file  *)
(* per day; look-ups read the cache, then the hot map or the files, and    *)
(* copy what they find in an old day's file to today's.                    *)
(*                                                                         *)
(* A file is a sequence of cells; a record or an index line is one cell    *)
(* and a newline another, so an offset counts cells.  tokio's File hands   *)
(* each write to a thread and returns: a write in flight is not in the     *)
(* file yet, the next write to the same file waits for it, and its failure *)
(* is told by that next write.                                             *)
(***************************************************************************)
EXTENDS Integers, Sequences, FiniteSets

LOCAL INSTANCE Functions

CONSTANTS
    Keys,            \* record ids: a request and one of its tool calls or images
    NoKey,
    Tasks,           \* handlers and migrations that may run at the same time
    Uses,            \* by task, what it does: subset of {"save", "lookup"}
    Faults,          \* subset of {"exit", "kill", "write"}
    BATCH_SIZE, QUEUE_CAPACITY, RetentionDays, RecentDays,
    Gaps,            \* by how many days the date may move on, once
    MaxVersion, MaxSaves, MaxFaults, MaxCells      \* bounds

ASSUME SignatureAssumption ==
    /\ BATCH_SIZE \in Nat \ {0} /\ QUEUE_CAPACITY \in Nat \ {0}
    /\ RetentionDays \in Nat /\ RecentDays \in Nat \ {0}
    /\ Gaps \subseteq {1, 2}
    /\ MaxVersion \in Nat /\ MaxSaves \in Nat /\ MaxFaults \in Nat /\ MaxCells \in Nat
    /\ NoKey \notin Keys

VARIABLES
    today,
    cache,       \* by key: [date] of its EntryIndex; Absent, or Hot for an empty date
    hot,         \* by key: version of the entry in memory, 0 if none
    queue, batch,
    worker,      \* the flush task
    writer,      \* WriterState: date of the open files and offset into the data file
    data, index, \* by day: cells of the two files
    flying,      \* by file: the write tokio has taken and not done, or NoCell
    broken,      \* by file: an earlier write failed and nobody was told
    readers,     \* by day and key: offset in the cached day index, or NoOffset
    tasks,
    faults,
    saved,       \* ghost: newest version saved, by key
    confirmed,   \* ghost: day and version last reported as persisted, by key
    overtaken,   \* ghost: keys of which an entry was queued after a newer one was saved
    harm         \* ghost: "restart" when one interrupted a flush, "write" when one failed

memory == <<cache, hot, readers>>
files == <<data, index, flying, broken>>
ghosts == <<saved, confirmed, overtaken, harm>>
vars == <<today, memory, queue, batch, worker, writer, files, tasks, faults, ghosts>>

\* The first day; the date moves on once, to one of the others.
Days == {1} \cup {1 + n : n \in Gaps}
Absent == -1
Hot == 0
NoOffset == -1

Cell(tag, key, n) == [tag |-> tag, key |-> key, n |-> n]
NL == Cell("nl", NoKey, 0)
Torn == Cell("torn", NoKey, 0)
NoCell == Cell("none", NoKey, 0)
Record(e) == Cell("record", e.key, e.ver)
IndexLine(key, offset) == Cell("line", key, offset)

\* The index file as a map: of the lines that parse, the last one of a key.
Lines(cells) ==
    {i \in DOMAIN cells : /\ cells[i].tag = "line"
                          /\ i = 1 \/ cells[i - 1] = NL
                          /\ i = Len(cells) \/ cells[i + 1] = NL}
Parsed(cells) ==
    [k \in Keys |->
        LET mine == {i \in Lines(cells) : cells[i].key = k}
        IN  IF mine = {} THEN NoOffset
            ELSE cells[CHOOSE i \in mine : \A j \in mine : j <= i].n]

NoEntry == [key |-> NoKey, ver |-> 0]
IdleTask == [pc |-> "idle", asked |-> NoKey, entry |-> NoEntry, date |-> Absent,
             offset |-> NoOffset, content |-> [k \in Keys |-> NoOffset]]
IdleWorker == [pc |-> "idle", blocked |-> FALSE, date |-> 1, i |-> 1, op |-> 1]
NoWriter == [date |-> 0, offset |-> 0]

Init ==
    /\ today = 1
    /\ cache = [k \in Keys |-> Absent]
    /\ hot = [k \in Keys |-> 0]
    /\ queue = <<>> /\ batch = <<>>
    /\ worker = IdleWorker
    /\ writer = NoWriter
    /\ data = [d \in Days |-> <<>>] /\ index = [d \in Days |-> <<>>]
    /\ flying = [f \in {"data", "index"} |-> NoCell]
    /\ broken = [f \in {"data", "index"} |-> FALSE]
    /\ readers = [d \in Days |-> [k \in Keys |-> NoOffset]]
    /\ tasks = [t \in Tasks |-> IdleTask]
    /\ faults = 0
    /\ saved = [k \in Keys |-> 0]
    /\ confirmed = [k \in Keys |-> [date |-> 0, ver |-> 0]]
    /\ overtaken = {}
    /\ harm = "none"

Goes(t, pc) == tasks' = [tasks EXCEPT ![t].pc = pc]

-----------------------------------------------------------------------------
(* Saving, and migrating a record of an old day: hot map, cache, queue. *)

SavesSoFar == FoldFunction(+, 0, saved)

Save(t, k) ==
    /\ "save" \in Uses[t]
    /\ tasks[t].pc = "idle"
    /\ saved[k] < MaxVersion /\ SavesSoFar < MaxSaves
    /\ saved' = [saved EXCEPT ![k] = @ + 1]
    /\ tasks' = [tasks EXCEPT ![t] = [IdleTask EXCEPT !.pc = "put_hot",
                                        !.entry = [key |-> k, ver |-> saved[k] + 1]]]
    /\ UNCHANGED <<today, memory, queue, batch, worker, writer, files, faults, confirmed,
                   overtaken, harm>>

PutHot(t) ==
    LET e == tasks[t].entry
    IN  /\ tasks[t].pc = "put_hot"
        /\ hot' = [hot EXCEPT ![e.key] = e.ver]
        /\ Goes(t, "put_index")
        /\ UNCHANGED <<today, cache, readers, queue, batch, worker, writer, files, faults,
                       ghosts>>

PutIndex(t) ==
    /\ tasks[t].pc = "put_index"
    /\ cache' = [cache EXCEPT ![tasks[t].entry.key] = Hot]
    /\ Goes(t, "enqueue")
    /\ UNCHANGED <<today, hot, readers, queue, batch, worker, writer, files, faults,
                   ghosts>>

Overtaken(e) == {k \in Keys : k = e.key /\ e.ver < saved[k]}

\* The queue has no bound.
Enqueue_Unbounded(t) ==
    /\ tasks[t].pc = "enqueue"
    /\ queue' = Append(queue, tasks[t].entry)
    /\ overtaken' = overtaken \cup Overtaken(tasks[t].entry)
    /\ tasks' = [tasks EXCEPT ![t] = IdleTask]
    /\ UNCHANGED <<today, memory, batch, worker, writer, files, faults, saved, confirmed,
                   harm>>

\* A full queue holds the caller back.
Enqueue(t) ==
    /\ tasks[t].pc = "enqueue"
    /\ Len(queue) < QUEUE_CAPACITY
    /\ queue' = Append(queue, tasks[t].entry)
    /\ overtaken' = overtaken \cup Overtaken(tasks[t].entry)
    /\ tasks' = [tasks EXCEPT ![t] = IdleTask]
    /\ UNCHANGED <<today, memory, batch, worker, writer, files, faults, saved, confirmed,
                   harm>>

-----------------------------------------------------------------------------
(* Look-up: the cached index is read, stamped and put back, and then       *)
(* followed to the hot map or to the day's files.                          *)

ReadCache(t, k) ==
    /\ "lookup" \in Uses[t]
    /\ tasks[t].pc = "idle"
    /\ cache[k] # Absent
    /\ Len(data[today]) < MaxCells
    /\ tasks' = [tasks EXCEPT ![t] = [IdleTask EXCEPT !.pc = "stamp", !.asked = k, !.date = cache[k]]]
    /\ UNCHANGED <<today, memory, queue, batch, worker, writer, files, faults, ghosts>>

Stamp(t) ==
    LET k == tasks[t].asked
    IN  /\ tasks[t].pc = "stamp"
        /\ cache' = [cache EXCEPT ![k] = tasks[t].date]
        /\ Goes(t, IF tasks[t].date = Hot THEN "load_hot" ELSE "get_index")
        /\ UNCHANGED <<today, hot, readers, queue, batch, worker, writer, files, faults,
                       ghosts>>

Answer(t, entry) == tasks' = [tasks EXCEPT ![t].pc = "answered", ![t].entry = entry]

LoadHot(t) ==
    /\ tasks[t].pc = "load_hot"
    /\ LET k == tasks[t].asked
       IN  Answer(t, IF hot[k] = 0 THEN NoEntry ELSE [key |-> k, ver |-> hot[k]])
    /\ UNCHANGED <<today, memory, queue, batch, worker, writer, files, faults, ghosts>>

\* The cached day index, or the file: read now, put into the cache later.  A day
\* without an index file is an error, which leaves the cache as it is.
GetIndex(t) ==
    LET d == tasks[t].date
        k == tasks[t].asked
    IN  /\ tasks[t].pc = "get_index"
        /\ \/ /\ readers[d][k] # NoOffset
              /\ tasks' = [tasks EXCEPT ![t].pc = "read_data", ![t].offset = readers[d][k]]
           \/ /\ readers[d][k] = NoOffset /\ index[d] # <<>>
              /\ tasks' = [tasks EXCEPT ![t].pc = "put_readers", ![t].content = Parsed(index[d])]
           \/ /\ readers[d][k] = NoOffset /\ index[d] = <<>>
              /\ Answer(t, NoEntry)
        /\ UNCHANGED <<today, memory, queue, batch, worker, writer, files, faults, ghosts>>

PutReaders(t) ==
    LET found == tasks[t].content[tasks[t].asked]
    IN  /\ tasks[t].pc = "put_readers"
        /\ readers' = [readers EXCEPT ![tasks[t].date] = tasks[t].content]
        /\ IF found = NoOffset THEN Answer(t, NoEntry)
           ELSE tasks' = [tasks EXCEPT ![t].pc = "read_data", ![t].offset = found]
        /\ UNCHANGED <<today, cache, hot, queue, batch, worker, writer, files, faults,
                       ghosts>>

\* The record at the offset is taken for the one asked for; a record of an
\* old day is then saved again as one of today.
ReadData(t) ==
    LET d == tasks[t].date
        o == tasks[t].offset + 1
        cell == IF o \in DOMAIN data[d] THEN data[d][o] ELSE NoCell
    IN  /\ tasks[t].pc = "read_data"
        /\ IF cell.tag # "record" THEN Answer(t, NoEntry)
           ELSE tasks' = [tasks EXCEPT
                    ![t].pc = IF d = today THEN "answered" ELSE "migrate",
                    ![t].entry = [key |-> cell.key, ver |-> cell.n]]
        /\ UNCHANGED <<today, memory, queue, batch, worker, writer, files, faults, ghosts>>

\* The caller has its answer; a spawned task goes on with the migration.
Migrate(t) ==
    /\ tasks[t].pc = "migrate"
    /\ Goes(t, "put_hot")
    /\ UNCHANGED <<today, memory, queue, batch, worker, writer, files, faults, ghosts>>

Return(t) ==
    /\ tasks[t].pc = "answered"
    /\ tasks' = [tasks EXCEPT ![t] = IdleTask]
    /\ UNCHANGED <<today, memory, queue, batch, worker, writer, files, faults, ghosts>>

-----------------------------------------------------------------------------
(* The worker. *)

\* A file that is opened again is taken for empty.
StartFlush_FromZero(entries) ==
    /\ worker' = [worker EXCEPT !.pc = "write", !.date = today, !.i = 1, !.op = 1]
    /\ writer' = IF writer.date = today THEN writer ELSE [date |-> today, offset |-> 0]
    /\ batch' = entries

\* persist: the files of today, opened if others are open.
StartFlush(entries) ==
    /\ worker' = [worker EXCEPT !.pc = "write", !.date = today, !.i = 1, !.op = 1]
    /\ writer' = IF writer.date = today THEN writer
                 ELSE [date |-> today, offset |-> Len(data[today])]
    /\ batch' = entries

\* Reopening a file waits for what the old handle has in flight; a file of
\* another day is a handle of its own, which has failed nothing yet.
Settled == writer.date = today \/ \A f \in DOMAIN flying : flying[f] = NoCell

Receive ==
    /\ worker.pc = "idle" /\ ~worker.blocked
    /\ queue # <<>>
    /\ Settled
    /\ LET entries == Append(batch, Head(queue))
       IN  IF Len(entries) >= BATCH_SIZE THEN StartFlush(entries)
           ELSE batch' = entries /\ UNCHANGED <<worker, writer>>
    /\ queue' = Tail(queue)
    /\ broken' = IF writer.date = today THEN broken ELSE [f \in DOMAIN broken |-> FALSE]
    /\ UNCHANGED <<today, memory, data, index, flying, tasks, faults, ghosts>>

Tick ==
    /\ worker.pc = "idle"
    /\ batch # <<>>
    /\ Settled
    /\ StartFlush(batch)
    /\ broken' = IF writer.date = today THEN broken ELSE [f \in DOMAIN broken |-> FALSE]
    /\ UNCHANGED <<today, memory, queue, data, index, flying, tasks, faults, ghosts>>

\* The four writes of an entry: record, newline, index line, newline.
File == IF worker.op \in {1, 2} THEN "data" ELSE "index"
Written ==
    CASE worker.op = 1 -> Record(batch[worker.i])
      [] worker.op = 3 -> IndexLine(batch[worker.i].key, writer.offset)
      [] OTHER -> NL

\* The offset forgets the newline.
Write_WithoutNewline ==
    /\ worker.pc = "write"
    /\ flying[File] = NoCell
    /\ ~broken[File]
    /\ flying' = [flying EXCEPT ![File] = Written]
    /\ IF worker.op < 4
       THEN /\ worker' = [worker EXCEPT !.op = @ + 1]
            /\ UNCHANGED writer
       ELSE /\ writer' = [writer EXCEPT !.offset = @ + 1]
            /\ worker' = IF worker.i < Len(batch)
                         THEN [worker EXCEPT !.i = @ + 1, !.op = 1]
                         ELSE [worker EXCEPT !.pc = "index", !.i = 1]
    /\ UNCHANGED <<today, memory, queue, batch, data, index, broken, tasks, faults, ghosts>>

\* An index line without a newline.
Write_OneLine ==
    /\ worker.pc = "write"
    /\ flying[File] = NoCell
    /\ ~broken[File]
    /\ flying' = [flying EXCEPT ![File] = Written]
    /\ IF worker.op < 3
       THEN /\ worker' = [worker EXCEPT !.op = @ + 1]
            /\ UNCHANGED writer
       ELSE /\ writer' = [writer EXCEPT !.offset = @ + 2]
            /\ worker' = IF worker.i < Len(batch)
                         THEN [worker EXCEPT !.i = @ + 1, !.op = 1]
                         ELSE [worker EXCEPT !.pc = "index", !.i = 1]
    /\ UNCHANGED <<today, memory, queue, batch, data, index, broken, tasks, faults, ghosts>>

Write ==
    /\ worker.pc = "write"
    /\ flying[File] = NoCell
    /\ ~broken[File]
    /\ flying' = [flying EXCEPT ![File] = Written]
    /\ IF worker.op < 4
       THEN /\ worker' = [worker EXCEPT !.op = @ + 1]
            /\ UNCHANGED writer
       ELSE /\ writer' = [writer EXCEPT !.offset = @ + 2]
            /\ worker' = IF worker.i < Len(batch)
                         THEN [worker EXCEPT !.i = @ + 1, !.op = 1]
                         ELSE [worker EXCEPT !.pc = "index", !.i = 1]
    /\ UNCHANGED <<today, memory, queue, batch, data, index, broken, tasks, faults, ghosts>>

\* The write before this one failed: the batch stays and nothing more is
\* received until a tick has written it.
WriteFails ==
    /\ worker.pc = "write"
    /\ flying[File] = NoCell
    /\ broken[File]
    /\ broken' = [broken EXCEPT ![File] = FALSE]
    /\ worker' = [worker EXCEPT !.pc = "idle", !.blocked = TRUE]
    /\ UNCHANGED <<today, memory, queue, batch, writer, data, index, flying, tasks, faults,
                   ghosts>>

\* post_updates: cache first, then the hot copy, unless it is a newer one.
UpdateIndex ==
    LET e == batch[worker.i]
    IN  /\ worker.pc = "index"
        /\ cache' = [cache EXCEPT ![e.key] = worker.date]
        /\ worker' = [worker EXCEPT !.pc = "evict"]
        /\ UNCHANGED <<today, hot, readers, queue, batch, writer, files, tasks, faults,
                       ghosts>>

EvictHot ==
    LET e == batch[worker.i]
        last == worker.i = Len(batch)
    IN  /\ worker.pc = "evict"
        /\ hot' = IF hot[e.key] = e.ver THEN [hot EXCEPT ![e.key] = 0] ELSE hot
        /\ confirmed' = [confirmed EXCEPT ![e.key] = [date |-> worker.date, ver |-> e.ver]]
        /\ worker' = IF last THEN IdleWorker ELSE [worker EXCEPT !.pc = "index", !.i = @ + 1]
        /\ batch' = IF last THEN <<>> ELSE batch
        /\ UNCHANGED <<today, cache, readers, queue, writer, files, tasks, faults, saved,
                       overtaken, harm>>

-----------------------------------------------------------------------------
(* Files, days, faults. *)

Grow(f, cells) ==
    IF f = "data"
    THEN data' = [data EXCEPT ![writer.date] = @ \o cells] /\ UNCHANGED index
    ELSE index' = [index EXCEPT ![writer.date] = @ \o cells] /\ UNCHANGED data

WriteLands(f) ==
    /\ flying[f] # NoCell
    /\ Grow(f, <<flying[f]>>)
    /\ flying' = [flying EXCEPT ![f] = NoCell]
    /\ UNCHANGED <<today, memory, queue, batch, worker, writer, broken, tasks, faults, ghosts>>

\* The disk is full: nothing or a part of the cell reaches the file.
WriteBreaks(f) ==
    /\ "write" \in Faults /\ faults < MaxFaults
    /\ flying[f] # NoCell
    /\ \/ Grow(f, <<>>)
       \/ flying[f] # NL /\ Grow(f, <<Torn>>)
    /\ flying' = [flying EXCEPT ![f] = NoCell]
    /\ broken' = [broken EXCEPT ![f] = TRUE]
    /\ faults' = faults + 1
    /\ harm' = "write"
    /\ UNCHANGED <<today, memory, queue, batch, worker, writer, tasks, saved, confirmed,
                   overtaken>>

\* A later day; an operation that asked for the date keeps its answer.  A
\* flush may run over midnight, but not for two days.
NextDay ==
    \E n \in Gaps :
        /\ today = 1
        /\ today' = today + n
        /\ \/ n = 1
           \/ worker.pc = "idle" /\ \A f \in DOMAIN flying : flying[f] = NoCell
        /\ UNCHANGED <<memory, queue, batch, worker, writer, files, tasks, faults, ghosts>>

\* The daily clean-up removes a day's two files one after the other, never
\* those of today and yesterday.
KeptDays == IF RetentionDays > 2 THEN RetentionDays ELSE 2
Old(d) == today - d >= KeptDays
CleanUp(d, f) ==
    /\ Old(d)
    /\ IF f = "data" THEN /\ data[d] # <<>>
                          /\ data' = [data EXCEPT ![d] = <<>>] /\ UNCHANGED index
       ELSE /\ index[d] # <<>>
            /\ index' = [index EXCEPT ![d] = <<>>] /\ UNCHANGED data
    /\ UNCHANGED <<today, memory, queue, batch, worker, writer, flying, broken, tasks, faults,
                   ghosts>>

\* load_recent: the index lines of the last days that have a file.
Recent == {d \in Days : /\ index[d] # <<>>
                        /\ Cardinality({e \in Days : e > d /\ index[e] # <<>>}) < RecentDays}
Reloaded(k) ==
    LET days == {d \in Recent : Parsed(index[d])[k] # NoOffset}
    IN  IF days = {} THEN Absent ELSE CHOOSE d \in days : \A e \in days : e <= d

\* The process ends and starts again with what the files hold.  Nothing
\* flushes queue and batch, and the worker stops where it waits.  Writes in
\* flight are finished when it exits and lost when it is killed.
Restart ==
    /\ faults < MaxFaults
    /\ \/ "exit" \in Faults /\ \A f \in DOMAIN flying : flying[f] = NoCell
       \/ "kill" \in Faults
    /\ faults' = faults + 1
    /\ cache' = [k \in Keys |-> Reloaded(k)]
    /\ hot' = [k \in Keys |-> 0]
    /\ readers' = [d \in Days |-> [k \in Keys |-> NoOffset]]
    /\ queue' = <<>> /\ batch' = <<>>
    /\ worker' = IdleWorker /\ writer' = NoWriter
    /\ flying' = [f \in DOMAIN flying |-> NoCell]
    /\ broken' = [f \in DOMAIN broken |-> FALSE]
    /\ tasks' = [t \in Tasks |-> IdleTask]
    /\ harm' = IF harm = "none" /\ (worker.pc = "write" \/ \E f \in DOMAIN flying : flying[f] # NoCell)
               THEN "restart" ELSE harm
    /\ UNCHANGED <<today, data, index, saved, confirmed, overtaken>>

TaskStep(t) == PutHot(t) \/ PutIndex(t) \/ Enqueue(t) \/ Stamp(t) \/ LoadHot(t) \/ GetIndex(t)
               \/ PutReaders(t) \/ ReadData(t) \/ Migrate(t) \/ Return(t)
Worker == Receive \/ Tick \/ Write \/ WriteFails \/ UpdateIndex \/ EvictHot
Disk == \E f \in {"data", "index"} : WriteLands(f)

Next ==
    \/ \E t \in Tasks : TaskStep(t) \/ \E k \in Keys : Save(t, k) \/ ReadCache(t, k)
    \/ Worker
    \/ Disk
    \/ \E f \in {"data", "index"} : WriteBreaks(f) \/ \E d \in Days : CleanUp(d, f)
    \/ NextDay
    \/ Restart

Spec == Init /\ [][Next]_vars

-----------------------------------------------------------------------------
TypeOK ==
    /\ today \in Days
    /\ cache \in [Keys -> {Absent, Hot} \cup Days]
    /\ hot \in [Keys -> 0..MaxVersion]
    /\ Len(queue) <= QUEUE_CAPACITY /\ Len(batch) <= BATCH_SIZE
    /\ worker.date \in Days /\ worker.i \in 1..BATCH_SIZE /\ worker.op \in 1..4
    /\ writer.date \in {0} \cup Days /\ writer.offset \in Nat
    /\ faults \in 0..MaxFaults /\ harm \in {"none", "restart", "write"}

\* What a reader gets who follows the day's index file for a key.
At(d, o) == IF o + 1 \in DOMAIN data[d] THEN data[d][o + 1] ELSE NoCell
Readable(d, k) ==
    LET o == Parsed(index[d])[k]
    IN  IF o # NoOffset /\ At(d, o).tag = "record" /\ At(d, o).key = k THEN At(d, o).n ELSE 0

\* A look-up (load_by_index takes whatever record lies at the offset) never
\* answers with the signature of another call, nor with one nobody saved, if no
\* write has failed.
EntryIsOwn ==
    harm # "write" => \A t \in Tasks :
        tasks[t].pc \in {"answered", "migrate"} /\ tasks[t].entry # NoEntry =>
            /\ tasks[t].entry.key = tasks[t].asked
            /\ tasks[t].entry.ver \in 1..saved[tasks[t].asked]

\* "EntryIndex 是磁盘 Entry 的轻量指针": a line of a day's index file leads to
\* a record of its key, as long as the clean-up leaves the two files and
\* no write has failed.
IndexPointsHome ==
    harm # "write" => \A d \in Days : \A k \in Keys :
        ~Old(d) /\ Parsed(index[d])[k] # NoOffset => Readable(d, k) # 0

\* When the hot copy of an entry is dropped, the entry can be read from the
\* files, although writes may still be in flight; and it stays there over
\* restarts that interrupt no flush until it is cleaned up, in this version or
\* a newer one, or in an older one if that was queued after a newer save.  (A
\* restart between an index line and its newline glues that line to the next,
\* and both are lost.)
ConfirmedSurvives ==
    harm = "none" => \A k \in Keys :
        LET c == confirmed[k]
        IN  c.ver # 0 /\ ~Old(c.date) =>
                /\ Readable(c.date, k) # 0
                /\ k \notin overtaken => Readable(c.date, k) >= c.ver

\* "热数据（未落盘）为 \"\"": an empty date says that the entry is in memory.
EmptyDateIsHot == \A k \in Keys : cache[k] = Hot => hot[k] # 0
=============================================================================
