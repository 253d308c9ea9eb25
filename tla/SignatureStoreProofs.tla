------------------------ MODULE SignatureStoreProofs ------------------------
(***************************************************************************)
(* Theorems about SignatureStore, for every number of keys and tasks and   *)
(* every size of queue and batch.                                          *)
(***************************************************************************)
EXTENDS SignatureStore, SequenceTheorems, WellFoundedInduction, TLAPS

-----------------------------------------------------------------------------
(* The inductive invariant *)

Offsets == Nat \cup {NoOffset}
Entries == [key : Keys, ver : 1..MaxVersion]
Cells == [tag : {"record", "line", "nl", "torn", "none"}, key : Keys \cup {NoKey}, n : Nat]

Saving == {"put_hot", "put_index", "enqueue"}
Locating == {"get_index", "put_readers", "read_data"}
Answering == {"answered", "migrate"}
Asking == {"stamp", "load_hot"} \cup Locating \cup Answering

TaskRecords ==
    [pc : {"idle"} \cup Saving \cup Asking, asked : Keys \cup {NoKey},
     entry : Entries \cup {NoEntry}, date : {Absent, Hot} \cup Days,
     offset : Offsets, content : [Keys -> Offsets]]

WorkerRecords ==
    [pc : {"idle", "write", "index", "evict"}, blocked : BOOLEAN, date : Days,
     i : 1..BATCH_SIZE, op : 1..4]

Types ==
    /\ TypeOK
    /\ queue \in Seq(Entries) /\ batch \in Seq(Entries)
    /\ worker \in WorkerRecords
    /\ writer \in [date : {0} \cup Days, offset : Nat]
    /\ data \in [Days -> Seq(Cells)] /\ index \in [Days -> Seq(Cells)]
    /\ flying \in [{"data", "index"} -> Cells] /\ broken \in [{"data", "index"} -> BOOLEAN]
    /\ readers \in [Days -> [Keys -> Offsets]]
    /\ saved \in [Keys -> 0..MaxVersion]

\* The batch has room for what the worker may receive, and what it is
\* writing is in it.
BatchFits ==
    /\ worker.pc = "idle" /\ ~worker.blocked => Len(batch) < BATCH_SIZE
    /\ worker.pc # "idle" => worker.i <= Len(batch)

\* Every entry that is under way or on disk is one that was saved.
IsSaved(e) == e \in Entries /\ e.ver <= saved[e.key]
SavedCell(c) == c.tag = "record" => c.key \in Keys /\ c.n \in 1..saved[c.key]

EntriesSaved ==
    /\ \A i \in 1..Len(queue) : IsSaved(queue[i])
    /\ \A i \in 1..Len(batch) : IsSaved(batch[i])
    /\ \A k \in Keys : hot[k] <= saved[k]
    /\ \A d \in Days : \A i \in 1..Len(data[d]) : SavedCell(data[d][i])
    /\ SavedCell(flying["data"])

TaskSound(r) ==
    /\ r \in TaskRecords
    /\ r.pc \in Saving \cup {"migrate"} => IsSaved(r.entry)
    /\ r.pc = "answered" /\ r.entry # NoEntry => IsSaved(r.entry)
    /\ r.pc \in Asking => r.asked \in Keys
    /\ r.pc = "stamp" => r.date # Absent
    /\ r.pc \in Locating => r.date \in Days

TasksSound == tasks \in [Tasks -> TaskRecords] /\ \A t \in Tasks : TaskSound(tasks[t])

\* An offset leads to a record of the key, or into a day that was cleaned up.
Points(d, k, o) ==
    \/ /\ o + 1 \in 1..Len(data[d])
       /\ data[d][o + 1].tag = "record" /\ data[d][o + 1].key = k
    \/ Old(d) /\ data[d] = <<>>

PointsAll(d, content) == \A k \in Keys : content[k] # NoOffset => Points(d, k, content[k])

TaskPoints(r) ==
    /\ r.pc = "put_readers" => PointsAll(r.date, r.content)
    /\ r.pc = "read_data" => Points(r.date, r.asked, r.offset)
    /\ r.pc \in Answering /\ r.entry # NoEntry => r.entry.key = r.asked

TasksPoint == \A t \in Tasks : TaskPoints(tasks[t])

\* So do the lines of the index files, the one in flight and the cached ones.
LinesPoint ==
    /\ \A d \in Days : \A i \in 1..Len(index[d]) :
          index[d][i].tag = "line" => Points(d, index[d][i].key, index[d][i].n)
    /\ flying["index"].tag = "line" => Points(writer.date, flying["index"].key, flying["index"].n)
ReadersPoint == \A d \in Days : PointsAll(d, readers[d])

\* The writer's offset is where the next record will be, counting the cell in
\* flight.
Current == writer.date \in Days /\ ~Old(writer.date)
Ahead == Len(data[writer.date]) + (IF flying["data"] = NoCell THEN 0 ELSE 1)
Landed ==
    /\ writer.offset + 1 \in 1..Len(data[writer.date])
    /\ data[writer.date][writer.offset + 1] = Record(batch[worker.i])
Position ==
    /\ worker.pc = "write" \/ flying["data"] # NoCell \/ flying["index"] # NoCell => Current
    /\ worker.pc # "write" /\ Current => Ahead = writer.offset
    /\ worker.pc = "write" =>
          \/ worker.op = 1 /\ Ahead = writer.offset
          \/ /\ worker.op = 2 /\ Ahead = writer.offset + 1
             /\ \/ flying["data"] = Record(batch[worker.i])
                \/ flying["data"] = NoCell /\ Landed
          \/ worker.op \in {3, 4} /\ Ahead = writer.offset + 2 /\ Landed

Unbroken == ~broken["data"] /\ ~broken["index"]

FilesSound == Unbroken /\ LinesPoint /\ ReadersPoint /\ Position /\ TasksPoint

IInv ==
    /\ Types
    /\ BatchFits
    /\ EntriesSaved
    /\ TasksSound
    /\ harm # "write" => FilesSound

-----------------------------------------------------------------------------
(* Days, cells and index files *)

LEMMA DaysTyped == Days \subseteq 1..3
BY SignatureAssumption DEF Days

\* An inhabited set of positions has a greatest one.
LEMMA Greatest ==
    ASSUME NEW n \in Nat, NEW S \in SUBSET (1..n), S # {}
    PROVE  \E i \in S : \A j \in S : j <= i
<1> DEFINE T == {m \in Nat : n - m \in S}
<1>1. T \subseteq Nat
  OBVIOUS
<1>2. T # {}
  <2>1. PICK i \in S : TRUE
    OBVIOUS
  <2>2. n - i \in Nat /\ n - (n - i) = i
    OBVIOUS
  <2>3. n - i \in T
    BY <2>2
  <2> QED
    BY <2>3
<1> HIDE DEF T
<1>3. PICK m \in T : \A l \in T : <<l, m>> \notin OpToRel(<, Nat)
  BY <1>1, <1>2, WFMin, NatLessThanWellFounded, Zenon
<1>4. \A l \in T : ~(l < m)
  BY <1>1, <1>3, Zenon DEF OpToRel
<1>5. ASSUME NEW j \in S
      PROVE  j <= n - m
  <2>1. n - j \in T
    <3>1. n - j \in Nat /\ n - (n - j) = j
      OBVIOUS
    <3> QED
      BY <3>1 DEF T
  <2> QED
    <3>1. ~(n - j < m)
      BY <2>1, <1>4
    <3>2. m \in Nat /\ j \in Nat
      BY <1>1
    <3> QED
      BY <3>1, <3>2
<1>6. n - m \in S
  BY <1>3 DEF T
<1> QED
  BY <1>5, <1>6

\* What the parser of an index file finds is the offset in one of its lines.
LEMMA ParsedIsLine ==
    ASSUME NEW cells \in Seq(Cells), NEW k \in Keys, Parsed(cells)[k] # NoOffset
    PROVE  \E i \in 1..Len(cells) : /\ cells[i].tag = "line" /\ cells[i].key = k
                                    /\ cells[i].n = Parsed(cells)[k]
<1> DEFINE mine == {i \in Lines(cells) : cells[i].key = k}
           last == CHOOSE i \in mine : \A j \in mine : j <= i
<1>1. Parsed(cells)[k] = IF mine = {} THEN NoOffset ELSE cells[last].n
  BY Zenon DEF Parsed
<1>2. mine # {}
  BY <1>1
<1>3. mine \in SUBSET (1..Len(cells)) /\ \A i \in mine : cells[i].tag = "line" /\ cells[i].key = k
  BY DEF Lines
<1> HIDE DEF mine
<1>l. Len(cells) \in Nat
  OBVIOUS
<1>4. \E i \in mine : \A j \in mine : j <= i
  BY <1>2, <1>3, <1>l, Greatest, Zenon
<1>5. last \in mine
  BY <1>4
<1> QED
  BY <1>1, <1>2, <1>3, <1>5

LEMMA ParsedTyped ==
    ASSUME NEW cells \in Seq(Cells)
    PROVE  Parsed(cells) \in [Keys -> Offsets]
<1>1. ASSUME NEW k \in Keys
      PROVE  Parsed(cells)[k] \in Offsets
  <2>1. CASE Parsed(cells)[k] = NoOffset
    BY <2>1 DEF Offsets
  <2>2. CASE Parsed(cells)[k] # NoOffset
    <3>1. PICK i \in 1..Len(cells) : cells[i].n = Parsed(cells)[k]
      BY <2>2, ParsedIsLine
    <3>2. cells[i] \in Cells
      OBVIOUS
    <3> QED
      BY <3>1, <3>2 DEF Cells, Offsets
  <2> QED
    BY <2>1, <2>2
<1>2. Parsed(cells) = [k \in Keys |-> Parsed(cells)[k]]
  BY DEF Parsed
<1> QED
  BY <1>1, <1>2

\* Records of a day stay where they are until the day is cleaned up.
LEMMA StillPoints ==
    ASSUME NEW d \in Days, NEW k, NEW o, Points(d, k, o),
           data[d] \in Seq(Cells),
           Old(d) => Old(d)',
           \/ data'[d] = data[d]
           \/ ~Old(d) /\ \E c \in Cells : data'[d] = Append(data[d], c)
           \/ Old(d)' /\ data'[d] = <<>>
    PROVE  Points(d, k, o)'
<1>1. CASE data'[d] = data[d]
  BY <1>1 DEF Points
<1>2. CASE ~Old(d) /\ \E c \in Cells : data'[d] = Append(data[d], c)
  <2>1. PICK c \in Cells : data'[d] = Append(data[d], c)
    BY <1>2
  <2>2. Len(data'[d]) = Len(data[d]) + 1 /\ \A i \in 1..Len(data[d]) : data'[d][i] = data[d][i]
    BY <2>1
  <2>3. o + 1 \in 1..Len(data[d]) /\ data[d][o + 1].tag = "record" /\ data[d][o + 1].key = k
    BY <1>2 DEF Points
  <2> QED
    BY <2>2, <2>3 DEF Points
<1>3. CASE Old(d)' /\ data'[d] = <<>>
  BY <1>3 DEF Points
<1> QED
  BY <1>1, <1>2, <1>3

LEMMA AgeGrows ==
    ASSUME NEW d \in Days, today \in Days, today' \in Days, today <= today', Old(d)
    PROVE  Old(d)'
<1>1. d \in Nat /\ today \in Nat /\ today' \in Nat
  BY DaysTyped
<1>2. KeptDays \in Nat
  BY SignatureAssumption DEF KeptDays
<1> DEFINE t == today'
<1>3. t \in Nat /\ today <= t
  BY <1>1
<1> HIDE DEF t
<1>4. t - d >= KeptDays
  BY <1>1, <1>2, <1>3 DEF Old
<1> QED
  BY <1>4 DEF t, Old

\* Nothing that the invariant says of the world holds only for an idle task.
LEMMA IdleIsSound == TaskSound(IdleTask) /\ TaskPoints(IdleTask)
BY DEF TaskSound, TaskPoints, IdleTask, TaskRecords, NoEntry, Offsets, Saving, Asking, Locating,
       Answering, Absent, NoOffset

LEMMA Start == Init => IInv
<1> SUFFICES ASSUME Init
             PROVE  IInv
  OBVIOUS
<1>1. 1 \in Days /\ 0 \in 0..MaxVersion /\ 0 \in 0..MaxFaults
  BY SignatureAssumption DEF Days
<1>2. NoCell \in Cells /\ NoCell.tag = "none"
  BY DEF Cells, NoCell, Cell
<1>3. TypeOK
  BY <1>1, SignatureAssumption DEF Init, TypeOK, IdleWorker, NoWriter
<1>4. Types
  <2>1. worker \in WorkerRecords /\ writer \in [date : {0} \cup Days, offset : Nat]
    BY <1>1, SignatureAssumption DEF Init, WorkerRecords, IdleWorker, NoWriter
  <2>2. flying \in [{"data", "index"} -> Cells] /\ broken \in [{"data", "index"} -> BOOLEAN]
    BY <1>2 DEF Init
  <2>3. readers \in [Days -> [Keys -> Offsets]]
    BY DEF Init, Offsets
  <2>4. /\ queue \in Seq(Entries) /\ batch \in Seq(Entries) /\ saved \in [Keys -> 0..MaxVersion]
        /\ data \in [Days -> Seq(Cells)] /\ index \in [Days -> Seq(Cells)]
    BY <1>1 DEF Init
  <2> QED
    BY <1>3, <2>1, <2>2, <2>3, <2>4 DEF Types
<1>5. BatchFits
  BY SignatureAssumption DEF Init, BatchFits, IdleWorker
<1>6. EntriesSaved
  BY <1>2 DEF Init, EntriesSaved, SavedCell
<1>7. TasksSound /\ TasksPoint
  BY IdleIsSound DEF Init, TasksSound, TasksPoint, TaskSound
<1>8. LinesPoint /\ Unbroken
  BY <1>2 DEF Init, LinesPoint, Unbroken
<1>9. ReadersPoint
  BY DEF Init, ReadersPoint, PointsAll
<1>10. Position
  <2>1. ~Current
    BY DaysTyped DEF Init, Current, NoWriter
  <2> QED
    BY <2>1 DEF Init, Position, IdleWorker
<1> QED
  BY <1>4, <1>5, <1>6, <1>7, <1>8, <1>9, <1>10 DEF IInv, FilesSound

-----------------------------------------------------------------------------
(* The tasks *)

\* One task moves on to r, which is sound, and nothing that tasks rely on
\* changes.
LEMMA TaskMoves ==
    ASSUME IInv, NEW t \in Tasks, NEW r,
           TaskSound(r), harm # "write" => TaskPoints(r),
           tasks' = [tasks EXCEPT ![t] = r],
           UNCHANGED <<today, data, saved, harm>>
    PROVE  TasksSound' /\ (harm' # "write" => TasksPoint')
<1>1. r \in TaskRecords /\ tasks \in [Tasks -> TaskRecords]
  BY DEF IInv, TasksSound, TaskSound
<1>2. tasks' \in [Tasks -> TaskRecords] /\ \A u \in Tasks : tasks'[u] = IF u = t THEN r ELSE tasks[u]
  BY <1>1
<1>3. ASSUME NEW u \in Tasks
      PROVE  TaskSound(tasks[u])'
  <2>1. TaskSound(tasks'[u])
    BY <1>2 DEF IInv, TasksSound
  <2> QED
    BY <2>1 DEF TaskSound, IsSaved
<1>4. ASSUME harm # "write", NEW u \in Tasks
      PROVE  TaskPoints(tasks[u])'
  <2>1. TaskPoints(tasks'[u])
    BY <1>2, <1>4 DEF IInv, FilesSound, TasksPoint
  <2> QED
    BY <2>1 DEF TaskPoints, PointsAll, Points, Old
<1> QED
  BY <1>2, <1>3, <1>4 DEF TasksSound, TasksPoint

\* The files, and what the worker makes of them, stay as they are.
LEMMA FilesStay ==
    ASSUME IInv, UNCHANGED <<today, worker, writer, batch, files>>,
           harm' # "write", harm # "write"
    PROVE  LinesPoint' /\ Position' /\ Unbroken'
BY DEF IInv, FilesSound, files, LinesPoint, Position, Unbroken, Points, Old, Current, Ahead, Landed

LEMMA ReadersStay ==
    ASSUME IInv, UNCHANGED <<today, data, readers>>, harm # "write"
    PROVE  ReadersPoint'
BY DEF IInv, FilesSound, ReadersPoint, PointsAll, Points, Old

\* Only the task moves.
LEMMA OnlyTask ==
    ASSUME IInv, NEW t \in Tasks, NEW r,
           TaskSound(r), harm # "write" => TaskPoints(r),
           tasks' = [tasks EXCEPT ![t] = r],
           UNCHANGED <<today, memory, queue, batch, worker, writer, files, faults, ghosts>>
    PROVE  IInv'
<1>1. TasksSound' /\ (harm' # "write" => TasksPoint')
  BY TaskMoves DEF files, ghosts
<1>2. Types'
  BY DEF IInv, Types, TypeOK, memory, files, ghosts
<1>3. BatchFits' /\ EntriesSaved'
  BY DEF IInv, BatchFits, EntriesSaved, IsSaved, SavedCell, memory, files, ghosts
<1>4. harm # "write" => LinesPoint' /\ Position' /\ Unbroken' /\ ReadersPoint'
  BY FilesStay, ReadersStay DEF files, memory, ghosts
<1> QED
  BY <1>1, <1>2, <1>3, <1>4 DEF IInv, FilesSound, ghosts

LEMMA SaveKeeps ==
    ASSUME IInv, NEW t \in Tasks, NEW k \in Keys, Save(t, k)
    PROVE  IInv'
<1>t. saved \in [Keys -> 0..MaxVersion] /\ saved[k] + 1 \in 1..MaxVersion /\ MaxVersion \in Nat
  BY SignatureAssumption DEF IInv, Types, Save
<1>e. PICK e \in Entries : e = [key |-> k, ver |-> saved[k] + 1]
  BY <1>t DEF Entries
<1>r. PICK r \in TaskRecords : r = [IdleTask EXCEPT !.pc = "put_hot", !.entry = e]
  BY DEF IdleTask, TaskRecords, Saving, Offsets
<1>1. /\ saved' = [saved EXCEPT ![k] = @ + 1] /\ tasks' = [tasks EXCEPT ![t] = r]
      /\ UNCHANGED <<today, memory, queue, batch, worker, writer, files, faults, confirmed, harm>>
  BY <1>e, <1>r DEF Save
<1>2. saved' \in [Keys -> 0..MaxVersion] /\ saved'[k] = saved[k] + 1
  BY <1>1, <1>t
<1>3. \A l \in Keys : saved[l] <= saved'[l] /\ saved[l] \in Nat
  BY <1>1, <1>t
<1>4. \A f : IsSaved(f) => IsSaved(f)'
  <2> SUFFICES ASSUME NEW f, IsSaved(f)
               PROVE  IsSaved(f)'
    OBVIOUS
  <2>1. f \in Entries /\ f.key \in Keys /\ f.ver \in Nat /\ f.ver <= saved[f.key]
    BY <1>t DEF IsSaved, Entries
  <2>2. saved'[f.key] \in Nat
    BY <2>1, <1>2, <1>t
  <2>3. f.ver <= saved'[f.key]
    BY <2>1, <2>2, <1>3
  <2> QED
    BY <2>1, <2>3 DEF IsSaved
<1>5. \A c : SavedCell(c) => SavedCell(c)'
  <2> SUFFICES ASSUME NEW c, SavedCell(c), c.tag = "record"
               PROVE  c.key \in Keys /\ c.n \in 1..saved'[c.key]
    BY DEF SavedCell
  <2>1. c.key \in Keys /\ c.n \in 1..saved[c.key]
    BY DEF SavedCell
  <2>2. saved'[c.key] \in Nat /\ saved[c.key] \in Nat /\ saved[c.key] <= saved'[c.key]
    BY <2>1, <1>2, <1>3, <1>t
  <2> QED
    BY <2>1, <2>2
<1>6. EntriesSaved'
  <2>1. \A l \in Keys : hot[l] <= saved'[l]
    <3> SUFFICES ASSUME NEW l \in Keys
                 PROVE  hot[l] <= saved'[l]
      OBVIOUS
    <3>1. hot[l] \in Nat /\ saved[l] \in Nat /\ saved'[l] \in Nat
      BY <1>t, <1>2 DEF IInv, Types, TypeOK
    <3> QED
      BY <3>1, <1>3 DEF IInv, EntriesSaved
  <2> QED
    BY <2>1, <1>1, <1>4, <1>5 DEF IInv, EntriesSaved, memory, files
<1>8. TaskSound(r)'
  <2>1. e.key = k /\ e.ver = saved[k] + 1
    BY <1>e
  <2>2. IsSaved(e)'
    BY <2>1, <1>2, <1>t DEF IsSaved
  <2>3. r.pc = "put_hot" /\ r.entry = e
    BY <1>r DEF IdleTask
  <2> QED
    BY <2>2, <2>3 DEF TaskSound, Saving, Asking, Locating, Answering
<1>9. TasksSound'
  <2>1. tasks' \in [Tasks -> TaskRecords]
    BY <1>1 DEF IInv, TasksSound
  <2>2. ASSUME NEW u \in Tasks
        PROVE  TaskSound(tasks[u])'
    <3>1. CASE u = t
      <4>1. tasks'[u] = r
        BY <3>1, <1>1 DEF IInv, TasksSound
      <4> QED
        BY <4>1, <1>8 DEF TaskSound, IsSaved
    <3>2. CASE u # t
      <4>1. tasks'[u] = tasks[u] /\ TaskSound(tasks[u])
        BY <3>2, <1>1 DEF IInv, TasksSound
      <4> QED
        BY <4>1, <1>4 DEF TaskSound
    <3> QED
      BY <3>1, <3>2
  <2> QED
    BY <2>1, <2>2 DEF TasksSound
<1>10. ASSUME harm # "write"
       PROVE  TasksPoint'
  <2> SUFFICES ASSUME NEW u \in Tasks
               PROVE  TaskPoints(tasks[u])'
    BY DEF TasksPoint
  <2>1. CASE u = t
    <3>1. tasks'[u] = r /\ r.pc = "put_hot"
      BY <2>1, <1>1, <1>r DEF IInv, TasksSound, IdleTask
    <3> QED
      BY <3>1 DEF TaskPoints, Answering
  <2>2. CASE u # t
    <3>1. tasks'[u] = tasks[u] /\ TaskPoints(tasks[u])
      BY <2>2, <1>1, <1>10 DEF IInv, TasksSound, FilesSound, TasksPoint
    <3> QED
      BY <3>1, <1>1 DEF TaskPoints, PointsAll, Points, Old, files
  <2> QED
    BY <2>1, <2>2
<1>11. Types' /\ BatchFits'
  BY <1>1, <1>2 DEF IInv, Types, TypeOK, BatchFits, memory, files
<1>12. harm # "write" => LinesPoint' /\ Position' /\ Unbroken' /\ ReadersPoint'
  BY <1>1, FilesStay, ReadersStay DEF files, memory
<1> QED
  BY <1>1, <1>6, <1>9, <1>10, <1>11, <1>12 DEF IInv, FilesSound

\* What is known of a task before it moves.
LEMMA TaskKnown ==
    ASSUME IInv, NEW t \in Tasks
    PROVE  /\ tasks[t] \in TaskRecords /\ tasks \in [Tasks -> TaskRecords] /\ TaskSound(tasks[t])
           /\ harm # "write" => TaskPoints(tasks[t])
BY DEF IInv, TasksSound, FilesSound, TasksPoint

\* Moving on without new local state.
LEMMA GoingOn ==
    ASSUME NEW r \in TaskRecords, TaskSound(r), NEW pc \in {"put_index", "enqueue", "put_hot", "load_hot"},
           r.pc \in Saving \cup {"migrate", "stamp"},
           pc \in Saving => r.pc \in Saving \cup {"migrate"},
           pc = "load_hot" => r.pc = "stamp"
    PROVE  TaskSound([r EXCEPT !.pc = pc]) /\ TaskPoints([r EXCEPT !.pc = pc])
<1> DEFINE s == [r EXCEPT !.pc = pc]
<1>1. s \in TaskRecords
  BY DEF TaskRecords, Saving, Asking, Locating, Answering
<1>2. s.pc = pc /\ s.entry = r.entry /\ s.asked = r.asked
  BY DEF TaskRecords
<1> HIDE DEF s
<1>3. TaskSound(s)
  BY <1>1, <1>2 DEF TaskSound, Saving, Asking, Locating, Answering
<1>4. TaskPoints(s)
  BY <1>1, <1>2 DEF TaskPoints, Answering
<1> QED
  BY <1>3, <1>4 DEF s

LEMMA PutHotKeeps ==
    ASSUME IInv, NEW t \in Tasks, PutHot(t)
    PROVE  IInv'
<1> DEFINE e == tasks[t].entry
           r == [tasks[t] EXCEPT !.pc = "put_index"]
<1>1. /\ hot' = [hot EXCEPT ![e.key] = e.ver] /\ tasks' = [tasks EXCEPT ![t] = r]
      /\ UNCHANGED <<today, cache, readers, queue, batch, worker, writer, files, faults, ghosts>>
  BY TaskKnown DEF PutHot, Goes
<1>2. IsSaved(e)
  BY TaskKnown DEF PutHot, TaskSound, Saving
<1>3. TaskSound(r) /\ TaskPoints(r)
  BY TaskKnown, GoingOn DEF PutHot, Saving
<1> HIDE DEF r
<1>4. TasksSound' /\ (harm' # "write" => TasksPoint')
  BY <1>1, <1>3, TaskMoves DEF files, ghosts
<1>5. hot' \in [Keys -> 0..MaxVersion]
  BY <1>1, <1>2, SignatureAssumption DEF IInv, Types, TypeOK, IsSaved, Entries
<1>6. Types' /\ BatchFits'
  BY <1>1, <1>5 DEF IInv, Types, TypeOK, BatchFits, files, ghosts
<1>7. \A k \in Keys : hot'[k] <= saved[k]
  BY <1>1, <1>2 DEF IInv, Types, TypeOK, EntriesSaved, IsSaved
<1>8. EntriesSaved'
  BY <1>1, <1>7 DEF IInv, EntriesSaved, IsSaved, SavedCell, files, ghosts
<1>9. harm # "write" => LinesPoint' /\ Position' /\ Unbroken' /\ ReadersPoint'
  BY <1>1, FilesStay, ReadersStay DEF files, ghosts
<1> QED
  BY <1>1, <1>4, <1>6, <1>8, <1>9 DEF IInv, FilesSound, ghosts

LEMMA PutIndexKeeps ==
    ASSUME IInv, NEW t \in Tasks, PutIndex(t)
    PROVE  IInv'
<1> DEFINE r == [tasks[t] EXCEPT !.pc = "enqueue"]
<1>1. /\ cache' = [cache EXCEPT ![tasks[t].entry.key] = Hot] /\ tasks' = [tasks EXCEPT ![t] = r]
      /\ UNCHANGED <<today, hot, readers, queue, batch, worker, writer, files, faults, ghosts>>
  BY TaskKnown DEF PutIndex, Goes
<1>3. TaskSound(r) /\ TaskPoints(r)
  BY TaskKnown, GoingOn DEF PutIndex, Saving
<1> HIDE DEF r
<1>4. TasksSound' /\ (harm' # "write" => TasksPoint')
  BY <1>1, <1>3, TaskMoves DEF files, ghosts
<1>5. cache' \in [Keys -> {Absent, Hot} \cup Days]
  BY <1>1 DEF IInv, Types, TypeOK
<1>6. Types' /\ BatchFits'
  BY <1>1, <1>5 DEF IInv, Types, TypeOK, BatchFits, files, ghosts
<1>8. EntriesSaved'
  BY <1>1 DEF IInv, EntriesSaved, IsSaved, SavedCell, files, ghosts
<1>9. harm # "write" => LinesPoint' /\ Position' /\ Unbroken' /\ ReadersPoint'
  BY <1>1, FilesStay, ReadersStay DEF files, ghosts
<1> QED
  BY <1>1, <1>4, <1>6, <1>8, <1>9 DEF IInv, FilesSound, ghosts

LEMMA EnqueueKeeps ==
    ASSUME IInv, NEW t \in Tasks, Enqueue(t)
    PROVE  IInv'
<1> DEFINE e == tasks[t].entry
<1>1. /\ queue' = Append(queue, e) /\ Len(queue) < QUEUE_CAPACITY
      /\ tasks' = [tasks EXCEPT ![t] = IdleTask]
      /\ UNCHANGED <<today, memory, batch, worker, writer, files, faults, saved, confirmed,
                     harm>>
  BY DEF Enqueue
<1>2. IsSaved(e) /\ e \in Entries
  BY TaskKnown DEF Enqueue, TaskSound, Saving, IsSaved
<1> HIDE DEF e
<1>4. TasksSound' /\ (harm' # "write" => TasksPoint')
  BY <1>1, IdleIsSound, TaskMoves DEF files, ghosts
<1>5. /\ queue \in Seq(Entries) /\ queue' \in Seq(Entries) /\ Len(queue') = Len(queue) + 1
      /\ \A i \in 1..Len(queue') : queue'[i] = IF i = Len(queue) + 1 THEN e ELSE queue[i]
  BY <1>1, <1>2 DEF IInv, Types
<1>6. Types' /\ BatchFits'
  <2>1. Len(queue') <= QUEUE_CAPACITY
    BY <1>1, <1>5, SignatureAssumption
  <2> QED
    BY <1>1, <1>5, <2>1 DEF IInv, Types, TypeOK, BatchFits, memory, files, ghosts
<1>7. \A i \in 1..Len(queue') : IsSaved(queue'[i])
  BY <1>2, <1>5 DEF IInv, EntriesSaved
<1>8. EntriesSaved'
  BY <1>1, <1>7 DEF IInv, EntriesSaved, IsSaved, SavedCell, memory, files, ghosts
<1>9. harm # "write" => LinesPoint' /\ Position' /\ Unbroken' /\ ReadersPoint'
  BY <1>1, FilesStay, ReadersStay DEF files, memory, ghosts
<1> QED
  BY <1>1, <1>4, <1>6, <1>8, <1>9 DEF IInv, FilesSound, ghosts

LEMMA ReadCacheKeeps ==
    ASSUME IInv, NEW t \in Tasks, NEW k \in Keys, ReadCache(t, k)
    PROVE  IInv'
<1> DEFINE r == [IdleTask EXCEPT !.pc = "stamp", !.asked = k, !.date = cache[k]]
<1>1. tasks' = [tasks EXCEPT ![t] = r] /\ cache[k] \in {Hot} \cup Days
  BY DEF ReadCache, IInv, Types, TypeOK
<1>2. /\ r.pc = "stamp" /\ r.asked = k /\ r.date = cache[k] /\ r \in TaskRecords
  BY <1>1 DEF IdleTask, TaskRecords, Asking, Offsets, NoEntry
<1>3. cache[k] # Absent
  BY DEF ReadCache
<1> HIDE DEF r
<1>4. TaskSound(r) /\ TaskPoints(r)
  BY <1>2, <1>3 DEF TaskSound, TaskPoints, Saving, Asking, Locating, Answering
<1> QED
  BY <1>1, <1>4, OnlyTask DEF ReadCache

\* The entry a task answers with is one of the key it was asked for, or none.
LEMMA AnswerSound ==
    ASSUME NEW r \in TaskRecords, TaskSound(r), r.asked \in Keys, NEW e \in Entries \cup {NoEntry},
           NEW pc \in Answering, pc = "migrate" => e # NoEntry,
           e # NoEntry => IsSaved(e)
    PROVE  /\ TaskSound([r EXCEPT !.pc = pc, !.entry = e])
           /\ (e # NoEntry => e.key = r.asked) => TaskPoints([r EXCEPT !.pc = pc, !.entry = e])
<1> DEFINE s == [r EXCEPT !.pc = pc, !.entry = e]
<1>1. s \in TaskRecords /\ s.pc = pc /\ s.entry = e /\ s.asked = r.asked
  BY DEF TaskRecords, Asking, Answering
<1> HIDE DEF s
<1>2. TaskSound(s) /\ ((e # NoEntry => e.key = r.asked) => TaskPoints(s))
  BY <1>1 DEF TaskSound, TaskPoints, Saving, Asking, Locating, Answering
<1> QED
  BY <1>2 DEF s

LEMMA StampKeeps ==
    ASSUME IInv, NEW t \in Tasks, Stamp(t)
    PROVE  IInv'
<1> DEFINE to == IF tasks[t].date = Hot THEN "load_hot" ELSE "get_index"
           r == [tasks[t] EXCEPT !.pc = to]
<1>1. /\ cache' = [cache EXCEPT ![tasks[t].asked] = tasks[t].date]
      /\ tasks' = [tasks EXCEPT ![t] = r]
      /\ UNCHANGED <<today, hot, readers, queue, batch, worker, writer, files, faults, ghosts>>
  BY TaskKnown DEF Stamp, Goes
<1>2. /\ tasks[t] \in TaskRecords /\ tasks[t].pc = "stamp" /\ tasks[t].asked \in Keys
      /\ tasks[t].date \in {Hot} \cup Days
  BY TaskKnown DEF Stamp, TaskSound, Asking, TaskRecords
<1>3. /\ r \in TaskRecords /\ r.pc = to /\ r.asked = tasks[t].asked /\ r.date = tasks[t].date
  BY <1>2 DEF TaskRecords, Asking, Locating
<1> HIDE DEF r
<1>4. TaskSound(r) /\ TaskPoints(r)
  BY <1>2, <1>3 DEF TaskSound, TaskPoints, Saving, Asking, Locating, Answering
<1>5. TasksSound' /\ (harm' # "write" => TasksPoint')
  BY <1>1, <1>4, TaskMoves DEF files, ghosts
<1>6. cache' \in [Keys -> {Absent, Hot} \cup Days]
  BY <1>1, <1>2 DEF IInv, Types, TypeOK
<1>7. Types' /\ BatchFits'
  BY <1>1, <1>6 DEF IInv, Types, TypeOK, BatchFits, files, ghosts
<1>8. EntriesSaved'
  BY <1>1 DEF IInv, EntriesSaved, IsSaved, SavedCell, files, ghosts
<1>9. harm # "write" => LinesPoint' /\ Position' /\ Unbroken' /\ ReadersPoint'
  BY <1>1, FilesStay, ReadersStay DEF files, ghosts
<1> QED
  BY <1>1, <1>5, <1>7, <1>8, <1>9 DEF IInv, FilesSound, ghosts

LEMMA LoadHotKeeps ==
    ASSUME IInv, NEW t \in Tasks, LoadHot(t)
    PROVE  IInv'
<1> DEFINE k == tasks[t].asked
           e == IF hot[k] = 0 THEN NoEntry ELSE [key |-> k, ver |-> hot[k]]
           r == [tasks[t] EXCEPT !.pc = "answered", !.entry = e]
<1>1. tasks' = [tasks EXCEPT ![t] = r]
  BY TaskKnown DEF LoadHot, Answer
<1>2. k \in Keys
  BY TaskKnown DEF LoadHot, TaskSound, Asking
<1>3. hot[k] \in 0..MaxVersion /\ saved[k] \in 0..MaxVersion /\ hot[k] <= saved[k]
  BY <1>2 DEF IInv, Types, TypeOK, EntriesSaved
<1>4. e \in Entries \cup {NoEntry} /\ (e # NoEntry => IsSaved(e) /\ e.key = k)
  BY <1>2, <1>3, SignatureAssumption DEF Entries, IsSaved
<1> HIDE DEF e
<1>5. TaskSound(r) /\ TaskPoints(r)
  BY <1>2, <1>4, TaskKnown, AnswerSound DEF Answering
<1> QED
  BY <1>1, <1>5, OnlyTask DEF LoadHot

LEMMA MigrateKeeps ==
    ASSUME IInv, NEW t \in Tasks, Migrate(t)
    PROVE  IInv'
<1> DEFINE r == [tasks[t] EXCEPT !.pc = "put_hot"]
<1>1. tasks' = [tasks EXCEPT ![t] = r]
  BY TaskKnown DEF Migrate, Goes
<1>2. TaskSound(r) /\ TaskPoints(r)
  BY TaskKnown, GoingOn DEF Migrate, Saving
<1> QED
  BY <1>1, <1>2, OnlyTask DEF Migrate

LEMMA ReturnKeeps ==
    ASSUME IInv, NEW t \in Tasks, Return(t)
    PROVE  IInv'
BY IdleIsSound, OnlyTask DEF Return

\* An index file leads to records of its keys.
LEMMA ParsedPoints ==
    ASSUME IInv, harm # "write", NEW d \in Days
    PROVE  PointsAll(d, Parsed(index[d]))
<1> SUFFICES ASSUME NEW k \in Keys, Parsed(index[d])[k] # NoOffset
             PROVE  Points(d, k, Parsed(index[d])[k])
  BY DEF PointsAll
<1>1. index[d] \in Seq(Cells)
  BY DEF IInv, Types
<1>2. PICK i \in 1..Len(index[d]) : /\ index[d][i].tag = "line" /\ index[d][i].key = k
                                    /\ index[d][i].n = Parsed(index[d])[k]
  BY <1>1, ParsedIsLine
<1>3. Points(d, index[d][i].key, index[d][i].n)
  BY <1>2 DEF IInv, FilesSound, LinesPoint
<1> QED
  BY <1>2, <1>3

LEMMA GetIndexKeeps ==
    ASSUME IInv, NEW t \in Tasks, GetIndex(t)
    PROVE  IInv'
<1> DEFINE d == tasks[t].date
           k == tasks[t].asked
<1>1. tasks[t] \in TaskRecords /\ d \in Days /\ k \in Keys
  BY TaskKnown DEF GetIndex, TaskSound, Asking, Locating
<1>2. readers[d] \in [Keys -> Offsets] /\ index[d] \in Seq(Cells)
  BY <1>1 DEF IInv, Types
<1>3. CASE readers[d][k] # NoOffset
  <2> DEFINE r == [tasks[t] EXCEPT !.pc = "read_data", !.offset = readers[d][k]]
  <2>1. tasks' = [tasks EXCEPT ![t] = r]
    BY <1>3, TaskKnown DEF GetIndex
  <2>2. /\ r \in TaskRecords /\ r.pc = "read_data" /\ r.asked = k /\ r.date = d
        /\ r.offset = readers[d][k]
    BY <1>1, <1>2 DEF TaskRecords, Asking, Locating
  <2> HIDE DEF r
  <2>3. TaskSound(r)
    BY <1>1, <2>2 DEF TaskSound, Saving, Asking, Locating, Answering
  <2>4. harm # "write" => Points(d, k, readers[d][k])
    BY <1>1, <1>3 DEF IInv, FilesSound, ReadersPoint, PointsAll
  <2>5. harm # "write" => TaskPoints(r)
    BY <2>2, <2>4 DEF TaskPoints, Answering
  <2> QED
    BY <2>1, <2>3, <2>5, OnlyTask DEF GetIndex
<1>4. CASE readers[d][k] = NoOffset /\ index[d] # <<>>
  <2> DEFINE r == [tasks[t] EXCEPT !.pc = "put_readers", !.content = Parsed(index[d])]
  <2>1. tasks' = [tasks EXCEPT ![t] = r]
    BY <1>4, TaskKnown DEF GetIndex
  <2>2. /\ r \in TaskRecords /\ r.pc = "put_readers" /\ r.asked = k /\ r.date = d
        /\ r.content = Parsed(index[d])
    BY <1>1, <1>2, ParsedTyped DEF TaskRecords, Asking, Locating
  <2> HIDE DEF r
  <2>3. TaskSound(r)
    BY <1>1, <2>2 DEF TaskSound, Saving, Asking, Locating, Answering
  <2>4. harm # "write" => TaskPoints(r)
    BY <1>1, <2>2, ParsedPoints DEF TaskPoints, Answering
  <2> QED
    BY <2>1, <2>3, <2>4, OnlyTask DEF GetIndex
<1>5. CASE readers[d][k] = NoOffset /\ index[d] = <<>>
  <2> DEFINE r == [tasks[t] EXCEPT !.pc = "answered", !.entry = NoEntry]
  <2>1. tasks' = [tasks EXCEPT ![t] = r]
    BY <1>5, TaskKnown DEF GetIndex, Answer
  <2>2. TaskSound(r) /\ (harm # "write" => TaskPoints(r))
    BY <1>1, TaskKnown, AnswerSound DEF Answering
  <2> HIDE DEF r
  <2> QED
    BY <2>1, <2>2, OnlyTask DEF GetIndex
<1> QED
  BY <1>3, <1>4, <1>5

LEMMA PutReadersKeeps ==
    ASSUME IInv, NEW t \in Tasks, PutReaders(t)
    PROVE  IInv'
<1> DEFINE d == tasks[t].date
           k == tasks[t].asked
           c == tasks[t].content
           r == IF c[k] = NoOffset THEN [tasks[t] EXCEPT !.pc = "answered", !.entry = NoEntry]
                ELSE [tasks[t] EXCEPT !.pc = "read_data", !.offset = c[k]]
<1>1. tasks[t] \in TaskRecords /\ d \in Days /\ k \in Keys /\ c \in [Keys -> Offsets]
  BY TaskKnown DEF PutReaders, TaskSound, Asking, Locating, TaskRecords
<1>2. /\ readers' = [readers EXCEPT ![d] = c] /\ tasks' = [tasks EXCEPT ![t] = r]
      /\ UNCHANGED <<today, cache, hot, queue, batch, worker, writer, files, faults, ghosts>>
  BY TaskKnown DEF PutReaders, Answer
<1>3. harm # "write" => PointsAll(d, c)
  BY TaskKnown DEF PutReaders, TaskPoints
<1>4. TaskSound(r) /\ (harm # "write" => TaskPoints(r))
  <2>1. CASE c[k] = NoOffset
    BY <2>1, <1>1, TaskKnown, AnswerSound DEF Answering
  <2>2. CASE c[k] # NoOffset
    <3>1. /\ r \in TaskRecords /\ r.pc = "read_data" /\ r.asked = k /\ r.date = d
          /\ r.offset = c[k]
      BY <2>2, <1>1 DEF TaskRecords, Asking, Locating
    <3> HIDE DEF r, c
    <3>2. harm # "write" => Points(d, k, c[k])
      BY <2>2, <1>1, <1>3 DEF PointsAll
    <3> QED
      BY <3>1, <3>2, <1>1 DEF TaskSound, TaskPoints, Saving, Asking, Locating, Answering
  <2> QED
    BY <2>1, <2>2
<1> HIDE DEF r
<1>5. TasksSound' /\ (harm' # "write" => TasksPoint')
  BY <1>2, <1>4, TaskMoves DEF files, ghosts
<1>6. readers' \in [Days -> [Keys -> Offsets]]
  BY <1>1, <1>2 DEF IInv, Types
<1>7. Types' /\ BatchFits' /\ EntriesSaved'
  BY <1>2, <1>6 DEF IInv, Types, TypeOK, BatchFits, EntriesSaved, IsSaved, SavedCell, files, ghosts
<1>8. ASSUME harm # "write"
      PROVE  ReadersPoint'
  <2>1. \A b \in Days : PointsAll(b, readers'[b])
    BY <1>2, <1>3, <1>8 DEF IInv, Types, FilesSound, ReadersPoint
  <2> QED
    BY <2>1, <1>2 DEF ReadersPoint, PointsAll, Points, Old, files
<1>9. harm # "write" => LinesPoint' /\ Position' /\ Unbroken'
  BY <1>2, FilesStay DEF files, ghosts
<1> QED
  BY <1>2, <1>5, <1>7, <1>8, <1>9 DEF IInv, FilesSound, ghosts

LEMMA ReadDataKeeps ==
    ASSUME IInv, NEW t \in Tasks, ReadData(t)
    PROVE  IInv'
<1> DEFINE d == tasks[t].date
           o == tasks[t].offset + 1
           cell == IF o \in DOMAIN data[d] THEN data[d][o] ELSE NoCell
           k == tasks[t].asked
<1>1. tasks[t] \in TaskRecords /\ d \in Days /\ k \in Keys /\ data[d] \in Seq(Cells)
  BY TaskKnown DEF ReadData, TaskSound, Asking, Locating, IInv, Types
<1>2. CASE cell.tag # "record"
  <2> DEFINE r == [tasks[t] EXCEPT !.pc = "answered", !.entry = NoEntry]
  <2>1. tasks' = [tasks EXCEPT ![t] = r]
    BY <1>2, TaskKnown DEF ReadData, Answer
  <2>2. TaskSound(r) /\ TaskPoints(r)
    BY <1>1, TaskKnown, AnswerSound DEF Answering
  <2> QED
    BY <2>1, <2>2, OnlyTask DEF ReadData
<1>3. CASE cell.tag = "record"
  <2> DEFINE e == [key |-> cell.key, ver |-> cell.n]
             to == IF d = today THEN "answered" ELSE "migrate"
             r == [tasks[t] EXCEPT !.pc = to, !.entry = e]
  <2>1. tasks' = [tasks EXCEPT ![t] = r]
    BY <1>3, TaskKnown DEF ReadData
  <2>2. o \in 1..Len(data[d]) /\ cell = data[d][o]
    BY <1>1, <1>3 DEF NoCell, Cell
  <2>3. SavedCell(cell)
    BY <1>1, <2>2 DEF IInv, EntriesSaved
  <2>4. cell.key \in Keys /\ cell.n \in 1..saved[cell.key]
    BY <1>3, <2>3 DEF SavedCell
  <2>5. saved[cell.key] \in 0..MaxVersion
    BY <2>4 DEF IInv, Types
  <2>6. e \in Entries /\ IsSaved(e) /\ e # NoEntry
    <3> DEFINE n == cell.n
               m == saved[cell.key]
               x == cell.key
    <3>1. m \in 0..MaxVersion /\ n \in 1..m /\ MaxVersion \in Nat /\ x \in Keys /\ x # NoKey
      BY <2>4, <2>5, SignatureAssumption
    <3> HIDE DEF n, m, x
    <3>2. n \in 1..MaxVersion /\ n <= m
      BY <3>1
    <3>3. e = [key |-> x, ver |-> n] /\ e.key = x /\ e.ver = n
      BY DEF x, n
    <3>4. e \in Entries /\ e # NoEntry
      BY <3>1, <3>2, <3>3 DEF Entries, NoEntry
    <3> QED
      BY <3>2, <3>3, <3>4 DEF IsSaved, m, x
  <2>7. harm # "write" => e.key = k
    <3> SUFFICES ASSUME harm # "write"
                 PROVE  e.key = k
      OBVIOUS
    <3>1. Points(d, k, tasks[t].offset)
      BY TaskKnown DEF ReadData, TaskPoints
    <3>2. data[d] # <<>>
      BY <2>2, <1>1
    <3>3. data[d][o].key = k
      BY <3>1, <3>2 DEF Points
    <3> QED
      BY <3>3, <2>2
  <2> HIDE DEF e
  <2>8. TaskSound(r) /\ (harm # "write" => TaskPoints(r))
    BY <1>1, <2>6, <2>7, TaskKnown, AnswerSound DEF Answering
  <2> QED
    BY <2>1, <2>8, OnlyTask DEF ReadData
<1> QED
  BY <1>2, <1>3

-----------------------------------------------------------------------------
(* The worker *)

\* What tasks and cached indices rely on stays.
LEMMA OthersStay ==
    ASSUME IInv, UNCHANGED <<today, readers, data, tasks, saved, harm>>
    PROVE  TasksSound' /\ (harm' # "write" => ReadersPoint' /\ TasksPoint')
<1>1. TasksSound'
  BY DEF IInv, TasksSound, TaskSound, IsSaved
<1>2. harm # "write" => ReadersPoint' /\ TasksPoint'
  BY DEF IInv, FilesSound, ReadersPoint, TasksPoint, TaskPoints, PointsAll, Points, Old
<1> QED
  BY <1>1, <1>2

LEMMA TodayIsYoung == ASSUME IInv PROVE ~Old(today)
<1>1. KeptDays \in Nat /\ KeptDays > 0
  BY SignatureAssumption DEF KeptDays
<1>2. today \in Nat
  BY DaysTyped DEF IInv, Types, TypeOK
<1> QED
  BY <1>1, <1>2 DEF Old

\* A flush starts where the file ends, counting what is still in flight.
LEMMA StartFlushKeeps ==
    ASSUME IInv, worker.pc = "idle", Settled,
           NEW entries \in Seq(Entries), Len(entries) \in 1..BATCH_SIZE,
           \A i \in 1..Len(entries) : IsSaved(entries[i]),
           queue' \in Seq(Entries), Len(queue') <= QUEUE_CAPACITY,
           \A i \in 1..Len(queue') : IsSaved(queue'[i]),
           StartFlush(entries),
           broken' = IF writer.date = today THEN broken ELSE [f \in DOMAIN broken |-> FALSE],
           UNCHANGED <<today, memory, data, index, flying, tasks, faults, ghosts>>
    PROVE  IInv'
<1>t. /\ today \in Days /\ worker \in WorkerRecords /\ writer \in [date : {0} \cup Days, offset : Nat]
      /\ data \in [Days -> Seq(Cells)] /\ flying \in [{"data", "index"} -> Cells]
      /\ broken \in [{"data", "index"} -> BOOLEAN]
  BY DEF IInv, Types, TypeOK
<1>1. /\ worker' = [worker EXCEPT !.pc = "write", !.date = today, !.i = 1, !.op = 1]
      /\ writer' = IF writer.date = today THEN writer
                   ELSE [date |-> today, offset |-> Len(data[today])]
      /\ batch' = entries
  BY DEF StartFlush
<1>2. worker' \in WorkerRecords /\ worker'.pc = "write" /\ worker'.i = 1 /\ worker'.op = 1
  <2>1. 1 \in 1..BATCH_SIZE
    BY SignatureAssumption
  <2>i. PICK i \in 1..BATCH_SIZE, op \in 1..4 : i = 1 /\ op = 1
    BY <2>1
  <2>v. [worker EXCEPT !.pc = "write", !.date = today, !.i = i, !.op = op] \in WorkerRecords
    BY <1>t DEF WorkerRecords
  <2>2. [worker EXCEPT !.pc = "write", !.date = today, !.i = 1, !.op = 1] \in WorkerRecords
    BY <2>i, <2>v
  <2>3. worker' \in WorkerRecords
    BY <1>1, <2>2
  <2> QED
    BY <1>1, <1>t, <2>3 DEF WorkerRecords
<1>3. writer' \in [date : {0} \cup Days, offset : Nat] /\ writer'.date = today
  BY <1>1, <1>t
<1>4. broken' \in [{"data", "index"} -> BOOLEAN] /\ (harm # "write" => Unbroken')
  BY <1>t DEF IInv, FilesSound, Unbroken
<1>5. Types'
  <2>1. TypeOK'
    <3>1. Len(entries) <= BATCH_SIZE
      BY SignatureAssumption
    <3> QED
      BY <3>1, <1>1, <1>2, <1>3 DEF IInv, Types, TypeOK, WorkerRecords, memory, ghosts
  <2> QED
    BY <2>1, <1>1, <1>2, <1>3, <1>4 DEF IInv, Types, memory, ghosts
<1>6. BatchFits'
  BY <1>1, <1>2 DEF BatchFits
<1>7. EntriesSaved'
  BY <1>1 DEF IInv, EntriesSaved, IsSaved, SavedCell, memory, ghosts
<1>8. TasksSound' /\ (harm' # "write" => ReadersPoint' /\ TasksPoint')
  BY OthersStay DEF memory, ghosts
<1>9. ASSUME harm # "write"
      PROVE  LinesPoint' /\ Position'
  <2>1. CASE writer.date = today
    <3>1. writer' = writer
      BY <2>1, <1>1
    <3>2. Current /\ Ahead = writer.offset
      BY <2>1, <1>9, <1>t, TodayIsYoung DEF IInv, FilesSound, Position, Current
    <3>3. Current' /\ Ahead' = writer'.offset
      BY <3>1, <3>2 DEF Current, Ahead, Old
    <3>4. Position'
      BY <3>3, <1>2 DEF Position
    <3>5. LinesPoint'
      BY <3>1, <1>9 DEF IInv, FilesSound, LinesPoint, Points, Old
    <3> QED
      BY <3>4, <3>5
  <2>2. CASE writer.date # today
    <3>1. flying["data"] = NoCell /\ flying["index"] = NoCell
      BY <2>2, <1>t DEF Settled
    <3>2. writer'.date = today /\ writer'.offset = Len(data[today])
      BY <2>2, <1>1
    <3>3. Current'
      BY <3>2, <1>t, TodayIsYoung DEF Current, Old
    <3>4. Ahead' = writer'.offset
      BY <3>1, <3>2, <1>t DEF Ahead
    <3>5. Position'
      BY <3>3, <3>4, <1>2 DEF Position
    <3>6. LinesPoint'
      BY <3>1, <1>9 DEF IInv, FilesSound, LinesPoint, Points, Old, NoCell, Cell
    <3> QED
      BY <3>5, <3>6
  <2> QED
    BY <2>1, <2>2
<1> QED
  BY <1>4, <1>5, <1>6, <1>7, <1>8, <1>9 DEF IInv, FilesSound, ghosts

LEMMA ReceiveKeeps == ASSUME IInv, Receive PROVE IInv'
<1> DEFINE entries == Append(batch, Head(queue))
<1>1. /\ worker.pc = "idle" /\ ~worker.blocked /\ queue # <<>> /\ Settled
      /\ IF Len(entries) >= BATCH_SIZE THEN StartFlush(entries)
         ELSE batch' = entries /\ UNCHANGED <<worker, writer>>
      /\ queue' = Tail(queue)
      /\ broken' = IF writer.date = today THEN broken ELSE [f \in DOMAIN broken |-> FALSE]
      /\ UNCHANGED <<today, memory, data, index, flying, tasks, faults, ghosts>>
  BY DEF Receive
<1>2. /\ queue \in Seq(Entries) /\ batch \in Seq(Entries) /\ Len(queue) <= QUEUE_CAPACITY
      /\ Len(batch) < BATCH_SIZE /\ BATCH_SIZE \in Nat /\ QUEUE_CAPACITY \in Nat
  BY <1>1, SignatureAssumption DEF IInv, Types, TypeOK, BatchFits
<1>3. /\ Head(queue) \in Entries /\ queue' \in Seq(Entries) /\ Len(queue') = Len(queue) - 1
      /\ \A i \in 1..Len(queue') : queue'[i] = queue[i + 1]
  BY <1>1, <1>2, HeadTailProperties
<1>4. Len(queue) \in Nat /\ Len(queue) > 0 /\ Head(queue) = queue[1]
  BY <1>1, <1>2
<1>5. IsSaved(Head(queue)) /\ \A i \in 1..Len(queue') : IsSaved(queue'[i])
  <2>1. \A i \in 1..Len(queue) : IsSaved(queue[i])
    BY DEF IInv, EntriesSaved
  <2>2. \A i \in 1..Len(queue') : i + 1 \in 1..Len(queue)
    BY <1>3, <1>4
  <2> QED
    BY <2>1, <2>2, <1>3, <1>4
<1>6. /\ entries \in Seq(Entries) /\ Len(entries) = Len(batch) + 1
      /\ \A i \in 1..Len(entries) : IsSaved(entries[i])
  <2>1. \A i \in 1..Len(batch) : IsSaved(batch[i])
    BY DEF IInv, EntriesSaved
  <2>2. PICK e \in Entries : e = Head(queue)
    BY <1>3
  <2>3. /\ entries = Append(batch, e) /\ entries \in Seq(Entries) /\ Len(entries) = Len(batch) + 1
        /\ \A i \in 1..Len(entries) : entries[i] = IF i = Len(batch) + 1 THEN e ELSE batch[i]
    BY <2>2, <1>2
  <2>4. IsSaved(e)
    BY <2>2, <1>5
  <2>5. Len(batch) \in Nat
    BY <1>2
  <2> HIDE DEF entries
  <2> QED
    BY <2>1, <2>3, <2>4, <2>5
<1> HIDE DEF entries
<1>7. CASE Len(entries) >= BATCH_SIZE
  <2>1. Len(entries) \in 1..BATCH_SIZE /\ Len(queue') <= QUEUE_CAPACITY
    BY <1>2, <1>3, <1>4, <1>6
  <2> QED
    BY <2>1, <1>1, <1>3, <1>5, <1>6, <1>7, StartFlushKeeps
<1>8. CASE ~(Len(entries) >= BATCH_SIZE)
  <2>1. batch' = entries /\ UNCHANGED <<worker, writer>>
    BY <1>1, <1>8
  <2>2. Len(entries) < BATCH_SIZE /\ Len(entries) <= BATCH_SIZE /\ Len(queue') <= QUEUE_CAPACITY
    BY <1>2, <1>3, <1>4, <1>6, <1>8
  <2>3. broken' \in [{"data", "index"} -> BOOLEAN] /\ (harm # "write" => Unbroken')
    BY <1>1 DEF IInv, Types, FilesSound, Unbroken
  <2>4. Types' /\ BatchFits'
    <3>1. BatchFits'
      BY <1>1, <2>1, <2>2 DEF IInv, BatchFits
    <3>2. TypeOK'
      <4>1. TypeOK
        BY DEF IInv, Types
      <4>2. Len(queue') <= QUEUE_CAPACITY /\ Len(batch') <= BATCH_SIZE
        BY <2>1, <2>2
      <4> QED
        BY <1>1, <2>1, <4>1, <4>2 DEF TypeOK, memory, ghosts
    <3>3. queue' \in Seq(Entries) /\ batch' \in Seq(Entries)
      BY <1>1, <1>2, <1>3, <1>6, <2>1
    <3> QED
      BY <1>1, <2>1, <2>3, <3>1, <3>2, <3>3 DEF IInv, Types, memory, ghosts
  <2>5. EntriesSaved'
    BY <1>1, <1>5, <1>6, <2>1 DEF IInv, EntriesSaved, IsSaved, SavedCell, memory, ghosts
  <2>6. TasksSound' /\ (harm' # "write" => ReadersPoint' /\ TasksPoint')
    BY <1>1, OthersStay DEF memory, ghosts
  <2>7. harm # "write" => LinesPoint' /\ Position'
    BY <1>1, <2>1 DEF IInv, FilesSound, LinesPoint, Position, Points, Old, Current, Ahead
  <2> QED
    BY <1>1, <2>3, <2>4, <2>5, <2>6, <2>7 DEF IInv, FilesSound, ghosts
<1> QED
  BY <1>7, <1>8

LEMMA TickKeeps == ASSUME IInv, Tick PROVE IInv'
<1>1. /\ worker.pc = "idle" /\ batch # <<>> /\ Settled /\ StartFlush(batch) /\ queue' = queue
      /\ broken' = IF writer.date = today THEN broken ELSE [f \in DOMAIN broken |-> FALSE]
      /\ UNCHANGED <<today, memory, data, index, flying, tasks, faults, ghosts>>
  BY DEF Tick
<1>2. /\ queue \in Seq(Entries) /\ batch \in Seq(Entries) /\ Len(queue) <= QUEUE_CAPACITY
      /\ Len(batch) <= BATCH_SIZE /\ BATCH_SIZE \in Nat
  BY SignatureAssumption DEF IInv, Types, TypeOK
<1>3. Len(batch) \in 1..BATCH_SIZE
  BY <1>1, <1>2
<1>4. /\ \A i \in 1..Len(batch) : IsSaved(batch[i])
      /\ \A i \in 1..Len(queue) : IsSaved(queue[i])
  BY DEF IInv, EntriesSaved
<1> QED
  BY <1>1, <1>2, <1>3, <1>4, StartFlushKeeps

\* What is written: a record that was saved, a line with the writer's offset
\* or a newline.
LEMMA WrittenTyped ==
    ASSUME IInv, worker.pc = "write"
    PROVE  /\ Written \in Cells /\ Written # NoCell
           /\ worker.op \in {2, 4} => Written = NL
           /\ worker.op = 1 => Written = Record(batch[worker.i]) /\ SavedCell(Written)
           /\ worker.op = 3 => Written = IndexLine(batch[worker.i].key, writer.offset)
<1>1. /\ worker.op \in 1..4 /\ worker.i \in 1..Len(batch) /\ batch \in Seq(Entries)
      /\ writer.offset \in Nat
  BY DEF IInv, Types, BatchFits, WorkerRecords
<1>2. IsSaved(batch[worker.i]) /\ batch[worker.i] \in Entries
  BY <1>1 DEF IInv, EntriesSaved, IsSaved
<1>3. CASE worker.op = 1
  <2>1. Written = Record(batch[worker.i])
    BY <1>3 DEF Written
  <2>2. saved[batch[worker.i].key] \in 0..MaxVersion
    BY <1>2 DEF Entries, IInv, Types
  <2> QED
    BY <2>1, <2>2, <1>2, <1>3, SignatureAssumption
    DEF Record, Cell, Cells, Entries, SavedCell, IsSaved, NoCell
<1>4. CASE worker.op = 3
  <2>1. Written = IndexLine(batch[worker.i].key, writer.offset)
    BY <1>4 DEF Written
  <2> QED
    BY <2>1, <1>1, <1>2, <1>4 DEF IndexLine, Cell, Cells, Entries, NoCell
<1>5. CASE worker.op \in {2, 4}
  <2>1. Written = NL
    BY <1>5 DEF Written
  <2> QED
    BY <2>1, <1>5 DEF NL, Cell, Cells, NoCell
<1> QED
  BY <1>1, <1>3, <1>4, <1>5

LEMMA WriteKeeps == ASSUME IInv, Write PROVE IInv'
<1> DEFINE next == IF worker.i < Len(batch) THEN [worker EXCEPT !.i = @ + 1, !.op = 1]
                   ELSE [worker EXCEPT !.pc = "index", !.i = 1]
<1>1. /\ worker.pc = "write" /\ flying[File] = NoCell /\ flying' = [flying EXCEPT ![File] = Written]
      /\ IF worker.op < 4
         THEN worker' = [worker EXCEPT !.op = @ + 1] /\ writer' = writer
         ELSE writer' = [writer EXCEPT !.offset = @ + 2] /\ worker' = next
      /\ UNCHANGED <<today, memory, queue, batch, data, index, broken, tasks, faults, ghosts>>
  BY DEF Write
<1>t. /\ worker \in WorkerRecords /\ worker.op \in 1..4 /\ worker.i \in 1..Len(batch)
      /\ batch \in Seq(Entries) /\ Len(batch) <= BATCH_SIZE /\ BATCH_SIZE \in Nat
      /\ writer \in [date : {0} \cup Days, offset : Nat] /\ writer.offset \in Nat
      /\ data \in [Days -> Seq(Cells)] /\ flying \in [{"data", "index"} -> Cells]
  BY <1>1, SignatureAssumption DEF IInv, Types, TypeOK, BatchFits, WorkerRecords
<1>2. /\ worker' \in WorkerRecords /\ worker'.pc \in {"write", "index"} /\ worker'.i <= Len(batch)
      /\ worker.op < 4 => /\ worker'.pc = "write" /\ worker'.op = worker.op + 1
                          /\ worker'.i = worker.i /\ writer' = writer
      /\ worker.op = 4 /\ worker'.pc = "write" => worker'.op = 1
  <2>1. CASE worker.op < 4
    BY <2>1, <1>1, <1>t DEF WorkerRecords
  <2>2. CASE worker.op = 4 /\ worker.i < Len(batch)
    <3>1. PICK j \in 1..BATCH_SIZE, op \in 1..4 : j = worker.i + 1 /\ j <= Len(batch) /\ op = 1
      BY <2>2, <1>t
    <3>2. [worker EXCEPT !.i = j, !.op = op] \in WorkerRecords
      BY <1>t DEF WorkerRecords
    <3>3. worker' = [worker EXCEPT !.i = j, !.op = op]
      BY <2>2, <3>1, <1>1
    <3>4. worker' \in WorkerRecords
      BY <3>2, <3>3
    <3> QED
      BY <2>2, <3>1, <3>3, <3>4, <1>1, <1>t DEF WorkerRecords
  <2>3. CASE worker.op = 4 /\ ~(worker.i < Len(batch))
    <3>1. 1 \in 1..BATCH_SIZE /\ 1 <= Len(batch)
      BY <1>t
    <3>2. [worker EXCEPT !.pc = "index", !.i = 1] \in WorkerRecords
      BY <3>1, <1>t DEF WorkerRecords
    <3>3. worker' = [worker EXCEPT !.pc = "index", !.i = 1]
      BY <2>3, <1>1
    <3>4. worker' \in WorkerRecords
      BY <3>2, <3>3
    <3> QED
      BY <2>3, <3>1, <3>3, <3>4, <1>t DEF WorkerRecords
  <2> QED
    BY <2>1, <2>2, <2>3, <1>t
<1>3. /\ writer' \in [date : {0} \cup Days, offset : Nat] /\ writer'.date = writer.date
      /\ worker.op = 4 => writer'.offset = writer.offset + 2
  BY <1>1, <1>t
<1>4. File \in {"data", "index"} /\ (File = "data" <=> worker.op \in {1, 2})
  BY DEF File
<1>5. flying' \in [{"data", "index"} -> Cells]
  BY <1>1, <1>4, <1>t, WrittenTyped
<1>6. Types' /\ BatchFits'
  <2>1. TypeOK'
    BY <1>1, <1>2, <1>3 DEF IInv, Types, TypeOK, WorkerRecords, memory, ghosts
  <2> QED
    BY <2>1, <1>1, <1>2, <1>3, <1>5 DEF IInv, Types, BatchFits, memory, ghosts
<1>7. EntriesSaved'
  <2>1. SavedCell(flying'["data"])
    <3>1. CASE worker.op = 1
      BY <3>1, <1>1, <1>4, <1>t, WrittenTyped
    <3>2. CASE worker.op = 2
      BY <3>2, <1>1, <1>4, <1>t, WrittenTyped DEF SavedCell, NL, Cell
    <3>3. CASE worker.op \in {3, 4}
      BY <3>3, <1>1, <1>4, <1>t DEF IInv, EntriesSaved
    <3> QED
      BY <3>1, <3>2, <3>3, <1>t
  <2> QED
    BY <2>1, <1>1 DEF IInv, EntriesSaved, IsSaved, SavedCell, memory, ghosts
<1>8. TasksSound' /\ (harm' # "write" => ReadersPoint' /\ TasksPoint')
  BY <1>1, OthersStay DEF memory, ghosts
<1>9. harm # "write" => Unbroken'
  BY <1>1 DEF IInv, FilesSound, Unbroken
<1>10. ASSUME harm # "write"
       PROVE  LinesPoint' /\ Position'
  <2>0. Current /\ Position /\ LinesPoint
    BY <1>1, <1>10 DEF IInv, FilesSound, Position
  <2>c. Current'
    BY <2>0, <1>1, <1>3 DEF Current, Old
  <2>l. Len(data[writer.date]) \in Nat
    BY <2>0, <1>t DEF Current
  <2>1. CASE worker.op = 1
    <3>1. flying["data"] = NoCell /\ flying'["data"] = Record(batch[worker.i])
          /\ flying'["data"] # NoCell /\ flying'["index"] = flying["index"]
      BY <2>1, <1>1, <1>4, <1>t, WrittenTyped
    <3>2. Ahead = writer.offset /\ Ahead' = writer.offset + 1
      BY <2>0, <2>1, <2>l, <3>1, <1>1, <1>3 DEF Position, Ahead
    <3>3. Position'
      BY <2>1, <2>c, <3>1, <3>2, <1>1, <1>2 DEF Position
    <3>4. LinesPoint'
      BY <2>0, <3>1, <1>1, <1>3 DEF LinesPoint, Points, Old
    <3> QED
      BY <3>3, <3>4
  <2>2. CASE worker.op = 2
    <3>1. flying["data"] = NoCell /\ flying'["data"] # NoCell /\ flying'["index"] = flying["index"]
      BY <2>2, <1>1, <1>4, <1>t, WrittenTyped
    <3>2. Ahead = writer.offset + 1 /\ Landed
      BY <2>0, <2>2, <3>1, <1>1 DEF Position, Record, NoCell, Cell
    <3>3. Ahead' = writer.offset + 2
      BY <3>1, <3>2, <2>l, <1>1, <1>3, <1>t DEF Ahead
    <3>4. Landed'
      BY <3>2, <2>2, <1>1, <1>2 DEF Landed
    <3>5. Position'
      BY <2>2, <2>c, <3>3, <3>4, <1>1, <1>2 DEF Position
    <3>6. LinesPoint'
      BY <2>0, <3>1, <1>1, <1>3 DEF LinesPoint, Points, Old
    <3> QED
      BY <3>5, <3>6
  <2>3. CASE worker.op = 3
    <3>1. /\ flying'["data"] = flying["data"]
          /\ flying'["index"] = IndexLine(batch[worker.i].key, writer.offset)
      BY <2>3, <1>1, <1>4, <1>t, WrittenTyped
    <3>2. Ahead = writer.offset + 2 /\ Landed
      BY <2>0, <2>3, <1>1 DEF Position
    <3>w. writer' = writer /\ worker'.i = worker.i
      BY <2>3, <1>2
    <3>a. Ahead' = Ahead
      BY <3>1, <3>w, <1>1 DEF Ahead
    <3>b. Landed'
      BY <3>2, <3>w, <1>1 DEF Landed
    <3>3. Ahead' = writer.offset + 2 /\ Landed'
      BY <3>2, <3>a, <3>b
    <3>4. Position'
      BY <2>3, <2>c, <3>3, <1>1, <1>2 DEF Position
    <3>5. Points(writer.date, batch[worker.i].key, writer.offset)
      BY <3>2 DEF Landed, Points, Record, Cell
    <3>6. LinesPoint'
      BY <2>0, <3>1, <3>5, <1>1, <1>3, SMTT(30) DEF LinesPoint, Points, Old, IndexLine, Cell
    <3> QED
      BY <3>4, <3>6
  <2>4. CASE worker.op = 4
    <3>1. flying'["data"] = flying["data"] /\ flying'["index"] = NL
      BY <2>4, <1>1, <1>4, <1>t, WrittenTyped
    <3>2. Ahead = writer.offset + 2
      BY <2>0, <2>4, <1>1 DEF Position
    <3>3. Ahead' = writer'.offset
      BY <3>1, <3>2, <2>4, <1>1, <1>3 DEF Ahead
    <3>4. Position'
      BY <2>4, <2>c, <3>3, <1>2 DEF Position
    <3>5. LinesPoint'
      BY <2>0, <3>1, <1>1 DEF LinesPoint, Points, Old, NL, Cell
    <3> QED
      BY <3>4, <3>5
  <2> QED
    BY <2>1, <2>2, <2>3, <2>4, <1>t
<1> QED
  BY <1>1, <1>6, <1>7, <1>8, <1>9, <1>10 DEF IInv, FilesSound, ghosts

LEMMA WriteFailsKeeps == ASSUME IInv, WriteFails PROVE IInv'
<1>1. /\ broken[File] /\ broken' = [broken EXCEPT ![File] = FALSE]
      /\ worker' = [worker EXCEPT !.pc = "idle", !.blocked = TRUE]
      /\ UNCHANGED <<today, memory, queue, batch, writer, data, index, flying, tasks, faults, ghosts>>
  BY DEF WriteFails
<1>2. File \in {"data", "index"}
  BY DEF File
<1>3. harm = "write"
  BY <1>1, <1>2 DEF IInv, FilesSound, Unbroken
<1>4. worker' \in WorkerRecords /\ worker'.pc = "idle" /\ worker'.blocked = TRUE
  <2>1. [worker EXCEPT !.pc = "idle", !.blocked = TRUE] \in WorkerRecords
    BY DEF IInv, Types, WorkerRecords
  <2>2. worker' \in WorkerRecords
    BY <2>1, <1>1
  <2> QED
    BY <2>2, <1>1 DEF IInv, Types, WorkerRecords
<1>5. Types'
  <2>1. TypeOK'
    BY <1>1, <1>4 DEF IInv, Types, TypeOK, WorkerRecords, memory, ghosts
  <2> QED
    BY <2>1, <1>1, <1>2, <1>4 DEF IInv, Types, memory, ghosts
<1>6. BatchFits'
  BY <1>4 DEF BatchFits
<1>7. EntriesSaved'
  BY <1>1 DEF IInv, EntriesSaved, IsSaved, SavedCell, memory, ghosts
<1>8. TasksSound'
  BY <1>1, OthersStay DEF memory, ghosts
<1> QED
  BY <1>1, <1>3, <1>5, <1>6, <1>7, <1>8 DEF IInv, ghosts

LEMMA UpdateIndexKeeps == ASSUME IInv, UpdateIndex PROVE IInv'
<1>1. /\ worker.pc = "index" /\ cache' = [cache EXCEPT ![batch[worker.i].key] = worker.date]
      /\ worker' = [worker EXCEPT !.pc = "evict"]
      /\ UNCHANGED <<today, hot, readers, queue, batch, writer, files, tasks, faults, ghosts>>
  BY DEF UpdateIndex
<1>2. /\ worker' \in WorkerRecords /\ worker'.pc = "evict" /\ worker'.i = worker.i
  <2>1. [worker EXCEPT !.pc = "evict"] \in WorkerRecords
    BY DEF IInv, Types, WorkerRecords
  <2>2. worker' \in WorkerRecords
    BY <2>1, <1>1
  <2> QED
    BY <2>2, <1>1 DEF IInv, Types, WorkerRecords
<1>3. cache' \in [Keys -> {Absent, Hot} \cup Days]
  BY <1>1 DEF IInv, Types, TypeOK
<1>4. Types' /\ BatchFits'
  <2>1. TypeOK'
    BY <1>1, <1>2, <1>3 DEF IInv, Types, TypeOK, WorkerRecords, files, ghosts
  <2> QED
    BY <2>1, <1>1, <1>2 DEF IInv, Types, BatchFits, files, ghosts
<1>5. EntriesSaved'
  BY <1>1 DEF IInv, EntriesSaved, IsSaved, SavedCell, files, ghosts
<1>6. TasksSound' /\ (harm' # "write" => ReadersPoint' /\ TasksPoint')
  BY <1>1, OthersStay DEF files, ghosts
<1>7. harm # "write" => LinesPoint' /\ Position' /\ Unbroken'
  BY <1>1, <1>2 DEF IInv, FilesSound, LinesPoint, Position, Unbroken, Points, Old, Current, Ahead, files
<1> QED
  BY <1>1, <1>4, <1>5, <1>6, <1>7 DEF IInv, FilesSound, ghosts

LEMMA EvictHotKeeps == ASSUME IInv, EvictHot PROVE IInv'
<1> DEFINE e == batch[worker.i]
           last == worker.i = Len(batch)
<1>1. /\ worker.pc = "evict"
      /\ hot' = IF hot[e.key] = e.ver THEN [hot EXCEPT ![e.key] = 0] ELSE hot
      /\ worker' = IF last THEN IdleWorker ELSE [worker EXCEPT !.pc = "index", !.i = @ + 1]
      /\ batch' = IF last THEN <<>> ELSE batch
      /\ UNCHANGED <<today, cache, readers, queue, writer, files, tasks, faults, saved, harm>>
  BY DEF EvictHot
<1>t. /\ worker \in WorkerRecords /\ worker.i \in 1..Len(batch) /\ batch \in Seq(Entries)
      /\ Len(batch) <= BATCH_SIZE /\ BATCH_SIZE \in Nat \ {0}
      /\ hot \in [Keys -> 0..MaxVersion] /\ saved \in [Keys -> 0..MaxVersion]
  <2>1. /\ worker \in WorkerRecords /\ batch \in Seq(Entries) /\ Len(batch) <= BATCH_SIZE
        /\ BATCH_SIZE \in Nat \ {0}
        /\ hot \in [Keys -> 0..MaxVersion] /\ saved \in [Keys -> 0..MaxVersion]
    BY SignatureAssumption DEF IInv, Types, TypeOK
  <2>2. worker.i \in 1..BATCH_SIZE /\ Len(batch) \in Nat
    BY <2>1 DEF WorkerRecords
  <2>3. worker.i <= Len(batch)
    BY <1>1 DEF IInv, BatchFits
  <2>4. worker.i \in 1..Len(batch)
    BY <2>2, <2>3, <2>1
  <2> QED
    BY <2>1, <2>4
<1>2. /\ worker' \in WorkerRecords /\ worker'.pc \in {"idle", "index"}
      /\ batch' \in Seq(Entries) /\ Len(batch') <= BATCH_SIZE
      /\ worker'.pc = "idle" => Len(batch') < BATCH_SIZE
      /\ worker'.pc # "idle" => worker'.i <= Len(batch')
      /\ \A i \in 1..Len(batch') : IsSaved(batch'[i])
  <2>1. CASE last
    <3>1. IdleWorker \in WorkerRecords
      BY <1>t, SignatureAssumption DEF IdleWorker, WorkerRecords, Days
    <3>2. worker' = IdleWorker /\ batch' = <<>>
      BY <2>1, <1>1
    <3> QED
      BY <3>1, <3>2, <1>t DEF IdleWorker
  <2>2. CASE ~last
    <3>1. PICK j \in 1..BATCH_SIZE : j = worker.i + 1 /\ j <= Len(batch)
      BY <2>2, <1>t
    <3>2. [worker EXCEPT !.pc = "index", !.i = j] \in WorkerRecords
      BY <1>t DEF WorkerRecords
    <3>3. worker' = [worker EXCEPT !.pc = "index", !.i = j] /\ batch' = batch
      BY <2>2, <3>1, <1>1
    <3>4. worker' \in WorkerRecords
      BY <3>2, <3>3
    <3>5. worker'.pc = "index" /\ worker'.i = j
      BY <3>3, <3>4, <1>t DEF WorkerRecords
    <3>6. \A i \in 1..Len(batch) : IsSaved(batch[i])
      BY DEF IInv, EntriesSaved
    <3> QED
      BY <3>1, <3>3, <3>4, <3>5, <3>6, <1>t
  <2> QED
    BY <2>1, <2>2
<1>3. /\ hot' \in [Keys -> 0..MaxVersion] /\ \A k \in Keys : hot'[k] <= saved[k]
  <2>1. \A k \in Keys : hot'[k] = hot[k] \/ hot'[k] = 0
    BY <1>1, <1>t
  <2>2. \A k \in Keys : hot[k] <= saved[k] /\ saved[k] \in 0..MaxVersion
    BY <1>t DEF IInv, EntriesSaved
  <2>3. hot' \in [Keys -> 0..MaxVersion]
    <3>1. PICK zero \in 0..MaxVersion : zero = 0
      BY SignatureAssumption
    <3>2. [hot EXCEPT ![e.key] = zero] \in [Keys -> 0..MaxVersion]
      BY <1>t
    <3> QED
      BY <3>1, <3>2, <1>1, <1>t
  <2>4. ASSUME NEW k \in Keys
        PROVE  hot'[k] <= saved[k]
    <3>1. hot[k] <= saved[k] /\ saved[k] \in Nat
      BY <2>2
    <3> QED
      BY <2>1, <3>1
  <2> QED
    BY <2>3, <2>4
<1>4. Types' /\ BatchFits'
  <2>1. TypeOK'
    BY <1>1, <1>2, <1>3 DEF IInv, Types, TypeOK, WorkerRecords, files
  <2> QED
    BY <2>1, <1>1, <1>2 DEF IInv, Types, BatchFits, files
<1>5. EntriesSaved'
  BY <1>1, <1>2, <1>3 DEF IInv, EntriesSaved, IsSaved, SavedCell, files
<1>6. TasksSound' /\ (harm' # "write" => ReadersPoint' /\ TasksPoint')
  BY <1>1, OthersStay DEF files
<1>7. harm # "write" => LinesPoint' /\ Position' /\ Unbroken'
  BY <1>1, <1>2 DEF IInv, FilesSound, LinesPoint, Position, Unbroken, Points, Old, Current, Ahead, files
<1> QED
  BY <1>1, <1>4, <1>5, <1>6, <1>7 DEF IInv, FilesSound

-----------------------------------------------------------------------------
(* Files, days, faults *)

\* As long as offsets still lead where they led, so do those that tasks and the
\* cache hold.
LEMMA OffsetsStay ==
    ASSUME IInv, harm # "write", UNCHANGED <<readers, tasks>>,
           \A d \in Days : \A k, o : Points(d, k, o) => Points(d, k, o)'
    PROVE  ReadersPoint' /\ TasksPoint'
<1>1. ReadersPoint'
  BY DEF IInv, FilesSound, ReadersPoint, PointsAll
<1>2. ASSUME NEW t \in Tasks
      PROVE  TaskPoints(tasks[t])'
  <2>1. /\ TaskPoints(tasks[t]) /\ (tasks[t].pc \in Locating => tasks[t].date \in Days)
    BY DEF IInv, FilesSound, TasksPoint, TasksSound, TaskSound
  <2> QED
    BY <2>1 DEF TaskPoints, PointsAll, Locating
<1> QED
  BY <1>1, <1>2 DEF TasksPoint

\* A cell is appended to the file whose write lands.
LEMMA GrowthKeeps ==
    ASSUME IInv, NEW f \in {"data", "index"}, NEW c \in Cells, flying[f] # NoCell,
           Grow(f, <<c>>)
    PROVE  /\ data' \in [Days -> Seq(Cells)] /\ index' \in [Days -> Seq(Cells)]
           /\ (SavedCell(c) \/ f = "index") =>
                \A d \in Days : \A i \in 1..Len(data'[d]) : SavedCell(data'[d][i])
<1>t. data \in [Days -> Seq(Cells)] /\ index \in [Days -> Seq(Cells)]
  BY DEF IInv, Types
<1>s. \A d \in Days : \A i \in 1..Len(data[d]) : SavedCell(data[d][i])
  BY DEF IInv, EntriesSaved
<1>1. CASE f = "index"
  <2>1. data' = data /\ index' = [index EXCEPT ![writer.date] = @ \o <<c>>]
    BY <1>1 DEF Grow
  <2>2. writer.date \in Days => index[writer.date] \o <<c>> \in Seq(Cells)
    BY <1>t
  <2> QED
    BY <2>1, <2>2, <1>t, <1>s
<1>2. CASE f = "data"
  <2>1. index' = index /\ data' = [data EXCEPT ![writer.date] = @ \o <<c>>]
    BY <1>2 DEF Grow
  <2>2. writer.date \in Days =>
           /\ data[writer.date] \o <<c>> \in Seq(Cells)
           /\ Len(data[writer.date]) \in Nat
           /\ Len(data[writer.date] \o <<c>>) = Len(data[writer.date]) + 1
           /\ \A i \in 1..Len(data[writer.date]) + 1 :
                 (data[writer.date] \o <<c>>)[i] = IF i = Len(data[writer.date]) + 1 THEN c
                                                   ELSE data[writer.date][i]
    BY <1>t
  <2>3. \A d \in Days : data'[d] = IF d = writer.date THEN data[d] \o <<c>> ELSE data[d]
    BY <2>1, <1>t
  <2>4. data' \in [Days -> Seq(Cells)]
    BY <2>1, <2>2, <1>t
  <2>5. ASSUME SavedCell(c), NEW d \in Days, NEW i \in 1..Len(data'[d])
        PROVE  SavedCell(data'[d][i])
    <3>1. CASE d = writer.date
      <4>1. data'[d] = data[d] \o <<c>> /\ Len(data[d]) \in Nat /\ Len(data'[d]) = Len(data[d]) + 1
        BY <3>1, <2>2, <2>3
      <4>2. i \in 1..Len(data[d]) + 1
        BY <4>1
      <4>3. data'[d][i] = IF i = Len(data[d]) + 1 THEN c ELSE data[d][i]
        BY <3>1, <4>1, <4>2, <2>2
      <4>4. i # Len(data[d]) + 1 => i \in 1..Len(data[d])
        BY <4>1, <4>2
      <4> QED
        BY <4>3, <4>4, <2>5, <1>s
    <3>2. CASE d # writer.date
      BY <3>2, <2>3, <1>s
    <3> QED
      BY <3>1, <3>2
  <2> QED
    BY <2>1, <2>4, <2>5, <1>t, <1>2
<1> QED
  BY <1>1, <1>2

LEMMA WriteLandsKeeps ==
    ASSUME IInv, NEW f \in {"data", "index"}, WriteLands(f)
    PROVE  IInv'
<1>1. /\ flying[f] # NoCell /\ Grow(f, <<flying[f]>>)
      /\ flying' = [flying EXCEPT ![f] = NoCell]
      /\ UNCHANGED <<today, memory, queue, batch, worker, writer, broken, tasks, faults, ghosts>>
  BY DEF WriteLands
<1>t. /\ flying \in [{"data", "index"} -> Cells] /\ data \in [Days -> Seq(Cells)]
      /\ index \in [Days -> Seq(Cells)] /\ NoCell \in Cells
  BY DEF IInv, Types, NoCell, Cell, Cells
<1>2. flying[f] \in Cells /\ flying' \in [{"data", "index"} -> Cells]
  BY <1>1, <1>t
<1>3. SavedCell(flying[f]) \/ f = "index"
  BY DEF IInv, EntriesSaved
<1>4. /\ data' \in [Days -> Seq(Cells)] /\ index' \in [Days -> Seq(Cells)]
      /\ \A d \in Days : \A i \in 1..Len(data'[d]) : SavedCell(data'[d][i])
  BY <1>1, <1>2, <1>3, GrowthKeeps
<1>5. Types' /\ BatchFits'
  BY <1>1, <1>2, <1>4 DEF IInv, Types, TypeOK, BatchFits, memory, ghosts
<1>6. SavedCell(flying'["data"])
  BY <1>1, <1>t DEF IInv, EntriesSaved, SavedCell, NoCell, Cell
<1>7. EntriesSaved'
  BY <1>1, <1>4, <1>6 DEF IInv, EntriesSaved, IsSaved, SavedCell, memory, ghosts
<1>8. TasksSound'
  BY <1>1 DEF IInv, TasksSound, TaskSound, IsSaved, ghosts
<1>9. ASSUME harm # "write"
      PROVE  FilesSound'
  <2>0. /\ Current /\ Position /\ LinesPoint /\ writer.date \in Days /\ ~Old(writer.date)
    BY <1>1, <1>9 DEF IInv, FilesSound, Position, Current
  <2>1. CASE f = "data"
    <3>1. index' = index /\ data' = [data EXCEPT ![writer.date] = @ \o <<flying["data"]>>]
      BY <2>1, <1>1 DEF Grow
    <3>2. /\ data'[writer.date] = Append(data[writer.date], flying["data"])
          /\ \A d \in Days \ {writer.date} : data'[d] = data[d]
      BY <3>1, <2>0, <1>t, <1>2, <2>1
    <3>3. flying["data"] # NoCell /\ flying'["data"] = NoCell /\ flying'["index"] = flying["index"]
      BY <2>1, <1>1, <1>t
    <3>4. \A d \in Days : \A k, o : Points(d, k, o) => Points(d, k, o)'
      <4> SUFFICES ASSUME NEW d \in Days, NEW k, NEW o, Points(d, k, o)
                   PROVE  Points(d, k, o)'
        OBVIOUS
      <4>1. Old(d) => Old(d)'
        BY <1>1 DEF Old
      <4>2. \/ data'[d] = data[d]
            \/ ~Old(d) /\ (\E c \in Cells : data'[d] = Append(data[d], c))
        <5>1. CASE d = writer.date
          BY <5>1, <3>2, <2>0, <1>2, <2>1
        <5>2. CASE d # writer.date
          BY <5>2, <3>2
        <5> QED
          BY <5>1, <5>2
      <4> QED
        BY <4>1, <4>2, <1>t, StillPoints
    <3>5. ReadersPoint' /\ TasksPoint'
      BY <3>4, <1>1, <1>9, OffsetsStay DEF memory
    <3>6. LinesPoint'
      <4>1. ASSUME NEW d \in Days, NEW i \in 1..Len(index[d]), index[d][i].tag = "line"
            PROVE  Points(d, index[d][i].key, index[d][i].n)'
        <5>1. PICK k, o : k = index[d][i].key /\ o = index[d][i].n
          OBVIOUS
        <5>2. Points(d, k, o)'
          BY <5>1, <4>1, <2>0, <3>4 DEF LinesPoint
        <5> QED
          BY <5>1, <5>2, <3>1
      <4>2. ASSUME flying["index"].tag = "line"
            PROVE  Points(writer.date, flying["index"].key, flying["index"].n)'
        <5>d. PICK d \in Days : d = writer.date
          BY <2>0
        <5>k. PICK k, o : k = flying["index"].key /\ o = flying["index"].n
          OBVIOUS
        <5>1. d = writer.date /\ k = flying["index"].key /\ o = flying["index"].n
          BY <5>d, <5>k
        <5>2. Points(d, k, o)'
          BY <5>1, <4>2, <2>0, <3>4 DEF LinesPoint
        <5> QED
          BY <5>1, <5>2, <3>3, <1>1
      <4> QED
        BY <4>1, <4>2, <3>1, <3>3, <1>1 DEF LinesPoint
    <3>7. Len(data[writer.date]) \in Nat /\ Len(data'[writer.date]) = Len(data[writer.date]) + 1
          /\ data'[writer.date][Len(data[writer.date]) + 1] = flying["data"]
          /\ \A i \in 1..Len(data[writer.date]) : data'[writer.date][i] = data[writer.date][i]
      BY <3>2, <2>0, <1>t, <1>2, <2>1
    <3>8. Ahead' = Ahead /\ Ahead = Len(data[writer.date]) + 1
      BY <3>3, <3>7, <1>1 DEF Ahead
    <3>9. Current'
      BY <2>0, <1>1 DEF Current, Old
    <3>10. Landed => Landed'
      BY <3>7, <1>1 DEF Landed
    <3>11. worker.pc = "write" /\ worker.op = 2 /\ flying["data"] = Record(batch[worker.i]) => Landed'
      <4> SUFFICES ASSUME worker.pc = "write", worker.op = 2, flying["data"] = Record(batch[worker.i])
                   PROVE  Landed'
        OBVIOUS
      <4>1. writer.offset \in Nat
        BY DEF IInv, Types
      <4>2. Ahead = writer.offset + 1
        BY <2>0 DEF Position
      <4>3. writer.offset = Len(data[writer.date])
        BY <4>1, <4>2, <3>8, <3>7
      <4> QED
        BY <4>3, <3>7, <1>1 DEF Landed
    <3>12. Position'
      BY <2>0, <3>3, <3>8, <3>9, <3>10, <3>11, <1>1 DEF Position
    <3> QED
      BY <3>5, <3>6, <3>12, <1>1, <1>9 DEF IInv, FilesSound, Unbroken
  <2>2. CASE f = "index"
    <3>1. data' = data /\ index' = [index EXCEPT ![writer.date] = @ \o <<flying["index"]>>]
      BY <2>2, <1>1 DEF Grow
    <3>2. /\ index'[writer.date] = Append(index[writer.date], flying["index"])
          /\ \A d \in Days \ {writer.date} : index'[d] = index[d]
      BY <3>1, <2>0, <1>t, <1>2, <2>2
    <3>3. flying'["index"] = NoCell /\ flying'["data"] = flying["data"]
      BY <2>2, <1>1, <1>t
    <3>4. ReadersPoint' /\ TasksPoint'
      BY <3>1, <1>1, <1>9, OthersStay DEF memory, ghosts
    <3>a. /\ Len(index[writer.date]) \in Nat
          /\ Len(index'[writer.date]) = Len(index[writer.date]) + 1
          /\ index'[writer.date][Len(index[writer.date]) + 1] = flying["index"]
          /\ \A i \in 1..Len(index[writer.date]) : index'[writer.date][i] = index[writer.date][i]
      BY <3>2, <2>0, <1>t, <1>2, <2>2
    <3>5. LinesPoint'
      <4>1. ASSUME NEW d \in Days, NEW i \in 1..Len(index'[d]), index'[d][i].tag = "line"
            PROVE  Points(d, index'[d][i].key, index'[d][i].n)
        <5>1. CASE d = writer.date /\ i = Len(index[d]) + 1
          <6>1. index'[d][i] = flying["index"]
            BY <5>1, <3>a
          <6> QED
            BY <6>1, <5>1, <4>1, <2>0 DEF LinesPoint
        <5>2. CASE ~(d = writer.date /\ i = Len(index[d]) + 1)
          <6>1. i \in 1..Len(index[d]) /\ index'[d][i] = index[d][i]
            <7>1. CASE d = writer.date
              <8>1. i \in 1..Len(index[d]) + 1 /\ i # Len(index[d]) + 1
                BY <5>2, <7>1, <3>a
              <8>2. i \in 1..Len(index[d])
                BY <8>1, <7>1, <3>a
              <8> QED
                BY <8>2, <7>1, <3>a
            <7>2. CASE d # writer.date
              BY <7>2, <3>2
            <7> QED
              BY <7>1, <7>2
          <6> QED
            BY <6>1, <4>1, <2>0 DEF LinesPoint
        <5> QED
          BY <5>1, <5>2
      <4>2. ASSUME NEW d \in Days, NEW i \in 1..Len(index'[d]), index'[d][i].tag = "line"
            PROVE  Points(d, index[d][i].key, index[d][i].n)'
        <5>1. PICK k, o : k = index'[d][i].key /\ o = index'[d][i].n
          OBVIOUS
        <5>2. Points(d, k, o)
          BY <5>1, <4>1, <4>2
        <5>3. Points(d, k, o)'
          BY <5>2, <3>1, <1>1 DEF Points, Old
        <5> QED
          BY <5>1, <5>3
      <4>3. ~(flying'["index"].tag = "line")
        BY <3>3 DEF NoCell, Cell
      <4> QED
        BY <4>2, <4>3 DEF LinesPoint
    <3>6. Position'
      BY <2>0, <3>1, <3>3, <1>1 DEF Position, Current, Old, Ahead, Landed
    <3> QED
      BY <3>4, <3>5, <3>6, <1>1, <1>9 DEF IInv, FilesSound, Unbroken, ghosts
  <2> QED
    BY <2>1, <2>2
<1> QED
  BY <1>1, <1>5, <1>7, <1>8, <1>9 DEF IInv, ghosts

\* The part of a cell that a failed write leaves spoils nothing but places.
LEMMA WriteBreaksKeeps ==
    ASSUME IInv, NEW f \in {"data", "index"}, WriteBreaks(f)
    PROVE  IInv'
<1>1. /\ faults < MaxFaults /\ flying[f] # NoCell
      /\ Grow(f, <<>>) \/ Grow(f, <<Torn>>)
      /\ flying' = [flying EXCEPT ![f] = NoCell] /\ broken' = [broken EXCEPT ![f] = TRUE]
      /\ faults' = faults + 1 /\ harm' = "write"
      /\ UNCHANGED <<today, memory, queue, batch, worker, writer, tasks, saved, confirmed>>
  BY DEF WriteBreaks
<1>t. /\ flying \in [{"data", "index"} -> Cells] /\ data \in [Days -> Seq(Cells)]
      /\ index \in [Days -> Seq(Cells)] /\ NoCell \in Cells /\ Torn \in Cells
      /\ broken \in [{"data", "index"} -> BOOLEAN]
  BY DEF IInv, Types, NoCell, Torn, Cell, Cells
<1>2. flying' \in [{"data", "index"} -> Cells] /\ broken' \in [{"data", "index"} -> BOOLEAN]
  BY <1>1, <1>t
<1>3. /\ data' \in [Days -> Seq(Cells)] /\ index' \in [Days -> Seq(Cells)]
      /\ \A d \in Days : \A i \in 1..Len(data'[d]) : SavedCell(data'[d][i])
  <2>1. CASE Grow(f, <<Torn>>)
    <3>1. SavedCell(Torn)
      BY DEF SavedCell, Torn, Cell
    <3> QED
      BY <2>1, <3>1, <1>1, <1>t, GrowthKeeps
  <2>2. CASE Grow(f, <<>>)
    <3>1. \A s \in Seq(Cells) : s \o <<>> = s
      OBVIOUS
    <3>2. data' = data /\ index' = index
      BY <2>2, <3>1, <1>t DEF Grow
    <3> QED
      BY <3>2, <1>t DEF IInv, EntriesSaved
  <2> QED
    BY <2>1, <2>2, <1>1
<1>4. faults' \in 0..MaxFaults
  BY <1>1, SignatureAssumption DEF IInv, Types, TypeOK
<1>5. Types' /\ BatchFits'
  BY <1>1, <1>2, <1>3, <1>4 DEF IInv, Types, TypeOK, BatchFits, memory
<1>6. SavedCell(flying'["data"])
  BY <1>1, <1>t DEF IInv, EntriesSaved, SavedCell, NoCell, Cell
<1>7. EntriesSaved'
  BY <1>1, <1>3, <1>6 DEF IInv, EntriesSaved, IsSaved, SavedCell, memory
<1>8. TasksSound'
  BY <1>1 DEF IInv, TasksSound, TaskSound, IsSaved
<1> QED
  BY <1>1, <1>5, <1>7, <1>8 DEF IInv

\* The lines of the index files keep leading to records when offsets do.
LEMMA LinesStay ==
    ASSUME IInv, harm # "write", UNCHANGED <<writer, flying>>,
           flying["index"].tag = "line" => writer.date \in Days,
           \A d \in Days : \A k, o : Points(d, k, o) => Points(d, k, o)',
           \A d \in Days : index'[d] = index[d] \/ index'[d] = <<>>
    PROVE  LinesPoint'
<1>1. ASSUME NEW d \in Days, NEW i \in 1..Len(index'[d]), index'[d][i].tag = "line"
      PROVE  Points(d, index[d][i].key, index[d][i].n)'
  <2>1. index'[d] = index[d]
    BY <1>1
  <2>2. PICK k, o : k = index'[d][i].key /\ o = index'[d][i].n
    OBVIOUS
  <2>3. Points(d, k, o)
    BY <2>1, <2>2, <1>1 DEF IInv, FilesSound, LinesPoint
  <2>4. Points(d, k, o)'
    BY <2>3
  <2> QED
    BY <2>2, <2>4
<1>2. ASSUME flying'["index"].tag = "line"
      PROVE  Points(writer.date, flying["index"].key, flying["index"].n)'
  <2>d. PICK d \in Days : d = writer.date
    BY <1>2
  <2>k. PICK k, o : k = flying["index"].key /\ o = flying["index"].n
    OBVIOUS
  <2>1. d = writer.date /\ k = flying["index"].key /\ o = flying["index"].n
    BY <2>d, <2>k
  <2>2. Points(d, k, o)
    BY <2>1, <1>2 DEF IInv, FilesSound, LinesPoint
  <2>3. Points(d, k, o)'
    BY <2>2
  <2>4. d = writer'.date /\ k = flying'["index"].key /\ o = flying'["index"].n
    BY <2>1
  <2> QED
    BY <2>3, <2>4
<1> QED
  BY <1>1, <1>2 DEF LinesPoint

\* Nothing lands in the files of a day that the clean-up may remove.
LEMMA NextDayKeeps == ASSUME IInv, NextDay PROVE IInv'
<1>1. PICK n \in Gaps :
        /\ today = 1 /\ today' = today + n
        /\ n = 1 \/ (worker.pc = "idle" /\ \A f \in DOMAIN flying : flying[f] = NoCell)
        /\ UNCHANGED <<memory, queue, batch, worker, writer, files, tasks, faults, ghosts>>
  BY DEF NextDay
<1>2. n \in {1, 2} /\ today' \in Days /\ today \in Days /\ today <= today'
  BY <1>1, SignatureAssumption DEF Days
<1>3. Types' /\ BatchFits'
  BY <1>1, <1>2 DEF IInv, Types, TypeOK, BatchFits, memory, files, ghosts
<1>4. EntriesSaved' /\ TasksSound'
  BY <1>1 DEF IInv, EntriesSaved, IsSaved, SavedCell, TasksSound, TaskSound, memory, files, ghosts
<1>5. ASSUME harm # "write"
      PROVE  FilesSound'
  <2>1. \A d \in Days : Old(d) => Old(d)'
    BY <1>2, AgeGrows
  <2>2. \A d \in Days : \A k, o : Points(d, k, o) => Points(d, k, o)'
    BY <2>1, <1>1 DEF Points, files
  <2>3. ReadersPoint' /\ TasksPoint'
    BY <2>2, <1>1, <1>5, OffsetsStay DEF memory
  <2>4. /\ Position /\ (flying["index"].tag = "line" => flying["index"] # NoCell)
    BY <1>5 DEF IInv, FilesSound, NoCell, Cell
  <2>5. LinesPoint'
    <3>1. flying["index"].tag = "line" => writer.date \in Days
      BY <2>4 DEF Position, Current
    <3> QED
      BY <3>1, <2>2, <1>1, <1>5, LinesStay DEF files
  <2>6. worker.pc = "write" \/ flying["data"] # NoCell \/ flying["index"] # NoCell => Current'
    <3> SUFFICES ASSUME worker.pc = "write" \/ flying["data"] # NoCell \/ flying["index"] # NoCell
                 PROVE  Current'
      OBVIOUS
    <3>1. n = 1 /\ today' = 2
      BY <1>1 DEF IInv, Types
    <3>2. PICK w \in Days : w = writer.date
      BY <2>4 DEF Position, Current
    <3>3. w \in 1..3
      BY DaysTyped
    <3>4. KeptDays \in Nat /\ KeptDays >= 2 /\ KeptDays' = KeptDays
      BY SignatureAssumption DEF KeptDays
    <3>5. ~(2 - w >= KeptDays)
      BY <3>3, <3>4
    <3>6. ~Old(w)'
      BY <3>1, <3>5 DEF Old, KeptDays
    <3> QED
      BY <3>2, <3>6, <1>1 DEF Current, Old
  <2>7. Current' => Current
    BY <2>1, <1>1 DEF Current, Old
  <2>8. Position'
    BY <2>4, <2>6, <2>7, <1>1 DEF Position, Ahead, Landed, files
  <2> QED
    BY <2>3, <2>5, <2>8, <1>1, <1>5 DEF IInv, FilesSound, Unbroken, files
<1> QED
  BY <1>1, <1>3, <1>4, <1>5 DEF IInv, ghosts

LEMMA CleanUpKeeps ==
    ASSUME IInv, NEW f \in {"data", "index"}, NEW d \in Days, CleanUp(d, f)
    PROVE  IInv'
<1>1. /\ Old(d)
      /\ \/ data' = [data EXCEPT ![d] = <<>>] /\ index' = index
         \/ index' = [index EXCEPT ![d] = <<>>] /\ data' = data
      /\ UNCHANGED <<today, memory, queue, batch, worker, writer, flying, broken, tasks, faults,
                     ghosts>>
  BY DEF CleanUp
<1>t. data \in [Days -> Seq(Cells)] /\ index \in [Days -> Seq(Cells)]
  BY DEF IInv, Types
<1>2. /\ data' \in [Days -> Seq(Cells)] /\ index' \in [Days -> Seq(Cells)]
      /\ \A e \in Days : data'[e] = data[e] \/ (e = d /\ data'[e] = <<>>)
      /\ \A e \in Days : index'[e] = index[e] \/ index'[e] = <<>>
  <2>1. <<>> \in Seq(Cells)
    OBVIOUS
  <2> QED
    BY <2>1, <1>1, <1>t
<1>3. Types' /\ BatchFits'
  BY <1>1, <1>2 DEF IInv, Types, TypeOK, BatchFits, memory, ghosts
<1>4. EntriesSaved'
  <2>1. \A e \in Days : \A i \in 1..Len(data'[e]) : SavedCell(data'[e][i])
    BY <1>2 DEF IInv, EntriesSaved
  <2> QED
    BY <2>1, <1>1 DEF IInv, EntriesSaved, IsSaved, SavedCell, memory, ghosts
<1>5. TasksSound'
  BY <1>1 DEF IInv, TasksSound, TaskSound, IsSaved, ghosts
<1>6. ASSUME harm # "write"
      PROVE  FilesSound'
  <2>1. \A e \in Days : \A k, o : Points(e, k, o) => Points(e, k, o)'
    <3> SUFFICES ASSUME NEW e \in Days, NEW k, NEW o, Points(e, k, o)
                 PROVE  Points(e, k, o)'
      OBVIOUS
    <3>1. Old(e)' <=> Old(e)
      BY <1>1 DEF Old
    <3>2. data'[e] = data[e] \/ (Old(e)' /\ data'[e] = <<>>)
      BY <3>1, <1>1, <1>2
    <3>3. data[e] \in Seq(Cells)
      BY <1>t
    <3> QED
      BY <3>1, <3>2, <3>3, StillPoints
  <2>2. ReadersPoint' /\ TasksPoint'
    BY <2>1, <1>1, <1>6, OffsetsStay DEF memory
  <2>3. /\ Position /\ (flying["index"].tag = "line" => flying["index"] # NoCell)
    BY <1>6 DEF IInv, FilesSound, NoCell, Cell
  <2>4. LinesPoint'
    <3>1. flying["index"].tag = "line" => writer.date \in Days
      BY <2>3 DEF Position, Current
    <3> QED
      BY <3>1, <2>1, <1>1, <1>2, <1>6, LinesStay
  <2>5. Current' <=> Current
    BY <1>1 DEF Current, Old
  <2>6. Current => data'[writer.date] = data[writer.date]
    BY <1>1, <1>2 DEF Current
  <2>7. Position'
    BY <2>3, <2>5, <2>6, <1>1 DEF Position, Ahead, Landed
  <2> QED
    BY <2>2, <2>4, <2>7, <1>1, <1>6 DEF IInv, FilesSound, Unbroken
<1> QED
  BY <1>1, <1>3, <1>4, <1>5, <1>6 DEF IInv, ghosts

LEMMA ReloadedTyped == ASSUME NEW k \in Keys PROVE Reloaded(k) \in {Absent} \cup Days
<1> DEFINE days == {d \in Recent : Parsed(index[d])[k] # NoOffset}
           last == CHOOSE d \in days : \A e \in days : e <= d
<1>1. Reloaded(k) = IF days = {} THEN Absent ELSE last
  BY Zenon DEF Reloaded
<1>2. days \subseteq Days
  BY DEF Recent
<1>3. days \in SUBSET (1..3)
  BY <1>2, DaysTyped
<1> HIDE DEF days
<1>4. ASSUME days # {}
      PROVE  last \in days
  <2>1. 3 \in Nat
    OBVIOUS
  <2>2. \E d \in days : \A e \in days : e <= d
    BY <2>1, <1>3, <1>4, Greatest, Zenon
  <2> QED
    BY <2>2
<1> QED
  BY <1>1, <1>2, <1>4

LEMMA RestartKeeps == ASSUME IInv, Restart PROVE IInv'
<1>1. /\ faults < MaxFaults /\ faults' = faults + 1
      /\ cache' = [k \in Keys |-> Reloaded(k)] /\ hot' = [k \in Keys |-> 0]
      /\ readers' = [d \in Days |-> [k \in Keys |-> NoOffset]]
      /\ queue' = <<>> /\ batch' = <<>> /\ worker' = IdleWorker /\ writer' = NoWriter
      /\ flying' = [f \in DOMAIN flying |-> NoCell]
      /\ broken' = [f \in DOMAIN broken |-> FALSE]
      /\ tasks' = [t \in Tasks |-> IdleTask]
      /\ harm' = harm \/ (harm = "none" /\ harm' = "restart")
      /\ UNCHANGED <<today, data, index, saved, confirmed>>
  BY DEF Restart
<1>2. /\ NoCell \in Cells /\ NoCell.tag = "none" /\ 1 \in Days
      /\ DOMAIN flying = {"data", "index"} /\ DOMAIN broken = {"data", "index"}
  BY DEF NoCell, Cell, Cells, Days, IInv, Types
<1>3. flying' \in [{"data", "index"} -> Cells] /\ broken' \in [{"data", "index"} -> BOOLEAN]
  BY <1>1, <1>2
<1>4. /\ worker' \in WorkerRecords /\ writer' \in [date : {0} \cup Days, offset : Nat]
      /\ worker'.pc = "idle" /\ worker'.date \in Days /\ worker'.i \in 1..BATCH_SIZE
      /\ worker'.op \in 1..4
  BY <1>1, <1>2, SignatureAssumption DEF WorkerRecords, IdleWorker, NoWriter
<1>5. cache' \in [Keys -> {Absent, Hot} \cup Days]
  BY <1>1, ReloadedTyped
<1>6. hot' \in [Keys -> 0..MaxVersion] /\ \A k \in Keys : hot'[k] <= saved[k]
  <2>1. PICK zero \in 0..MaxVersion : zero = 0
    BY SignatureAssumption
  <2>2. hot' = [k \in Keys |-> zero]
    BY <2>1, <1>1
  <2>3. \A k \in Keys : saved[k] \in Nat
    BY DEF IInv, Types
  <2> QED
    BY <2>1, <2>2, <2>3
<1>7. readers' \in [Days -> [Keys -> Offsets]]
  BY <1>1 DEF Offsets
<1>8. faults' \in 0..MaxFaults /\ harm' \in {"none", "restart", "write"}
  BY <1>1, SignatureAssumption DEF IInv, Types, TypeOK
<1>9. Types' /\ BatchFits'
  <2>1. Len(queue') = 0 /\ Len(batch') = 0 /\ queue' \in Seq(Entries) /\ batch' \in Seq(Entries)
    BY <1>1
  <2>2. 0 <= QUEUE_CAPACITY /\ 0 < BATCH_SIZE
    BY SignatureAssumption
  <2>3. Len(queue') <= QUEUE_CAPACITY /\ Len(batch') <= BATCH_SIZE /\ Len(batch') < BATCH_SIZE
    BY <2>1, <2>2, SignatureAssumption
  <2>4. today' \in Days /\ writer'.date \in {0} \cup Days /\ writer'.offset \in Nat
    BY <1>1, <1>4 DEF IInv, Types, TypeOK, NoWriter
  <2>5. TypeOK'
    BY <2>3, <2>4, <1>4, <1>5, <1>6, <1>8 DEF TypeOK
  <2> QED
    BY <2>1, <2>3, <2>5, <1>1, <1>3, <1>4, <1>7 DEF IInv, Types, BatchFits
<1>10. EntriesSaved'
  <2>1. Len(queue') = 0 /\ Len(batch') = 0
    BY <1>1
  <2>2. SavedCell(flying'["data"])
    BY <1>1, <1>2 DEF SavedCell
  <2>3. \A d \in Days : \A i \in 1..Len(data'[d]) : SavedCell(data'[d][i])
    BY <1>1 DEF IInv, EntriesSaved
  <2> QED
    BY <2>1, <2>2, <2>3, <1>1, <1>6 DEF EntriesSaved, SavedCell
<1>11. TasksSound' /\ TasksPoint'
  BY <1>1, IdleIsSound DEF TasksSound, TasksPoint, TaskSound, TaskPoints, IdleTask, NoEntry,
     Saving, Asking, Locating, Answering
<1>12. ASSUME harm' # "write"
       PROVE  FilesSound'
  <2>1. harm # "write"
    BY <1>1, <1>12
  <2>2. \A d \in Days : \A k, o : Points(d, k, o) => Points(d, k, o)'
    BY <1>1 DEF Points, Old
  <2>3. LinesPoint'
    <3>1. flying'["index"].tag # "line"
      BY <1>1, <1>2
    <3>2. \A d \in Days : \A i \in 1..Len(index'[d]) :
            index'[d][i].tag = "line" => Points(d, index[d][i].key, index[d][i].n)'
      BY <2>1, <1>1 DEF IInv, FilesSound, LinesPoint, Points, Old
    <3> QED
      BY <3>1, <3>2 DEF LinesPoint
  <2>4. ReadersPoint'
    BY <1>1 DEF ReadersPoint, PointsAll
  <2>5. ~Current'
    BY <1>1, DaysTyped DEF Current, NoWriter
  <2>6. Position'
    BY <2>5, <1>1, <1>2, <1>4 DEF Position
  <2>7. Unbroken'
    BY <1>1, <1>2 DEF Unbroken
  <2> QED
    BY <2>3, <2>4, <2>6, <2>7, <1>11 DEF FilesSound
<1> QED
  BY <1>9, <1>10, <1>11, <1>12 DEF IInv

-----------------------------------------------------------------------------
(* The entries that stay: what holds as long as no write has failed and no *)
(* restart has interrupted a flush                                         *)

\* Every line of an index file is one that the parser accepts, and the file
\* ends with a newline unless one is about to be written.
WholeLines(cells) == \A i \in 1..Len(cells) : cells[i].tag = "line" => i \in Lines(cells)
EndsLine(cells) == cells = <<>> \/ cells[Len(cells)] = NL
NextLine == IndexLine(batch[worker.i].key, writer.offset)
HalfWay == worker.pc = "write" /\ worker.op = 4

IndexWhole ==
    /\ \A d \in Days : WholeLines(index[d])
    /\ \A d \in Days :
          \/ EndsLine(index[d])
          \/ d = writer.date /\ flying["index"] = NL
          \/ d = writer.date /\ HalfWay /\ flying["index"] = NoCell
    /\ \/ flying["index"] \in {NoCell, NL}
       \/ HalfWay /\ flying["index"] = NextLine /\ EndsLine(index[writer.date])
    /\ HalfWay =>
          \/ flying["index"] = NextLine
          \/ /\ flying["index"] = NoCell
             /\ index[writer.date] # <<>>
             /\ index[writer.date][Len(index[writer.date])] = NextLine

\* A day's files have a version of the key, this one or a newer one.
Held(d, k, v) ==
    /\ Parsed(index[d])[k] # NoOffset
    /\ k \notin overtaken => At(d, Parsed(index[d])[k]).n >= v

\* Of two entries of a key the first is not the newer one.
Follows(e, f) == e.key = f.key /\ e.key \notin overtaken => e.ver <= f.ver

InOrder ==
    /\ \A i, j \in 1..Len(queue) : i <= j => Follows(queue[i], queue[j])
    /\ \A i, j \in 1..Len(batch) : i <= j => Follows(batch[i], batch[j])
    /\ \A i \in 1..Len(batch) : \A j \in 1..Len(queue) : Follows(batch[i], queue[j])

\* What is confirmed was saved, is not newer than what is still to be
\* confirmed, and is in the files.
Unconfirmed(j) == worker.pc \in {"idle", "write"} \/ j >= worker.i
Confirmations ==
    /\ confirmed \in [Keys -> [date : {0} \cup Days, ver : 0..MaxVersion]]
    /\ \A k \in Keys : confirmed[k].ver <= saved[k]
    /\ \A k \in Keys : confirmed[k].ver # 0 => confirmed[k].date \in Days
    /\ \A k \in Keys \ overtaken : \A j \in 1..Len(queue) :
          queue[j].key = k => confirmed[k].ver <= queue[j].ver
    /\ \A k \in Keys \ overtaken : \A j \in 1..Len(batch) :
          batch[j].key = k /\ Unconfirmed(j) => confirmed[k].ver <= batch[j].ver
ConfirmedHeld ==
    \A k \in Keys : confirmed[k].ver # 0 /\ ~Old(confirmed[k].date) =>
        Held(confirmed[k].date, k, confirmed[k].ver)

\* So is what the worker has written and not confirmed yet.
OnDisk(j) ==
    \/ worker.pc = "write" /\ j < worker.i
    \/ worker.pc \in {"index", "evict"} /\ j >= worker.i
FlushHeld ==
    /\ worker.pc # "idle" => worker.date = writer.date /\ Current
    /\ \A j \in 1..Len(batch) : OnDisk(j) => Held(worker.date, batch[j].key, batch[j].ver)

Kept == IndexWhole /\ InOrder /\ Confirmations /\ ConfirmedHeld /\ FlushHeld

\* A line of a day that is not being cleaned up leads to a record of its key.
LEMMA LinesLead ==
    ASSUME IInv, harm # "write", NEW d \in Days, NEW k \in Keys,
           ~Old(d), Parsed(index[d])[k] # NoOffset
    PROVE  Readable(d, k) # 0 /\ Readable(d, k) = At(d, Parsed(index[d])[k]).n
<1> DEFINE o == Parsed(index[d])[k]
<1>1. Points(d, k, o)
  BY ParsedPoints DEF PointsAll
<1> HIDE DEF o
<1>2. /\ o + 1 \in 1..Len(data[d])
      /\ data[d][o + 1].tag = "record" /\ data[d][o + 1].key = k
  BY <1>1 DEF Points
<1>3. SavedCell(data[d][o + 1]) /\ data[d] \in Seq(Cells)
  BY <1>2 DEF IInv, EntriesSaved, Types
<1>4. saved[k] \in Nat /\ data[d][o + 1].n \in 1..saved[k]
  BY <1>2, <1>3 DEF SavedCell, IInv, Types
<1>5. At(d, o) = data[d][o + 1]
  BY <1>2, <1>3 DEF At
<1>6. o # NoOffset
  BY DEF o
<1>7. Readable(d, k) = At(d, o).n
  BY <1>2, <1>5, <1>6 DEF Readable, o
<1> QED
  BY <1>4, <1>5, <1>7 DEF o

-----------------------------------------------------------------------------
(* Index files that grow *)

LinesOf(cells, k) == {i \in Lines(cells) : cells[i].key = k}

LEMMA LinesOfTyped ==
    ASSUME NEW cells \in Seq(Cells), NEW k
    PROVE  LinesOf(cells, k) \in SUBSET (1..Len(cells))
BY DEF LinesOf, Lines

\* The parser takes the last line of a key.
LEMMA ParsedLast ==
    ASSUME NEW cells \in Seq(Cells), NEW k \in Keys,
           NEW i \in LinesOf(cells, k), \A j \in LinesOf(cells, k) : j <= i
    PROVE  Parsed(cells)[k] = cells[i].n
<1> DEFINE mine == LinesOf(cells, k)
           last == CHOOSE l \in mine : \A j \in mine : j <= l
<1>1. Parsed(cells)[k] = IF mine = {} THEN NoOffset ELSE cells[last].n
  BY Zenon DEF Parsed, LinesOf
<1>2. last \in mine /\ \A j \in mine : j <= last
  BY Zenon
<1>3. last \in Nat /\ i \in Nat
  BY <1>2, LinesOfTyped
<1> HIDE DEF last
<1>4. last = i
  BY <1>2, <1>3
<1> QED
  BY <1>1, <1>4

LEMMA ParsedNone ==
    ASSUME NEW cells \in Seq(Cells), NEW k \in Keys, LinesOf(cells, k) = {}
    PROVE  Parsed(cells)[k] = NoOffset
BY Zenon DEF Parsed, LinesOf

\* Cells that are added do not change what is parsed of keys whose lines stay.
LEMMA ParsedStays ==
    ASSUME NEW cells \in Seq(Cells), NEW more \in Seq(Cells), NEW k \in Keys,
           LinesOf(more, k) = LinesOf(cells, k),
           \A i \in 1..Len(cells) : more[i] = cells[i]
    PROVE  Parsed(more)[k] = Parsed(cells)[k]
<1>1. CASE LinesOf(cells, k) = {}
  BY <1>1, ParsedNone
<1>2. CASE LinesOf(cells, k) # {}
  <2>l. Len(cells) \in Nat
    OBVIOUS
  <2>1. PICK i \in LinesOf(cells, k) : \A j \in LinesOf(cells, k) : j <= i
    BY <2>l, <1>2, LinesOfTyped, Greatest, Zenon
  <2>2. Parsed(cells)[k] = cells[i].n /\ Parsed(more)[k] = more[i].n
    BY <2>1, ParsedLast
  <2>3. i \in 1..Len(cells)
    BY LinesOfTyped
  <2> QED
    BY <2>2, <2>3
<1> QED
  BY <1>1, <1>2

\* A line after the end of a line.
LEMMA AddLine ==
    ASSUME NEW cells \in Seq(Cells), WholeLines(cells), EndsLine(cells),
           NEW c \in Cells, c.tag = "line"
    PROVE  /\ WholeLines(Append(cells, c))
           /\ c.key \in Keys => Parsed(Append(cells, c))[c.key] = c.n
           /\ \A k \in Keys : k # c.key => Parsed(Append(cells, c))[k] = Parsed(cells)[k]
<1> DEFINE n == Len(cells)
           more == Append(cells, c)
<1>1. /\ n \in Nat /\ more \in Seq(Cells) /\ Len(more) = n + 1 /\ more[n + 1] = c
      /\ \A i \in 1..n : more[i] = cells[i]
  OBVIOUS
<1>2. n = 0 \/ cells[n] = NL
  BY DEF EndsLine
<1>3. NL.tag # "line"
  BY DEF NL, Cell
<1> HIDE DEF more
<1>4. n + 1 \in Lines(more)
  BY <1>1, <1>2 DEF Lines
<1>5. \A i \in 1..n : i \in Lines(more) <=> i \in Lines(cells)
  <2> SUFFICES ASSUME NEW i \in 1..n
               PROVE  i \in Lines(more) <=> i \in Lines(cells)
    OBVIOUS
  <2>1. CASE i = n
    BY <2>1, <1>1, <1>2, <1>3 DEF Lines
  <2>2. CASE i # n
    <3>1. i + 1 \in 1..n /\ (i = 1 \/ i - 1 \in 1..n) /\ i # n + 1
      BY <2>2, <1>1
    <3>2. more[i] = cells[i] /\ more[i + 1] = cells[i + 1] /\ (i = 1 \/ more[i - 1] = cells[i - 1])
      BY <3>1, <1>1
    <3> QED
      BY <3>1, <3>2, <2>2, <1>1 DEF Lines
  <2> QED
    BY <2>1, <2>2
<1>6. WholeLines(more)
  <2> SUFFICES ASSUME NEW i \in 1..(n + 1), more[i].tag = "line"
               PROVE  i \in Lines(more)
    BY <1>1 DEF WholeLines
  <2>1. CASE i = n + 1
    BY <2>1, <1>4
  <2>2. CASE i # n + 1
    <3>1. i \in 1..n
      BY <2>2, <1>1
    <3> QED
      BY <3>1, <1>1, <1>5 DEF WholeLines
  <2> QED
    BY <2>1, <2>2
<1>7. ASSUME c.key \in Keys
      PROVE  Parsed(more)[c.key] = c.n
  <2>1. n + 1 \in LinesOf(more, c.key)
    BY <1>1, <1>4 DEF LinesOf
  <2>2. \A j \in LinesOf(more, c.key) : j <= n + 1
    BY <1>1, LinesOfTyped
  <2> QED
    BY <2>1, <2>2, <1>1, <1>7, ParsedLast
<1>8. ASSUME NEW k \in Keys, k # c.key
      PROVE  Parsed(more)[k] = Parsed(cells)[k]
  <2>1. \A i : i \in LinesOf(more, k) => i \in LinesOf(cells, k)
    <3> SUFFICES ASSUME NEW i \in LinesOf(more, k)
                 PROVE  i \in LinesOf(cells, k)
      OBVIOUS
    <3>1. i \in 1..(n + 1) /\ i \in Lines(more) /\ more[i].key = k
      BY <1>1, LinesOfTyped DEF LinesOf
    <3>2. i \in 1..n
      BY <3>1, <1>1, <1>8
    <3> QED
      BY <3>1, <3>2, <1>1, <1>5 DEF LinesOf
  <2>2. \A i : i \in LinesOf(cells, k) => i \in LinesOf(more, k)
    BY <1>1, <1>5, LinesOfTyped DEF LinesOf
  <2>3. LinesOf(more, k) = LinesOf(cells, k)
    BY <2>1, <2>2
  <2> QED
    BY <2>3, <1>1, ParsedStays
<1> QED
  BY <1>6, <1>7, <1>8 DEF more

\* A newline is what every line may be followed by.
LEMMA AddNewline ==
    ASSUME NEW cells \in Seq(Cells), WholeLines(cells)
    PROVE  /\ WholeLines(Append(cells, NL)) /\ EndsLine(Append(cells, NL))
           /\ \A k \in Keys : Parsed(Append(cells, NL))[k] = Parsed(cells)[k]
<1> DEFINE n == Len(cells)
           more == Append(cells, NL)
<1>0. NL \in Cells /\ NL.tag # "line"
  BY DEF NL, Cell, Cells
<1>1. /\ n \in Nat /\ more \in Seq(Cells) /\ Len(more) = n + 1 /\ more[n + 1] = NL
      /\ \A i \in 1..n : more[i] = cells[i]
  BY <1>0
<1>2. EndsLine(more)
  BY <1>1 DEF EndsLine
<1> HIDE DEF more
<1>3. \A i \in 1..n : cells[i].tag = "line" => i \in Lines(more) /\ i \in Lines(cells)
  <2> SUFFICES ASSUME NEW i \in 1..n, cells[i].tag = "line"
               PROVE  i \in Lines(more) /\ i \in Lines(cells)
    OBVIOUS
  <2>1. i \in Lines(cells)
    BY DEF WholeLines
  <2>2. /\ i = 1 \/ cells[i - 1] = NL
        /\ i = n \/ cells[i + 1] = NL
    BY <2>1 DEF Lines
  <2>3. i = 1 \/ more[i - 1] = NL
    BY <2>2, <1>1
  <2>4. more[i + 1] = NL
    BY <2>2, <1>1
  <2> QED
    BY <2>1, <2>3, <2>4, <1>1 DEF Lines
<1>4. WholeLines(more)
  <2> SUFFICES ASSUME NEW i \in 1..(n + 1), more[i].tag = "line"
               PROVE  i \in Lines(more)
    BY <1>1 DEF WholeLines
  <2>1. i \in 1..n
    BY <1>0, <1>1
  <2> QED
    BY <2>1, <1>1, <1>3
<1>5. ASSUME NEW k \in Keys
      PROVE  Parsed(more)[k] = Parsed(cells)[k]
  <2>1. \A i : i \in LinesOf(more, k) => i \in LinesOf(cells, k)
    <3> SUFFICES ASSUME NEW i \in LinesOf(more, k)
                 PROVE  i \in LinesOf(cells, k)
      OBVIOUS
    <3>1. i \in 1..(n + 1) /\ i \in Lines(more) /\ more[i].key = k /\ more[i].tag = "line"
      BY <1>1, LinesOfTyped DEF LinesOf, Lines
    <3>2. i \in 1..n
      BY <3>1, <1>0, <1>1
    <3> QED
      BY <3>1, <3>2, <1>1, <1>3 DEF LinesOf
  <2>2. \A i : i \in LinesOf(cells, k) => i \in LinesOf(more, k)
    BY <1>1, <1>3, LinesOfTyped DEF LinesOf, Lines
  <2>3. LinesOf(more, k) = LinesOf(cells, k)
    BY <2>1, <2>2
  <2> QED
    BY <2>3, <1>1, ParsedStays
<1> QED
  BY <1>2, <1>4, <1>5 DEF more

-----------------------------------------------------------------------------
(* Days whose files keep what they have *)

LEMMA HeldStays ==
    ASSUME IInv, harm # "write", NEW d \in Days, ~Old(d), NEW k \in Keys, NEW v, Held(d, k, v),
           index'[d] = index[d],
           data'[d] = data[d] \/ \E c \in Cells : data'[d] = Append(data[d], c),
           overtaken \subseteq overtaken'
    PROVE  Held(d, k, v)'
<1> DEFINE o == Parsed(index[d])[k]
<1>1. o # NoOffset /\ (k \notin overtaken => At(d, o).n >= v)
  BY DEF Held
<1>2. Points(d, k, o)
  BY <1>1, ParsedPoints DEF PointsAll
<1>3. o + 1 \in 1..Len(data[d]) /\ data[d] \in Seq(Cells)
  BY <1>2 DEF Points, IInv, Types
<1>4. Parsed(index'[d])[k] = o
  OBVIOUS
<1> HIDE DEF o
<1>5. /\ o + 1 \in 1..Len(data'[d]) /\ data'[d][o + 1] = data[d][o + 1]
      /\ data'[d] \in Seq(Cells)
  <2>1. CASE data'[d] = data[d]
    BY <2>1, <1>3
  <2>2. CASE \E c \in Cells : data'[d] = Append(data[d], c)
    <3>1. PICK c \in Cells : data'[d] = Append(data[d], c)
      BY <2>2
    <3> QED
      BY <3>1, <1>3
  <2> QED
    BY <2>1, <2>2
<1>7. data'[d][o + 1] = At(d, o) /\ o + 1 \in DOMAIN data'[d]
  BY <1>3, <1>5 DEF At
<1>8. k \notin overtaken' => data'[d][o + 1].n >= v
  BY <1>1, <1>7
<1>9. At(d, Parsed(index[d])[k])' = data'[d][o + 1]
  BY <1>4, <1>7 DEF At
<1> QED
  BY <1>1, <1>4, <1>8, <1>9 DEF Held

\* What is confirmed stays confirmed, on days whose files only grow.
LEMMA ConfirmedStay ==
    ASSUME IInv, harm # "write", Confirmations, ConfirmedHeld,
           UNCHANGED confirmed, overtaken \subseteq overtaken',
           \A d \in Days : Old(d) => Old(d)',
           \A d \in Days : ~Old(d) =>
              /\ index'[d] = index[d]
              /\ data'[d] = data[d] \/ \E c \in Cells : data'[d] = Append(data[d], c)
    PROVE  ConfirmedHeld'
<1> SUFFICES ASSUME NEW k \in Keys, confirmed'[k].ver # 0, ~Old(confirmed[k].date)'
             PROVE  Held(confirmed[k].date, k, confirmed[k].ver)'
  BY DEF ConfirmedHeld
<1>1. PICK d \in Days, v \in 0..MaxVersion : d = confirmed[k].date /\ v = confirmed[k].ver
  BY DEF Confirmations
<1>2. ~Old(d)'
  BY <1>1 DEF Old
<1>3. ~Old(d)
  BY <1>2
<1>4. Held(d, k, v)
  <2>1. ~Old(confirmed[k].date) /\ confirmed[k].ver # 0
    BY <1>1, <1>3 DEF Old
  <2>2. Held(confirmed[k].date, k, confirmed[k].ver)
    BY <2>1 DEF ConfirmedHeld
  <2> QED
    BY <2>2, <1>1 DEF Held, At
<1>5. Held(d, k, v)'
  BY <1>3, <1>4, HeldStays
<1>6. d = confirmed'[k].date /\ v = confirmed'[k].ver
  BY <1>1
<1> QED
  BY <1>5, <1>6 DEF Held, At

\* So does what the worker has written.
LEMMA WrittenStays ==
    ASSUME IInv, harm # "write", FlushHeld, overtaken \subseteq overtaken',
           worker.pc # "idle" =>
              /\ index'[worker.date] = index[worker.date]
              /\ \/ data'[worker.date] = data[worker.date]
                 \/ \E c \in Cells : data'[worker.date] = Append(data[worker.date], c),
           NEW j \in 1..Len(batch), OnDisk(j), worker'.date = worker.date, batch'[j] = batch[j]
    PROVE  Held(worker.date, batch[j].key, batch[j].ver)'
<1>1. worker.pc # "idle" /\ worker.date = writer.date /\ Current
  BY DEF OnDisk, FlushHeld
<1>2. PICK d \in Days : d = worker.date
  BY <1>1 DEF Current
<1>3. ~Old(d)
  BY <1>1, <1>2 DEF Current, Old
<1>4. PICK e \in Entries : e = batch[j]
  BY DEF IInv, Types
<1>5. PICK k \in Keys, v \in 1..MaxVersion : k = e.key /\ v = e.ver
  BY DEF Entries
<1>6. Held(d, k, v)
  <2>1. Held(worker.date, batch[j].key, batch[j].ver)
    BY DEF FlushHeld
  <2> QED
    BY <2>1, <1>2, <1>4, <1>5 DEF Held, At
<1>7. Held(d, k, v)'
  BY <1>1, <1>2, <1>3, <1>6, HeldStays
<1>8. d = worker'.date /\ k = batch'[j].key /\ v = batch'[j].ver
  BY <1>2, <1>4, <1>5
<1> QED
  BY <1>7, <1>8 DEF Held, At

-----------------------------------------------------------------------------
(* Tasks *)

\* Nothing but the tasks, the memory and what was saved changes.
LEMMA KeptStays ==
    ASSUME IInv, harm # "write", Kept,
           UNCHANGED <<today, queue, batch, worker, writer, data, index, flying, confirmed,
                       overtaken>>,
           saved \in [Keys -> Nat], saved' \in [Keys -> Nat],
           \A k \in Keys : saved[k] <= saved'[k]
    PROVE  Kept'
<1>1. IndexWhole'
  BY DEF Kept, IndexWhole, HalfWay, NextLine
<1>2. InOrder'
  BY DEF Kept, InOrder, Follows
<1>3. Confirmations'
  <2>1. \A k \in Keys : confirmed'[k].ver <= saved'[k]
    <3> SUFFICES ASSUME NEW k \in Keys
                 PROVE  confirmed[k].ver <= saved'[k]
      OBVIOUS
    <3>1. confirmed[k].ver \in 0..MaxVersion /\ confirmed[k].ver <= saved[k] /\ MaxVersion \in Nat
      BY SignatureAssumption DEF Kept, Confirmations
    <3>2. saved[k] \in Nat /\ saved'[k] \in Nat
      OBVIOUS
    <3> QED
      BY <3>1, <3>2
  <2> QED
    BY <2>1 DEF Kept, Confirmations, Unconfirmed
<1>4. ConfirmedHeld' /\ FlushHeld'
  BY DEF Kept, ConfirmedHeld, FlushHeld, Held, At, Old, OnDisk, Current
<1> QED
  BY <1>1, <1>2, <1>3, <1>4 DEF Kept

\* An entry that nobody has overtaken is the newest of its key.
LEMMA EnqueueKept ==
    ASSUME IInv, harm # "write", Kept, NEW t \in Tasks, Enqueue(t)
    PROVE  Kept'
<1>1. PICK e \in Entries : e = tasks[t].entry /\ IsSaved(e)
  BY TaskKnown DEF Enqueue, TaskSound, Saving, IsSaved
<1>2. /\ queue' = Append(queue, e) /\ overtaken' = overtaken \cup Overtaken(e)
      /\ UNCHANGED <<today, batch, worker, writer, data, index, flying, saved, confirmed>>
  BY <1>1 DEF Enqueue, files
<1>3. /\ queue \in Seq(Entries) /\ batch \in Seq(Entries)
      /\ saved \in [Keys -> 0..MaxVersion] /\ MaxVersion \in Nat
  BY SignatureAssumption DEF IInv, Types
<1>4. /\ Len(queue') = Len(queue) + 1 /\ queue' \in Seq(Entries)
      /\ \A i \in 1..Len(queue') : queue'[i] = IF i = Len(queue) + 1 THEN e ELSE queue[i]
  BY <1>2, <1>3
<1>5. overtaken \subseteq overtaken' /\ (e.key \notin overtaken' => e.ver >= saved[e.key])
  <2>1. e.key \in Keys /\ e.ver \in Nat /\ saved[e.key] \in Nat
    BY <1>3 DEF Entries
  <2> QED
    BY <2>1, <1>2 DEF Overtaken
<1>6. ASSUME NEW f \in Entries, IsSaved(f), f.key = e.key, e.key \notin overtaken'
      PROVE  f.ver <= e.ver
  <2>1. f.ver \in Nat /\ e.ver \in Nat /\ saved[e.key] \in Nat /\ f.ver <= saved[e.key]
    BY <1>3, <1>6 DEF Entries, IsSaved
  <2> QED
    BY <2>1, <1>5, <1>6
<1>7. IndexWhole'
  BY <1>2 DEF Kept, IndexWhole, HalfWay, NextLine
<1>8. InOrder'
  <2>1. ASSUME NEW i \in 1..Len(queue'), NEW j \in 1..Len(queue'), i <= j
        PROVE  Follows(queue[i], queue[j])'
    <3>1. CASE j = Len(queue) + 1
      <4>1. queue'[j] = e /\ queue'[i] \in Entries /\ e.ver \in Nat
        <5>1. queue'[j] = e /\ queue'[i] \in Entries
          BY <3>1, <1>4
        <5> QED
          BY <5>1, <1>3 DEF Entries
      <4>2. queue'[i] = e \/ IsSaved(queue'[i])
        BY <1>3, <1>4 DEF IInv, EntriesSaved
      <4> QED
        BY <4>1, <4>2, <1>6 DEF Follows
    <3>2. CASE j # Len(queue) + 1
      <4>1. i \in 1..Len(queue) /\ j \in 1..Len(queue) /\ queue'[i] = queue[i] /\ queue'[j] = queue[j]
        BY <3>2, <2>1, <1>3, <1>4
      <4>2. Follows(queue[i], queue[j])
        BY <4>1, <2>1 DEF Kept, InOrder
      <4> QED
        BY <4>1, <4>2, <1>5 DEF Follows
    <3> QED
      BY <3>1, <3>2
  <2>2. ASSUME NEW i \in 1..Len(batch), NEW j \in 1..Len(batch), i <= j
        PROVE  Follows(batch[i], batch[j])'
    <3>1. Follows(batch[i], batch[j])
      BY <2>2 DEF Kept, InOrder
    <3> QED
      BY <3>1, <1>2, <1>5 DEF Follows
  <2>3. ASSUME NEW i \in 1..Len(batch), NEW j \in 1..Len(queue')
        PROVE  Follows(batch[i], queue[j])'
    <3>1. CASE j = Len(queue) + 1
      <4>1. queue'[j] = e /\ batch[i] \in Entries /\ IsSaved(batch[i])
        BY <3>1, <1>3, <1>4 DEF IInv, EntriesSaved
      <4> QED
        BY <4>1, <1>2, <1>6 DEF Follows
    <3>2. CASE j # Len(queue) + 1
      <4>1. j \in 1..Len(queue) /\ queue'[j] = queue[j]
        BY <3>2, <1>3, <1>4
      <4>2. Follows(batch[i], queue[j])
        BY <4>1 DEF Kept, InOrder
      <4> QED
        BY <4>1, <4>2, <1>2, <1>5 DEF Follows
    <3> QED
      BY <3>1, <3>2
  <2> QED
    BY <2>1, <2>2, <2>3, <1>2 DEF InOrder
<1>9. Confirmations'
  <2>1. ASSUME NEW k \in Keys \ overtaken', NEW j \in 1..Len(queue'), queue'[j].key = k
        PROVE  confirmed[k].ver <= queue'[j].ver
    <3>1. CASE j = Len(queue) + 1
      <4>1. queue'[j] = e /\ e.ver \in Nat /\ e.key = k
        BY <3>1, <2>1, <1>4 DEF Entries
      <4>2. confirmed[k].ver \in 0..MaxVersion /\ confirmed[k].ver <= saved[k] /\ saved[k] \in Nat
        BY <1>3 DEF Kept, Confirmations
      <4>3. e.ver >= saved[k]
        BY <4>1, <2>1, <1>5
      <4> QED
        BY <4>1, <4>2, <4>3, <1>3
    <3>2. CASE j # Len(queue) + 1
      <4>1. j \in 1..Len(queue) /\ queue'[j] = queue[j] /\ k \notin overtaken
        BY <3>2, <2>1, <1>3, <1>4, <1>5
      <4> QED
        BY <4>1, <2>1 DEF Kept, Confirmations
    <3> QED
      BY <3>1, <3>2
  <2> QED
    BY <2>1, <1>2, <1>5 DEF Kept, Confirmations, Unconfirmed
<1>10. ConfirmedHeld'
  BY <1>2, <1>5, ConfirmedStay DEF Kept, Old
<1>11. FlushHeld'
  <2>1. ASSUME NEW j \in 1..Len(batch), OnDisk(j)
        PROVE  Held(worker.date, batch[j].key, batch[j].ver)'
    BY <2>1, <1>2, <1>5, WrittenStays DEF Kept
  <2> QED
    BY <2>1, <1>2 DEF Kept, FlushHeld, OnDisk, Current, Old
<1> QED
  BY <1>7, <1>8, <1>9, <1>10, <1>11 DEF Kept

-----------------------------------------------------------------------------
(* The worker's flush *)

\* What is received keeps its place in the order.
LEMMA FlushBegins ==
    ASSUME IInv, harm # "write", Kept, worker.pc = "idle", Settled,
           NEW entries \in Seq(Entries), batch' = entries,
           \/ StartFlush(entries)
           \/ UNCHANGED <<worker, writer>>,
           UNCHANGED <<today, data, index, flying, saved, confirmed, overtaken>>,
           InOrder',
           \A k \in Keys \ overtaken : \A j \in 1..Len(queue') :
              queue'[j].key = k => confirmed[k].ver <= queue'[j].ver,
           \A k \in Keys \ overtaken : \A j \in 1..Len(entries) :
              entries[j].key = k => confirmed[k].ver <= entries[j].ver
    PROVE  Kept'
<1>t. today \in Days /\ worker \in WorkerRecords /\ writer \in [date : {0} \cup Days, offset : Nat]
  BY DEF IInv, Types, TypeOK
<1>w. \/ /\ worker'.pc = "write" /\ worker'.date = today /\ worker'.i = 1 /\ worker'.op = 1
         /\ writer'.date = today
         /\ writer.date # today => \A f \in DOMAIN flying : flying[f] = NoCell
      \/ worker' = worker /\ writer' = writer
  <2>1. CASE StartFlush(entries)
    <3>1. worker'.pc = "write" /\ worker'.date = today /\ worker'.i = 1 /\ worker'.op = 1
      BY <2>1, <1>t DEF StartFlush, WorkerRecords
    <3>2. writer'.date = today
      BY <2>1 DEF StartFlush
    <3> QED
      BY <3>1, <3>2 DEF Settled
  <2>2. CASE UNCHANGED <<worker, writer>>
    BY <2>2
  <2> QED
    BY <2>1, <2>2
<1>1. ~HalfWay /\ ~HalfWay'
  BY <1>w DEF HalfWay
<1>2. IndexWhole'
  <2>1. \A d \in Days : WholeLines(index[d])
    BY DEF Kept, IndexWhole
  <2>2. flying["index"] \in {NoCell, NL}
    BY <1>1 DEF Kept, IndexWhole
  <2>3. \A d \in Days : EndsLine(index[d]) \/ (d = writer'.date /\ flying["index"] = NL)
    <3> SUFFICES ASSUME NEW d \in Days, ~EndsLine(index[d])
                 PROVE  d = writer'.date /\ flying["index"] = NL
      OBVIOUS
    <3>1. d = writer.date /\ flying["index"] = NL
      BY <1>1 DEF Kept, IndexWhole
    <3>2. NL # NoCell /\ "index" \in DOMAIN flying
      BY DEF NL, NoCell, Cell, IInv, Types
    <3>3. writer'.date = writer.date
      BY <1>w, <3>1, <3>2
    <3> QED
      BY <3>1, <3>3
  <2> QED
    BY <1>1, <2>1, <2>2, <2>3 DEF IndexWhole
<1>3. Confirmations'
  BY DEF Kept, Confirmations
<1>4. ConfirmedHeld'
  BY ConfirmedStay DEF Kept, Old
<1>5. FlushHeld'
  <2>1. \A j \in 1..Len(batch') : ~OnDisk(j)'
    <3> SUFFICES ASSUME NEW j \in 1..Len(entries)
                 PROVE  ~OnDisk(j)'
      OBVIOUS
    <3>1. CASE worker'.pc = "write" /\ worker'.i = 1
      BY <3>1 DEF OnDisk
    <3>2. CASE worker' = worker
      BY <3>2 DEF OnDisk
    <3> QED
      BY <3>1, <3>2, <1>w
  <2>2. worker'.pc # "idle" => worker'.date = writer'.date /\ Current'
    <3>1. ~Old(today)'
      BY TodayIsYoung DEF Old
    <3> QED
      BY <1>w, <1>t, <3>1 DEF Current, Old
  <2> QED
    BY <2>1, <2>2 DEF FlushHeld
<1> QED
  BY <1>2, <1>3, <1>4, <1>5 DEF Kept

LEMMA TickKept ==
    ASSUME IInv, harm # "write", Kept, Tick
    PROVE  Kept'
<1>1. /\ worker.pc = "idle" /\ Settled /\ StartFlush(batch) /\ batch \in Seq(Entries)
      /\ batch' = batch
      /\ UNCHANGED <<today, queue, data, index, flying, saved, confirmed, overtaken>>
  BY DEF Tick, StartFlush, ghosts, IInv, Types
<1>2. InOrder'
  BY <1>1 DEF Kept, InOrder, Follows
<1>3. /\ \A k \in Keys \ overtaken : \A j \in 1..Len(queue') :
            queue'[j].key = k => confirmed[k].ver <= queue'[j].ver
      /\ \A k \in Keys \ overtaken : \A j \in 1..Len(batch) :
            batch[j].key = k => confirmed[k].ver <= batch[j].ver
  BY <1>1 DEF Kept, Confirmations, Unconfirmed
<1> QED
  BY <1>1, <1>2, <1>3, FlushBegins

LEMMA ReceiveKept ==
    ASSUME IInv, harm # "write", Kept, Receive
    PROVE  Kept'
<1> DEFINE entries == Append(batch, Head(queue))
<1>1. /\ worker.pc = "idle" /\ Settled /\ queue # <<>> /\ queue' = Tail(queue)
      /\ batch' = entries
      /\ StartFlush(entries) \/ UNCHANGED <<worker, writer>>
      /\ UNCHANGED <<today, data, index, flying, saved, confirmed, overtaken>>
  BY DEF Receive, StartFlush, ghosts
<1>2. queue \in Seq(Entries) /\ batch \in Seq(Entries)
  BY DEF IInv, Types
<1>3. PICK e \in Entries : e = Head(queue) /\ e = queue[1]
  BY <1>1, <1>2, HeadTailProperties
<1>4. /\ Len(queue') = Len(queue) - 1 /\ 1 \in 1..Len(queue)
      /\ \A i \in 1..Len(queue') : i + 1 \in 1..Len(queue) /\ queue'[i] = queue[i + 1]
  BY <1>1, <1>2, HeadTailProperties
<1>5. /\ entries \in Seq(Entries) /\ Len(entries) = Len(batch) + 1
      /\ \A i \in 1..Len(entries) : entries[i] = IF i = Len(batch) + 1 THEN e ELSE batch[i]
  BY <1>2, <1>3
<1> HIDE DEF entries
<1>6. InOrder'
  <2>1. ASSUME NEW i \in 1..Len(queue'), NEW j \in 1..Len(queue'), i <= j
        PROVE  Follows(queue[i], queue[j])'
    <3>1. /\ i + 1 \in 1..Len(queue) /\ j + 1 \in 1..Len(queue) /\ i + 1 <= j + 1
          /\ queue'[i] = queue[i + 1] /\ queue'[j] = queue[j + 1]
      BY <2>1, <1>2, <1>4
    <3>2. Follows(queue[i + 1], queue[j + 1])
      BY <3>1 DEF Kept, InOrder
    <3> QED
      BY <3>1, <3>2, <1>1 DEF Follows
  <2>2. ASSUME NEW i \in 1..Len(entries), NEW j \in 1..Len(entries), i <= j
        PROVE  Follows(batch[i], batch[j])'
    <3>1. CASE i = Len(batch) + 1
      <4>1. j = i /\ entries[i] = e /\ e.ver <= e.ver
        <5>1. e.ver \in Nat
          BY SignatureAssumption DEF Entries
        <5> QED
          BY <5>1, <3>1, <2>2, <1>2, <1>5
      <4> QED
        BY <4>1, <1>1 DEF Follows
    <3>2. CASE i # Len(batch) + 1 /\ j = Len(batch) + 1
      <4>1. i \in 1..Len(batch) /\ entries[i] = batch[i] /\ entries[j] = queue[1]
        BY <3>2, <1>2, <1>3, <1>5
      <4>2. Follows(batch[i], queue[1])
        BY <4>1, <1>4 DEF Kept, InOrder
      <4> QED
        BY <4>1, <4>2, <1>1 DEF Follows
    <3>3. CASE i # Len(batch) + 1 /\ j # Len(batch) + 1
      <4>1. /\ i \in 1..Len(batch) /\ j \in 1..Len(batch)
            /\ entries[i] = batch[i] /\ entries[j] = batch[j]
        BY <3>3, <1>2, <1>5
      <4>2. Follows(batch[i], batch[j])
        BY <4>1, <2>2 DEF Kept, InOrder
      <4> QED
        BY <4>1, <4>2, <1>1 DEF Follows
    <3> QED
      BY <3>1, <3>2, <3>3
  <2>3. ASSUME NEW i \in 1..Len(entries), NEW j \in 1..Len(queue')
        PROVE  Follows(batch[i], queue[j])'
    <3>1. j + 1 \in 1..Len(queue) /\ queue'[j] = queue[j + 1] /\ 1 <= j + 1
      BY <1>4
    <3>2. CASE i = Len(batch) + 1
      <4>1. entries[i] = queue[1]
        BY <3>2, <1>3, <1>5
      <4>2. Follows(queue[1], queue[j + 1])
        BY <3>1, <1>4 DEF Kept, InOrder
      <4> QED
        BY <3>1, <4>1, <4>2, <1>1 DEF Follows
    <3>3. CASE i # Len(batch) + 1
      <4>1. i \in 1..Len(batch) /\ entries[i] = batch[i]
        BY <3>3, <1>2, <1>5
      <4>2. Follows(batch[i], queue[j + 1])
        BY <3>1, <4>1 DEF Kept, InOrder
      <4> QED
        BY <3>1, <4>1, <4>2, <1>1 DEF Follows
    <3> QED
      BY <3>2, <3>3
  <2> QED
    BY <2>1, <2>2, <2>3, <1>1 DEF InOrder
<1>7. /\ \A k \in Keys \ overtaken : \A j \in 1..Len(queue') :
            queue'[j].key = k => confirmed[k].ver <= queue'[j].ver
      /\ \A k \in Keys \ overtaken : \A j \in 1..Len(entries) :
            entries[j].key = k => confirmed[k].ver <= entries[j].ver
  <2>1. ASSUME NEW k \in Keys \ overtaken, NEW j \in 1..Len(queue), queue[j].key = k
        PROVE  confirmed[k].ver <= queue[j].ver
    BY <2>1 DEF Kept, Confirmations
  <2>2. ASSUME NEW k \in Keys \ overtaken, NEW j \in 1..Len(batch), batch[j].key = k
        PROVE  confirmed[k].ver <= batch[j].ver
    BY <2>2, <1>1 DEF Kept, Confirmations, Unconfirmed
  <2>3. ASSUME NEW k \in Keys \ overtaken, NEW j \in 1..Len(entries), entries[j].key = k
        PROVE  confirmed[k].ver <= entries[j].ver
    <3>1. CASE j = Len(batch) + 1
      <4>1. entries[j] = queue[1]
        BY <3>1, <1>3, <1>5
      <4> QED
        BY <4>1, <2>1, <2>3, <1>4
    <3>2. CASE j # Len(batch) + 1
      <4>1. j \in 1..Len(batch) /\ entries[j] = batch[j]
        BY <3>2, <1>2, <1>5
      <4> QED
        BY <4>1, <2>2, <2>3
    <3> QED
      BY <3>1, <3>2
  <2> QED
    BY <2>1, <2>3, <1>4
<1> QED
  BY <1>1, <1>5, <1>6, <1>7, FlushBegins

\* The line that the last newline of an entry ends makes its day hold it.
LEMMA LineHolds ==
    ASSUME IInv, harm # "write", Kept, HalfWay, flying["index"] = NoCell
    PROVE  Held(writer.date, batch[worker.i].key, batch[worker.i].ver)
<1>1. PICK d \in Days : d = writer.date
  BY DEF HalfWay, IInv, FilesSound, Position, Current
<1>2. PICK e \in Entries : e = batch[worker.i]
  <2>1. worker.i \in 1..Len(batch)
    BY SignatureAssumption DEF HalfWay, IInv, BatchFits, Types, WorkerRecords
  <2> QED
    BY <2>1 DEF IInv, Types
<1>3. PICK n \in Nat : n = writer.offset
  BY DEF IInv, Types
<1>4. PICK k \in Keys, v \in 1..MaxVersion : k = e.key /\ v = e.ver
  BY DEF Entries
<1> DEFINE cells == index[d]
<1>5. cells \in Seq(Cells) /\ WholeLines(cells)
  BY DEF IInv, Types, Kept, IndexWhole
<1>6. NextLine = IndexLine(k, n) /\ NextLine # NoCell
  BY <1>2, <1>3, <1>4 DEF NextLine, IndexLine, NoCell, Cell
<1>7. cells # <<>> /\ cells[Len(cells)] = IndexLine(k, n)
  BY <1>1, <1>6 DEF Kept, IndexWhole
<1> HIDE DEF cells
<1>8. Parsed(cells)[k] = n
  <2>1. Len(cells) \in 1..Len(cells) /\ cells[Len(cells)].tag = "line"
        /\ cells[Len(cells)].key = k /\ cells[Len(cells)].n = n
    BY <1>5, <1>7 DEF IndexLine, Cell
  <2>2. Len(cells) \in LinesOf(cells, k)
    BY <2>1, <1>5 DEF WholeLines, LinesOf
  <2>3. \A j \in LinesOf(cells, k) : j <= Len(cells)
    BY <1>5, LinesOfTyped
  <2> QED
    BY <2>1, <2>2, <2>3, <1>5, ParsedLast
<1>9. At(d, n).n = v
  <2>1. Landed
    BY DEF HalfWay, IInv, FilesSound, Position
  <2>2. n + 1 \in 1..Len(data[d]) /\ data[d][n + 1] = Record(e) /\ data[d] \in Seq(Cells)
    BY <2>1, <1>1, <1>2, <1>3 DEF Landed, IInv, Types
  <2>3. At(d, n) = Record(e)
    BY <2>2 DEF At
  <2> QED
    BY <2>3, <1>4 DEF Record, Cell
<1>10. Held(d, k, v)
  <2>1. v >= v /\ n # NoOffset
    BY SignatureAssumption DEF NoOffset
  <2> QED
    BY <2>1, <1>8, <1>9 DEF Held, cells
<1> QED
  BY <1>1, <1>2, <1>4, <1>10 DEF Held, At

LEMMA WriteKept ==
    ASSUME IInv, harm # "write", Kept, Write
    PROVE  Kept'
<1>1. /\ worker.pc = "write" /\ flying[File] = NoCell
      /\ flying' = [flying EXCEPT ![File] = Written]
      /\ UNCHANGED <<today, queue, batch, data, index, saved, confirmed, overtaken>>
  BY DEF Write, ghosts
<1>2. /\ worker \in WorkerRecords /\ writer \in [date : {0} \cup Days, offset : Nat]
      /\ DOMAIN flying = {"data", "index"} /\ worker.i \in 1..Len(batch)
      /\ Len(batch) \in Nat /\ worker.i \in Nat
  BY <1>1, SignatureAssumption DEF IInv, Types, BatchFits, WorkerRecords
<1>3. CASE worker.op < 4
  <2>1. /\ worker' = [worker EXCEPT !.op = @ + 1] /\ writer' = writer
    BY <1>3 DEF Write
  <2>2. /\ worker'.pc = "write" /\ worker'.i = worker.i /\ worker'.date = worker.date
        /\ worker'.op = worker.op + 1 /\ worker.op \in 1..3
    BY <2>1, <1>1, <1>2, <1>3 DEF WorkerRecords
  <2>3. IndexWhole'
    <3>1. \A d \in Days : WholeLines(index'[d])
      BY <1>1 DEF Kept, IndexWhole
    <3>2. CASE worker.op \in {1, 2}
      <4>1. ~HalfWay /\ ~HalfWay' /\ flying'["index"] = flying["index"]
        BY <3>2, <2>2, <1>1, <1>2 DEF HalfWay, File
      <4> QED
        BY <4>1, <3>1, <2>1, <1>1 DEF Kept, IndexWhole
    <3>3. CASE worker.op = 3
      <4>1. /\ flying["index"] = NoCell /\ flying'["index"] = NextLine /\ ~HalfWay /\ HalfWay'
            /\ NextLine' = NextLine /\ NoCell # NL
        BY <3>3, <2>1, <2>2, <1>1, <1>2
        DEF HalfWay, File, Written, NextLine, NoCell, NL, Cell
      <4>2. \A d \in Days : EndsLine(index'[d])
        BY <4>1, <1>1 DEF Kept, IndexWhole
      <4>3. writer.date \in Days
        BY <1>1 DEF IInv, FilesSound, Position, Current
      <4>4. EndsLine(index[writer.date])'
        BY <4>2, <4>3, <2>1
      <4> QED
        BY <3>1, <4>1, <4>2, <4>4 DEF IndexWhole
    <3> QED
      BY <3>2, <3>3, <2>2
  <2>4. InOrder'
    BY <1>1 DEF Kept, InOrder, Follows
  <2>5. Confirmations'
    BY <1>1, <2>2 DEF Kept, Confirmations, Unconfirmed
  <2>6. ConfirmedHeld'
    BY <1>1, ConfirmedStay DEF Kept, Old
  <2>7. FlushHeld'
    BY <1>1, <2>1, <2>2 DEF Kept, FlushHeld, OnDisk, Current, Old, Held, At
  <2> QED
    BY <2>3, <2>4, <2>5, <2>6, <2>7 DEF Kept
<1>4. CASE ~(worker.op < 4)
  <2>1. worker.op = 4 /\ HalfWay /\ flying["index"] = NoCell
    BY <1>1, <1>2, <1>4 DEF WorkerRecords, HalfWay, File
  <2>2. /\ writer' = [writer EXCEPT !.offset = @ + 2]
        /\ worker' = IF worker.i < Len(batch) THEN [worker EXCEPT !.i = @ + 1, !.op = 1]
                     ELSE [worker EXCEPT !.pc = "index", !.i = 1]
    BY <1>4 DEF Write
  <2>3. writer'.date = writer.date /\ flying'["index"] = NL
    BY <2>1, <2>2, <1>1, <1>2 DEF File, Written
  <2>4. \/ /\ worker.i < Len(batch) /\ worker'.pc = "write" /\ worker'.i = worker.i + 1
           /\ worker'.op = 1 /\ worker'.date = worker.date
        \/ /\ worker.i = Len(batch) /\ worker'.pc = "index" /\ worker'.i = 1
           /\ worker'.date = worker.date
    BY <2>2, <1>1, <1>2 DEF WorkerRecords
  <2>5. IndexWhole'
    <3>1. ~HalfWay'
      BY <2>4 DEF HalfWay
    <3>2. \A d \in Days : EndsLine(index[d]) \/ d = writer.date
      BY DEF Kept, IndexWhole
    <3>3. \A d \in Days : WholeLines(index[d])
      BY DEF Kept, IndexWhole
    <3> QED
      BY <3>1, <3>2, <3>3, <2>3, <1>1 DEF IndexWhole
  <2>6. InOrder'
    BY <1>1 DEF Kept, InOrder, Follows
  <2>7. Confirmations'
    BY <1>1 DEF Kept, Confirmations, Unconfirmed
  <2>8. ConfirmedHeld'
    BY <1>1, ConfirmedStay DEF Kept, Old
  <2>9. FlushHeld'
    <3>1. worker.date = writer.date /\ Current
      BY <1>1 DEF Kept, FlushHeld
    <3>2. Held(worker.date, batch[worker.i].key, batch[worker.i].ver)
      BY <2>1, <3>1, LineHolds DEF Held, At
    <3>3. \A j \in 1..Len(batch) : OnDisk(j)' => OnDisk(j) \/ j = worker.i
      BY <2>4, <1>1, <1>2 DEF OnDisk
    <3>4. \A j \in 1..Len(batch) : OnDisk(j)' => Held(worker.date, batch[j].key, batch[j].ver)
      BY <3>2, <3>3 DEF Kept, FlushHeld
    <3>5. \A j \in 1..Len(batch) : OnDisk(j)' => Held(worker.date, batch[j].key, batch[j].ver)'
      BY <3>4, <2>4, <1>1 DEF Held, At
    <3>6. worker'.date = writer'.date /\ Current'
      BY <3>1, <2>3, <2>4, <1>1 DEF Current, Old
    <3> QED
      BY <3>5, <3>6, <1>1 DEF FlushHeld
  <2> QED
    BY <2>5, <2>6, <2>7, <2>8, <2>9 DEF Kept
<1> QED
  BY <1>3, <1>4

LEMMA UpdateIndexKept ==
    ASSUME IInv, harm # "write", Kept, UpdateIndex
    PROVE  Kept'
<1>1. /\ worker.pc = "index" /\ worker' = [worker EXCEPT !.pc = "evict"]
      /\ UNCHANGED <<today, queue, batch, writer, data, index, flying, saved, confirmed,
                     overtaken>>
  BY DEF UpdateIndex, files, ghosts
<1>2. worker'.pc = "evict" /\ worker'.i = worker.i /\ worker'.date = worker.date
  BY <1>1 DEF IInv, Types, WorkerRecords
<1>3. IndexWhole'
  BY <1>1, <1>2 DEF Kept, IndexWhole, HalfWay
<1>4. InOrder'
  BY <1>1 DEF Kept, InOrder, Follows
<1>5. Confirmations'
  BY <1>1, <1>2 DEF Kept, Confirmations, Unconfirmed
<1>6. ConfirmedHeld'
  BY <1>1, ConfirmedStay DEF Kept, Old
<1>7. FlushHeld'
  BY <1>1, <1>2 DEF Kept, FlushHeld, OnDisk, Current, Old, Held, At
<1> QED
  BY <1>3, <1>4, <1>5, <1>6, <1>7 DEF Kept

\* What is confirmed is what the worker has written.
LEMMA EvictHotKept ==
    ASSUME IInv, harm # "write", Kept, EvictHot
    PROVE  Kept'
<1>1. /\ worker.pc = "evict"
      /\ UNCHANGED <<today, queue, writer, data, index, flying, saved, overtaken>>
  BY DEF EvictHot, files, ghosts
<1>2. /\ worker \in WorkerRecords /\ worker.i \in 1..Len(batch) /\ Len(batch) \in Nat
      /\ saved \in [Keys -> 0..MaxVersion] /\ MaxVersion \in Nat /\ batch \in Seq(Entries)
  BY <1>1, SignatureAssumption DEF IInv, Types, BatchFits, WorkerRecords
<1>3. PICK i \in 1..Len(batch) : i = worker.i
  BY <1>2
<1>4. PICK e \in Entries : e = batch[i]
  BY <1>2
<1>5. PICK k \in Keys, v \in 1..MaxVersion : k = e.key /\ v = e.ver
  BY DEF Entries
<1>6. PICK d \in Days : d = worker.date
  BY <1>2 DEF WorkerRecords
<1>7. /\ confirmed' = [confirmed EXCEPT ![k] = [date |-> d, ver |-> v]]
      /\ confirmed \in [Keys -> [date : {0} \cup Days, ver : 0..MaxVersion]]
  BY <1>3, <1>4, <1>5, <1>6 DEF EvictHot, Kept, Confirmations
<1>8. \A l \in Keys : confirmed'[l] = IF l = k THEN [date |-> d, ver |-> v] ELSE confirmed[l]
  BY <1>7
<1>9. \/ worker' = IdleWorker /\ batch' = <<>>
      \/ /\ worker'.pc = "index" /\ worker'.i = i + 1 /\ worker'.date = worker.date
         /\ batch' = batch
  BY <1>2, <1>3 DEF EvictHot, WorkerRecords
<1>10. IndexWhole'
  <2>1. ~HalfWay /\ ~HalfWay'
    BY <1>1, <1>9 DEF HalfWay, IdleWorker
  <2> QED
    BY <2>1, <1>1 DEF Kept, IndexWhole
<1>11. InOrder'
  <2>1. CASE batch' = <<>>
    BY <2>1, <1>1 DEF Kept, InOrder, Follows
  <2>2. CASE batch' = batch
    BY <2>2, <1>1 DEF Kept, InOrder, Follows
  <2> QED
    BY <2>1, <2>2, <1>9
<1>12. Confirmations'
  <2>1. confirmed' \in [Keys -> [date : {0} \cup Days, ver : 0..MaxVersion]]
    <3>1. [date |-> d, ver |-> v] \in [date : {0} \cup Days, ver : 0..MaxVersion]
      BY <1>2
    <3> QED
      BY <3>1, <1>7
  <2>2. \A l \in Keys : confirmed'[l].ver <= saved[l]
    <3>1. v <= saved[k]
      BY <1>4, <1>5 DEF IInv, EntriesSaved, IsSaved
    <3> QED
      BY <3>1, <1>8 DEF Kept, Confirmations
  <2>3. \A l \in Keys : confirmed'[l].ver # 0 => confirmed'[l].date \in Days
    BY <1>8 DEF Kept, Confirmations
  <2>4. ASSUME NEW l \in Keys \ overtaken, NEW j \in 1..Len(queue), queue[j].key = l
        PROVE  confirmed'[l].ver <= queue[j].ver
    <3>1. CASE l = k
      <4>1. Follows(batch[i], queue[j])
        BY DEF Kept, InOrder
      <4> QED
        BY <4>1, <3>1, <2>4, <1>4, <1>5, <1>8 DEF Follows
    <3>2. CASE l # k
      BY <3>2, <2>4, <1>8 DEF Kept, Confirmations
    <3> QED
      BY <3>1, <3>2
  <2>5. ASSUME NEW l \in Keys \ overtaken, NEW j \in 1..Len(batch'), batch'[j].key = l,
               Unconfirmed(j)'
        PROVE  confirmed'[l].ver <= batch'[j].ver
    <3>1. /\ worker'.pc = "index" /\ worker'.i = i + 1 /\ batch' = batch
      BY <1>9
    <3>2. j \in 1..Len(batch) /\ j >= i + 1 /\ i <= j
      BY <3>1, <2>5 DEF Unconfirmed
    <3>3. CASE l = k
      <4>1. Follows(batch[i], batch[j])
        BY <3>2 DEF Kept, InOrder
      <4> QED
        BY <4>1, <3>1, <3>3, <2>5, <1>4, <1>5, <1>8 DEF Follows
    <3>4. CASE l # k
      <4>1. Unconfirmed(j)
        BY <3>2, <1>3 DEF Unconfirmed
      <4> QED
        BY <4>1, <3>1, <3>2, <3>4, <2>5, <1>8 DEF Kept, Confirmations
    <3> QED
      BY <3>3, <3>4
  <2> QED
    BY <2>1, <2>2, <2>3, <2>4, <2>5, <1>1 DEF Confirmations
<1>13. ConfirmedHeld'
  <2> SUFFICES ASSUME NEW l \in Keys, confirmed'[l].ver # 0, ~Old(confirmed[l].date)'
               PROVE  Held(confirmed[l].date, l, confirmed[l].ver)'
    BY DEF ConfirmedHeld
  <2>1. CASE l = k
    <3>1. OnDisk(i)
      BY <1>1, <1>3 DEF OnDisk
    <3>2. Held(d, k, v)
      <4>1. Held(worker.date, batch[i].key, batch[i].ver)
        BY <3>1 DEF Kept, FlushHeld
      <4> QED
        BY <4>1, <1>4, <1>5, <1>6 DEF Held, At
    <3>3. confirmed'[l].date = d /\ confirmed'[l].ver = v
      BY <2>1, <1>8
    <3> QED
      BY <2>1, <3>2, <3>3, <1>1 DEF Held, At
  <2>2. CASE l # k
    <3>1. confirmed'[l] = confirmed[l]
      BY <2>2, <1>8
    <3>2. Held(confirmed[l].date, l, confirmed[l].ver)
      BY <3>1, <1>1 DEF Kept, ConfirmedHeld, Old
    <3> QED
      BY <3>1, <3>2, <1>1 DEF Held, At
  <2> QED
    BY <2>1, <2>2
<1>14. FlushHeld'
  <2>1. CASE worker' = IdleWorker /\ batch' = <<>>
    BY <2>1 DEF FlushHeld, IdleWorker, OnDisk
  <2>2. CASE /\ worker'.pc = "index" /\ worker'.i = i + 1 /\ worker'.date = worker.date
             /\ batch' = batch
    <3>1. \A j \in 1..Len(batch) : OnDisk(j)' => OnDisk(j)
      BY <2>2, <1>1, <1>3 DEF OnDisk
    <3> QED
      BY <3>1, <2>2, <1>1 DEF Kept, FlushHeld, Current, Old, Held, At
  <2> QED
    BY <2>1, <2>2, <1>9
<1> QED
  BY <1>10, <1>11, <1>12, <1>13, <1>14 DEF Kept

-----------------------------------------------------------------------------
(* Files, days, restarts *)

LEMMA DataLandsKept ==
    ASSUME IInv, harm # "write", Kept, WriteLands("data")
    PROVE  Kept'
<1>1. /\ flying["data"] # NoCell
      /\ data' = [data EXCEPT ![writer.date] = @ \o <<flying["data"]>>] /\ index' = index
      /\ flying' = [flying EXCEPT !["data"] = NoCell]
      /\ UNCHANGED <<today, queue, batch, worker, writer, saved, confirmed, overtaken>>
  BY DEF WriteLands, Grow, ghosts
<1>2. /\ flying \in [{"data", "index"} -> Cells] /\ data \in [Days -> Seq(Cells)]
      /\ flying'["index"] = flying["index"] /\ flying["data"] \in Cells
  BY <1>1 DEF IInv, Types
<1>3. \A d \in Days : data'[d] = data[d] \/ \E c \in Cells : data'[d] = Append(data[d], c)
  <2> SUFFICES ASSUME NEW d \in Days, d = writer.date
               PROVE  data'[d] = Append(data[d], flying["data"])
    BY <1>1, <1>2
  <2>1. data'[d] = data[d] \o <<flying["data"]>>
    BY <1>1, <1>2
  <2> QED
    BY <2>1, <1>2
<1>4. IndexWhole'
  BY <1>1, <1>2 DEF Kept, IndexWhole, HalfWay, NextLine
<1>5. InOrder' /\ Confirmations'
  BY <1>1 DEF Kept, InOrder, Follows, Confirmations, Unconfirmed
<1>6. ConfirmedHeld'
  BY <1>1, <1>3, ConfirmedStay DEF Kept, Old
<1>7. FlushHeld'
  <2>1. ASSUME NEW j \in 1..Len(batch), OnDisk(j)
        PROVE  Held(worker.date, batch[j].key, batch[j].ver)'
    <3>1. worker.date \in Days
      BY DEF IInv, Types, TypeOK
    <3> QED
      BY <2>1, <3>1, <1>1, <1>3, WrittenStays DEF Kept
  <2> QED
    BY <2>1, <1>1 DEF Kept, FlushHeld, OnDisk, Current, Old
<1> QED
  BY <1>4, <1>5, <1>6, <1>7 DEF Kept

LEMMA NewlineLandsKept ==
    ASSUME IInv, harm # "write", Kept, WriteLands("index"), flying["index"] = NL
    PROVE  Kept'
<1>1. /\ index' = [index EXCEPT ![writer.date] = @ \o <<NL>>] /\ data' = data
      /\ flying' = [flying EXCEPT !["index"] = NoCell]
      /\ UNCHANGED <<today, queue, batch, worker, writer, saved, confirmed, overtaken>>
  BY DEF WriteLands, Grow, ghosts
<1>2. /\ flying' \in [{"data", "index"} -> Cells] /\ index \in [Days -> Seq(Cells)]
      /\ flying'["index"] = NoCell /\ NL \in Cells /\ NL # NoCell
  BY <1>1 DEF IInv, Types, NoCell, NL, Cell, Cells
<1>3. PICK d0 \in Days : d0 = writer.date
  BY <1>2 DEF IInv, FilesSound, Position, Current
<1>4. index'[d0] = Append(index[d0], NL) /\ \A d \in Days : d # d0 => index'[d] = index[d]
  <2>1. index'[d0] = index[d0] \o <<NL>>
    BY <1>1, <1>2, <1>3
  <2> QED
    BY <2>1, <1>1, <1>2, <1>3
<1>5. /\ WholeLines(index'[d0]) /\ EndsLine(index'[d0])
      /\ \A k \in Keys : Parsed(index'[d0])[k] = Parsed(index[d0])[k]
  <2>1. index[d0] \in Seq(Cells) /\ WholeLines(index[d0])
    BY <1>2 DEF Kept, IndexWhole
  <2> QED
    BY <2>1, <1>4, AddNewline
<1>6. \A d \in Days : \A k \in Keys : Parsed(index'[d])[k] = Parsed(index[d])[k]
  BY <1>4, <1>5
<1>7. \A d \in Days : \A k \in Keys : \A v : Held(d, k, v) => Held(d, k, v)'
  <2> SUFFICES ASSUME NEW d \in Days, NEW k \in Keys, NEW v, Held(d, k, v)
               PROVE  Held(d, k, v)'
    OBVIOUS
  <2>1. Parsed(index'[d])[k] = Parsed(index[d])[k]
    BY <1>6
  <2> QED
    BY <2>1, <1>1 DEF Held, At
<1>8. IndexWhole'
  <2>1. ~HalfWay
    <3>1. flying["index"] # NextLine
      BY DEF NextLine, IndexLine, NL, Cell
    <3> QED
      BY <1>2, <3>1 DEF Kept, IndexWhole
  <2>2. ~HalfWay'
    BY <2>1, <1>1 DEF HalfWay
  <2>3. \A d \in Days : WholeLines(index'[d]) /\ EndsLine(index'[d])
    BY <1>2, <1>3, <1>4, <1>5, <2>1 DEF Kept, IndexWhole
  <2> QED
    BY <1>2, <2>2, <2>3 DEF IndexWhole
<1>9. InOrder' /\ Confirmations'
  BY <1>1 DEF Kept, InOrder, Follows, Confirmations, Unconfirmed
<1>10. ConfirmedHeld'
  <2> SUFFICES ASSUME NEW k \in Keys, confirmed[k].ver # 0, ~Old(confirmed[k].date)'
               PROVE  Held(confirmed[k].date, k, confirmed[k].ver)'
    BY <1>1 DEF ConfirmedHeld
  <2>1. PICK d \in Days, v \in 0..MaxVersion : d = confirmed[k].date /\ v = confirmed[k].ver
    BY DEF Kept, Confirmations
  <2>2. Held(d, k, v)
    BY <2>1, <1>1 DEF Kept, ConfirmedHeld, Old, Held, At
  <2>3. Held(d, k, v)'
    BY <2>2, <1>7
  <2> QED
    BY <2>1, <2>3, <1>1 DEF Held, At
<1>11. FlushHeld'
  <2>1. ASSUME NEW j \in 1..Len(batch), OnDisk(j)
        PROVE  Held(worker.date, batch[j].key, batch[j].ver)'
    <3>1. PICK d \in Days, k \in Keys, v \in 1..MaxVersion :
            d = worker.date /\ k = batch[j].key /\ v = batch[j].ver
      <4>1. batch[j] \in Entries /\ worker.date \in Days
        BY DEF IInv, Types, TypeOK
      <4> QED
        BY <4>1 DEF Entries
    <3>2. Held(d, k, v)
      BY <3>1, <2>1 DEF Kept, FlushHeld, Held, At
    <3>3. Held(d, k, v)'
      BY <3>2, <1>7
    <3> QED
      BY <3>1, <3>3, <1>1 DEF Held, At
  <2> QED
    BY <2>1, <1>1 DEF Kept, FlushHeld, OnDisk, Current, Old
<1> QED
  BY <1>8, <1>9, <1>10, <1>11 DEF Kept

\* A line that lands makes its day hold its entry, which is none of the older
\* ones of its key.
LEMMA LineLandsKept ==
    ASSUME IInv, harm # "write", Kept, WriteLands("index"), flying["index"] # NL
    PROVE  Kept'
<1> DEFINE c == flying["index"]
<1>1. /\ index' = [index EXCEPT ![writer.date] = @ \o <<c>>] /\ data' = data
      /\ flying' = [flying EXCEPT !["index"] = NoCell] /\ c # NoCell
      /\ UNCHANGED <<today, queue, batch, worker, writer, saved, confirmed, overtaken>>
  BY DEF WriteLands, Grow, ghosts
<1>2. /\ flying' \in [{"data", "index"} -> Cells] /\ index \in [Days -> Seq(Cells)]
      /\ flying'["index"] = NoCell /\ c \in Cells
  BY <1>1 DEF IInv, Types, NoCell, Cell, Cells
<1>3. HalfWay /\ c = NextLine /\ EndsLine(index[writer.date])
  BY <1>1 DEF Kept, IndexWhole
<1> HIDE DEF c
<1>4. PICK d0 \in Days : d0 = writer.date /\ worker.date = d0 /\ ~Old(d0)
  BY <1>3 DEF HalfWay, Kept, FlushHeld, Current, Old
<1>5. PICK i \in 1..Len(batch) : i = worker.i
  BY <1>3, SignatureAssumption DEF HalfWay, IInv, BatchFits, Types, WorkerRecords
<1>6. PICK e \in Entries : e = batch[i]
  BY DEF IInv, Types
<1>7. PICK k0 \in Keys, v0 \in 1..MaxVersion : k0 = e.key /\ v0 = e.ver
  BY DEF Entries
<1>8. PICK n \in Nat : n = writer.offset
  BY DEF IInv, Types
<1>9. c.tag = "line" /\ c.key = k0 /\ c.n = n
  BY <1>3, <1>5, <1>6, <1>7, <1>8 DEF NextLine, IndexLine, Cell
<1>10. index'[d0] = Append(index[d0], c) /\ \A d \in Days : d # d0 => index'[d] = index[d]
  <2>1. index'[d0] = index[d0] \o <<c>>
    BY <1>1, <1>2, <1>4
  <2> QED
    BY <2>1, <1>1, <1>2, <1>4
<1>11. /\ WholeLines(index'[d0]) /\ Parsed(index'[d0])[k0] = n
       /\ \A k \in Keys : k # k0 => Parsed(index'[d0])[k] = Parsed(index[d0])[k]
  <2>1. index[d0] \in Seq(Cells) /\ WholeLines(index[d0]) /\ EndsLine(index[d0])
    BY <1>2, <1>3, <1>4 DEF Kept, IndexWhole
  <2> QED
    BY <2>1, <1>2, <1>9, <1>10, AddLine
<1>12. data'[d0] \in Seq(Cells) /\ n + 1 \in DOMAIN data'[d0] /\ data'[d0][n + 1].n = v0
  <2>1. Landed
    BY <1>3 DEF HalfWay, IInv, FilesSound, Position
  <2>2. data'[d0] \in Seq(Cells) /\ n + 1 \in DOMAIN data'[d0] /\ data'[d0][n + 1] = Record(e)
    BY <2>1, <1>1, <1>4, <1>5, <1>6, <1>8 DEF Landed, IInv, Types
  <2> QED
    BY <2>2, <1>7 DEF Record, Cell
<1>13. ASSUME NEW v \in 0..MaxVersion, k0 \notin overtaken => v <= v0
       PROVE  Held(d0, k0, v)'
  <2>1. Parsed(index'[d0])[k0] = n /\ n # NoOffset
    BY <1>11 DEF NoOffset
  <2>2. At(d0, n)' = data'[d0][n + 1]
    BY <1>12 DEF At
  <2>3. At(d0, Parsed(index[d0])[k0])' = data'[d0][n + 1]
    BY <2>1, <2>2 DEF At
  <2>4. k0 \notin overtaken' => v0 >= v
    BY <1>1, <1>13, SignatureAssumption
  <2> QED
    BY <2>1, <2>3, <2>4, <1>12 DEF Held
<1>14. ASSUME NEW d \in Days, NEW k \in Keys, NEW v \in 0..MaxVersion, Held(d, k, v),
              d = d0 /\ k = k0 /\ k0 \notin overtaken => v <= v0
       PROVE  Held(d, k, v)'
  <2>1. CASE d = d0 /\ k = k0
    BY <2>1, <1>13, <1>14
  <2>2. CASE ~(d = d0 /\ k = k0)
    <3>1. Parsed(index'[d])[k] = Parsed(index[d])[k]
      BY <2>2, <1>10, <1>11
    <3> QED
      BY <3>1, <1>1, <1>14 DEF Held, At
  <2> QED
    BY <2>1, <2>2
<1>15. IndexWhole'
  <2>1. HalfWay' /\ NextLine' = NextLine
    BY <1>1, <1>3 DEF HalfWay, NextLine
  <2>2. \A d \in Days : WholeLines(index'[d])
    BY <1>10, <1>11 DEF Kept, IndexWhole
  <2>3. \A d \in Days : EndsLine(index'[d]) \/ d = writer'.date
    <3> SUFFICES ASSUME NEW d \in Days, d # d0
                 PROVE  EndsLine(index'[d])
      BY <1>1, <1>4
    <3>1. EndsLine(index[d])
      BY <1>4 DEF Kept, IndexWhole
    <3> QED
      BY <3>1, <1>10
  <2>4. index'[d0] # <<>> /\ index'[d0][Len(index'[d0])] = c
    BY <1>2, <1>10
  <2>5. writer'.date = d0 /\ c = NextLine'
    BY <1>1, <1>3, <1>4, <2>1
  <2> QED
    BY <2>1, <2>2, <2>3, <2>4, <2>5, <1>2 DEF IndexWhole
<1>16. InOrder' /\ Confirmations'
  BY <1>1 DEF Kept, InOrder, Follows, Confirmations, Unconfirmed
<1>17. ConfirmedHeld'
  <2> SUFFICES ASSUME NEW k \in Keys, confirmed[k].ver # 0, ~Old(confirmed[k].date)'
               PROVE  Held(confirmed[k].date, k, confirmed[k].ver)'
    BY <1>1 DEF ConfirmedHeld
  <2>1. PICK d \in Days, v \in 0..MaxVersion : d = confirmed[k].date /\ v = confirmed[k].ver
    BY DEF Kept, Confirmations
  <2>2. Held(d, k, v)
    BY <2>1, <1>1 DEF Kept, ConfirmedHeld, Old, Held, At
  <2>3. k = k0 /\ k0 \notin overtaken => v <= v0
    <3>1. Unconfirmed(i)
      BY <1>3 DEF HalfWay, Unconfirmed
    <3> QED
      BY <3>1, <2>1, <1>6, <1>7 DEF Kept, Confirmations
  <2>4. Held(d, k, v)'
    BY <2>2, <2>3, <1>14
  <2> QED
    BY <2>1, <2>4, <1>1 DEF Held, At
<1>18. FlushHeld'
  <2>1. ASSUME NEW j \in 1..Len(batch), OnDisk(j)
        PROVE  Held(worker.date, batch[j].key, batch[j].ver)'
    <3>1. PICK k \in Keys, v \in 1..MaxVersion : k = batch[j].key /\ v = batch[j].ver
      <4>1. batch[j] \in Entries
        BY DEF IInv, Types
      <4> QED
        BY <4>1 DEF Entries
    <3>2. Held(d0, k, v)
      BY <3>1, <2>1, <1>4 DEF Kept, FlushHeld, Held, At
    <3>3. k = k0 /\ k0 \notin overtaken => v <= v0
      <4>1. j \in 1..Len(batch) /\ j <= i
        BY <2>1, <1>3, <1>5 DEF OnDisk, HalfWay
      <4>2. Follows(batch[j], batch[i])
        BY <4>1 DEF Kept, InOrder
      <4> QED
        BY <4>2, <3>1, <1>6, <1>7 DEF Follows
    <3>4. v \in 0..MaxVersion
      BY SignatureAssumption
    <3>5. Held(d0, k, v)'
      BY <3>2, <3>3, <3>4, <1>14
    <3> QED
      BY <3>1, <3>5, <1>1, <1>4 DEF Held, At
  <2> QED
    BY <2>1, <1>1 DEF Kept, FlushHeld, OnDisk, Current, Old
<1> QED
  BY <1>15, <1>16, <1>17, <1>18 DEF Kept

LEMMA NextDayKept ==
    ASSUME IInv, harm # "write", Kept, NextDay
    PROVE  Kept'
<1>1. PICK n \in Gaps :
        /\ today = 1 /\ today' = 1 + n
        /\ n = 1 \/ worker.pc = "idle"
        /\ UNCHANGED <<queue, batch, worker, writer, data, index, flying, saved, confirmed,
                       overtaken>>
  BY DEF NextDay, files, ghosts
<1>2. n \in {1, 2} /\ today' \in Days /\ today \in Days /\ today <= today'
  BY <1>1, SignatureAssumption DEF Days
<1>3. \A d \in Days : Old(d) => Old(d)'
  BY <1>2, AgeGrows
<1>4. IndexWhole'
  BY <1>1 DEF Kept, IndexWhole, HalfWay, NextLine
<1>5. InOrder' /\ Confirmations'
  BY <1>1 DEF Kept, InOrder, Follows, Confirmations, Unconfirmed
<1>6. ConfirmedHeld'
  BY <1>1, <1>3, ConfirmedStay DEF Kept
<1>7. worker.pc # "idle" => Current'
  <2> SUFFICES ASSUME worker.pc # "idle"
               PROVE  Current'
    OBVIOUS
  <2>1. writer.date \in Days /\ writer'.date = writer.date /\ today' = 2
    BY <1>1 DEF Kept, FlushHeld, Current
  <2>2. KeptDays \in Nat /\ KeptDays >= 2
    BY SignatureAssumption DEF KeptDays
  <2>3. writer.date \in 1..3
    BY <2>1, DaysTyped, Zenon
  <2> QED
    BY <2>1, <2>2, <2>3 DEF Current, Old
<1>8. FlushHeld'
  <2>1. \A j \in 1..Len(batch) : OnDisk(j) => Held(worker.date, batch[j].key, batch[j].ver)'
    BY <1>1 DEF Kept, FlushHeld, Held, At
  <2> QED
    BY <2>1, <1>1, <1>7 DEF Kept, FlushHeld, OnDisk
<1> QED
  BY <1>4, <1>5, <1>6, <1>8 DEF Kept

LEMMA CleanUpKept ==
    ASSUME IInv, harm # "write", Kept,
           NEW f \in {"data", "index"}, NEW d0 \in Days, CleanUp(d0, f)
    PROVE  Kept'
<1>1. /\ Old(d0)
      /\ \/ data' = [data EXCEPT ![d0] = <<>>] /\ index' = index
         \/ index' = [index EXCEPT ![d0] = <<>>] /\ data' = data
      /\ UNCHANGED <<today, queue, batch, worker, writer, flying, saved, confirmed, overtaken>>
  BY DEF CleanUp, ghosts
<1>2. /\ \A d \in Days : d # d0 => index'[d] = index[d] /\ data'[d] = data[d]
      /\ index'[d0] = index[d0] \/ index'[d0] = <<>>
  BY <1>1 DEF IInv, Types
<1>3. Current => writer.date # d0
  BY <1>1 DEF Current
<1>4. IndexWhole'
  <2>1. \A d \in Days : index'[d] = index[d] \/ index'[d] = <<>>
    BY <1>2
  <2>2. \A d \in Days : WholeLines(index'[d])
    <3> SUFFICES ASSUME NEW d \in Days
                 PROVE  WholeLines(index'[d])
      OBVIOUS
    <3>1. CASE index'[d] = index[d]
      BY <3>1 DEF Kept, IndexWhole
    <3>2. CASE index'[d] = <<>>
      BY <3>2 DEF WholeLines
    <3> QED
      BY <3>1, <3>2, <2>1
  <2>3. \A d \in Days : EndsLine(index[d]) => EndsLine(index'[d])
    BY <2>1 DEF EndsLine
  <2>4. HalfWay => writer.date \in Days /\ index'[writer.date] = index[writer.date]
    <3> SUFFICES ASSUME HalfWay
                 PROVE  writer.date \in Days /\ index'[writer.date] = index[writer.date]
      OBVIOUS
    <3>1. Current
      BY DEF HalfWay, Kept, FlushHeld
    <3> QED
      BY <3>1, <1>2, <1>3 DEF Current
  <2>5. (HalfWay' <=> HalfWay) /\ NextLine' = NextLine
    BY <1>1 DEF HalfWay, NextLine
  <2> QED
    BY <2>2, <2>3, <2>4, <2>5, <1>1 DEF Kept, IndexWhole
<1>5. InOrder' /\ Confirmations'
  BY <1>1 DEF Kept, InOrder, Follows, Confirmations, Unconfirmed
<1>6. ConfirmedHeld'
  <2>1. \A d \in Days : Old(d) => Old(d)'
    BY <1>1 DEF Old
  <2>2. \A d \in Days : ~Old(d) => index'[d] = index[d] /\ data'[d] = data[d]
    BY <1>1, <1>2
  <2> QED
    BY <2>1, <2>2, <1>1, ConfirmedStay DEF Kept
<1>7. FlushHeld'
  <2>1. ASSUME NEW j \in 1..Len(batch), OnDisk(j)
        PROVE  Held(worker.date, batch[j].key, batch[j].ver)'
    <3>1. worker.date \in Days /\ worker.date # d0
      BY <2>1, <1>3 DEF OnDisk, Kept, FlushHeld, Current
    <3> QED
      BY <2>1, <3>1, <1>1, <1>2, WrittenStays DEF Kept
  <2> QED
    BY <2>1, <1>1 DEF Kept, FlushHeld, OnDisk, Current, Old
<1> QED
  BY <1>4, <1>5, <1>6, <1>7 DEF Kept

\* A restart that interrupts no flush finds whole files.
LEMMA RestartKept ==
    ASSUME IInv, harm = "none", Kept, Restart, harm' = "none"
    PROVE  Kept'
<1>1. /\ worker.pc # "write" /\ \A f \in DOMAIN flying : flying[f] = NoCell
      /\ queue' = <<>> /\ batch' = <<>> /\ worker' = IdleWorker
      /\ flying' = [f \in DOMAIN flying |-> NoCell]
      /\ UNCHANGED <<today, data, index, saved, confirmed, overtaken>>
  BY DEF Restart
<1>2. flying["index"] = NoCell /\ flying'["index"] = NoCell /\ NoCell # NL
  BY <1>1 DEF IInv, Types, NoCell, NL, Cell
<1>3. ~HalfWay /\ ~HalfWay'
  BY <1>1 DEF HalfWay, IdleWorker
<1>4. IndexWhole'
  BY <1>1, <1>2, <1>3 DEF Kept, IndexWhole
<1>5. InOrder'
  BY <1>1 DEF InOrder
<1>6. Confirmations'
  BY <1>1 DEF Kept, Confirmations
<1>7. ConfirmedHeld'
  BY <1>1, ConfirmedStay DEF Kept, Old
<1>8. FlushHeld'
  BY <1>1 DEF FlushHeld, IdleWorker
<1> QED
  BY <1>4, <1>5, <1>6, <1>7, <1>8 DEF Kept

LEMMA KeptAtStart == Init => Kept
<1> SUFFICES ASSUME Init
             PROVE  Kept
  OBVIOUS
<1>1. flying["index"] = NoCell /\ ~HalfWay
  BY DEF Init, HalfWay, IdleWorker
<1>2. IndexWhole
  BY <1>1 DEF Init, IndexWhole, WholeLines, EndsLine
<1>3. InOrder
  BY DEF Init, InOrder
<1>4. Confirmations
  <2>1. [date |-> 0, ver |-> 0] \in [date : {0} \cup Days, ver : 0..MaxVersion]
    BY SignatureAssumption
  <2>2. confirmed \in [Keys -> [date : {0} \cup Days, ver : 0..MaxVersion]]
    BY <2>1 DEF Init
  <2> QED
    BY <2>2 DEF Init, Confirmations
<1>5. ConfirmedHeld /\ FlushHeld
  BY DEF Init, ConfirmedHeld, FlushHeld, IdleWorker
<1> QED
  BY <1>2, <1>3, <1>4, <1>5 DEF Kept

LEMMA KeptInductive ==
    ASSUME IInv, harm = "none" => Kept, [Next]_vars, harm' = "none"
    PROVE  Kept'
<1>1. harm = "none"
  <2>1. harm' = harm \/ harm' = "write" \/ (Restart /\ (harm' = harm \/ harm = "none"))
    BY DEF Next, vars, TaskStep, Worker, Disk, PutHot, PutIndex, Enqueue, Stamp, LoadHot,
           GetIndex, PutReaders, ReadData, Migrate, Return, Save, ReadCache, Receive, Tick, Write,
           WriteFails, UpdateIndex, EvictHot, WriteLands, WriteBreaks, CleanUp, NextDay, Restart,
           ghosts
  <2> QED
    BY <2>1
<1>2. Kept /\ harm # "write"
  BY <1>1
<1>t. saved \in [Keys -> Nat] /\ MaxVersion \in Nat
  BY SignatureAssumption DEF IInv, Types
<1>3. ASSUME UNCHANGED <<today, queue, batch, worker, writer, data, index, flying, confirmed,
                         overtaken, saved>>
      PROVE  Kept'
  <2>1. saved' \in [Keys -> Nat] /\ \A k \in Keys : saved[k] <= saved'[k]
    BY <1>3, <1>t
  <2> QED
    BY <2>1, <1>2, <1>3, <1>t, KeptStays
<1>4. CASE UNCHANGED vars
  BY <1>3, <1>4 DEF vars, files, ghosts
<1>5. ASSUME NEW t \in Tasks, TaskStep(t)
      PROVE  Kept'
  <2>1. CASE Enqueue(t)
    BY <2>1, <1>2, EnqueueKept
  <2>2. CASE \/ PutHot(t) \/ PutIndex(t) \/ Stamp(t) \/ LoadHot(t) \/ GetIndex(t)
             \/ PutReaders(t) \/ ReadData(t) \/ Migrate(t) \/ Return(t)
    BY <2>2, <1>3 DEF PutHot, PutIndex, Stamp, LoadHot, GetIndex, PutReaders, ReadData, Migrate,
                      Return, files, ghosts
  <2> QED
    BY <2>1, <2>2, <1>5 DEF TaskStep
<1>6. ASSUME NEW t \in Tasks, NEW k \in Keys, Save(t, k) \/ ReadCache(t, k)
      PROVE  Kept'
  <2>1. CASE Save(t, k)
    <3>1. /\ saved' = [saved EXCEPT ![k] = @ + 1]
          /\ UNCHANGED <<today, queue, batch, worker, writer, data, index, flying, confirmed,
                         overtaken>>
      BY <2>1 DEF Save, files
    <3>2. saved' \in [Keys -> Nat] /\ \A l \in Keys : saved[l] <= saved'[l]
      BY <3>1, <1>t
    <3> QED
      BY <3>1, <3>2, <1>2, <1>t, KeptStays
  <2>2. CASE ReadCache(t, k)
    BY <2>2, <1>3 DEF ReadCache, files, ghosts
  <2> QED
    BY <2>1, <2>2, <1>6
<1>7. CASE Worker
  <2>1. ~WriteFails
    <3>1. Unbroken
      BY <1>2 DEF IInv, FilesSound
    <3> QED
      BY <3>1 DEF WriteFails, Unbroken, File
  <2> QED
    BY <2>1, <1>2, <1>7, ReceiveKept, TickKept, WriteKept, UpdateIndexKept, EvictHotKept DEF Worker
<1>8. CASE Disk
  <2>1. WriteLands("data") \/ WriteLands("index")
    BY <1>8 DEF Disk
  <2> QED
    BY <2>1, <1>2, DataLandsKept, NewlineLandsKept, LineLandsKept
<1>9. ASSUME NEW f \in {"data", "index"}, WriteBreaks(f) \/ \E d \in Days : CleanUp(d, f)
      PROVE  Kept'
  <2>1. ~WriteBreaks(f)
    BY DEF WriteBreaks
  <2> QED
    BY <2>1, <1>2, <1>9, CleanUpKept
<1>10. CASE NextDay
  BY <1>2, <1>10, NextDayKept
<1>11. CASE Restart
  BY <1>1, <1>2, <1>11, RestartKept
<1> QED
  BY <1>4, <1>5, <1>6, <1>7, <1>8, <1>9, <1>10, <1>11 DEF Next


-----------------------------------------------------------------------------
(* The theorems *)

LEMMA Inductive == IInv /\ [Next]_vars => IInv'
<1> SUFFICES ASSUME IInv, [Next]_vars
             PROVE  IInv'
  OBVIOUS
<1>1. CASE UNCHANGED vars
  BY <1>1, OthersStay, FilesStay
  DEF IInv, vars, memory, files, ghosts, Types, TypeOK, BatchFits, EntriesSaved, IsSaved,
      SavedCell, FilesSound
<1>2. ASSUME NEW t \in Tasks, TaskStep(t)
      PROVE  IInv'
  BY <1>2, PutHotKeeps, PutIndexKeeps, EnqueueKeeps, StampKeeps, LoadHotKeeps, GetIndexKeeps,
     PutReadersKeeps, ReadDataKeeps, MigrateKeeps, ReturnKeeps DEF TaskStep
<1>3. ASSUME NEW t \in Tasks, NEW k \in Keys, Save(t, k) \/ ReadCache(t, k)
      PROVE  IInv'
  BY <1>3, SaveKeeps, ReadCacheKeeps
<1>4. CASE Worker
  BY <1>4, ReceiveKeeps, TickKeeps, WriteKeeps, WriteFailsKeeps, UpdateIndexKeeps, EvictHotKeeps
  DEF Worker
<1>5. CASE Disk
  BY <1>5, WriteLandsKeeps DEF Disk
<1>6. ASSUME NEW f \in {"data", "index"}, WriteBreaks(f) \/ \E d \in Days : CleanUp(d, f)
      PROVE  IInv'
  BY <1>6, WriteBreaksKeeps, CleanUpKeeps
<1>7. CASE NextDay
  BY <1>7, NextDayKeeps
<1>8. CASE Restart
  BY <1>8, RestartKeeps
<1> QED
  BY <1>1, <1>2, <1>3, <1>4, <1>5, <1>6, <1>7, <1>8 DEF Next

LEMMA Invariant == Spec => []IInv
<1>1. Init => IInv
  BY Start
<1>2. IInv /\ [Next]_vars => IInv'
  BY Inductive
<1> QED
  BY <1>1, <1>2, PTL DEF Spec

\* Variables keep their types; queue and batch stay within their capacities.
THEOREM TypeCorrect == Spec => []TypeOK
<1>1. IInv => TypeOK
  BY DEF IInv, Types
<1> QED
  BY <1>1, Invariant, PTL

\* Without a failed write, a look-up answers with an entry that was saved for
\* the call it was asked for, however saves, look-ups, migrations, flushes,
\* clean-ups and restarts interleave.
THEOREM EntryIsOwnAlways == Spec => []EntryIsOwn
<1>1. IInv => EntryIsOwn
  <2> SUFFICES ASSUME IInv, harm # "write", NEW t \in Tasks,
                      tasks[t].pc \in {"answered", "migrate"}, tasks[t].entry # NoEntry
               PROVE  /\ tasks[t].entry.key = tasks[t].asked
                      /\ tasks[t].entry.ver \in 1..saved[tasks[t].asked]
    BY DEF EntryIsOwn
  <2>1. tasks[t].entry.key = tasks[t].asked
    BY DEF IInv, FilesSound, TasksPoint, TaskPoints, Answering
  <2>2. IsSaved(tasks[t].entry)
    BY DEF IInv, TasksSound, TaskSound, Answering, Saving
  <2>3. /\ tasks[t].entry.key \in Keys /\ tasks[t].entry.ver \in 1..MaxVersion
        /\ tasks[t].entry.ver <= saved[tasks[t].entry.key]
    BY <2>2 DEF IsSaved, Entries
  <2>4. saved[tasks[t].entry.key] \in 0..MaxVersion
    BY <2>3 DEF IInv, Types
  <2> QED
    BY <2>1, <2>3, <2>4, SignatureAssumption
<1> QED
  BY <1>1, Invariant, PTL

\* Without a failed write, every line of an index file that is not being
\* cleaned up leads to a record of its key.
THEOREM IndexPointsHomeAlways == Spec => []IndexPointsHome
<1>1. IInv => IndexPointsHome
  BY LinesLead DEF IndexPointsHome
<1> QED
  BY <1>1, Invariant, PTL

\* An entry whose hot copy was dropped can be read from its day's files, also
\* over restarts that interrupt no flush: in the confirmed version or a newer
\* one, unless an entry of its key was queued after a newer one was saved.
THEOREM ConfirmedSurvivesAlways == Spec => []ConfirmedSurvives
<1> DEFINE KInv == IInv /\ (harm = "none" => Kept)
<1>1. Init => KInv
  BY Start, KeptAtStart
<1>2. KInv /\ [Next]_vars => KInv'
  BY Inductive, KeptInductive
<1>3. KInv => ConfirmedSurvives
  <2> SUFFICES ASSUME IInv, harm = "none", Kept, NEW k \in Keys,
                      confirmed[k].ver # 0, ~Old(confirmed[k].date)
               PROVE  /\ Readable(confirmed[k].date, k) # 0
                      /\ k \notin overtaken =>
                            Readable(confirmed[k].date, k) >= confirmed[k].ver
    BY DEF ConfirmedSurvives
  <2>1. PICK d \in Days : d = confirmed[k].date
    BY DEF Kept, Confirmations
  <2>2. Held(d, k, confirmed[k].ver)
    BY <2>1 DEF Kept, ConfirmedHeld
  <2>3. Readable(d, k) # 0 /\ Readable(d, k) = At(d, Parsed(index[d])[k]).n
    BY <2>1, <2>2, LinesLead DEF Held
  <2> QED
    BY <2>1, <2>2, <2>3 DEF Held
<1> HIDE DEF KInv
<1> QED
  BY <1>1, <1>2, <1>3, PTL DEF Spec
=============================================================================
