-------------------------- MODULE CheckpointSaver ---------------------------
(***************************************************************************)
(* PostgresCheckpointSaver: the checkpoints of one thread (a run) in three *)
(* tables.  A put stores the row of a checkpoint and one blob for every    *)
(* channel that has a new version; the blobs of the others are those of    *)
(* its ancestors.  A put_writes stores what one task of a step has         *)
(* written.  Reading puts a checkpoint together again, in several          *)
(* statements of a connection that sees what others commit meanwhile.      *)
(* Every statement names its thread, so one thread is enough.              *)
(*                                                                         *)
(* The engine is LangGraph, as run_service.py:209 and builder.py use it:   *)
(* it numbers the checkpoints by time, writes them in the background, one  *)
(* after the other, and goes on if a write fails.  This program invokes    *)
(* each thread once and never reads it again: Resume, a Read of an old     *)
(* checkpoint and the Readers are what the interface of a saver allows,    *)
(* and the properties are its contract with LangGraph.                     *)
(***************************************************************************)
EXTENDS Integers, Sequences, FiniteSets

CONSTANTS
  Channels,  \* of the graph's state
  Tasks,     \* nodes that run in a step
  Engine,    \* the process that runs the graph
  Readers,   \* processes with a saver of their own
  MaxId      \* bound: checkpoints ever taken

ASSUME BoundAssumption == MaxId \in Nat
ASSUME ProcessAssumption == Engine \notin Readers

Ids == 1 .. MaxId
NoId == 0
\* a value is known by the checkpoint that brought it
NoValue == 0
Procs == Readers \cup {Engine}

\* a counter and a random part, which never repeats
Version == [v : 0 .. MaxId, h : 0 .. MaxId]
NoVersion == [v |-> 0, h |-> 0]

VARIABLES
  checkpoints,  \* rows: id, parent, versions, when they were created
  blobs,        \* rows: channel, version, value
  writes,       \* rows: id, task, idx, kind
  clock,        \* the time rows are stamped with
  taken,        \* checkpoints in the order the engine took them
  queue,        \* those it has yet to put
  engine,       \* its state
  reads         \* the get_tuple of each process

tables == <<checkpoints, blobs, writes, clock>>
vars == <<tables, taken, queue, engine, reads>>

-----------------------------------------------------------------------------

IsHighest(n, versions) ==
  /\ \E c \in Channels : versions[c].v = n
  /\ \A c \in Channels : versions[c].v <= n

\* mutant: a version is its counter
CountedVersion(highest) == [v |-> highest + 1, h |-> 0]

\* get_next_version of the highest version so far
NextVersion(highest) == [v |-> highest + 1, h |-> Len(taken) + 1]

Stored(id) == \E row \in checkpoints : row.id = id

\* mutant: rows of the same instant are not told apart
LatestByTime(row) == \A other \in checkpoints : other.created <= row.created

\* order by created_at desc, checkpoint_id desc limit 1
IsLatest(row) ==
  \A other \in checkpoints :
    \/ other.created < row.created
    \/ other.created = row.created /\ other.id <= row.id

\* mutant: whatever blob the channel has
AnyBlobOf(c, version) ==
  IF \E b \in blobs : b.channel = c
  THEN (CHOOSE b \in blobs : b.channel = c).value
  ELSE NoValue

\* the value a blob row gives a channel; none if there is no row or an empty one
BlobOf(c, version) ==
  IF \E b \in blobs : b.channel = c /\ b.version = version
  THEN (CHOOSE b \in blobs : b.channel = c /\ b.version = version).value
  ELSE NoValue

\* WRITES_IDX_MAP: an error has a place of its own
WriteIdx(kind) == IF kind = "error" THEN -1 ELSE 0

\* mutant: the writes of a checkpoint are not read back
NoPending(id) == {}

\* tasks of a checkpoint whose writes are stored
Pending(id) == {w.task : w \in {x \in writes : x.id = id /\ x.kind = "value"}}

-----------------------------------------------------------------------------

Idle == [stage |-> "idle", id |-> NoId, versions |-> [c \in Channels |-> NoVersion],
         left |-> {}, values |-> [c \in Channels |-> NoValue], pending |-> {}]

Dead == [phase |-> "dead", head |-> NoId, versions |-> [c \in Channels |-> NoVersion],
         values |-> [c \in Channels |-> NoValue], todo |-> {}]

Init ==
  /\ checkpoints = {} /\ blobs = {} /\ writes = {} /\ clock = 0
  /\ taken = <<>> /\ queue = <<>>
  /\ engine = Dead
  /\ reads = [p \in Procs |-> Idle]

\* get_tuple, first statement: the row of a checkpoint, or of the latest
ReadRow(p, wanted) ==
  /\ reads[p].stage = "idle"
  /\ p = Engine => engine.phase = "dead" /\ queue = <<>>
  /\ \E row \in checkpoints :
       /\ IF wanted = NoId THEN IsLatest(row) ELSE row.id = wanted
       /\ reads' = [reads EXCEPT ![p] =
            [Idle EXCEPT !.stage = "blobs", !.id = row.id, !.versions = row.versions,
                         !.left = {c \in Channels : row.versions[c] # NoVersion}]]
  /\ engine' = IF p = Engine THEN [engine EXCEPT !.phase = "loading"] ELSE engine
  /\ UNCHANGED <<tables, taken, queue>>

\* one statement for each channel that has a version
ReadBlob(p, c) ==
  /\ reads[p].stage = "blobs" /\ c \in reads[p].left
  /\ reads' = [reads EXCEPT ![p].left = @ \ {c},
                            ![p].values[c] = BlobOf(c, reads[p].versions[c])]
  /\ UNCHANGED <<tables, taken, queue, engine>>

\* the last statement: the writes of the tasks
ReadWrites(p) ==
  /\ reads[p].stage = "blobs" /\ reads[p].left = {}
  /\ reads' = [reads EXCEPT ![p].stage = "done", ![p].pending = Pending(reads[p].id)]
  /\ UNCHANGED <<tables, taken, queue, engine>>

Forget(p) ==
  /\ p # Engine /\ reads[p].stage = "done"
  /\ reads' = [reads EXCEPT ![p] = Idle]
  /\ UNCHANGED <<tables, taken, queue, engine>>

\* the engine goes on from what it has read: tasks with stored writes do not run
Resume ==
  /\ reads[Engine].stage = "done"
  /\ engine' = [phase |-> "live", head |-> reads[Engine].id,
                versions |-> reads[Engine].versions, values |-> reads[Engine].values,
                todo |-> Tasks \ reads[Engine].pending]
  /\ reads' = [reads EXCEPT ![Engine] = Idle]
  /\ UNCHANGED <<tables, taken, queue>>

\* without a row get_tuple returns nothing and the graph starts from its input
Start ==
  /\ engine.phase = "dead" /\ queue = <<>>
  /\ checkpoints = {}
  /\ engine' = [Dead EXCEPT !.phase = "live"]
  /\ UNCHANGED <<tables, taken, queue, reads>>

\* A step ends: some channels have been written, with a value or to nothing,
\* and the checkpoint is handed to the background writer.  The first step writes
\* the initial state, which names every channel.
TakeCheckpoint ==
  /\ engine.phase = "live" /\ engine.todo = {}
  /\ Len(taken) < MaxId
  /\ \E written \in (SUBSET Channels) \ {{}}, filled \in BOOLEAN, highest \in 0 .. MaxId :
       LET id == Len(taken) + 1
           versions == [c \in Channels |-> IF c \in written
                          THEN NextVersion(highest) ELSE engine.versions[c]]
           values == [c \in Channels |-> IF c \notin written THEN engine.values[c]
                        ELSE IF filled THEN id ELSE NoValue]
           before == IF engine.head = NoId THEN {} ELSE taken[engine.head].lineage
       IN
       /\ IsHighest(highest, engine.versions)
       /\ engine.head = NoId => written = Channels /\ filled
       /\ taken' = Append(taken,
            [parent |-> engine.head, versions |-> versions, values |-> values,
             new |-> written, lineage |-> before \cup {id}])
       /\ queue' = Append(queue, id)
       /\ engine' = [phase |-> "live", head |-> id, versions |-> versions,
                     values |-> values, todo |-> Tasks]
  /\ UNCHANGED <<tables, reads>>

\* the graph has come to its end
Stop ==
  /\ engine.phase = "live" /\ engine.todo = {}
  /\ engine' = Dead
  /\ UNCHANGED <<tables, taken, queue, reads>>

-----------------------------------------------------------------------------

\* the blob rows of the channels that have a new version
BlobRows(id) ==
  {[channel |-> c, version |-> taken[id].versions[c], value |-> taken[id].values[c]] :
     c \in taken[id].new}

\* the primary key of a blob
SameKey(b, d) == b.channel = d.channel /\ b.version = d.version

\* the row of a checkpoint
Row(id, now) ==
  [id |-> id, parent |-> taken[id].parent, versions |-> taken[id].versions, created |-> now]

\* mutant: a put that has been done is done again, without looking for its row
PutTwice ==
  /\ queue # <<>>
  /\ LET id == Head(queue) IN
     /\ blobs' = {b \in blobs : ~\E d \in BlobRows(id) : SameKey(b, d)} \cup BlobRows(id)
     /\ clock' = clock + 1
     /\ checkpoints' = checkpoints \cup {Row(id, clock + 1)}
  /\ queue' \in {queue, Tail(queue)}
  /\ UNCHANGED <<writes, taken, engine, reads>>

\* put: blobs and row in one transaction; a row that is there keeps its time
Put ==
  /\ queue # <<>>
  /\ LET id == Head(queue) IN
     /\ blobs' = {b \in blobs : ~\E d \in BlobRows(id) : SameKey(b, d)} \cup BlobRows(id)
     /\ clock' \in {clock, clock + 1}
     /\ checkpoints' = IF Stored(id) THEN checkpoints ELSE checkpoints \cup {Row(id, clock')}
  /\ queue' = Tail(queue)
  /\ UNCHANGED <<writes, taken, engine, reads>>

\* the transaction fails; the writer goes on with the next checkpoint
PutFails ==
  /\ queue # <<>>
  /\ queue' = Tail(queue)
  /\ UNCHANGED <<tables, taken, engine, reads>>

\* put_writes: a row per write, over one that is there
PutWrites(id, t, kind) ==
  LET row == [id |-> id, task |-> t, idx |-> WriteIdx(kind), kind |-> kind] IN
  writes' = {w \in writes : <<w.id, w.task, w.idx>> # <<id, t, row.idx>>} \cup {row}

\* A task returns, or raises and the graph stops; its writes are stored.  What is
\* lost if the process dies before they are is a task that has not returned.
Finish(t, kind) ==
  /\ engine.phase = "live" /\ t \in engine.todo
  /\ PutWrites(engine.head, t, kind)
  /\ engine' = IF kind = "error" THEN Dead ELSE [engine EXCEPT !.todo = @ \ {t}]
  /\ UNCHANGED <<checkpoints, blobs, clock, taken, queue, reads>>

\* three deletes in one transaction, of a thread that nobody writes
DeleteThread ==
  /\ engine.phase # "live" /\ queue = <<>>
  /\ checkpoints' = {} /\ blobs' = {} /\ writes' = {}
  /\ UNCHANGED <<clock, taken, queue, engine, reads>>

\* the process of the engine dies, with what its writer had yet to do
Crash ==
  /\ engine.phase # "dead" \/ queue # <<>>
  /\ engine' = Dead /\ queue' = <<>>
  /\ reads' = [reads EXCEPT ![Engine] = Idle]
  /\ UNCHANGED <<tables, taken>>

Reads(p) ==
  \/ \E wanted \in Ids \cup {NoId} : ReadRow(p, wanted)
  \/ \E c \in Channels : ReadBlob(p, c)
  \/ ReadWrites(p)
  \/ Forget(p)

Runs ==
  \/ Resume \/ Start \/ TakeCheckpoint \/ Stop \/ Crash
  \/ \E t \in Tasks, kind \in {"value", "error"} : Finish(t, kind)

Writes == Put \/ PutFails \/ DeleteThread

Next == Runs \/ Writes \/ \E p \in Procs : Reads(p)

Spec == Init /\ [][Next]_vars

-----------------------------------------------------------------------------

Known == 1 .. Len(taken)
Values == [Channels -> 0 .. MaxId]
Checkpoint ==
  [parent : 0 .. MaxId, versions : [Channels -> Version], values : Values,
   new : SUBSET Channels, lineage : SUBSET Ids]
EngineState ==
  [phase : {"dead", "loading", "live"}, head : 0 .. MaxId,
   versions : [Channels -> Version], values : Values, todo : SUBSET Tasks]
ReadState ==
  [stage : {"idle", "blobs", "done"}, id : 0 .. MaxId, versions : [Channels -> Version],
   left : SUBSET Channels, values : Values, pending : SUBSET Tasks]

\* Types, and the primary keys: the transactions of the saver leave one row per
\* checkpoint, one per version of a channel and one per place of a task's writes.
TypeOK ==
  /\ taken \in Seq(Checkpoint) /\ Len(taken) <= MaxId
  /\ checkpoints \subseteq
       [id : Ids, parent : 0 .. MaxId, versions : [Channels -> Version], created : Nat]
  /\ blobs \subseteq [channel : Channels, version : Version, value : 0 .. MaxId]
  /\ writes \subseteq [id : Ids, task : Tasks, idx : {-1, 0}, kind : {"value", "error"}]
  /\ \A r, s \in checkpoints : r.id = s.id => r = s
  /\ \A b, d \in blobs : SameKey(b, d) => b = d
  /\ \A w, x \in writes : <<w.id, w.task, w.idx>> = <<x.id, x.task, x.idx>> => w = x
  /\ clock \in Nat
  /\ queue \in Seq(Known)
  /\ engine \in EngineState
  /\ reads \in [Procs -> ReadState]

\* a checkpoint and all it descends from are stored
Whole(id) == \A a \in taken[id].lineage : Stored(a)

\* A stored checkpoint reads back what was put, channel by channel, although most
\* of its values are rows of its ancestors and other branches of the run have
\* written other values under the same counter (checkpoint.py:41, :72-83, :191):
\* unless the put of an ancestor has failed, which get_tuple does not notice.
ReadsBack ==
  \A id \in Known : Whole(id) =>
    \A c \in Channels : BlobOf(c, taken[id].versions[c]) = taken[id].values[c]

\* A read that takes its row and its blobs in different statements still returns
\* one checkpoint, whatever has been put between them, unless its thread has been
\* deleted meanwhile (checkpoint.py:62, :72-83; a reader in another process does
\* not take the writer's lock).
ReadsAreSnapshots ==
  \A p \in Procs :
    reads[p].stage = "done" /\ Whole(reads[p].id) =>
      reads[p].values = taken[reads[p].id].values

\* A run goes on from the last checkpoint that was stored, also if several carry
\* the same time (checkpoint.py:60).
LatestIsNewest ==
  \A row \in checkpoints : IsLatest(row) =>
    \A other \in checkpoints : other.id <= row.id

TaskDone(id, t) ==
  \E w \in writes : w.id = id /\ w.task = t /\ w.kind = "value"

\* A task whose writes are stored does not run again from its checkpoint, however
\* often the run fails and goes on (REBUILD_SPEC.md:984; checkpoint.py:87-99).
NothingDoneTwice ==
  engine.phase = "live" => \A t \in engine.todo : ~TaskDone(engine.head, t)
=============================================================================
