----------------------- MODULE CheckpointSaverProofs ------------------------
(***************************************************************************)
(* Proofs about CheckpointSaver, for any channels, tasks, readers and any  *)
(* number of checkpoints.                                                  *)
(***************************************************************************)
EXTENDS CheckpointSaver, TLAPS

-----------------------------------------------------------------------------
(***************************************************************************)
(* The inductive invariant.                                                *)
(***************************************************************************)

\* the put of a checkpoint has failed, died with its process, or been deleted
Lost(id) == ~Stored(id) /\ \A i \in 1 .. Len(queue) : queue[i] # id

\* the value of a channel is that of the checkpoint its version is from
ValueOf(c, version) ==
  IF version = NoVersion THEN NoValue ELSE taken[version.h].values[c]

\* a version was given to the channel by a checkpoint of the lineage
IsVersion(c, version, lineage) ==
  \/ version = NoVersion
  \/ /\ version.h \in lineage /\ version.v <= version.h
     /\ c \in taken[version.h].new
     /\ taken[version.h].versions[c] = version

\* values are those of their versions, or something of the lineage is lost
Faithful(values, versions, lineage) ==
  \/ \A c \in Channels : values[c] = ValueOf(c, versions[c])
  \/ \E a \in lineage : Lost(a)

HistoryOf(id) ==
  /\ taken[id].lineage \subseteq 1 .. id /\ id \in taken[id].lineage
  /\ \A c \in Channels : IsVersion(c, taken[id].versions[c], taken[id].lineage)
  /\ \A c \in taken[id].new : taken[id].versions[c].h = id
  /\ Faithful(taken[id].values, taken[id].versions, taken[id].lineage)

HistoryInv == \A id \in Known : HistoryOf(id)

RowsInv ==
  /\ \A row \in checkpoints :
       row.id \in Known /\ row.versions = taken[row.id].versions /\ row.created <= clock
  /\ \A r, s \in checkpoints : r.id < s.id => r.created <= s.created

BlobsInv ==
  /\ \A b \in blobs :
       /\ b.version.h \in Known /\ b.channel \in taken[b.version.h].new
       /\ b.version = taken[b.version.h].versions[b.channel]
       /\ b.value = taken[b.version.h].values[b.channel]
  /\ \A row \in checkpoints : \A c \in taken[row.id].new :
       \E b \in blobs : b.channel = c /\ b.version = taken[row.id].versions[c]

WritesInv == \A w \in writes : w.id \in Known

\* what is stored is older than what is queued, and that is in order
QueueInv ==
  /\ \A i, j \in 1 .. Len(queue) : i < j => queue[i] < queue[j]
  /\ \A row \in checkpoints : \A i \in 1 .. Len(queue) : row.id < queue[i]

\* the engine goes on from a checkpoint it has taken, or starts
HeadInv ==
  /\ engine.phase = "live" /\ engine.head # NoId =>
       /\ engine.head \in Known
       /\ engine.versions = taken[engine.head].versions
       /\ Faithful(engine.values, engine.versions, taken[engine.head].lineage)
  /\ engine.phase = "live" /\ engine.head = NoId =>
       engine.todo = {} /\ engine.versions = [c \in Channels |-> NoVersion]

EngineInv ==
  /\ HeadInv
  /\ engine.phase = "live" => \A t \in engine.todo : ~TaskDone(engine.head, t)
  /\ engine.phase = "loading" <=> reads[Engine].stage # "idle"
  /\ engine.phase = "loading" => queue = <<>>

\* what a process has read so far
ReadInv(p) ==
  LET read == reads[p] IN
  read.stage # "idle" =>
    /\ read.id \in Known
    /\ read.versions = taken[read.id].versions
    /\ \A i \in 1 .. Len(queue) : read.id < queue[i]
    /\ \/ \A c \in Channels \ read.left : read.values[c] = ValueOf(c, read.versions[c])
       \/ \E a \in taken[read.id].lineage : Lost(a)
    /\ read.stage = "done" => read.left = {}

\* what the engine has read of the writes is all there is
PendingInv ==
  reads[Engine].stage = "done" =>
    \A w \in writes :
      w.id = reads[Engine].id /\ w.kind = "value" => w.task \in reads[Engine].pending

SaverInv ==
  /\ TypeOK /\ HistoryInv /\ RowsInv /\ BlobsInv /\ WritesInv /\ QueueInv
  /\ EngineInv /\ (\A p \in Procs : ReadInv(p)) /\ PendingInv

-----------------------------------------------------------------------------
(***************************************************************************)
(* What no step takes back.                                                *)
(***************************************************************************)

LEMMA TakenTyped ==
  ASSUME TypeOK, NEW id \in Known
  PROVE  /\ id \in Ids /\ Len(taken) \in Nat
         /\ taken[id] \in Checkpoint
         /\ taken[id].parent \in 0 .. MaxId
         /\ taken[id].versions \in [Channels -> Version]
         /\ taken[id].values \in Values
         /\ taken[id].new \subseteq Channels
         /\ taken[id].lineage \subseteq Ids
<1>1. taken \in Seq(Checkpoint) /\ Len(taken) \in Nat /\ Len(taken) <= MaxId
  BY DEF TypeOK
<1>2. taken[id] \in Checkpoint /\ id \in Ids
  BY <1>1, BoundAssumption DEF Known, Ids
<1> QED
  BY <1>1, <1>2 DEF Checkpoint

LEMMA QueueTyped ==
  ASSUME TypeOK
  PROVE  /\ queue \in Seq(Known) /\ Len(queue) \in Nat
         /\ \A i \in 1 .. Len(queue) : queue[i] \in Known /\ queue[i] \in Nat
         /\ queue # <<>> =>
              /\ Head(queue) = queue[1] /\ 1 \in 1 .. Len(queue)
              /\ Tail(queue) \in Seq(Known) /\ Len(Tail(queue)) = Len(queue) - 1
              /\ \A i \in 1 .. Len(Tail(queue)) :
                   i + 1 \in 1 .. Len(queue) /\ Tail(queue)[i] = queue[i + 1]
<1>1. queue \in Seq(Known)
  BY DEF TypeOK
<1>2. /\ Len(queue) \in Nat
      /\ \A i \in 1 .. Len(queue) : queue[i] \in Known
  BY <1>1
<1>3. \A i \in Known : i \in Nat
  BY DEF Known
<1>4. ASSUME queue # <<>>
      PROVE  /\ Head(queue) = queue[1] /\ 1 \in 1 .. Len(queue)
             /\ Tail(queue) \in Seq(Known) /\ Len(Tail(queue)) = Len(queue) - 1
             /\ \A i \in 1 .. Len(Tail(queue)) :
                  i + 1 \in 1 .. Len(queue) /\ Tail(queue)[i] = queue[i + 1]
  <2>1. Len(queue) # 0
    BY <1>1, <1>4
  <2>2. Tail(queue) \in Seq(Known) /\ Len(Tail(queue)) = Len(queue) - 1
    BY <1>1, <1>4
  <2>3. \A i \in 1 .. Len(Tail(queue)) : Tail(queue)[i] = queue[i + 1]
    BY <1>1, <1>4, <2>2
  <2> QED
    BY <1>1, <1>2, <2>1, <2>2, <2>3
<1> QED
  BY <1>1, <1>2, <1>3, <1>4

\* checkpoints stay as they were taken, what is lost stays lost, and what is older
\* than the queue stays older
Continues ==
  /\ Len(taken) <= Len(taken')
  /\ \A id \in Known : id \in 1 .. Len(taken') /\ taken'[id] = taken[id]
  /\ \A id \in Known : Lost(id) => Lost(id)'
  /\ \A id \in Known : (\A i \in 1 .. Len(queue) : id < queue[i]) =>
                       \A i \in 1 .. Len(queue') : id < queue'[i]

LEMMA TakeContinues ==
  ASSUME TypeOK, TakeCheckpoint
  PROVE  Continues
<1>1. PICK cp : taken' = Append(taken, cp)
  BY DEF TakeCheckpoint
<1>2. queue' = Append(queue, Len(taken) + 1) /\ checkpoints' = checkpoints
  BY DEF TakeCheckpoint, tables
<1>3. taken \in Seq(Checkpoint) /\ Len(taken) \in Nat
  BY DEF TypeOK
<1>4. /\ Len(taken') = Len(taken) + 1
      /\ \A id \in Known : id \in 1 .. Len(taken') /\ taken'[id] = taken[id]
  BY <1>1, <1>3 DEF Known
<1>5. /\ Len(queue') = Len(queue) + 1 /\ Len(queue) \in Nat
      /\ \A i \in 1 .. Len(queue) : queue'[i] = queue[i]
      /\ queue'[Len(queue) + 1] = Len(taken) + 1
  BY <1>2, QueueTyped
<1>6. \A i \in 1 .. Len(queue') : i \in 1 .. Len(queue) \/ i = Len(queue) + 1
  BY <1>5
<1>7. ASSUME NEW id \in Known, Lost(id) PROVE Lost(id)'
  <2>1. id # Len(taken) + 1 /\ ~Stored(id)'
    BY <1>2, <1>3, <1>7 DEF Known, Lost, Stored
  <2> QED
    BY <1>5, <1>6, <1>7, <2>1 DEF Lost
<1>8. ASSUME NEW id \in Known, \A i \in 1 .. Len(queue) : id < queue[i]
      PROVE  \A i \in 1 .. Len(queue') : id < queue'[i]
  <2>1. id < Len(taken) + 1
    BY <1>3 DEF Known
  <2> QED
    BY <1>5, <1>6, <1>8, <2>1
<1> QED
  BY <1>3, <1>4, <1>7, <1>8 DEF Continues

\* nothing is added to the queue and only its head may be stored
LEMMA RestContinues ==
  ASSUME TypeOK, QueueInv, taken' = taken,
         \/ queue' = queue
         \/ queue' = <<>>
         \/ queue # <<>> /\ queue' = Tail(queue),
         \/ checkpoints' \subseteq checkpoints
         \/ queue # <<>> /\ \A row \in checkpoints' : row \in checkpoints \/ row.id = Head(queue)
  PROVE  Continues
<1>1. Len(taken) \in Nat /\ \A id \in Known : id \in 1 .. Len(taken') /\ taken'[id] = taken[id]
  BY DEF TypeOK, Known
<1>2. \A i \in 1 .. Len(queue') : \E j \in 1 .. Len(queue) : queue'[i] = queue[j]
  BY QueueTyped
<1>3. ASSUME NEW id \in Known, Lost(id) PROVE Lost(id)'
  <2>1. ~Stored(id)'
    BY <1>3, QueueTyped DEF Lost, Stored
  <2> QED
    BY <1>2, <1>3, <2>1 DEF Lost
<1> QED
  BY <1>1, <1>2, <1>3 DEF Continues

LEMMA StepContinues ==
  ASSUME TypeOK, QueueInv, Next
  PROVE  Continues
<1>1. CASE TakeCheckpoint
  BY <1>1, TakeContinues
<1>2. CASE Put
  <2>1. queue # <<>> /\ taken' = taken /\ queue' = Tail(queue)
    BY <1>2 DEF Put
  <2>2. \A row \in checkpoints' : row \in checkpoints \/ row.id = Head(queue)
    BY <1>2 DEF Put, Row
  <2> QED
    BY <2>1, <2>2, RestContinues
<1>3. CASE PutFails \/ DeleteThread \/ Crash
  BY <1>3, RestContinues DEF PutFails, DeleteThread, Crash, tables
<1>4. CASE Resume \/ Start \/ Stop \/ \E t \in Tasks, kind \in {"value", "error"} : Finish(t, kind)
  BY <1>4, RestContinues DEF Resume, Start, Stop, Finish, tables
<1>5. CASE \E p \in Procs : Reads(p)
  BY <1>5, RestContinues DEF Reads, ReadRow, ReadBlob, ReadWrites, Forget, tables
<1> QED
  BY <1>1, <1>2, <1>3, <1>4, <1>5 DEF Next, Runs, Writes

-----------------------------------------------------------------------------
(***************************************************************************)
(* A checkpoint is taken.                                                  *)
(***************************************************************************)

\* what the engine holds of the checkpoint it goes on from
LEMMA EngineHolds ==
  ASSUME TypeOK, HistoryInv, EngineInv, engine.phase = "live"
  PROVE  /\ engine.versions \in [Channels -> Version] /\ engine.values \in Values
         /\ engine.head # NoId => engine.head \in Known
         /\ \A c \in Channels :
              \/ engine.versions[c] = NoVersion
              \/ /\ engine.head # NoId
                 /\ IsVersion(c, engine.versions[c], taken[engine.head].lineage)
         /\ \A c \in Channels : engine.versions[c].v <= Len(taken)
<1>1. engine.versions \in [Channels -> Version] /\ engine.values \in Values
  BY DEF TypeOK, EngineState
<1>2. engine.head # NoId =>
        engine.head \in Known /\ engine.versions = taken[engine.head].versions
  BY DEF EngineInv, HeadInv
<1>3. \A c \in Channels :
        \/ engine.versions[c] = NoVersion
        \/ /\ engine.head # NoId
           /\ IsVersion(c, engine.versions[c], taken[engine.head].lineage)
  BY <1>2 DEF EngineInv, HeadInv, HistoryInv, HistoryOf
<1>4. ASSUME NEW c \in Channels PROVE engine.versions[c].v <= Len(taken)
  <2>1. Len(taken) \in Nat
    BY DEF TypeOK
  <2>2. CASE engine.versions[c] = NoVersion
    BY <2>1, <2>2 DEF NoVersion
  <2>3. CASE engine.versions[c] # NoVersion
    <3>1. /\ engine.head \in 1 .. Len(taken)
          /\ engine.versions[c].h \in taken[engine.head].lineage
          /\ engine.versions[c].v <= engine.versions[c].h
      BY <1>2, <1>3, <2>3 DEF IsVersion, Known
    <3>2. taken[engine.head].lineage \subseteq 1 .. engine.head
      BY <1>2, <1>3, <2>3 DEF HistoryInv, HistoryOf
    <3>3. engine.versions[c].v \in Nat
      BY <1>1, BoundAssumption DEF Version
    <3> QED
      BY <2>1, <3>1, <3>2, <3>3
  <2> QED
    BY <2>2, <2>3
<1> QED
  BY <1>1, <1>2, <1>3, <1>4

\* the checkpoint that is taken, in terms of what the engine holds
Takes(id, cp, written) ==
  /\ id = Len(taken) + 1 /\ id \in Ids
  /\ cp \in Checkpoint /\ written # {}
  /\ taken' = Append(taken, cp) /\ queue' = Append(queue, id)
  /\ cp.new = written /\ cp.parent = engine.head
  /\ cp.lineage = (IF engine.head = NoId THEN {} ELSE taken[engine.head].lineage) \cup {id}
  /\ engine.head = NoId => written = Channels
  /\ \A c \in written : /\ cp.versions[c].h = id
                        /\ cp.versions[c].v <= id
  /\ \A c \in Channels \ written :
       cp.versions[c] = engine.versions[c] /\ cp.values[c] = engine.values[c]
  /\ engine' = [phase |-> "live", head |-> id, versions |-> cp.versions,
                values |-> cp.values, todo |-> Tasks]

LEMMA TakeTakes ==
  ASSUME TypeOK, HistoryInv, EngineInv, TakeCheckpoint
  PROVE  \E id, cp, written : Takes(id, cp, written)
<1> PICK written \in (SUBSET Channels) \ {{}}, filled \in BOOLEAN, highest \in 0 .. MaxId :
      LET id == Len(taken) + 1
          versions == [c \in Channels |-> IF c \in written
                         THEN NextVersion(highest) ELSE engine.versions[c]]
          values == [c \in Channels |-> IF c \notin written THEN engine.values[c]
                       ELSE IF filled THEN id ELSE NoValue]
          before == IF engine.head = NoId THEN {} ELSE taken[engine.head].lineage
      IN
      /\ IsHighest(highest, engine.versions)
      /\ engine.head = NoId => written = Channels /\ filled
      /\ taken' = Append(taken,
           [parent |-> engine.head, versions |-> versions, values |-> values,
            new |-> written, lineage |-> before \cup {id}])
      /\ queue' = Append(queue, id)
      /\ engine' = [phase |-> "live", head |-> id, versions |-> versions,
                    values |-> values, todo |-> Tasks]
  BY DEF TakeCheckpoint
<1> DEFINE id == Len(taken) + 1
           versions == [c \in Channels |-> IF c \in written
                          THEN NextVersion(highest) ELSE engine.versions[c]]
           values == [c \in Channels |-> IF c \notin written THEN engine.values[c]
                        ELSE IF filled THEN id ELSE NoValue]
           before == IF engine.head = NoId THEN {} ELSE taken[engine.head].lineage
           cp == [parent |-> engine.head, versions |-> versions, values |-> values,
                  new |-> written, lineage |-> before \cup {id}]
<1>1. engine.phase = "live" /\ Len(taken) < MaxId
  BY DEF TakeCheckpoint
<1>2. Len(taken) \in Nat /\ id \in Ids /\ id \in 0 .. MaxId
  BY <1>1, BoundAssumption DEF TypeOK, Ids
<1>3. /\ engine.versions \in [Channels -> Version] /\ engine.values \in Values
      /\ engine.head # NoId => engine.head \in Known
      /\ \A c \in Channels : engine.versions[c].v <= Len(taken)
  BY <1>1, EngineHolds
<1>4. highest <= Len(taken) /\ highest \in Nat
  BY <1>3 DEF IsHighest
<1>5. NextVersion(highest) \in Version
  <2>1. highest + 1 \in 0 .. MaxId
    BY <1>1, <1>2, <1>4, BoundAssumption
  <2> QED
    BY <1>2, <2>1 DEF NextVersion, Version
<1>6. versions \in [Channels -> Version]
  BY <1>3, <1>5
<1>7. values \in Values
  BY <1>2, <1>3, BoundAssumption DEF Values, NoValue
<1>8. engine.head \in 0 .. MaxId
  BY DEF TypeOK, EngineState
<1>9. before \cup {id} \subseteq Ids
  BY <1>2, <1>3, TakenTyped
<1>10. cp \in Checkpoint
  BY <1>6, <1>7, <1>8, <1>9 DEF Checkpoint
<1>11. \A c \in written : cp.versions[c].h = id /\ cp.versions[c].v <= id
  BY <1>2, <1>4 DEF NextVersion
<1>12. \A c \in Channels \ written :
         cp.versions[c] = engine.versions[c] /\ cp.values[c] = engine.values[c]
  OBVIOUS
<1>13. /\ cp.parent = engine.head /\ cp.new = written /\ cp.lineage = before \cup {id}
       /\ cp.versions = versions /\ cp.values = values
  OBVIOUS
<1>14. taken' = Append(taken, cp) /\ queue' = Append(queue, id)
  OBVIOUS
<1>15. engine' = [phase |-> "live", head |-> id, versions |-> cp.versions,
                  values |-> cp.values, todo |-> Tasks]
  OBVIOUS
<1>16. engine.head = NoId => written = Channels
  BY Zenon
<1>17. written # {}
  BY Zenon
<1> HIDE DEF cp, versions, values
<1>18. Takes(id, cp, written)
  BY <1>2, <1>10, <1>11, <1>12, <1>13, <1>14, <1>15, <1>16, <1>17 DEF Takes
<1> QED
  BY <1>18

\* what the checkpoint that is taken adds to the history
LEMMA TakesAdds ==
  ASSUME TypeOK, HistoryInv, EngineInv, engine.phase = "live",
         NEW id, NEW cp, NEW written, Takes(id, cp, written)
  PROVE  /\ Len(taken) \in Nat /\ taken' \in Seq(Checkpoint) /\ Len(taken') = id
         /\ id \in Nat /\ Known' = Known \cup {id} /\ taken'[id] = cp
         /\ \A k \in Known : taken'[k] = taken[k] /\ k < id
         /\ cp.lineage \subseteq 1 .. id /\ id \in cp.lineage
         /\ cp.lineage \ {id} \subseteq Known
<1>1. taken \in Seq(Checkpoint) /\ Len(taken) \in Nat
  BY DEF TypeOK
<1>2. taken' = Append(taken, cp) /\ cp \in Checkpoint /\ id = Len(taken) + 1
  BY DEF Takes
<1>3. taken' \in Seq(Checkpoint) /\ Len(taken') = id /\ taken'[id] = cp /\ id \in Nat
  BY <1>1, <1>2
<1>4. \A k \in Known : taken'[k] = taken[k] /\ k < id
  BY <1>1, <1>2 DEF Known
<1>5. Known' = Known \cup {id}
  BY <1>1, <1>2, <1>3 DEF Known
<1>6. engine.head # NoId => engine.head \in Known
  BY EngineHolds
<1>7. engine.head # NoId => taken[engine.head].lineage \subseteq 1 .. engine.head
  BY <1>6 DEF HistoryInv, HistoryOf
<1>8. cp.lineage \ {id} \subseteq Known /\ id \in cp.lineage
  BY <1>1, <1>2, <1>6, <1>7 DEF Takes, Known
<1> QED
  BY <1>1, <1>2, <1>3, <1>4, <1>5, <1>8 DEF Known

-----------------------------------------------------------------------------
(***************************************************************************)
(* Types and primary keys.                                                 *)
(***************************************************************************)

LEMMA FrameTypes ==
  /\ NoVersion \in Version
  /\ Dead \in EngineState
  /\ Idle \in ReadState
<1>1. 0 \in 0 .. MaxId
  BY BoundAssumption
<1>2. NoVersion \in Version
  BY <1>1 DEF NoVersion, Version
<1> QED
  BY <1>1, <1>2 DEF Dead, Idle, EngineState, ReadState, Values, NoId, NoValue

LEMMA BlobRowsTyped ==
  ASSUME TypeOK, NEW id \in Known
  PROVE  /\ BlobRows(id) \subseteq [channel : Channels, version : Version, value : 0 .. MaxId]
         /\ \A b, d \in BlobRows(id) : SameKey(b, d) => b = d
<1>1. \A c \in taken[id].new :
        c \in Channels /\ taken[id].versions[c] \in Version /\ taken[id].values[c] \in 0 .. MaxId
  BY TakenTyped DEF Values
<1>2. BlobRows(id) \subseteq [channel : Channels, version : Version, value : 0 .. MaxId]
  BY <1>1 DEF BlobRows
<1> QED
  BY <1>2 DEF BlobRows, SameKey

LEMMA PutTypes ==
  ASSUME TypeOK, Put
  PROVE  TypeOK'
<1> DEFINE id == Head(queue)
<1>1. queue # <<>> /\ id \in Known /\ Tail(queue) \in Seq(Known)
  BY QueueTyped DEF Put
<1>2. /\ blobs' = {b \in blobs : ~\E d \in BlobRows(id) : SameKey(b, d)} \cup BlobRows(id)
      /\ clock' \in {clock, clock + 1}
      /\ checkpoints' = IF Stored(id) THEN checkpoints ELSE checkpoints \cup {Row(id, clock')}
      /\ queue' = Tail(queue) /\ taken' = taken /\ writes' = writes
      /\ engine' = engine /\ reads' = reads
  BY DEF Put
<1>3. Known' = Known
  BY <1>2 DEF Known
<1>4. /\ blobs' \subseteq [channel : Channels, version : Version, value : 0 .. MaxId]
      /\ \A b, d \in blobs' : SameKey(b, d) => b = d
  <2>1. /\ BlobRows(id) \subseteq [channel : Channels, version : Version, value : 0 .. MaxId]
        /\ \A b, d \in BlobRows(id) : SameKey(b, d) => b = d
    BY <1>1, BlobRowsTyped
  <2>2. ASSUME NEW b \in blobs', NEW d \in blobs', SameKey(b, d)
        PROVE  b = d
    <3>1. SameKey(d, b)
      BY <2>2 DEF SameKey
    <3>2. b \in BlobRows(id) \/ (b \in blobs /\ ~\E e \in BlobRows(id) : SameKey(b, e))
      BY <1>2
    <3>3. d \in BlobRows(id) \/ (d \in blobs /\ ~\E e \in BlobRows(id) : SameKey(d, e))
      BY <1>2
    <3> QED
      BY <2>1, <2>2, <3>1, <3>2, <3>3 DEF TypeOK
  <2> QED
    BY <1>2, <2>1, <2>2 DEF TypeOK
<1>5. clock' \in Nat
  BY <1>2 DEF TypeOK
<1>6. /\ checkpoints' \subseteq
           [id : Ids, parent : 0 .. MaxId, versions : [Channels -> Version], created : Nat]
      /\ \A r, s \in checkpoints' : r.id = s.id => r = s
  <2>1. Row(id, clock') \in
          [id : Ids, parent : 0 .. MaxId, versions : [Channels -> Version], created : Nat]
    BY <1>1, <1>5, TakenTyped DEF Row
  <2>2. Row(id, clock').id = id
    BY DEF Row
  <2> QED
    BY <1>2, <2>1, <2>2 DEF TypeOK, Stored
<1>7. queue' \in Seq(Known)'
  BY <1>1, <1>2, <1>3
<1>8. /\ taken' \in Seq(Checkpoint) /\ Len(taken') <= MaxId
      /\ engine' \in EngineState /\ reads' \in [Procs -> ReadState]
      /\ writes' \subseteq [id : Ids, task : Tasks, idx : {-1, 0}, kind : {"value", "error"}]
      /\ \A w, x \in writes' : <<w.id, w.task, w.idx>> = <<x.id, x.task, x.idx>> => w = x
  BY <1>2 DEF TypeOK
<1> QED
  BY <1>4, <1>5, <1>6, <1>7, <1>8 DEF TypeOK, SameKey

LEMMA FinishTypes ==
  ASSUME TypeOK, EngineInv, NEW t \in Tasks, NEW kind \in {"value", "error"}, Finish(t, kind)
  PROVE  TypeOK'
<1> DEFINE row == [id |-> engine.head, task |-> t, idx |-> WriteIdx(kind), kind |-> kind]
<1>1. engine.phase = "live" /\ t \in engine.todo
  BY DEF Finish
<1>2. engine.head \in Known
  BY <1>1 DEF EngineInv, HeadInv
<1>3. engine.head \in Ids
  BY <1>2, TakenTyped
<1>4. row \in [id : Ids, task : Tasks, idx : {-1, 0}, kind : {"value", "error"}]
  BY <1>3 DEF WriteIdx
<1>5. writes' = {w \in writes : <<w.id, w.task, w.idx>> # <<engine.head, t, row.idx>>} \cup {row}
  BY DEF Finish, PutWrites
<1>6. row.id = engine.head /\ row.task = t
  OBVIOUS
<1> HIDE DEF row
<1>7. writes' \subseteq [id : Ids, task : Tasks, idx : {-1, 0}, kind : {"value", "error"}]
  BY <1>4, <1>5 DEF TypeOK
<1>8. ASSUME NEW w \in writes', NEW x \in writes', <<w.id, w.task, w.idx>> = <<x.id, x.task, x.idx>>
      PROVE  w = x
  <2>1. w = row \/ (w \in writes /\ <<w.id, w.task, w.idx>> # <<engine.head, t, row.idx>>)
    BY <1>5
  <2>2. x = row \/ (x \in writes /\ <<x.id, x.task, x.idx>> # <<engine.head, t, row.idx>>)
    BY <1>5
  <2> QED
    BY <1>6, <1>8, <2>1, <2>2 DEF TypeOK
<1>9. engine' \in EngineState
  <2>1. CASE kind = "error"
    BY <2>1, FrameTypes DEF Finish
  <2>2. CASE kind # "error"
    <3>1. engine' = [engine EXCEPT !.todo = @ \ {t}]
      BY <2>2 DEF Finish
    <3>2. engine \in EngineState
      BY DEF TypeOK
    <3> QED
      BY <3>1, <3>2 DEF EngineState
  <2> QED
    BY <2>1, <2>2
<1>10. /\ checkpoints' = checkpoints /\ blobs' = blobs /\ clock' = clock
       /\ taken' = taken /\ queue' = queue /\ reads' = reads /\ Known' = Known
  BY DEF Finish, Known
<1> QED
  BY <1>7, <1>8, <1>9, <1>10 DEF TypeOK, SameKey

LEMMA TakeTypes ==
  ASSUME TypeOK, HistoryInv, EngineInv, TakeCheckpoint
  PROVE  TypeOK'
<1>1. PICK id, cp, written : Takes(id, cp, written)
  BY TakeTakes
<1>2. engine.phase = "live" /\ tables' = tables /\ reads' = reads
  BY DEF TakeCheckpoint
<1>3. checkpoints' = checkpoints /\ blobs' = blobs /\ writes' = writes /\ clock' = clock
  BY <1>2 DEF tables
<1>4. taken' \in Seq(Checkpoint) /\ Known' = Known \cup {id} /\ Len(taken') = id
  BY <1>1, <1>2, TakesAdds
<1>5. queue' \in Seq(Known)'
  <2>1. queue \in Seq(Known \cup {id})
    BY QueueTyped
  <2> QED
    BY <1>1, <1>4, <2>1 DEF Takes
<1>6. Len(taken') <= MaxId
  BY <1>1, <1>4, BoundAssumption DEF Takes, Ids
<1>7. engine' \in EngineState
  <2>1. id \in 0 .. MaxId /\ cp.versions \in [Channels -> Version] /\ cp.values \in Values
    BY <1>1, BoundAssumption DEF Takes, Ids, Checkpoint
  <2> QED
    BY <1>1, <2>1 DEF Takes, EngineState
<1> QED
  BY <1>2, <1>3, <1>4, <1>5, <1>6, <1>7 DEF TypeOK, SameKey

\* a blob gives a value of the right kind
LEMMA BlobOfTyped ==
  ASSUME TypeOK, NEW c, NEW version
  PROVE  BlobOf(c, version) \in 0 .. MaxId
<1>1. 0 \in 0 .. MaxId
  BY BoundAssumption
<1>2. CASE \E b \in blobs : b.channel = c /\ b.version = version
  <2> DEFINE found == CHOOSE b \in blobs : b.channel = c /\ b.version = version
  <2>1. found \in blobs
    BY <1>2
  <2>2. BlobOf(c, version) = found.value
    BY <1>2 DEF BlobOf
  <2> QED
    BY <2>1, <2>2 DEF TypeOK
<1>3. CASE ~\E b \in blobs : b.channel = c /\ b.version = version
  BY <1>1, <1>3 DEF BlobOf, NoValue
<1> QED
  BY <1>2, <1>3

\* only the reads of one process change, and they keep their type
LEMMA ReadsTypes ==
  ASSUME TypeOK, NEW p \in Procs, Reads(p)
  PROVE  TypeOK'
<1>1. reads \in [Procs -> ReadState] /\ reads[p] \in ReadState
  BY DEF TypeOK
<1>2. /\ checkpoints' = checkpoints /\ blobs' = blobs /\ clock' = clock /\ writes' = writes
      /\ taken' = taken /\ queue' = queue /\ Known' = Known
  BY DEF Reads, ReadRow, ReadBlob, ReadWrites, Forget, tables, Known
<1>3. engine' \in EngineState
  BY DEF Reads, ReadRow, ReadBlob, ReadWrites, Forget, TypeOK, EngineState
<1>4. reads' \in [Procs -> ReadState]
  <2>1. CASE \E wanted \in Ids \cup {NoId} : ReadRow(p, wanted)
    <3>1. PICK row \in checkpoints :
            reads' = [reads EXCEPT ![p] =
              [Idle EXCEPT !.stage = "blobs", !.id = row.id, !.versions = row.versions,
                           !.left = {c \in Channels : row.versions[c] # NoVersion}]]
      BY <2>1 DEF ReadRow
    <3> DEFINE read == [Idle EXCEPT !.stage = "blobs", !.id = row.id, !.versions = row.versions,
                           !.left = {c \in Channels : row.versions[c] # NoVersion}]
    <3>2. row.id \in 0 .. MaxId /\ row.versions \in [Channels -> Version]
      BY BoundAssumption DEF TypeOK, Ids
    <3>3. read \in ReadState
      BY <3>2, FrameTypes DEF ReadState
    <3> QED
      BY <1>1, <3>1, <3>3
  <2>2. CASE \E c \in Channels : ReadBlob(p, c)
    <3>1. PICK c \in Channels :
            reads' = [reads EXCEPT ![p].left = @ \ {c},
                                   ![p].values[c] = BlobOf(c, reads[p].versions[c])]
      BY <2>2 DEF ReadBlob
    <3>2. BlobOf(c, reads[p].versions[c]) \in 0 .. MaxId
      BY BlobOfTyped
    <3> QED
      BY <1>1, <3>1, <3>2 DEF ReadState, Values
  <2>3. CASE ReadWrites(p)
    <3>1. Pending(reads[p].id) \subseteq Tasks
      BY DEF Pending, TypeOK
    <3>2. reads' = [reads EXCEPT ![p].stage = "done", ![p].pending = Pending(reads[p].id)]
      BY <2>3 DEF ReadWrites
    <3> QED
      BY <1>1, <3>1, <3>2 DEF ReadState
  <2>4. CASE Forget(p)
    BY <1>1, <2>4, FrameTypes DEF Forget
  <2> QED
    BY <2>1, <2>2, <2>3, <2>4 DEF Reads
<1> QED
  BY <1>2, <1>3, <1>4 DEF TypeOK, SameKey

LEMMA RunsTypes ==
  ASSUME TypeOK, Resume \/ Start \/ Stop \/ Crash
  PROVE  TypeOK'
<1>1. /\ checkpoints' = checkpoints /\ blobs' = blobs /\ clock' = clock /\ writes' = writes
      /\ taken' = taken /\ Known' = Known
  BY DEF Resume, Start, Stop, Crash, tables, Known
<1>2. queue' \in Seq(Known)
  <2>1. CASE Crash
    BY <2>1 DEF Crash
  <2>2. CASE Resume \/ Start \/ Stop
    BY <2>2 DEF Resume, Start, Stop, TypeOK
  <2> QED
    BY <2>1, <2>2
<1>3. Engine \in Procs /\ reads \in [Procs -> ReadState]
  BY DEF Procs, TypeOK
<1>4. reads' \in [Procs -> ReadState]
  BY <1>3, FrameTypes DEF Resume, Start, Stop, Crash
<1>5. engine' \in EngineState
  <2>1. CASE Resume
    <3>1. reads[Engine] \in ReadState
      BY <1>3
    <3> QED
      BY <2>1, <3>1 DEF Resume, ReadState, EngineState
  <2>2. CASE Start
    BY <2>2, FrameTypes DEF Start, EngineState
  <2>3. CASE Stop \/ Crash
    BY <2>3, FrameTypes DEF Stop, Crash
  <2> QED
    BY <2>1, <2>2, <2>3
<1> QED
  BY <1>1, <1>2, <1>4, <1>5 DEF TypeOK, SameKey

LEMMA TypeStep ==
  ASSUME TypeOK, HistoryInv, EngineInv, Next
  PROVE  TypeOK'
<1>1. CASE TakeCheckpoint
  BY <1>1, TakeTypes
<1>2. CASE \E t \in Tasks, kind \in {"value", "error"} : Finish(t, kind)
  BY <1>2, FinishTypes
<1>3. CASE Resume \/ Start \/ Stop \/ Crash
  BY <1>3, RunsTypes
<1>4. CASE Put
  BY <1>4, PutTypes
<1>5. CASE PutFails
  <2>1. Tail(queue) \in Seq(Known)
    BY <1>5, QueueTyped DEF PutFails
  <2> QED
    BY <1>5, <2>1 DEF PutFails, TypeOK, tables, SameKey, Known
<1>6. CASE DeleteThread
  BY <1>6 DEF DeleteThread, TypeOK, SameKey, Known
<1>7. CASE \E p \in Procs : Reads(p)
  BY <1>7, ReadsTypes
<1> QED
  BY <1>1, <1>2, <1>3, <1>4, <1>5, <1>6, <1>7 DEF Next, Runs, Writes

-----------------------------------------------------------------------------
(***************************************************************************)
(* History.                                                                *)
(***************************************************************************)

\* the lineage of a checkpoint and the origins of its versions are known
LEMMA LineageKnown ==
  ASSUME TypeOK, NEW id \in Known, HistoryOf(id)
  PROVE  /\ taken[id].lineage \subseteq Known
         /\ \A c \in Channels :
              \/ taken[id].versions[c] = NoVersion
              \/ taken[id].versions[c].h \in Known
<1>1. taken[id].lineage \subseteq 1 .. id /\ Len(taken) \in Nat
  BY TakenTyped DEF HistoryOf
<1>2. taken[id].lineage \subseteq Known
  BY <1>1 DEF Known
<1> QED
  BY <1>2 DEF HistoryOf, IsVersion

\* what is true of a checkpoint stays true
LEMMA HistoryStays ==
  ASSUME TypeOK, Continues, NEW id \in Known, HistoryOf(id)
  PROVE  HistoryOf(id)'
<1>1. taken'[id] = taken[id] /\ \A a \in taken[id].lineage : Lost(a) => Lost(a)'
  BY LineageKnown DEF Continues
<1>2. \A c \in Channels :
        \/ taken[id].versions[c] = NoVersion
        \/ taken'[taken[id].versions[c].h] = taken[taken[id].versions[c].h]
  BY LineageKnown DEF Continues
<1>3. \A c \in Channels : IsVersion(c, taken[id].versions[c], taken[id].lineage)'
  BY <1>1, <1>2 DEF HistoryOf, IsVersion
<1>4. Faithful(taken[id].values, taken[id].versions, taken[id].lineage)'
  BY <1>1, <1>2 DEF HistoryOf, Faithful, ValueOf
<1> QED
  BY <1>1, <1>3, <1>4 DEF HistoryOf

\* a new checkpoint is as faithful as what the engine went on from
LEMMA HistoryGrows ==
  ASSUME TypeOK, HistoryInv, EngineInv, engine.phase = "live", Continues,
         NEW id, NEW cp, NEW written, Takes(id, cp, written)
  PROVE  HistoryOf(id)'
<1>1. /\ taken'[id] = cp /\ id \in Nat /\ id = Len(taken) + 1
      /\ cp.lineage \subseteq 1 .. id /\ id \in cp.lineage
  BY TakesAdds DEF Takes
<1>2. cp.new = written
  BY DEF Takes
<1>3. \A c \in written : cp.versions[c].h = id /\ cp.versions[c].v <= id
  BY DEF Takes
<1>4. \A c \in written : IsVersion(c, cp.versions[c], cp.lineage)'
  BY <1>1, <1>2, <1>3 DEF IsVersion
<1>5. ASSUME NEW c \in Channels \ written
      PROVE  /\ engine.head # NoId
             /\ cp.versions[c] = engine.versions[c] /\ cp.values[c] = engine.values[c]
             /\ engine.versions[c] = taken[engine.head].versions[c]
             /\ engine.head \in Known /\ taken[engine.head].lineage \subseteq cp.lineage
  BY DEF Takes, EngineInv, HeadInv
<1>6. ASSUME NEW c \in Channels \ written
      PROVE  /\ \/ cp.versions[c] = NoVersion
                \/ taken'[cp.versions[c].h] = taken[cp.versions[c].h]
             /\ IsVersion(c, cp.versions[c], cp.lineage)
  <2>1. HistoryOf(engine.head) /\ engine.head \in Known
    BY <1>5 DEF HistoryInv
  <2>2. IsVersion(c, taken[engine.head].versions[c], taken[engine.head].lineage)
    BY <2>1 DEF HistoryOf
  <2>3. \/ taken[engine.head].versions[c] = NoVersion
        \/ taken[engine.head].versions[c].h \in Known
    BY <2>1, LineageKnown
  <2> QED
    BY <1>5, <2>2, <2>3 DEF Continues, IsVersion
<1>7. \A c \in Channels \ written : IsVersion(c, cp.versions[c], cp.lineage)'
  BY <1>6 DEF IsVersion
<1>8. Faithful(cp.values, cp.versions, cp.lineage)'
  <2>1. \A c \in written : cp.values[c] = ValueOf(c, cp.versions[c])'
    <3>1. id # 0
      BY <1>1
    <3> QED
      BY <1>1, <1>3, <3>1 DEF ValueOf, NoVersion
  <2>2. CASE Channels = written
    BY <2>1, <2>2 DEF Faithful
  <2>3. CASE Channels # written
    <3>1. PICK d \in Channels : d \notin written
      BY <2>3 DEF Takes, Checkpoint
    <3>2. Faithful(engine.values, engine.versions, taken[engine.head].lineage)
      BY <1>5, <3>1 DEF EngineInv, HeadInv
    <3>3. CASE \E a \in taken[engine.head].lineage : Lost(a)
      <4>1. PICK a \in taken[engine.head].lineage : Lost(a)
        BY <3>3
      <4>2. engine.head \in Known /\ a \in cp.lineage
        BY <1>5, <3>1
      <4>3. a \in Known
        BY <4>2, LineageKnown DEF HistoryInv
      <4>4. Lost(a)'
        BY <4>1, <4>3 DEF Continues
      <4> QED
        BY <4>2, <4>4 DEF Faithful
    <3>4. CASE \A c \in Channels : engine.values[c] = ValueOf(c, engine.versions[c])
      <4>1. ASSUME NEW c \in Channels \ written
            PROVE  cp.values[c] = ValueOf(c, cp.versions[c])'
        <5>1. cp.values[c] = ValueOf(c, cp.versions[c])
          BY <1>5, <3>4
        <5> QED
          BY <1>6, <5>1 DEF ValueOf
      <4> QED
        BY <2>1, <4>1 DEF Faithful
    <3> QED
      BY <3>2, <3>3, <3>4 DEF Faithful
  <2> QED
    BY <2>2, <2>3
<1>9. /\ (taken[id].lineage)' = cp.lineage /\ (taken[id].versions)' = cp.versions
      /\ (taken[id].values)' = cp.values /\ (taken[id].new)' = written
  BY <1>1, <1>2
<1>10. \A c \in Channels : IsVersion(c, taken[id].versions[c], taken[id].lineage)'
  BY <1>4, <1>7, <1>9 DEF IsVersion
<1>11. Faithful(taken[id].values, taken[id].versions, taken[id].lineage)'
  BY <1>8, <1>9 DEF Faithful, ValueOf
<1> QED
  BY <1>1, <1>3, <1>9, <1>10, <1>11 DEF HistoryOf

LEMMA HistoryStep ==
  ASSUME TypeOK, HistoryInv, EngineInv, Continues, Next
  PROVE  HistoryInv'
<1>1. CASE TakeCheckpoint
  <2>1. PICK id, cp, written : Takes(id, cp, written)
    BY <1>1, TakeTakes
  <2>2. engine.phase = "live"
    BY <1>1 DEF TakeCheckpoint
  <2>3. Known' = Known \cup {id}
    BY <2>1, <2>2, TakesAdds
  <2>4. HistoryOf(id)'
    BY <2>1, <2>2, HistoryGrows
  <2>5. \A k \in Known : HistoryOf(k)'
    BY HistoryStays DEF HistoryInv
  <2> QED
    BY <2>3, <2>4, <2>5 DEF HistoryInv
<1>2. CASE taken' = taken
  <2>1. Known' = Known
    BY <1>2 DEF Known
  <2> QED
    BY <2>1, HistoryStays DEF HistoryInv
<1>3. TakeCheckpoint \/ taken' = taken
  BY DEF Next, Runs, Writes, Resume, Start, Stop, Crash, Finish, Put, PutFails, DeleteThread,
         Reads, ReadRow, ReadBlob, ReadWrites, Forget
<1> QED
  BY <1>1, <1>2, <1>3

-----------------------------------------------------------------------------
(***************************************************************************)
(* The tables and the queue.                                               *)
(***************************************************************************)

\* the actions that change a table or the queue
LEMMA TablesFrame ==
  ASSUME Next
  PROVE  /\ \/ Put \/ DeleteThread
            \/ checkpoints' = checkpoints /\ blobs' = blobs /\ clock' = clock
         /\ \/ DeleteThread \/ \E t \in Tasks, kind \in {"value", "error"} : Finish(t, kind)
            \/ writes' = writes
         /\ Put \/ PutFails \/ TakeCheckpoint \/ Crash \/ queue' = queue
<1>1. CASE \E p \in Procs : Reads(p)
  BY <1>1 DEF Reads, ReadRow, ReadBlob, ReadWrites, Forget, tables
<1>2. CASE Runs
  BY <1>2 DEF Runs, Resume, Start, TakeCheckpoint, Stop, Crash, Finish, tables
<1>3. CASE Writes
  BY <1>3 DEF Writes, Put, PutFails, DeleteThread, tables
<1> QED
  BY <1>1, <1>2, <1>3 DEF Next

\* a put stores the oldest checkpoint of the queue, which is newer than the rows
LEMMA PutStores ==
  ASSUME TypeOK, QueueInv, Put
  PROVE  \E id \in Known :
           /\ id = Head(queue) /\ taken' = taken /\ Known' = Known
           /\ \A row \in checkpoints : row.id < id
           /\ checkpoints' = checkpoints \cup {Row(id, clock')}
           /\ clock' \in Nat /\ clock \in Nat /\ clock <= clock'
<1> DEFINE id == Head(queue)
<1>1. queue # <<>> /\ id = queue[1] /\ id \in Known /\ 1 \in 1 .. Len(queue)
  BY QueueTyped DEF Put
<1>2. \A row \in checkpoints : row.id < id
  BY <1>1 DEF QueueInv
<1>3. ~Stored(id)
  BY <1>1, <1>2 DEF Stored, Known
<1>4. checkpoints' = checkpoints \cup {Row(id, clock')} /\ taken' = taken
  BY <1>3 DEF Put
<1>5. clock \in Nat /\ clock' \in {clock, clock + 1}
  BY DEF TypeOK, Put
<1>6. clock' \in Nat /\ clock <= clock'
  BY <1>5
<1>7. Known' = Known
  BY <1>4 DEF Known
<1> QED
  BY <1>1, <1>2, <1>4, <1>5, <1>6, <1>7

LEMMA RowsStep ==
  ASSUME TypeOK, QueueInv, RowsInv, Continues, Next
  PROVE  RowsInv'
<1>1. ASSUME NEW row \in checkpoints
      PROVE  /\ row.id \in Known' /\ row.versions = taken'[row.id].versions
             /\ row.id \in Nat /\ row.created \in Nat /\ clock \in Nat
  BY DEF RowsInv, Continues, Known, TypeOK
<1>2. CASE Put
  <2>1. PICK id \in Known :
           /\ id = Head(queue) /\ taken' = taken /\ Known' = Known
           /\ \A row \in checkpoints : row.id < id
           /\ checkpoints' = checkpoints \cup {Row(id, clock')}
           /\ clock' \in Nat /\ clock \in Nat /\ clock <= clock'
    BY <1>2, PutStores
  <2>2. /\ Row(id, clock').id = id /\ Row(id, clock').created = clock'
        /\ Row(id, clock').versions = taken[id].versions
    BY DEF Row
  <2>3. \A row \in checkpoints : row.created <= clock'
    BY <1>1, <2>1 DEF RowsInv
  <2>4. id \in Nat
    BY DEF Known
  <2>5. ASSUME NEW r \in checkpoints', NEW s \in checkpoints', r.id < s.id
        PROVE  r.created <= s.created
    <3>1. CASE r \in checkpoints /\ s \in checkpoints
      BY <2>5, <3>1 DEF RowsInv
    <3>2. CASE r \in checkpoints /\ s = Row(id, clock')
      BY <2>2, <2>3, <3>2
    <3>3. CASE r = Row(id, clock')
      BY <1>1, <2>1, <2>2, <2>4, <2>5, <3>3
    <3> QED
      BY <2>1, <3>1, <3>2, <3>3
  <2> QED
    BY <1>1, <2>1, <2>2, <2>3, <2>5 DEF RowsInv
<1>3. CASE DeleteThread
  BY <1>3 DEF DeleteThread, RowsInv
<1>4. CASE checkpoints' = checkpoints /\ clock' = clock
  BY <1>1, <1>4 DEF RowsInv
<1> QED
  BY <1>2, <1>3, <1>4, TablesFrame

LEMMA BlobsStep ==
  ASSUME TypeOK, HistoryInv, QueueInv, RowsInv, BlobsInv, Continues, Next
  PROVE  BlobsInv'
<1>1. ASSUME NEW b \in blobs
      PROVE  /\ b.version.h \in Known' /\ b.channel \in taken'[b.version.h].new
             /\ b.version = taken'[b.version.h].versions[b.channel]
             /\ b.value = taken'[b.version.h].values[b.channel]
  BY DEF BlobsInv, Continues, Known
<1>2. ASSUME NEW row \in checkpoints
      PROVE  taken'[row.id] = taken[row.id]
  BY DEF RowsInv, Continues
<1>3. CASE Put
  <2>1. PICK id \in Known :
           /\ id = Head(queue) /\ taken' = taken /\ Known' = Known
           /\ \A row \in checkpoints : row.id < id
           /\ checkpoints' = checkpoints \cup {Row(id, clock')}
           /\ clock' \in Nat /\ clock \in Nat /\ clock <= clock'
    BY <1>3, PutStores
  <2>2. blobs' = {b \in blobs : ~\E d \in BlobRows(id) : SameKey(b, d)} \cup BlobRows(id)
    BY <1>3, <2>1 DEF Put
  <2>3. ASSUME NEW b \in BlobRows(id)
        PROVE  /\ b.version.h = id /\ b.channel \in taken[id].new
               /\ b.version = taken[id].versions[b.channel]
               /\ b.value = taken[id].values[b.channel]
    <3>1. PICK c \in taken[id].new :
            b = [channel |-> c, version |-> taken[id].versions[c], value |-> taken[id].values[c]]
      BY DEF BlobRows
    <3> QED
      BY <3>1 DEF HistoryInv, HistoryOf
  <2>4. ASSUME NEW c \in taken[id].new
        PROVE  \E b \in blobs' : b.channel = c /\ b.version = taken[id].versions[c]
    <3> DEFINE b == [channel |-> c, version |-> taken[id].versions[c],
                     value |-> taken[id].values[c]]
    <3>1. b \in BlobRows(id) /\ b.channel = c /\ b.version = taken[id].versions[c]
      BY DEF BlobRows
    <3> QED
      BY <2>2, <3>1
  <2>5. ASSUME NEW row \in checkpoints, NEW c \in taken[row.id].new
        PROVE  \E b \in blobs' : b.channel = c /\ b.version = taken[row.id].versions[c]
    <3>1. PICK b \in blobs : b.channel = c /\ b.version = taken[row.id].versions[c]
      BY DEF BlobsInv
    <3>2. b \in blobs' \/ \E d \in BlobRows(id) : SameKey(b, d)
      BY <2>2
    <3> QED
      BY <2>2, <3>1, <3>2 DEF SameKey
  <2>6. Row(id, clock').id = id
    BY DEF Row
  <2> QED
    BY <1>1, <2>1, <2>2, <2>3, <2>4, <2>5, <2>6 DEF BlobsInv
<1>4. CASE DeleteThread
  BY <1>4 DEF DeleteThread, BlobsInv
<1>5. CASE checkpoints' = checkpoints /\ blobs' = blobs
  BY <1>1, <1>2, <1>5 DEF BlobsInv
<1> QED
  BY <1>3, <1>4, <1>5, TablesFrame

LEMMA WritesStep ==
  ASSUME TypeOK, EngineInv, WritesInv, Continues, Next
  PROVE  WritesInv'
<1>1. \A w \in writes : w.id \in Known'
  BY DEF WritesInv, Continues, Known
<1>2. CASE \E t \in Tasks, kind \in {"value", "error"} : Finish(t, kind)
  <2>1. PICK t \in Tasks, kind \in {"value", "error"} : Finish(t, kind)
    BY <1>2
  <2>2. engine.head \in Known
    BY <2>1 DEF Finish, EngineInv, HeadInv
  <2>3. engine.head \in Known'
    BY <2>2 DEF Continues, Known
  <2>4. \A w \in writes' : w \in writes \/ w.id = engine.head
    BY <2>1 DEF Finish, PutWrites
  <2> QED
    BY <1>1, <2>3, <2>4 DEF WritesInv
<1>3. CASE DeleteThread
  BY <1>3 DEF DeleteThread, WritesInv
<1>4. CASE writes' = writes
  BY <1>1, <1>4 DEF WritesInv
<1> QED
  BY <1>2, <1>3, <1>4, TablesFrame

LEMMA QueueStep ==
  ASSUME TypeOK, HistoryInv, EngineInv, RowsInv, QueueInv, Next
  PROVE  QueueInv'
<1>1. CASE TakeCheckpoint
  <2>1. PICK id, cp, written : Takes(id, cp, written)
    BY <1>1, TakeTakes
  <2>2. \A k \in Known : k < id
    BY <1>1, <2>1, TakesAdds DEF TakeCheckpoint
  <2>3. /\ queue \in Seq(Known) /\ Len(queue) \in Nat /\ queue' = Append(queue, id)
        /\ \A i \in 1 .. Len(queue) : queue[i] \in Known
    BY <2>1, QueueTyped DEF Takes
  <2>4. /\ Len(queue') = Len(queue) + 1 /\ queue'[Len(queue) + 1] = id
        /\ \A i \in 1 .. Len(queue) : queue'[i] = queue[i]
    BY <2>3
  <2>5. \A i \in 1 .. Len(queue') : i \in 1 .. Len(queue) \/ i = Len(queue) + 1
    BY <2>3, <2>4
  <2>6. checkpoints' = checkpoints /\ \A row \in checkpoints : row.id \in Known
    BY <1>1 DEF TakeCheckpoint, tables, RowsInv
  <2>7. ASSUME NEW i \in 1 .. Len(queue'), NEW j \in 1 .. Len(queue'), i < j
        PROVE  queue'[i] < queue'[j]
    <3>1. i \in 1 .. Len(queue)
      BY <2>3, <2>4, <2>5, <2>7
    <3>2. CASE j \in 1 .. Len(queue)
      BY <2>4, <2>7, <3>1, <3>2 DEF QueueInv
    <3>3. CASE j = Len(queue) + 1
      BY <2>2, <2>3, <2>4, <3>1, <3>3
    <3> QED
      BY <2>5, <3>2, <3>3
  <2>8. ASSUME NEW row \in checkpoints, NEW i \in 1 .. Len(queue') PROVE row.id < queue'[i]
    BY <2>2, <2>4, <2>5, <2>6 DEF QueueInv
  <2> QED
    BY <2>6, <2>7, <2>8 DEF QueueInv
<1>2. ASSUME queue # <<>>, queue' = Tail(queue),
             \A row \in checkpoints' : row \in checkpoints \/ row.id = Head(queue)
      PROVE  QueueInv'
  <2>1. /\ Head(queue) = queue[1] /\ 1 \in 1 .. Len(queue) /\ Len(queue) \in Nat
        /\ \A i \in 1 .. Len(queue') : i + 1 \in 1 .. Len(queue) /\ queue'[i] = queue[i + 1]
    BY <1>2, QueueTyped
  <2>2. ASSUME NEW i \in 1 .. Len(queue'), NEW j \in 1 .. Len(queue'), i < j
        PROVE  queue'[i] < queue'[j]
    BY <2>1, <2>2 DEF QueueInv
  <2>3. \A i \in 1 .. Len(queue') : Head(queue) < queue'[i]
    BY <2>1 DEF QueueInv
  <2>4. ASSUME NEW row \in checkpoints', NEW i \in 1 .. Len(queue') PROVE row.id < queue'[i]
    BY <1>2, <2>1, <2>3 DEF QueueInv
  <2> QED
    BY <2>2, <2>4 DEF QueueInv
<1>3. CASE Put
  <2>1. queue # <<>> /\ queue' = Tail(queue)
    BY <1>3 DEF Put
  <2>2. \A row \in checkpoints' : row \in checkpoints \/ row.id = Head(queue)
    BY <1>3 DEF Put, Row
  <2> QED
    BY <1>2, <2>1, <2>2
<1>4. CASE PutFails
  BY <1>2, <1>4 DEF PutFails, tables
<1>5. CASE Crash
  BY <1>5 DEF Crash, QueueInv
<1>6. CASE DeleteThread
  BY <1>6 DEF DeleteThread, QueueInv
<1>7. CASE queue' = queue /\ checkpoints' = checkpoints
  BY <1>7 DEF QueueInv
<1> QED
  BY <1>1, <1>3, <1>4, <1>5, <1>6, <1>7, TablesFrame

-----------------------------------------------------------------------------
(***************************************************************************)
(* Reading.                                                                *)
(***************************************************************************)

\* a stored checkpoint has the blobs of the channels it brought
LEMMA BlobFound ==
  ASSUME HistoryInv, BlobsInv, NEW h \in Known, Stored(h), NEW c \in taken[h].new
  PROVE  BlobOf(c, taken[h].versions[c]) = taken[h].values[c]
<1> DEFINE version == taken[h].versions[c]
           found == CHOOSE b \in blobs : b.channel = c /\ b.version = version
<1>1. \E b \in blobs : b.channel = c /\ b.version = version
  BY DEF BlobsInv, Stored
<1>2. found \in blobs /\ found.channel = c /\ found.version = version
  BY <1>1
<1>3. BlobOf(c, version) = found.value
  BY <1>1 DEF BlobOf
<1>4. found.value = taken[found.version.h].values[c] /\ found.version.h \in Known
  BY <1>2 DEF BlobsInv
<1>5. version.h = h
  BY DEF HistoryInv, HistoryOf
<1> QED
  BY <1>2, <1>3, <1>4, <1>5

\* no blob has the version of a channel that never had one
LEMMA NoBlobWithoutVersion ==
  ASSUME BlobsInv, NEW c
  PROVE  BlobOf(c, NoVersion) = NoValue
<1>1. ~\E b \in blobs : b.channel = c /\ b.version = NoVersion
  BY DEF BlobsInv, Known, NoVersion
<1> QED
  BY <1>1 DEF BlobOf

\* a blob is the value of its version, or the checkpoint that brought it is lost
LEMMA BlobOfVersion ==
  ASSUME TypeOK, HistoryInv, BlobsInv, NEW id \in Known,
         \A i \in 1 .. Len(queue) : id < queue[i],
         NEW c \in Channels
  PROVE  \/ BlobOf(c, taken[id].versions[c]) = ValueOf(c, taken[id].versions[c])
         \/ \E a \in taken[id].lineage : Lost(a)
<1> DEFINE version == taken[id].versions[c]
<1>1. HistoryOf(id)
  BY DEF HistoryInv
<1>2. CASE version = NoVersion
  BY <1>2, NoBlobWithoutVersion DEF ValueOf
<1>3. CASE version # NoVersion
  <2>1. /\ version.h \in taken[id].lineage /\ version.h \in Known
        /\ c \in taken[version.h].new /\ taken[version.h].versions[c] = version
    BY <1>1, <1>3, LineageKnown DEF HistoryOf, IsVersion
  <2>2. CASE Stored(version.h)
    BY <1>3, <2>1, <2>2, BlobFound DEF ValueOf
  <2>3. CASE ~Stored(version.h)
    <3>1. version.h <= id
      BY <1>1, <2>1 DEF HistoryOf
    <3>2. \A i \in 1 .. Len(queue) : queue[i] # version.h
      BY <2>1, <3>1, QueueTyped DEF Known
    <3> QED
      BY <2>1, <2>3, <3>2 DEF Lost
  <2> QED
    BY <2>2, <2>3
<1> QED
  BY <1>2, <1>3

\* what has been read stays what it is while others act
LEMMA ReadStays ==
  ASSUME TypeOK, HistoryInv, Continues, NEW p \in Procs, ReadInv(p), reads'[p] = reads[p]
  PROVE  ReadInv(p)'
<1> SUFFICES ASSUME reads[p].stage # "idle"
             PROVE  ReadInv(p)'
  BY DEF ReadInv
<1> DEFINE id == reads[p].id
<1>1. /\ id \in Known /\ reads[p].versions = taken[id].versions
      /\ \A i \in 1 .. Len(queue) : id < queue[i]
      /\ \/ \A c \in Channels \ reads[p].left :
              reads[p].values[c] = ValueOf(c, reads[p].versions[c])
         \/ \E a \in taken[id].lineage : Lost(a)
      /\ reads[p].stage = "done" => reads[p].left = {}
  BY DEF ReadInv
<1>2. HistoryOf(id)
  BY <1>1 DEF HistoryInv
<1>3. id \in Known' /\ taken'[id] = taken[id] /\ \A i \in 1 .. Len(queue') : id < queue'[i]
  BY <1>1 DEF Continues, Known
<1>4. \A c \in Channels :
        \/ taken[id].versions[c] = NoVersion
        \/ taken'[taken[id].versions[c].h] = taken[taken[id].versions[c].h]
  BY <1>1, <1>2, LineageKnown DEF Continues
<1>5. \A a \in taken[id].lineage : Lost(a) => Lost(a)'
  BY <1>1, <1>2, LineageKnown DEF Continues
<1>6. \A c \in Channels : ValueOf(c, taken[id].versions[c]) =
        IF taken[id].versions[c] = NoVersion THEN NoValue
        ELSE taken'[taken[id].versions[c].h].values[c]
  BY <1>4 DEF ValueOf
<1>7. \A c \in Channels : ValueOf(c, reads[p].versions[c])' =
        IF taken[id].versions[c] = NoVersion THEN NoValue
        ELSE taken'[taken[id].versions[c].h].values[c]
  BY <1>1 DEF ValueOf
<1>8. \/ \A c \in Channels \ reads[p].left :
           (reads[p].values[c] = ValueOf(c, reads[p].versions[c]))'
      \/ \E a \in taken[id].lineage : Lost(a)'
  BY <1>1, <1>5, <1>6, <1>7
<1> QED
  BY <1>1, <1>3, <1>8 DEF ReadInv

LEMMA ReadRowInv ==
  ASSUME TypeOK, QueueInv, RowsInv, NEW p \in Procs, NEW wanted, ReadRow(p, wanted)
  PROVE  ReadInv(p)'
<1>1. PICK row \in checkpoints :
        reads' = [reads EXCEPT ![p] =
          [Idle EXCEPT !.stage = "blobs", !.id = row.id, !.versions = row.versions,
                       !.left = {c \in Channels : row.versions[c] # NoVersion}]]
  BY DEF ReadRow
<1>2. /\ reads'[p].stage = "blobs" /\ reads'[p].id = row.id
      /\ reads'[p].versions = row.versions
      /\ reads'[p].left = {c \in Channels : row.versions[c] # NoVersion}
      /\ reads'[p].values = [c \in Channels |-> NoValue]
  <2>1. reads \in [Procs -> ReadState]
    BY DEF TypeOK
  <2> QED
    BY <1>1, <2>1 DEF Idle
<1>3. taken' = taken /\ queue' = queue /\ checkpoints' = checkpoints
  BY DEF ReadRow, tables
<1>4. row.id \in Known /\ row.versions = taken[row.id].versions
  BY DEF RowsInv
<1>5. \A i \in 1 .. Len(queue) : row.id < queue[i]
  BY DEF QueueInv
<1>6. \A c \in Channels \ reads'[p].left :
        (reads[p].values[c] = ValueOf(c, reads[p].versions[c]))'
  BY <1>2 DEF ValueOf
<1> QED
  BY <1>2, <1>3, <1>4, <1>5, <1>6 DEF ReadInv, Known

LEMMA ReadBlobInv ==
  ASSUME TypeOK, HistoryInv, BlobsInv, NEW p \in Procs, ReadInv(p),
         NEW c \in Channels, ReadBlob(p, c)
  PROVE  ReadInv(p)'
<1> DEFINE id == reads[p].id
<1>1. reads[p].stage = "blobs" /\ c \in reads[p].left
  BY DEF ReadBlob
<1>2. /\ id \in Known /\ reads[p].versions = taken[id].versions
      /\ \A i \in 1 .. Len(queue) : id < queue[i]
      /\ \/ \A d \in Channels \ reads[p].left :
              reads[p].values[d] = ValueOf(d, reads[p].versions[d])
         \/ \E a \in taken[id].lineage : Lost(a)
  BY <1>1 DEF ReadInv
<1>3. /\ taken' = taken /\ queue' = queue /\ checkpoints' = checkpoints
  BY DEF ReadBlob, tables
<1>4. reads[p] \in ReadState /\ reads \in [Procs -> ReadState]
  BY DEF TypeOK
<1>5. /\ reads'[p].stage = "blobs" /\ reads'[p].id = id
      /\ reads'[p].versions = reads[p].versions
      /\ reads'[p].left = reads[p].left \ {c}
      /\ reads'[p].values = [reads[p].values EXCEPT ![c] = BlobOf(c, reads[p].versions[c])]
  BY <1>1, <1>4 DEF ReadBlob, ReadState
<1>6. \/ \A d \in Channels \ reads'[p].left :
           reads'[p].values[d] = ValueOf(d, reads[p].versions[d])
      \/ \E a \in taken[id].lineage : Lost(a)
  <2>1. \/ BlobOf(c, taken[id].versions[c]) = ValueOf(c, taken[id].versions[c])
        \/ \E a \in taken[id].lineage : Lost(a)
    BY <1>2, BlobOfVersion
  <2>2. reads[p].values \in [Channels -> 0 .. MaxId]
    BY <1>4 DEF ReadState, Values
  <2>3. /\ reads'[p].values[c] = BlobOf(c, taken[id].versions[c])
        /\ \A d \in Channels \ {c} : reads'[p].values[d] = reads[p].values[d]
    BY <1>2, <1>5, <2>2
  <2> QED
    BY <1>2, <1>5, <2>1, <2>3
<1>7. \/ \A d \in Channels \ reads'[p].left :
           (reads[p].values[d] = ValueOf(d, reads[p].versions[d]))'
      \/ \E a \in taken[id].lineage : Lost(a)'
  BY <1>3, <1>5, <1>6 DEF ValueOf, Lost, Stored
<1> QED
  BY <1>2, <1>3, <1>5, <1>7 DEF ReadInv, Known

LEMMA ReadBlobStage ==
  ASSUME TypeOK, NEW p \in Procs, NEW c, ReadBlob(p, c)
  PROVE  reads'[p].stage = "blobs"
<1>1. reads[p] \in ReadState /\ reads \in [Procs -> ReadState]
  BY DEF TypeOK
<1> QED
  BY <1>1 DEF ReadBlob, ReadState

LEMMA ReadWritesInv ==
  ASSUME TypeOK, NEW p \in Procs, ReadInv(p), ReadWrites(p)
  PROVE  ReadInv(p)'
<1>1. /\ taken' = taken /\ queue' = queue /\ checkpoints' = checkpoints
      /\ reads[p].stage = "blobs" /\ reads[p].left = {}
  BY DEF ReadWrites, tables
<1>2. reads[p] \in ReadState /\ reads \in [Procs -> ReadState]
  BY DEF TypeOK
<1>3. /\ reads'[p].id = reads[p].id /\ reads'[p].versions = reads[p].versions
      /\ reads'[p].left = reads[p].left /\ reads'[p].values = reads[p].values
  BY <1>2 DEF ReadWrites, ReadState
<1> QED
  BY <1>1, <1>3 DEF ReadInv, Known, ValueOf, Lost, Stored

LEMMA ReadsStep ==
  ASSUME TypeOK, HistoryInv, QueueInv, RowsInv, BlobsInv, Continues, Next,
         NEW q \in Procs, ReadInv(q)
  PROVE  ReadInv(q)'
<1>0. reads \in [Procs -> ReadState] /\ Engine \in Procs
  BY DEF TypeOK, Procs
<1>1. CASE reads'[q] = reads[q]
  BY <1>1, ReadStays
<1>2. CASE \E p \in Procs : Reads(p)
  <2>1. PICK p \in Procs : Reads(p)
    BY <1>2
  <2>2. CASE p # q
    <3>1. reads'[q] = reads[q]
      BY <1>0, <2>1, <2>2 DEF Reads, ReadRow, ReadBlob, ReadWrites, Forget
    <3> QED
      BY <3>1, <1>1
  <2>3. CASE p = q
    <3>1. CASE Forget(q)
      <4>1. reads'[q].stage = "idle"
        BY <1>0, <3>1 DEF Forget, Idle
      <4> QED
        BY <4>1 DEF ReadInv
    <3> QED
      BY <2>1, <2>3, <3>1, ReadRowInv, ReadBlobInv, ReadWritesInv DEF Reads
  <2> QED
    BY <2>2, <2>3
<1>3. CASE Resume \/ Crash
  <2>1. reads' = [reads EXCEPT ![Engine] = Idle]
    BY <1>3 DEF Resume, Crash
  <2>2. CASE q = Engine
    <3>1. reads'[q].stage = "idle"
      BY <1>0, <2>1, <2>2 DEF Idle
    <3> QED
      BY <3>1 DEF ReadInv
  <2>3. CASE q # Engine
    <3>1. reads'[q] = reads[q]
      BY <1>0, <2>1, <2>3
    <3> QED
      BY <3>1, <1>1
  <2> QED
    BY <2>2, <2>3
<1>4. CASE reads' = reads
  BY <1>1, <1>4
<1>5. (\E p \in Procs : Reads(p)) \/ Resume \/ Crash \/ reads' = reads
  BY DEF Next, Runs, Writes, Start, TakeCheckpoint, Stop, Finish, Put, PutFails, DeleteThread
<1> QED
  BY <1>2, <1>3, <1>4, <1>5

-----------------------------------------------------------------------------
(***************************************************************************)
(* The engine.                                                             *)
(***************************************************************************)

LEMMA HeadStays ==
  ASSUME TypeOK, HistoryInv, Continues, HeadInv,
         engine'.phase = "live" => engine.phase = "live",
         engine'.head = engine.head, engine'.versions = engine.versions,
         engine'.values = engine.values, engine'.todo \subseteq engine.todo
  PROVE  HeadInv'
<1> SUFFICES ASSUME engine'.phase = "live" PROVE HeadInv'
  BY DEF HeadInv
<1>1. CASE engine.head = NoId
  BY <1>1 DEF HeadInv
<1>2. CASE engine.head # NoId
  <2> DEFINE id == engine.head
  <2>1. /\ id \in Known /\ engine.versions = taken[id].versions
        /\ Faithful(engine.values, engine.versions, taken[id].lineage)
    BY <1>2 DEF HeadInv
  <2>2. HistoryOf(id)
    BY <2>1 DEF HistoryInv
  <2>3. id \in Known' /\ taken'[id] = taken[id]
    BY <2>1 DEF Continues, Known
  <2>4. \A c \in Channels :
          \/ taken[id].versions[c] = NoVersion
          \/ taken'[taken[id].versions[c].h] = taken[taken[id].versions[c].h]
    BY <2>1, <2>2, LineageKnown DEF Continues
  <2>5. \A a \in taken[id].lineage : Lost(a) => Lost(a)'
    BY <2>1, <2>2, LineageKnown DEF Continues
  <2>6. \A c \in Channels : ValueOf(c, engine.versions[c]) =
          IF engine.versions[c] = NoVersion THEN NoValue
          ELSE taken'[engine.versions[c].h].values[c]
    BY <2>1, <2>4 DEF ValueOf
  <2>7. \A c \in Channels : ValueOf(c, engine.versions[c])' =
          IF engine.versions[c] = NoVersion THEN NoValue
          ELSE taken'[engine.versions[c].h].values[c]
    BY DEF ValueOf
  <2>8. Faithful(engine.values, engine.versions, taken[engine.head].lineage)'
    BY <2>1, <2>3, <2>5, <2>6, <2>7 DEF Faithful
  <2> QED
    BY <1>2, <2>1, <2>3, <2>8 DEF HeadInv
<1> QED
  BY <1>1, <1>2

LEMMA TakeHead ==
  ASSUME TypeOK, HistoryInv, EngineInv, WritesInv, Continues, TakeCheckpoint
  PROVE  EngineInv'
<1>1. PICK id, cp, written : Takes(id, cp, written)
  BY TakeTakes
<1>2. engine.phase = "live" /\ reads' = reads /\ writes' = writes
  BY DEF TakeCheckpoint, tables
<1>3. /\ Len(taken') = id /\ id \in Nat /\ taken'[id] = cp /\ \A k \in Known : k < id
      /\ Known' = Known \cup {id} /\ id \in Ids
  BY <1>1, <1>2, TakesAdds DEF Takes
<1>4. HistoryOf(id)'
  BY <1>1, <1>2, HistoryGrows
<1>5. engine' = [phase |-> "live", head |-> id, versions |-> cp.versions,
                 values |-> cp.values, todo |-> Tasks]
  BY <1>1 DEF Takes
<1>6. /\ engine'.phase = "live" /\ engine'.head = id /\ engine'.versions = cp.versions
      /\ engine'.values = cp.values
  BY <1>5
<1>7. id # NoId
  BY <1>3 DEF Ids, NoId
<1>8. Faithful(engine.values, engine.versions, taken[engine.head].lineage)'
  BY <1>3, <1>4, <1>6 DEF HistoryOf, Faithful, ValueOf
<1>9. HeadInv'
  BY <1>3, <1>6, <1>7, <1>8 DEF HeadInv
<1>10. \A t : ~TaskDone(id, t)'
  BY <1>2, <1>3 DEF TaskDone, WritesInv, Known
<1>11. reads[Engine].stage = "idle"
  BY <1>2 DEF EngineInv
<1> QED
  BY <1>2, <1>6, <1>9, <1>10, <1>11 DEF EngineInv, TaskDone

LEMMA ResumeHead ==
  ASSUME TypeOK, EngineInv, ReadInv(Engine), PendingInv, Resume
  PROVE  EngineInv'
<1> DEFINE read == reads[Engine]
<1>1. /\ read.stage = "done" /\ taken' = taken /\ queue' = queue
      /\ checkpoints' = checkpoints /\ writes' = writes
      /\ engine' = [phase |-> "live", head |-> read.id, versions |-> read.versions,
                    values |-> read.values, todo |-> Tasks \ read.pending]
      /\ reads' = [reads EXCEPT ![Engine] = Idle]
  BY DEF Resume, tables
<1>2. /\ engine'.phase = "live" /\ engine'.head = read.id /\ engine'.versions = read.versions
      /\ engine'.values = read.values /\ engine'.todo = Tasks \ read.pending
  BY <1>1
<1>3. /\ read.id \in Known /\ read.versions = taken[read.id].versions
      /\ Faithful(read.values, read.versions, taken[read.id].lineage)
  BY <1>1 DEF ReadInv, Faithful
<1>4. read.id # NoId
  BY <1>3 DEF Known, NoId
<1>5. Faithful(engine.values, engine.versions, taken[engine.head].lineage)'
  BY <1>1, <1>2, <1>3 DEF Faithful, ValueOf, Lost, Stored
<1>6. HeadInv'
  BY <1>1, <1>2, <1>3, <1>4, <1>5 DEF HeadInv, Known
<1>7. \A t \in engine'.todo : ~TaskDone(read.id, t)
  BY <1>1, <1>2 DEF PendingInv, TaskDone
<1>8. reads'[Engine].stage = "idle"
  <2>1. Engine \in Procs /\ reads \in [Procs -> ReadState]
    BY DEF Procs, TypeOK
  <2> QED
    BY <1>1, <2>1 DEF Idle
<1> QED
  BY <1>1, <1>2, <1>6, <1>7, <1>8 DEF EngineInv, TaskDone

LEMMA FinishEngine ==
  ASSUME TypeOK, HistoryInv, EngineInv, Continues,
         NEW t \in Tasks, NEW kind \in {"value", "error"}, Finish(t, kind)
  PROVE  EngineInv'
<1>1. engine.phase = "live" /\ t \in engine.todo /\ reads' = reads /\ queue' = queue
  BY DEF Finish
<1>2. reads[Engine].stage = "idle"
  BY <1>1 DEF EngineInv
<1>3. CASE kind = "error"
  <2>1. engine'.phase = "dead"
    BY <1>3 DEF Finish, Dead
  <2> QED
    BY <1>1, <1>2, <2>1 DEF EngineInv, HeadInv
<1>4. CASE kind = "value"
  <2>1. engine' = [engine EXCEPT !.todo = @ \ {t}] /\ engine \in EngineState
    BY <1>4 DEF Finish, TypeOK
  <2>2. /\ engine'.phase = engine.phase /\ engine'.head = engine.head
        /\ engine'.versions = engine.versions /\ engine'.values = engine.values
        /\ engine'.todo = engine.todo \ {t}
    BY <2>1 DEF EngineState
  <2>3. HeadInv'
    BY <2>2, HeadStays DEF EngineInv
  <2>4. \A w \in writes' : w \in writes \/ w.task = t
    BY DEF Finish, PutWrites
  <2>5. \A s \in engine'.todo : ~TaskDone(engine.head, s)'
    BY <1>1, <2>2, <2>4 DEF EngineInv, TaskDone
  <2> QED
    BY <1>1, <1>2, <2>2, <2>3, <2>5 DEF EngineInv, TaskDone
<1> QED
  BY <1>3, <1>4

LEMMA EngineStep ==
  ASSUME SaverInv, Continues, Next
  PROVE  EngineInv'
<1>0. /\ TypeOK /\ HistoryInv /\ EngineInv /\ WritesInv
      /\ Engine \in Procs /\ ReadInv(Engine) /\ PendingInv
      /\ reads \in [Procs -> ReadState] /\ engine \in EngineState
  BY DEF SaverInv, Procs, TypeOK
<1>1. CASE TakeCheckpoint
  BY <1>0, <1>1, TakeHead
<1>2. CASE Resume
  BY <1>0, <1>2, ResumeHead
<1>3. CASE \E t \in Tasks, kind \in {"value", "error"} : Finish(t, kind)
  BY <1>0, <1>3, FinishEngine
<1>4. CASE Start
  <2>1. /\ engine'.phase = "live" /\ engine'.head = NoId /\ engine'.todo = {}
        /\ engine'.versions = [c \in Channels |-> NoVersion]
    BY <1>4 DEF Start, Dead
  <2>2. engine.phase = "dead" /\ reads' = reads /\ queue' = queue
    BY <1>4 DEF Start
  <2> QED
    BY <1>0, <2>1, <2>2 DEF EngineInv, HeadInv
<1>5. CASE Stop
  <2>1. engine'.phase = "dead" /\ engine.phase = "live" /\ reads' = reads
    BY <1>5 DEF Stop, Dead
  <2> QED
    BY <1>0, <2>1 DEF EngineInv, HeadInv
<1>6. CASE Crash
  <2>1. engine'.phase = "dead" /\ reads'[Engine].stage = "idle"
    BY <1>0, <1>6 DEF Crash, Dead, Idle
  <2> QED
    BY <2>1 DEF EngineInv, HeadInv
<1>7. CASE Writes
  <2>1. engine' = engine /\ reads' = reads /\ (writes' = writes \/ writes' = {})
    BY <1>7 DEF Writes, Put, PutFails, DeleteThread, tables
  <2>2. queue = <<>> => queue' = <<>>
    BY <1>7 DEF Writes, Put, PutFails, DeleteThread
  <2>3. HeadInv'
    BY <1>0, <2>1, HeadStays DEF EngineInv
  <2> QED
    BY <1>0, <2>1, <2>2, <2>3 DEF EngineInv, TaskDone
<1>8. CASE \E p \in Procs : Reads(p)
  <2>1. PICK p \in Procs : Reads(p)
    BY <1>8
  <2>2. writes' = writes /\ queue' = queue
    BY <2>1 DEF Reads, ReadRow, ReadBlob, ReadWrites, Forget, tables
  <2>3. CASE p = Engine /\ \E wanted \in Ids \cup {NoId} : ReadRow(p, wanted)
    <3>1. engine'.phase = "loading" /\ queue = <<>>
      BY <1>0, <2>3 DEF ReadRow, EngineState
    <3>2. reads'[Engine].stage = "blobs"
      BY <1>0, <2>3 DEF ReadRow, Idle
    <3> QED
      BY <2>2, <3>1, <3>2 DEF EngineInv, HeadInv
  <2>4. CASE engine' = engine /\ (reads'[Engine].stage = "idle" <=> reads[Engine].stage = "idle")
    <3>1. HeadInv'
      BY <1>0, <2>4, HeadStays DEF EngineInv
    <3> QED
      BY <1>0, <2>2, <2>4, <3>1 DEF EngineInv, TaskDone
  <2>5. \/ p = Engine /\ \E wanted \in Ids \cup {NoId} : ReadRow(p, wanted)
        \/ engine' = engine /\ (reads'[Engine].stage = "idle" <=> reads[Engine].stage = "idle")
    <3>1. CASE p # Engine
      BY <1>0, <2>1, <3>1 DEF Reads, ReadRow, ReadBlob, ReadWrites, Forget
    <3>2. CASE p = Engine /\ ~\E wanted \in Ids \cup {NoId} : ReadRow(p, wanted)
      <4>1. engine' = engine
        BY <2>1, <3>2 DEF Reads, ReadBlob, ReadWrites, Forget
      <4>2. reads[Engine].stage # "idle"
        BY <2>1, <3>2 DEF Reads, ReadBlob, ReadWrites, Forget
      <4>3. CASE \E c \in Channels : ReadBlob(Engine, c)
        <5>1. reads'[Engine].stage = "blobs"
          BY <1>0, <4>3, ReadBlobStage
        <5> QED
          BY <4>1, <4>2, <5>1
      <4>4. CASE ReadWrites(Engine)
        <5>1. reads'[Engine].stage = "done"
          BY <1>0, <4>4 DEF ReadWrites, ReadState
        <5> QED
          BY <4>1, <4>2, <5>1
      <4> QED
        BY <2>1, <3>2, <4>3, <4>4 DEF Reads, Forget
    <3> QED
      BY <3>1, <3>2
  <2> QED
    BY <2>3, <2>4, <2>5
<1> QED
  BY <1>1, <1>2, <1>3, <1>4, <1>5, <1>6, <1>7, <1>8 DEF Next, Runs

\* nothing is written while the engine reads
LEMMA PendingStep ==
  ASSUME SaverInv, Next
  PROVE  PendingInv'
<1>0. TypeOK /\ EngineInv /\ PendingInv /\ Engine \in Procs /\ reads \in [Procs -> ReadState]
  BY DEF SaverInv, Procs, TypeOK
<1>1. CASE \E p \in Procs : Reads(p)
  <2>1. PICK p \in Procs : Reads(p)
    BY <1>1
  <2>2. writes' = writes
    BY <2>1 DEF Reads, ReadRow, ReadBlob, ReadWrites, Forget, tables
  <2>3. CASE p # Engine
    <3>1. reads'[Engine] = reads[Engine]
      BY <1>0, <2>1, <2>3 DEF Reads, ReadRow, ReadBlob, ReadWrites, Forget
    <3> QED
      BY <1>0, <2>2, <3>1 DEF PendingInv
  <2>4. CASE p = Engine /\ ReadWrites(p)
    <3>1. reads[Engine] \in ReadState
      BY <1>0
    <3>2. /\ reads'[Engine].id = reads[Engine].id
          /\ reads'[Engine].pending = Pending(reads[Engine].id)
      BY <1>0, <2>4, <3>1 DEF ReadWrites, ReadState
    <3> QED
      BY <2>2, <3>2 DEF PendingInv, Pending
  <2>5. CASE p = Engine /\ ~ReadWrites(p)
    <3>1. CASE \E c \in Channels : ReadBlob(Engine, c)
      <4>1. reads'[Engine].stage = "blobs"
        BY <1>0, <3>1, ReadBlobStage
      <4> QED
        BY <4>1 DEF PendingInv
    <3>2. CASE \E wanted \in Ids \cup {NoId} : ReadRow(Engine, wanted)
      <4>1. reads'[Engine].stage = "blobs"
        BY <1>0, <3>2 DEF ReadRow, Idle
      <4> QED
        BY <4>1 DEF PendingInv
    <3> QED
      BY <2>1, <2>5, <3>1, <3>2 DEF Reads, Forget
  <2> QED
    BY <2>3, <2>4, <2>5
<1>2. CASE Resume \/ Crash
  <2>1. reads'[Engine].stage = "idle"
    BY <1>0, <1>2 DEF Resume, Crash, Idle
  <2> QED
    BY <2>1 DEF PendingInv
<1>3. CASE \E t \in Tasks, kind \in {"value", "error"} : Finish(t, kind)
  <2>1. engine.phase = "live" /\ reads' = reads
    BY <1>3 DEF Finish
  <2> QED
    BY <1>0, <2>1 DEF EngineInv, PendingInv
<1>4. CASE Start \/ TakeCheckpoint \/ Stop \/ Put \/ PutFails \/ DeleteThread
  <2>1. reads' = reads /\ (writes' = writes \/ writes' = {})
    BY <1>4 DEF Start, TakeCheckpoint, Stop, Put, PutFails, DeleteThread, tables
  <2> QED
    BY <1>0, <2>1 DEF PendingInv
<1> QED
  BY <1>1, <1>2, <1>3, <1>4 DEF Next, Runs, Writes

-----------------------------------------------------------------------------
(***************************************************************************)
(* The theorems.                                                           *)
(***************************************************************************)

LEMMA SaverInit == Init => SaverInv
<1> SUFFICES ASSUME Init PROVE SaverInv
  OBVIOUS
<1>1. /\ checkpoints = {} /\ blobs = {} /\ writes = {} /\ clock = 0
      /\ taken = <<>> /\ queue = <<>> /\ engine = Dead
      /\ reads = [p \in Procs |-> Idle]
  BY DEF Init
<1>2. taken \in Seq(Checkpoint) /\ Len(taken) = 0 /\ queue \in Seq(Known) /\ Len(queue) = 0
  BY <1>1
<1>3. engine \in EngineState /\ reads \in [Procs -> ReadState]
  BY <1>1, FrameTypes
<1>4. TypeOK
  BY <1>1, <1>2, <1>3, BoundAssumption DEF TypeOK
<1>5. HistoryInv
  BY <1>2 DEF HistoryInv, Known
<1>6. RowsInv /\ BlobsInv /\ WritesInv /\ QueueInv
  BY <1>1, <1>2 DEF RowsInv, BlobsInv, WritesInv, QueueInv
<1>7. \A p \in Procs : reads[p].stage = "idle"
  BY <1>1 DEF Idle
<1>8. engine.phase = "dead" /\ Engine \in Procs
  BY <1>1 DEF Dead, Procs
<1>9. EngineInv /\ PendingInv /\ \A p \in Procs : ReadInv(p)
  BY <1>7, <1>8 DEF EngineInv, HeadInv, PendingInv, ReadInv
<1> QED
  BY <1>4, <1>5, <1>6, <1>9 DEF SaverInv

\* the frame of a step that changes nothing
LEMMA SaverStutter == SaverInv /\ UNCHANGED vars => SaverInv'
<1> SUFFICES ASSUME SaverInv, UNCHANGED vars PROVE SaverInv'
  OBVIOUS
<1>1. /\ checkpoints' = checkpoints /\ blobs' = blobs /\ writes' = writes /\ clock' = clock
      /\ taken' = taken /\ queue' = queue /\ engine' = engine /\ reads' = reads
  BY DEF vars, tables
<1>2. TypeOK /\ QueueInv
  BY DEF SaverInv
<1>3. Continues
  BY <1>1, <1>2, RestContinues
<1>4. TypeOK' /\ RowsInv' /\ BlobsInv' /\ WritesInv' /\ QueueInv' /\ PendingInv'
  BY <1>1 DEF SaverInv, TypeOK, RowsInv, BlobsInv, WritesInv, QueueInv, PendingInv,
              SameKey, Known
<1>5. HistoryInv'
  <2>1. Known' = Known
    BY <1>1 DEF Known
  <2> QED
    BY <1>2, <1>3, <2>1, HistoryStays DEF SaverInv, HistoryInv
<1>6. \A p \in Procs : ReadInv(p)'
  BY <1>1, <1>2, <1>3, ReadStays DEF SaverInv
<1>7. EngineInv'
  <2>1. HeadInv'
    BY <1>1, <1>2, <1>3, HeadStays DEF SaverInv, EngineInv
  <2> QED
    BY <1>1, <2>1 DEF SaverInv, EngineInv, TaskDone
<1> QED
  BY <1>4, <1>5, <1>6, <1>7 DEF SaverInv

LEMMA SaverStep == SaverInv /\ [Next]_vars => SaverInv'
<1>1. ASSUME SaverInv, Next PROVE SaverInv'
  <2>1. /\ TypeOK /\ HistoryInv /\ RowsInv /\ BlobsInv /\ WritesInv /\ QueueInv
        /\ EngineInv /\ \A p \in Procs : ReadInv(p)
    BY <1>1 DEF SaverInv
  <2>2. Continues
    BY <1>1, <2>1, StepContinues
  <2>3. TypeOK'
    BY <1>1, <2>1, TypeStep
  <2>4. HistoryInv'
    BY <1>1, <2>1, <2>2, HistoryStep
  <2>5. RowsInv' /\ BlobsInv' /\ WritesInv' /\ QueueInv'
    BY <1>1, <2>1, <2>2, RowsStep, BlobsStep, WritesStep, QueueStep
  <2>6. EngineInv' /\ PendingInv'
    BY <1>1, <2>2, EngineStep, PendingStep
  <2>7. \A p \in Procs : ReadInv(p)'
    BY <1>1, <2>1, <2>2, ReadsStep
  <2> QED
    BY <2>3, <2>4, <2>5, <2>6, <2>7 DEF SaverInv
<1> QED
  BY <1>1, SaverStutter

LEMMA SaverInvariant == Spec => []SaverInv
<1> QED
  BY SaverInit, SaverStep, PTL DEF Spec

\* The tables of the saver hold rows of their kind, one for each primary key, for
\* any number of readers, crashes and failed transactions.
THEOREM TypeCorrect == Spec => []TypeOK
<1>1. SaverInv => TypeOK
  BY DEF SaverInv
<1> QED
  BY <1>1, SaverInvariant, PTL

\* A checkpoint reads back what was put, unless one it descends from is not stored
\* (checkpoint.py:72-83, :191).
THEOREM StoredCheckpointsReadBack == Spec => []ReadsBack
<1>1. SaverInv => ReadsBack
  <2> SUFFICES ASSUME SaverInv, NEW id \in Known, Whole(id), NEW c \in Channels
               PROVE  BlobOf(c, taken[id].versions[c]) = taken[id].values[c]
    BY DEF ReadsBack
  <2>1. TypeOK /\ HistoryInv /\ BlobsInv /\ QueueInv
    BY DEF SaverInv
  <2>2. \A a \in taken[id].lineage : ~Lost(a)
    BY DEF Whole, Lost
  <2>3. taken[id].values[c] = ValueOf(c, taken[id].versions[c])
    BY <2>1, <2>2 DEF HistoryInv, HistoryOf, Faithful
  <2>4. \A i \in 1 .. Len(queue) : id < queue[i]
    <3>1. Stored(id)
      BY <2>1 DEF HistoryInv, HistoryOf, Whole
    <3> QED
      BY <2>1, <3>1 DEF QueueInv, Stored
  <2> QED
    BY <2>1, <2>2, <2>3, <2>4, BlobOfVersion
<1> QED
  BY <1>1, SaverInvariant, PTL

\* A read in several statements returns one checkpoint, unless one it descends from
\* is not stored (checkpoint.py:62-83).
THEOREM ReadsReturnSnapshots == Spec => []ReadsAreSnapshots
<1>1. SaverInv => ReadsAreSnapshots
  <2> SUFFICES ASSUME SaverInv, NEW p \in Procs, reads[p].stage = "done", Whole(reads[p].id)
               PROVE  reads[p].values = taken[reads[p].id].values
    BY DEF ReadsAreSnapshots
  <2> DEFINE id == reads[p].id
  <2>1. TypeOK /\ HistoryInv /\ ReadInv(p)
    BY DEF SaverInv
  <2>2. \A a \in taken[id].lineage : ~Lost(a)
    BY DEF Whole, Lost
  <2>3. /\ id \in Known /\ reads[p].versions = taken[id].versions
        /\ \A c \in Channels : reads[p].values[c] = ValueOf(c, reads[p].versions[c])
    BY <2>1, <2>2 DEF ReadInv
  <2>4. \A c \in Channels : taken[id].values[c] = ValueOf(c, taken[id].versions[c])
    BY <2>1, <2>2, <2>3 DEF HistoryInv, HistoryOf, Faithful
  <2>5. taken[id].values \in [Channels -> 0 .. MaxId]
    BY <2>1, <2>3, TakenTyped DEF Values
  <2>6. reads[p].values \in [Channels -> 0 .. MaxId]
    BY <2>1 DEF TypeOK, ReadState, Values
  <2> QED
    BY <2>3, <2>4, <2>5, <2>6
<1> QED
  BY <1>1, SaverInvariant, PTL

\* The row that is found first is that of the newest checkpoint stored
\* (checkpoint.py:60).
THEOREM LatestRowIsNewest == Spec => []LatestIsNewest
<1>1. SaverInv => LatestIsNewest
  <2> SUFFICES ASSUME SaverInv, NEW row \in checkpoints, IsLatest(row), NEW other \in checkpoints
               PROVE  other.id <= row.id
    BY DEF LatestIsNewest
  <2>1. row.id \in Nat /\ other.id \in Nat /\ row.created \in Nat /\ other.created \in Nat
    BY DEF SaverInv, TypeOK, Ids
  <2>2. row.id < other.id => row.created <= other.created
    BY DEF SaverInv, RowsInv
  <2> QED
    BY <2>1, <2>2 DEF IsLatest
<1> QED
  BY <1>1, SaverInvariant, PTL

\* A task whose writes are stored is not done again (checkpoint.py:87-99).
THEOREM TasksAreDoneOnce == Spec => []NothingDoneTwice
<1>1. SaverInv => NothingDoneTwice
  BY DEF SaverInv, EngineInv, NothingDoneTwice
<1> QED
  BY <1>1, SaverInvariant, PTL
=============================================================================
