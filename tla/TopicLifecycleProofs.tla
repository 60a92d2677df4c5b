------------------------ MODULE TopicLifecycleProofs ------------------------
(***************************************************************************)
(* Safety of TopicLifecycle, for any number of requests, incarnations,     *)
(* configuration changes and restarts.  The invariants come in layers, one *)
(* per theorem, each resting on those before it: types, the registry and   *)
(* its file, pending_deletes.json and the locks, retired incarnations,     *)
(* and the partition tasks a deletion has shut down.                       *)
(***************************************************************************)
EXTENDS TopicLifecycle, TLAPS

SpawnPcs  == {"put", "spawn", "lock", "recover", "insert"}
WaitPcs   == {"shutwriter", "waitwriter", "waituploader"}
DataPcs   == {"wipe", "snapshot", "append", "persist"}
DeletePcs == {"remove"} \cup WaitPcs \cup DataPcs

-----------------------------------------------------------------------------
(* Types *)

RequestType ==
  [op : {"none", "create", "produce", "delete", "alter"},
   pc : {"idle", "put", "spawn", "lock", "recover", "insert", "lookup",
         "commit", "remove", "shutwriter", "waitwriter", "waituploader", "wipe",
         "snapshot", "append", "persist", "handles", "push", "setcfg"},
   uuid : 0 .. MaxUuids, handle : 0 .. MaxUuids, lock : 0 .. MaxUuids,
   cfg : 0 .. MaxAlters, data : BOOLEAN, acks : BOOLEAN,
   loaded : SUBSET Uuid]

PartType ==
  [writer : {"none", "running", "stopping", "stopped"},
   uploader : {"none", "running", "stopping", "stopped"},
   active : SUBSET Uuid, linked : BOOLEAN, cfg : 0 .. MaxAlters]

SweepType ==
  [pc : {"none", "snapshot", "list", "remove", "persist"}, loaded : SUBSET Uuid]

\* What a request task has looked up by the time it uses it.
Prepared(q) ==
  /\ q.pc \in SpawnPcs \cup DeletePcs => q.uuid \in Uuid
  /\ q.pc \in {"commit", "push"} \cup WaitPcs => q.handle \in Uuid
  /\ q.pc \in {"lock", "recover", "insert"} => q.lock \in Uuid

ReqTyped == \A r \in Requests : Prepared(req[r])

\* A broker that is down has nothing in memory and nobody at work, and a start
\* is left.
DownOK ==
  broker = "down" =>
    /\ boots < MaxBoots
    /\ topics = NoTopic /\ held = {} /\ fileLock = FALSE
    /\ \A r \in Requests : req[r] = Idle
    /\ \A u \in Uuid : sweep[u] = NoSweep

TypeInv == TypeOK /\ ReqTyped /\ DownOK

LEMMA TypeFacts ==
  ASSUME TypeOK
  PROVE  /\ req \in [Requests -> RequestType]
         /\ part \in [Uuid -> PartType]
         /\ sweep \in [Uuid -> SweepType]
         /\ topicsFile \in Topic \cup {NoTopic} /\ topics \in Topic \cup {NoTopic}
         /\ partitions \in Topic \cup {NoTopic}
         /\ nextUuid \in Nat /\ starts \in Nat /\ boots \in Nat
  BY LifecycleAssumption DEF TypeOK, RequestType, PartType, SweepType

LEMMA ConstantTypes ==
  /\ Uuid \subseteq 0 .. MaxUuids /\ 0 \notin Uuid /\ 1 \in Uuid
  /\ 0 \in 0 .. MaxUuids /\ 0 \in 0 .. MaxAlters
  /\ Idle \in RequestType /\ Prepared(Idle)
  /\ NoPart \in PartType /\ NoSweep \in SweepType
  /\ \A t \in Topic : t.uuid \in Uuid /\ t.cfg \in 0 .. MaxAlters
  /\ NoTopic.uuid = 0 /\ NoTopic.cfg = 0 /\ NoTopic \notin Topic
  /\ NoUuid = 0
<1>1. /\ Uuid \subseteq 0 .. MaxUuids /\ 0 \notin Uuid /\ 1 \in Uuid
      /\ 0 \in 0 .. MaxUuids /\ 0 \in 0 .. MaxAlters
  BY LifecycleAssumption DEF Uuid
<1>2. Idle \in RequestType /\ Prepared(Idle)
  BY <1>1 DEF Idle, RequestType, Prepared, SpawnPcs, DeletePcs, WaitPcs, DataPcs, NoUuid
<1>3. NoPart \in PartType /\ NoSweep \in SweepType
  BY <1>1 DEF NoPart, PartType, NoSweep, SweepType
<1>4. /\ \A t \in Topic : t.uuid \in Uuid /\ t.cfg \in 0 .. MaxAlters
      /\ NoTopic.uuid = 0 /\ NoTopic.cfg = 0 /\ NoTopic \notin Topic /\ NoUuid = 0
  BY <1>1 DEF Topic, NoTopic, NoUuid
<1>5. QED
  BY <1>1, <1>2, <1>3, <1>4

\* A request goes on with what it has prepared.
LEMMA GotoTyped ==
  ASSUME req \in [Requests -> RequestType], ReqTyped,
         NEW r \in Requests, NEW q \in RequestType, Prepared(q), Goto(r, q)
  PROVE  req' \in [Requests -> RequestType] /\ ReqTyped'
<1>1. /\ req' \in [Requests -> RequestType]
      /\ \A p \in Requests : req'[p] = IF p = r THEN q ELSE req[p]
  BY DEF Goto
<1>2. QED
  BY <1>1 DEF ReqTyped

LEMMA AnswerTyped ==
  ASSUME req \in [Requests -> RequestType], ReqTyped, NEW r \in Requests, Answer(r)
  PROVE  req' \in [Requests -> RequestType] /\ ReqTyped'
  BY GotoTyped, ConstantTypes DEF Answer

LEMMA TypeInit == Init => TypeInv
<1> SUFFICES ASSUME Init PROVE TypeInv
  OBVIOUS
<1>1. /\ req \in [Requests -> RequestType] /\ ReqTyped
      /\ \A r \in Requests : req[r] = Idle
  BY ConstantTypes DEF Init, ReqTyped
<1>2. part \in [Uuid -> PartType] /\ sweep \in [Uuid -> SweepType]
  BY ConstantTypes DEF Init
<1>3. /\ nextUuid \in 1 .. MaxUuids + 1
      /\ topicsFile \in Topic \cup {NoTopic}
      /\ promised \subseteq Uuid /\ manifests \subseteq Uuid /\ walDir \subseteq Uuid
  <2> USE LifecycleAssumption DEF Uuid, Topic
  <2>1. CASE nextUuid = 1 /\ topicsFile = NoTopic /\ manifests = {} /\ walDir = {}
             /\ promised = {}
    BY <2>1
  <2>2. CASE nextUuid = 2 /\ topicsFile = [uuid |-> 1, cfg |-> 0] /\ manifests = {1}
             /\ walDir = {1} /\ promised = {}
    BY <2>2
  <2>3. CASE nextUuid = 3 /\ MaxUuids > 1 /\ topicsFile = [uuid |-> 2, cfg |-> 0]
             /\ manifests = {1, 2} /\ walDir = {2} /\ promised = {1}
    BY <2>3
  <2>4. QED
    BY <2>1, <2>2, <2>3 DEF Init
<1>4. TypeOK
  <2>1. /\ {topicsFile, topics, partitions} \subseteq Topic \cup {NoTopic}
        /\ walDir \subseteq Uuid /\ pendingFile \subseteq Uuid
        /\ strays \subseteq SUBSET Uuid /\ lost \subseteq Uuid
        /\ snapshot \subseteq Uuid /\ manifests \subseteq Uuid
        /\ listed \subseteq Uuid /\ objects \subseteq Uuid
        /\ broker \in {"up", "down"}
        /\ spawnLocks \in 0 .. MaxUuids /\ held \subseteq Uuid
    BY <1>3, ConstantTypes DEF Init
  <2>2. /\ fileLock \in BOOLEAN
        /\ starts \in 0 .. MaxStarts /\ nextUuid \in 1 .. MaxUuids + 1
        /\ boots \in 0 .. MaxBoots
        /\ deleted \subseteq Uuid /\ promised \subseteq Uuid
        /\ settled \subseteq Uuid /\ swept \subseteq Uuid
    <3>1. /\ fileLock = FALSE /\ starts = 0 /\ boots = 0
          /\ deleted = promised /\ settled = promised /\ swept = {}
      BY DEF Init
    <3>2. 0 \in 0 .. MaxStarts /\ 0 \in 0 .. MaxBoots
      BY LifecycleAssumption
    <3>3. QED
      BY <1>3, <3>1, <3>2
  <2>3. QED
    BY <1>1, <1>2, <2>1, <2>2 DEF TypeOK, RequestType, PartType, SweepType
<1>5. DownOK
  <2>1. /\ boots = 0 /\ topics = NoTopic /\ held = {} /\ fileLock = FALSE
        /\ \A u \in Uuid : sweep[u] = NoSweep
    BY DEF Init
  <2>2. QED
    BY <1>1, <2>1, LifecycleAssumption DEF DownOK
<1>6. QED
  BY <1>1, <1>4, <1>5 DEF TypeInv

\* Memory, files and history apart from the request tasks.
RestTyped ==
  /\ {topicsFile, topics, partitions} \subseteq Topic \cup {NoTopic}
  /\ walDir \subseteq Uuid /\ pendingFile \subseteq Uuid
  /\ strays \subseteq SUBSET Uuid /\ lost \subseteq Uuid
  /\ snapshot \subseteq Uuid /\ manifests \subseteq Uuid
  /\ listed \subseteq Uuid /\ objects \subseteq Uuid
  /\ broker \in {"up", "down"}
  /\ spawnLocks \in 0 .. MaxUuids /\ held \subseteq Uuid
  /\ part \in [Uuid -> PartType]
  /\ sweep \in [Uuid -> SweepType]
  /\ fileLock \in BOOLEAN
  /\ starts \in 0 .. MaxStarts /\ nextUuid \in 1 .. MaxUuids + 1
  /\ boots \in 0 .. MaxBoots
  /\ deleted \subseteq Uuid /\ promised \subseteq Uuid
  /\ settled \subseteq Uuid /\ swept \subseteq Uuid

TaskTyped == req \in [Requests -> RequestType] /\ ReqTyped

LEMMA TypeParts == TypeOK /\ ReqTyped <=> RestTyped /\ TaskTyped
  BY DEF TypeOK, RestTyped, TaskTyped, RequestType, PartType, SweepType

\* The task of a DeleteTopic, with delete_data or without.
LEMMA DeletionTyped ==
  ASSUME NEW u \in Uuid, NEW data \in BOOLEAN
  PROVE  [Idle EXCEPT !.op = "delete", !.pc = "remove", !.uuid = u, !.data = data]
           \in RequestType
<1>1. Idle \in RequestType /\ u \in 0 .. MaxUuids
  BY ConstantTypes
<1>2. /\ [Idle EXCEPT !.op = "delete", !.pc = "remove", !.uuid = u, !.data = TRUE]
           \in RequestType
      /\ [Idle EXCEPT !.op = "delete", !.pc = "remove", !.uuid = u, !.data = FALSE]
           \in RequestType
  BY <1>1 DEF RequestType
<1>3. QED
  BY <1>2

\* Steps of a request at the registry.
LEMMA RegistryTyped ==
  ASSUME TypeInv, NEW r \in Requests,
         \/ RegistryRejects(r) \/ EnsureFinds(r) \/ RegistryCreate(r)
         \/ PutEmptyManifest(r) \/ CreateFails(r) \/ RegistryDelete(r) \/ RegistryAlter(r)
  PROVE  RestTyped' /\ TaskTyped'
<1> USE ConstantTypes DEF diskVars, fileVars, storeVars, memVars, doneVars, histVars
<1>0. RestTyped /\ TaskTyped /\ req[r] \in RequestType /\ Prepared(req[r])
  BY TypeParts DEF TypeInv, TaskTyped, ReqTyped
<1>1. starts \in Nat /\ MaxStarts \in Nat /\ (Arrives(r) => starts' \in 0 .. MaxStarts)
  BY <1>0, LifecycleAssumption DEF RestTyped, Arrives
<1>2. CASE RegistryRejects(r)
  BY <1>0, <1>1, <1>2 DEF RegistryRejects, RestTyped, TaskTyped, ReqTyped
<1>3. CASE EnsureFinds(r)
  <2>1. TaskTyped'
    <3> DEFINE q == [Idle EXCEPT !.op = "produce", !.pc = "lookup"]
    <3>1. q \in RequestType /\ Prepared(q) /\ Goto(r, q)
      BY <1>3 DEF EnsureFinds, Idle, RequestType, Prepared, SpawnPcs, DeletePcs, WaitPcs, DataPcs
    <3>2. QED
      BY <1>0, <3>1, GotoTyped DEF TaskTyped
  <2>2. QED
    BY <1>0, <1>1, <1>3, <2>1 DEF EnsureFinds, RestTyped
<1>4. CASE RegistryCreate(r)
  <2>1. nextUuid \in Uuid /\ nextUuid' \in 1 .. MaxUuids + 1
    <3>1. nextUuid \in Uuid /\ nextUuid' = nextUuid + 1
      BY <1>4 DEF RegistryCreate
    <3>2. QED
      BY <3>1, LifecycleAssumption DEF Uuid
  <2>2. PICK op \in {"create", "produce"} :
          Goto(r, [Idle EXCEPT !.op = op, !.pc = "put", !.uuid = nextUuid])
    BY <1>4 DEF RegistryCreate
  <2>3. TaskTyped'
    <3> DEFINE q == [Idle EXCEPT !.op = op, !.pc = "put", !.uuid = nextUuid]
    <3>1. q \in RequestType
      BY <2>1 DEF Idle, RequestType
    <3>2. q.pc = "put" /\ q.uuid \in Uuid
      BY <2>1 DEF Idle
    <3>3. Prepared(q)
      BY <3>2 DEF Prepared, SpawnPcs, DeletePcs, WaitPcs, DataPcs
    <3>4. QED
      BY <1>0, <2>2, <3>1, <3>3, GotoTyped DEF TaskTyped
  <2>4. topicsFile' \in Topic
    BY <1>4, <2>1 DEF RegistryCreate, Topic
  <2>5. {topicsFile', topics', partitions'} \subseteq Topic \cup {NoTopic}
    <3>1. UNCHANGED <<topics, partitions>>
      BY <1>4 DEF RegistryCreate
    <3>2. QED
      BY <1>0, <2>4, <3>1 DEF RestTyped
  <2>6. QED
    BY <1>0, <1>1, <1>4, <2>1, <2>3, <2>5 DEF RegistryCreate, RestTyped
<1>5. CASE PutEmptyManifest(r)
  <2>1. req[r].uuid \in Uuid
    BY <1>0, <1>5 DEF PutEmptyManifest, At, Prepared, SpawnPcs
  <2>2. TaskTyped'
    <3>1. CASE Answer(r)
      BY <1>0, <3>1, AnswerTyped DEF TaskTyped
    <3>2. CASE Goto(r, [req[r] EXCEPT !.pc = "spawn"])
      <4> DEFINE q == [req[r] EXCEPT !.pc = "spawn"]
      <4>1. q \in RequestType /\ Prepared(q)
        BY <1>0, <2>1 DEF RequestType, Prepared, SpawnPcs, DeletePcs, WaitPcs, DataPcs
      <4>2. QED
        BY <1>0, <3>2, <4>1, GotoTyped DEF TaskTyped
    <3>3. QED
      BY <1>5, <3>1, <3>2 DEF PutEmptyManifest
  <2>3. topics' \in Topic /\ manifests' \subseteq Uuid
    BY <1>0, <1>5, <2>1 DEF PutEmptyManifest, Topic, RestTyped
  <2>4. QED
    BY <1>0, <1>5, <2>2, <2>3 DEF PutEmptyManifest, RestTyped
<1>6. CASE CreateFails(r)
  <2>1. req[r].uuid \in Uuid
    BY <1>0, <1>6 DEF CreateFails, At, Prepared, SpawnPcs
  <2>2. TaskTyped'
    BY <1>0, <1>6, AnswerTyped DEF CreateFails, TaskTyped
  <2>3. QED
    BY <1>0, <1>6, <2>1, <2>2 DEF CreateFails, RestTyped
<1>7. CASE RegistryDelete(r)
  <2>1. topics.uuid \in Uuid
    BY <1>0, <1>7 DEF RegistryDelete, RestTyped
  <2>2. PICK data \in BOOLEAN :
          Goto(r, [Idle EXCEPT !.op = "delete", !.pc = "remove", !.uuid = topics.uuid,
                               !.data = data])
    BY <1>7 DEF RegistryDelete
  <2>3. TaskTyped'
    <3> DEFINE q == [Idle EXCEPT !.op = "delete", !.pc = "remove", !.uuid = topics.uuid,
                                 !.data = data]
    <3>1. q \in RequestType
      BY <2>1, DeletionTyped
    <3>2. q.pc = "remove" /\ q.uuid \in Uuid
      BY <2>1 DEF Idle
    <3>3. Prepared(q)
      BY <3>2 DEF Prepared, SpawnPcs, DeletePcs, WaitPcs, DataPcs
    <3>4. QED
      BY <1>0, <2>2, <3>1, <3>3, GotoTyped DEF TaskTyped
  <2>4. QED
    BY <1>0, <1>1, <1>7, <2>3 DEF RegistryDelete, RestTyped
<1>8. CASE RegistryAlter(r)
  <2>1. topics.cfg + 1 \in 0 .. MaxAlters /\ topics \in Topic
    BY <1>0, <1>8, LifecycleAssumption DEF RegistryAlter, RestTyped
  <2>2. topics' \in Topic /\ topicsFile' \in Topic
    BY <1>8, <2>1 DEF RegistryAlter, Topic
  <2>3. TaskTyped'
    <3> DEFINE q == [Idle EXCEPT !.op = "alter", !.pc = "handles", !.cfg = topics.cfg + 1]
    <3>1. q \in RequestType /\ Prepared(q) /\ Goto(r, q)
      BY <1>8, <2>1 DEF RegistryAlter, Idle, RequestType, Prepared, SpawnPcs, DeletePcs, WaitPcs, DataPcs
    <3>2. QED
      BY <1>0, <3>1, GotoTyped DEF TaskTyped
  <2>4. QED
    BY <1>0, <1>1, <1>8, <2>2, <2>3 DEF RegistryAlter, RestTyped
<1>9. QED
  BY <1>2, <1>3, <1>4, <1>5, <1>6, <1>7, <1>8

\* The partition that recovery starts.
LEMMA RecoveredTyped ==
  ASSUME RestTyped, NEW u \in Uuid, NEW c \in 0 .. MaxAlters
  PROVE  Recovered(u, c) \in PartType /\ Uncovered(u) \subseteq Uuid
<1>1. Uncovered(u) \subseteq Uuid
  BY DEF Uncovered, RestTyped
<1>2. QED
  BY <1>1 DEF Recovered, NoPart, PartType

LEMMA SpawnedTyped ==
  ASSUME TaskTyped, NEW r \in Requests, Spawned(r)
  PROVE  TaskTyped'
<1>1. CASE Answer(r)
  BY <1>1, AnswerTyped DEF TaskTyped
<1>2. CASE ~ Answer(r)
  <2> DEFINE q == [Idle EXCEPT !.op = "produce", !.pc = "lookup"]
  <2>1. q \in RequestType /\ Prepared(q) /\ Goto(r, q)
    BY <1>2, ConstantTypes
       DEF Spawned, Idle, RequestType, Prepared, SpawnPcs, DeletePcs, WaitPcs, DataPcs
  <2>2. QED
    BY <2>1, GotoTyped DEF TaskTyped
<1>3. QED
  BY <1>1, <1>2

\* Steps of spawn_partition and of Produce.
LEMMA SpawnTyped ==
  ASSUME TypeInv, NEW r \in Requests,
         \/ SpawnEntry(r) \/ SpawnLock(r) \/ SpawnRecover(r) \/ SpawnPanics(r)
         \/ SpawnInsert(r) \/ LookupHandle(r) \/ Commit(r)
  PROVE  RestTyped' /\ TaskTyped'
<1> USE ConstantTypes DEF diskVars, fileVars, storeVars, memVars, doneVars, histVars
<1>0. RestTyped /\ TaskTyped /\ req[r] \in RequestType /\ Prepared(req[r])
  BY TypeParts DEF TypeInv, TaskTyped, ReqTyped
<1>1. CASE SpawnEntry(r)
  <2> DEFINE lock == IF spawnLocks = NoUuid THEN req[r].uuid ELSE spawnLocks
             q == [req[r] EXCEPT !.pc = "lock", !.lock = lock]
  <2>1. req[r].uuid \in Uuid
    BY <1>0, <1>1 DEF SpawnEntry, At, Prepared, SpawnPcs
  <2>2. lock \in Uuid
    <3>1. spawnLocks # 0 => spawnLocks \in Uuid
      BY <1>0, LifecycleAssumption DEF RestTyped, Uuid
    <3>2. QED
      BY <2>1, <3>1
  <2>3. spawnLocks' = lock /\ Goto(r, q)
    BY <1>1 DEF SpawnEntry
  <2> HIDE DEF lock
  <2>4. q \in RequestType /\ q.pc = "lock" /\ q.uuid \in Uuid /\ q.lock \in Uuid
    BY <1>0, <2>1, <2>2 DEF RequestType
  <2>5. Prepared(q)
    BY <2>4 DEF Prepared, SpawnPcs, DeletePcs, WaitPcs, DataPcs
  <2>6. TaskTyped'
    BY <1>0, <2>3, <2>4, <2>5, GotoTyped DEF TaskTyped
  <2>7. QED
    BY <1>0, <1>1, <2>2, <2>3, <2>6 DEF SpawnEntry, RestTyped
<1>2. CASE SpawnLock(r)
  <2>1. req[r].uuid \in Uuid /\ req[r].lock \in Uuid
    BY <1>0, <1>2 DEF SpawnLock, At, Prepared, SpawnPcs
  <2>2. TaskTyped'
    <3>1. CASE Spawned(r)
      BY <1>0, <3>1, SpawnedTyped
    <3>2. CASE Goto(r, [req[r] EXCEPT !.pc = "recover"])
      <4> DEFINE q == [req[r] EXCEPT !.pc = "recover"]
      <4>1. q \in RequestType /\ q.pc = "recover" /\ q.uuid \in Uuid /\ q.lock \in Uuid
        BY <1>0, <2>1 DEF RequestType
      <4>2. Prepared(q)
        BY <4>1 DEF Prepared, SpawnPcs, DeletePcs, WaitPcs, DataPcs
      <4>3. QED
        BY <1>0, <3>2, <4>1, <4>2, GotoTyped DEF TaskTyped
    <3>3. QED
      BY <1>2, <3>1, <3>2 DEF SpawnLock
  <2>3. held' \subseteq Uuid
    BY <1>0, <1>2, <2>1 DEF SpawnLock, RestTyped
  <2>4. QED
    BY <1>0, <1>2, <2>2, <2>3 DEF SpawnLock, RestTyped
<1>3. CASE SpawnRecover(r)
  <2>1. req[r].uuid \in Uuid /\ req[r].lock \in Uuid
    BY <1>0, <1>3 DEF SpawnRecover, At, Prepared, SpawnPcs
  <2> DEFINE q == [req[r] EXCEPT !.pc = "insert"]
  <2>2. q \in RequestType /\ q.pc = "insert" /\ q.uuid \in Uuid /\ q.lock \in Uuid
    BY <1>0, <2>1 DEF RequestType
  <2>3. Prepared(q)
    BY <2>2 DEF Prepared, SpawnPcs, DeletePcs, WaitPcs, DataPcs
  <2>4. TaskTyped'
    BY <1>0, <1>3, <2>2, <2>3, GotoTyped DEF SpawnRecover, TaskTyped
  <2>5. Recovered(req[r].uuid, 0) \in PartType /\ Uncovered(req[r].uuid) \subseteq Uuid
    BY <1>0, <2>1, RecoveredTyped
  <2>6. part' \in [Uuid -> PartType] /\ walDir' \subseteq Uuid
    BY <1>0, <1>3, <2>5 DEF SpawnRecover, RestTyped
  <2>7. QED
    BY <1>0, <1>3, <2>4, <2>6 DEF SpawnRecover, RestTyped
<1>4. CASE SpawnPanics(r)
  <2>1. TaskTyped'
    BY <1>0, <1>4, AnswerTyped DEF SpawnPanics, TaskTyped
  <2>2. QED
    BY <1>0, <1>4, <2>1 DEF SpawnPanics, RestTyped
<1>5. CASE SpawnInsert(r)
  <2>1. TaskTyped'
    BY <1>0, <1>5, SpawnedTyped DEF SpawnInsert
  <2>2. req[r].uuid \in Uuid
    BY <1>0, <1>5 DEF SpawnInsert, At, Prepared, SpawnPcs
  <2>3. partitions' \in Topic
    BY <1>5, <2>2 DEF SpawnInsert, Topic
  <2>4. {topicsFile', topics', partitions'} \subseteq Topic \cup {NoTopic}
    BY <1>0, <1>5, <2>3 DEF SpawnInsert, RestTyped
  <2>5. QED
    BY <1>0, <1>5, <2>1, <2>4 DEF SpawnInsert, RestTyped
<1>6. CASE LookupHandle(r)
  <2>1. TaskTyped'
    <3>1. CASE Answer(r)
      BY <1>0, <3>1, AnswerTyped DEF TaskTyped
    <3>2. CASE partitions # NoTopic
      <4> DEFINE q == [req[r] EXCEPT !.pc = "commit", !.handle = partitions.uuid]
      <4>1. partitions.uuid \in Uuid
        BY <1>0, <3>2 DEF RestTyped
      <4>2. q \in RequestType /\ q.pc = "commit" /\ q.handle \in Uuid
        BY <1>0, <4>1 DEF RequestType
      <4>3. Prepared(q)
        BY <4>2 DEF Prepared, SpawnPcs, DeletePcs, WaitPcs, DataPcs
      <4>4. Goto(r, q)
        BY <1>6, <3>2 DEF LookupHandle
      <4>5. QED
        BY <1>0, <4>2, <4>3, <4>4, GotoTyped DEF TaskTyped
    <3>3. QED
      BY <1>6, <3>1, <3>2 DEF LookupHandle
  <2>2. QED
    BY <1>0, <1>6, <2>1 DEF LookupHandle, RestTyped
<1>7. CASE Commit(r)
  <2>1. TaskTyped'
    BY <1>0, <1>7, AnswerTyped DEF Commit, TaskTyped
  <2>2. req[r].handle \in Uuid
    BY <1>0, <1>7 DEF Commit, At, Prepared
  <2>3. part' \in [Uuid -> PartType]
    BY <1>0, <1>7, <2>2 DEF Commit, RestTyped, PartType
  <2>4. walDir' \subseteq Uuid
    BY <1>0, <1>7, <2>2 DEF Commit, RestTyped
  <2>5. QED
    BY <1>0, <1>7, <2>1, <2>3, <2>4 DEF Commit, RestTyped
<1>8. QED
  BY <1>1, <1>2, <1>3, <1>4, <1>5, <1>6, <1>7

LEMMA DropLockTyped ==
  ASSUME RestTyped, TaskTyped, NEW r \in Requests, req[r].uuid \in Uuid,
         NEW acks \in BOOLEAN, DropLock(r, acks),
         partitions' \in Topic \cup {NoTopic}, part' \in [Uuid -> PartType]
  PROVE  RestTyped' /\ TaskTyped'
<1> USE ConstantTypes DEF diskVars, fileVars, storeVars
<1>1. req[r] \in RequestType
  BY DEF TaskTyped
<1>2. TaskTyped'
  <2>1. CASE Answer(r)
    BY <2>1, AnswerTyped DEF TaskTyped
  <2>2. CASE req[r].data
    <3> DEFINE a == acks /\ req[r].handle = req[r].uuid
               q == [req[r] EXCEPT !.pc = "wipe", !.handle = NoUuid, !.acks = a]
    <3>1. Goto(r, q)
      BY <2>2 DEF DropLock
    <3>2. a \in BOOLEAN
      OBVIOUS
    <3> HIDE DEF a
    <3>3. q \in RequestType /\ q.pc = "wipe" /\ q.uuid \in Uuid
      <4>1. CASE a = TRUE
        BY <1>1, <4>1 DEF RequestType
      <4>2. CASE a = FALSE
        BY <1>1, <4>2 DEF RequestType
      <4>3. QED
        BY <3>2, <4>1, <4>2
    <3>4. Prepared(q)
      BY <3>3 DEF Prepared, SpawnPcs, DeletePcs, WaitPcs, DataPcs
    <3>5. QED
      BY <3>1, <3>3, <3>4, GotoTyped DEF TaskTyped
  <2>3. QED
    BY <2>1, <2>2 DEF DropLock
<1>3. deleted' \subseteq Uuid
  BY DEF DropLock, RestTyped
<1>4. QED
  BY <1>2, <1>3 DEF DropLock, RestTyped

\* A deletion goes on to its next step, with what it knows of its uuid.
LEMMA DeletePcTyped ==
  ASSUME TaskTyped, NEW r \in Requests, req[r].uuid \in Uuid,
         NEW pc \in DataPcs, NEW l \in SUBSET Uuid,
         \/ Goto(r, [req[r] EXCEPT !.pc = pc])
         \/ Goto(r, [req[r] EXCEPT !.pc = pc, !.loaded = l])
  PROVE  TaskTyped'
<1>1. PICK k \in {req[r].loaded, l} : Goto(r, [req[r] EXCEPT !.pc = pc, !.loaded = k])
  <2>1. req[r] \in RequestType
    BY DEF TaskTyped
  <2>2. [req[r] EXCEPT !.pc = pc] = [req[r] EXCEPT !.pc = pc, !.loaded = req[r].loaded]
    BY <2>1 DEF RequestType
  <2>3. QED
    BY <2>2
<1> DEFINE q == [req[r] EXCEPT !.pc = pc, !.loaded = k]
<1>2. req[r] \in RequestType
  BY DEF TaskTyped
<1>3. q \in RequestType /\ q.pc = pc /\ q.uuid \in Uuid
  BY <1>2 DEF RequestType, DataPcs
<1>4. Prepared(q)
  BY <1>3 DEF Prepared, SpawnPcs, DeletePcs, WaitPcs, DataPcs
<1>5. QED
  BY <1>1, <1>3, <1>4, GotoTyped DEF TaskTyped

\* The file, whichever write of it goes through.
LEMMA PublishesTyped ==
  ASSUME RestTyped, NEW c \in SUBSET Uuid, Publishes(c)
  PROVE  pendingFile' \subseteq Uuid /\ strays' \subseteq SUBSET Uuid /\ lost' \subseteq Uuid
  BY DEF RestTyped, Publishes

\* Steps of DeleteTopic after the registry's part.
LEMMA DeleteTyped ==
  ASSUME TypeInv, NEW r \in Requests,
         \/ RemoveHandle(r) \/ ShutWriter(r) \/ WaitWriter(r) \/ WaitUploader(r) \/ WipeWal(r)
         \/ TakeSnapshot(r) \/ AppendLoad(r) \/ AppendWrite(r) \/ AppendFails(r)
  PROVE  RestTyped' /\ TaskTyped'
<1> USE ConstantTypes DEF diskVars, fileVars, storeVars, memVars, doneVars, histVars
<1>0. RestTyped /\ TaskTyped /\ req[r] \in RequestType /\ Prepared(req[r])
  BY TypeParts DEF TypeInv, TaskTyped, ReqTyped
<1>u. req[r].uuid \in Uuid
  BY <1>0 DEF RemoveHandle, ShutWriter, WaitWriter, WaitUploader, WipeWal, TakeSnapshot,
              AppendLoad, AppendWrite, AppendFails, At, Prepared, DeletePcs, WaitPcs, DataPcs
<1>1. CASE RemoveHandle(r)
  <2>1. CASE partitions = NoTopic /\ DropLock(r, FALSE) /\ UNCHANGED part
    BY <1>0, <1>1, <1>u, <2>1, DropLockTyped DEF RemoveHandle, RestTyped
  <2>2. CASE partitions # NoTopic
    <3> DEFINE q == [req[r] EXCEPT !.pc = "shutwriter", !.handle = partitions.uuid]
    <3>1. partitions.uuid \in Uuid
      BY <1>0, <2>2 DEF RestTyped
    <3>2. q \in RequestType /\ q.pc = "shutwriter" /\ q.uuid \in Uuid /\ q.handle \in Uuid
      BY <1>0, <1>u, <3>1 DEF RequestType
    <3>3. Prepared(q)
      BY <3>2 DEF Prepared, SpawnPcs, DeletePcs, WaitPcs, DataPcs
    <3>4. Goto(r, q)
      BY <1>1, <2>2 DEF RemoveHandle
    <3>5. TaskTyped'
      BY <1>0, <3>2, <3>3, <3>4, GotoTyped DEF TaskTyped
    <3>6. /\ partitions' = NoTopic
          /\ UNCHANGED <<diskVars, storeVars, broker, topics, spawnLocks, held, sweep,
                         fileLock, histVars, part>>
      BY <1>1, <2>2 DEF RemoveHandle
    <3>7. QED
      BY <1>0, <3>5, <3>6 DEF RestTyped
  <2>3. QED
    BY <1>1, <2>1, <2>2 DEF RemoveHandle
<1>s. CASE ShutWriter(r)
  <2> DEFINE q == [req[r] EXCEPT !.pc = "waitwriter"]
  <2>1. req[r].handle \in Uuid
    BY <1>0, <1>s DEF ShutWriter, At, Prepared, WaitPcs
  <2>2. q \in RequestType /\ q.pc = "waitwriter" /\ q.uuid = req[r].uuid
        /\ q.handle = req[r].handle
    BY <1>0 DEF RequestType
  <2>3. Prepared(q)
    BY <1>u, <2>1, <2>2 DEF Prepared, SpawnPcs, DeletePcs, WaitPcs, DataPcs
  <2>4. TaskTyped'
    BY <1>0, <1>s, <2>2, <2>3, GotoTyped DEF ShutWriter, TaskTyped
  <2>5. part' \in [Uuid -> PartType]
    BY <1>0, <1>s, <2>1 DEF ShutWriter, RestTyped, PartType
  <2>6. QED
    BY <1>0, <1>s, <2>4, <2>5 DEF ShutWriter, RestTyped
<1>2. CASE WaitWriter(r)
  <2>1. req[r].handle \in Uuid
    BY <1>0, <1>2 DEF WaitWriter, At, Prepared, WaitPcs
  <2>2. PICK ack \in BOOLEAN : Goto(r, [req[r] EXCEPT !.pc = "waituploader", !.acks = ack])
    BY <1>2 DEF WaitWriter
  <2> DEFINE q == [req[r] EXCEPT !.pc = "waituploader", !.acks = ack]
  <2>3. q \in RequestType /\ q.pc = "waituploader" /\ q.uuid \in Uuid /\ q.handle \in Uuid
    <3>1. q \in RequestType
      <4>1. CASE ack = TRUE
        BY <1>0, <4>1 DEF RequestType
      <4>2. CASE ack = FALSE
        BY <1>0, <4>2 DEF RequestType
      <4>3. QED
        BY <4>1, <4>2
    <3>2. q.pc = "waituploader" /\ q.uuid = req[r].uuid /\ q.handle = req[r].handle
      BY <1>0 DEF RequestType
    <3>3. QED
      BY <1>u, <2>1, <3>1, <3>2
  <2>4. Prepared(q)
    BY <2>3 DEF Prepared, SpawnPcs, DeletePcs, WaitPcs, DataPcs
  <2>5. TaskTyped'
    BY <1>0, <2>2, <2>3, <2>4, GotoTyped DEF TaskTyped
  <2>6. part' \in [Uuid -> PartType]
    BY <1>0, <1>2, <2>1 DEF WaitWriter, RestTyped, PartType
  <2>7. QED
    BY <1>0, <1>2, <2>5, <2>6 DEF WaitWriter, RestTyped
<1>3. CASE WaitUploader(r)
  <2>1. PICK ack \in BOOLEAN : DropLock(r, req[r].acks /\ ack)
    BY <1>3 DEF WaitUploader
  <2>2. (req[r].acks /\ ack) \in BOOLEAN
    OBVIOUS
  <2>3. QED
    BY <1>0, <1>3, <1>u, <2>1, <2>2, DropLockTyped DEF WaitUploader, RestTyped
<1>4. CASE WipeWal(r)
  <2>1. TaskTyped'
    BY <1>0, <1>4, <1>u, DeletePcTyped DEF WipeWal, DataPcs
  <2>2. part' \in [Uuid -> PartType] /\ walDir' \subseteq Uuid
    <3>1. \A u \in Uuid : [part[u] EXCEPT !.linked = FALSE] \in PartType
      <4> SUFFICES ASSUME NEW u \in Uuid PROVE [part[u] EXCEPT !.linked = FALSE] \in PartType
        OBVIOUS
      <4>1. part[u] \in PartType
        BY <1>0 DEF RestTyped
      <4>2. QED
        BY <4>1 DEF PartType
    <3>2. QED
      BY <1>0, <1>4, <3>1 DEF WipeWal, RestTyped
  <2>3. QED
    BY <1>0, <1>4, <2>1, <2>2 DEF WipeWal, RestTyped
<1>5. CASE TakeSnapshot(r)
  <2>1. TaskTyped'
    BY <1>0, <1>5, <1>u, DeletePcTyped DEF TakeSnapshot, DataPcs
  <2>2. snapshot' \subseteq Uuid
    BY <1>0, <1>5 DEF TakeSnapshot, RestTyped
  <2>3. QED
    BY <1>0, <1>5, <2>1, <2>2 DEF TakeSnapshot, RestTyped
<1>6. CASE AppendLoad(r)
  <2>1. pendingFile \in SUBSET Uuid
    BY <1>0 DEF RestTyped
  <2>2. TaskTyped'
    BY <1>0, <1>6, <1>u, <2>1, DeletePcTyped DEF AppendLoad, DataPcs
  <2>3. QED
    BY <1>0, <1>6, <2>2 DEF AppendLoad, RestTyped
<1>7. CASE AppendWrite(r)
  <2>1. TaskTyped'
    BY <1>0, <1>7, AnswerTyped DEF AppendWrite, TaskTyped
  <2>2. sweep' \in [Uuid -> SweepType]
    <3>1. [NoSweep EXCEPT !.pc = "snapshot"] \in SweepType
      BY DEF SweepType, NoSweep
    <3>2. QED
      BY <1>0, <1>7, <3>1 DEF AppendWrite, RestTyped
  <2>3. req[r].loaded \subseteq Uuid
    BY <1>0 DEF RequestType
  <2>4. /\ deleted' \subseteq Uuid
        /\ promised' \subseteq Uuid /\ settled' \subseteq Uuid
    BY <1>0, <1>7, <1>u DEF AppendWrite, RestTyped
  <2>5. Appended(r) \in SUBSET Uuid /\ Publishes(Appended(r))
    BY <1>7, <1>u, <2>3 DEF AppendWrite, Appended
  <2>6. pendingFile' \subseteq Uuid /\ strays' \subseteq SUBSET Uuid /\ lost' \subseteq Uuid
    BY <1>0, <2>5, PublishesTyped
  <2>7. QED
    BY <1>0, <1>7, <2>1, <2>2, <2>4, <2>6 DEF AppendWrite, RestTyped
<1>8. CASE AppendFails(r)
  <2>1. TaskTyped'
    BY <1>0, <1>8, AnswerTyped DEF AppendFails, TaskTyped
  <2>2. QED
    BY <1>0, <1>8, <2>1 DEF AppendFails, RestTyped
<1>9. QED
  BY <1>1, <1>s, <1>2, <1>3, <1>4, <1>5, <1>6, <1>7, <1>8

\* Steps of AlterTopicConfig after the registry's part, and a client that goes away.
LEMMA AlterTyped ==
  ASSUME TypeInv, NEW r \in Requests,
         TakeHandles(r) \/ PushConfig(r) \/ SetHandleConfig(r) \/ Disconnect(r)
  PROVE  RestTyped' /\ TaskTyped'
<1> USE ConstantTypes DEF diskVars, fileVars, storeVars, memVars, doneVars, histVars
<1>0. RestTyped /\ TaskTyped /\ req[r] \in RequestType /\ Prepared(req[r])
  BY TypeParts DEF TypeInv, TaskTyped, ReqTyped
<1>1. CASE TakeHandles(r)
  <2> DEFINE pc == IF partitions = NoTopic THEN "setcfg" ELSE "push"
             q  == [req[r] EXCEPT !.handle = partitions.uuid, !.pc = pc]
  <2>1. /\ partitions.uuid \in 0 .. MaxUuids /\ pc \in {"setcfg", "push"}
        /\ pc = "push" => partitions.uuid \in Uuid
    BY <1>0 DEF RestTyped
  <2>2. Goto(r, q)
    BY <1>1 DEF TakeHandles
  <2> HIDE DEF pc
  <2>3. q \in RequestType /\ q.pc = pc /\ q.handle = partitions.uuid
    BY <1>0, <2>1 DEF RequestType
  <2>4. Prepared(q)
    BY <2>1, <2>3 DEF Prepared, SpawnPcs, DeletePcs, WaitPcs, DataPcs
  <2>5. TaskTyped'
    BY <1>0, <2>2, <2>3, <2>4, GotoTyped DEF TaskTyped
  <2>6. QED
    BY <1>0, <1>1, <2>5 DEF TakeHandles, RestTyped
<1>2. CASE PushConfig(r)
  <2> DEFINE q == [req[r] EXCEPT !.pc = "setcfg"]
  <2>1. req[r].handle \in Uuid /\ req[r].cfg \in 0 .. MaxAlters
    BY <1>0, <1>2 DEF PushConfig, At, Prepared, RequestType
  <2>2. q \in RequestType /\ q.pc = "setcfg"
    BY <1>0 DEF RequestType
  <2>3. Prepared(q)
    BY <2>2 DEF Prepared, SpawnPcs, DeletePcs, WaitPcs, DataPcs
  <2>4. TaskTyped'
    BY <1>0, <1>2, <2>2, <2>3, GotoTyped DEF PushConfig, TaskTyped
  <2>5. part' \in [Uuid -> PartType]
    BY <1>0, <1>2, <2>1 DEF PushConfig, RestTyped, PartType
  <2>6. QED
    BY <1>0, <1>2, <2>4, <2>5 DEF PushConfig, RestTyped
<1>3. CASE SetHandleConfig(r)
  <2>1. TaskTyped'
    BY <1>0, <1>3, AnswerTyped DEF SetHandleConfig, TaskTyped
  <2>2. req[r].cfg \in 0 .. MaxAlters
    BY <1>0 DEF RequestType
  <2>3. partitions' \in Topic \cup {NoTopic}
    BY <1>0, <1>3, <2>2 DEF SetHandleConfig, RestTyped, Topic
  <2>4. QED
    BY <1>0, <1>3, <2>1, <2>3 DEF SetHandleConfig, RestTyped
<1>4. CASE Disconnect(r)
  <2>1. TaskTyped'
    <3>1. CASE Answer(r)
      BY <1>0, <3>1, AnswerTyped DEF TaskTyped
    <3>2. CASE At(r, "put") /\ Goto(r, [req[r] EXCEPT !.op = "none"])
      <4> DEFINE q == [req[r] EXCEPT !.op = "none"]
      <4>1. q \in RequestType /\ q.pc = "put" /\ q.uuid = req[r].uuid
        <5>1. q \in RequestType
          BY <1>0 DEF RequestType
        <5>2. q.pc = req[r].pc /\ q.uuid = req[r].uuid
          BY <1>0 DEF RequestType
        <5>3. QED
          BY <3>2, <5>1, <5>2 DEF At
      <4>2. req[r].uuid \in Uuid
        BY <1>0, <3>2 DEF At, Prepared, SpawnPcs
      <4>3. Prepared(q)
        BY <4>1, <4>2 DEF Prepared, SpawnPcs, DeletePcs, WaitPcs, DataPcs
      <4>4. QED
        BY <1>0, <3>2, <4>1, <4>3, GotoTyped DEF TaskTyped
    <3>3. QED
      BY <1>4, <3>1, <3>2 DEF Disconnect
  <2>2. held' \subseteq Uuid /\ fileLock' \in BOOLEAN
    BY <1>0, <1>4 DEF Disconnect, RestTyped
  <2>3. strays' \subseteq SUBSET Uuid
    <3>1. req[r].loaded \subseteq Uuid
      BY <1>0 DEF RequestType
    <3>2. At(r, "persist") => req[r].uuid \in Uuid
      BY <1>0 DEF At, Prepared, DeletePcs, DataPcs
    <3>3. \/ strays' = strays
          \/ At(r, "persist") /\ strays' = strays \cup {req[r].loaded \cup {req[r].uuid}}
      BY <1>4 DEF Disconnect, Appended
    <3>4. At(r, "persist") => req[r].loaded \cup {req[r].uuid} \in SUBSET Uuid
      BY <3>1, <3>2
    <3>5. strays \subseteq SUBSET Uuid
      BY <1>0 DEF RestTyped
    <3> HIDE DEF At
    <3>6. QED
      BY <3>3, <3>4, <3>5
  <2>4. QED
    BY <1>0, <1>4, <2>1, <2>2, <2>3 DEF Disconnect, RestTyped
<1>5. QED
  BY <1>1, <1>2, <1>3, <1>4

\* Steps of the tasks of a partition.
LEMMA PartitionTyped ==
  ASSUME RestTyped, NEW u \in Uuid, PartitionStep(u)
  PROVE  RestTyped'
<1> USE DEF diskVars, fileVars, storeVars, memVars, doneVars, histVars
<1>0. part[u] \in PartType
  BY DEF RestTyped
<1>1. CASE Upload(u)
  <2>1. \A l \in BOOLEAN : [part[u] EXCEPT !.active = {}, !.linked = l] \in PartType
    <3>1. /\ [part[u] EXCEPT !.active = {}, !.linked = TRUE] \in PartType
          /\ [part[u] EXCEPT !.active = {}, !.linked = FALSE] \in PartType
      BY <1>0 DEF PartType
    <3>2. QED
      BY <3>1
  <2>2. PICK l \in BOOLEAN : part' = [part EXCEPT ![u].active = {}, ![u].linked = l]
    BY <1>1 DEF Upload
  <2>3. part' \in [Uuid -> PartType]
    BY <2>1, <2>2 DEF RestTyped
  <2>4. QED
    BY <1>1, <2>3 DEF Upload, RestTyped
<1>2. CASE UploadFails(u)
  BY <1>2 DEF UploadFails, RestTyped
<1>3. CASE WriterStops(u)
  <2>1. [part[u] EXCEPT !.writer = "stopped", !.linked = FALSE] \in PartType
    BY <1>0 DEF PartType
  <2>2. part' \in [Uuid -> PartType]
    BY <1>3, <2>1 DEF WriterStops, RestTyped
  <2>3. QED
    BY <1>3, <2>2 DEF WriterStops, RestTyped
<1>4. CASE UploaderStops(u)
  <2>1. [part[u] EXCEPT !.uploader = "stopped", !.active = {}] \in PartType
    BY <1>0 DEF PartType
  <2>2. part' \in [Uuid -> PartType]
    BY <1>4, <2>1 DEF UploaderStops, RestTyped
  <2>3. QED
    BY <1>4, <2>2 DEF UploaderStops, RestTyped
<1>5. QED
  BY <1>1, <1>2, <1>3, <1>4 DEF PartitionStep

\* Steps of a deletion sweep.
LEMMA SweepTyped ==
  ASSUME RestTyped, NEW u \in Uuid, SweepStep(u)
  PROVE  RestTyped'
<1> USE DEF diskVars, fileVars, storeVars, memVars, doneVars, histVars
<1>0. sweep[u] \in SweepType /\ NoSweep \in SweepType
  BY ConstantTypes DEF RestTyped
<1>g. \A pc \in {"list", "remove"} : SweepGoto(u, pc) \/ SweepEnds(u) => sweep' \in [Uuid -> SweepType]
  <2> SUFFICES ASSUME NEW pc \in {"list", "remove"}, SweepGoto(u, pc) \/ SweepEnds(u)
               PROVE  sweep' \in [Uuid -> SweepType]
    OBVIOUS
  <2>1. [sweep[u] EXCEPT !.pc = pc] \in SweepType
    BY <1>0 DEF SweepType
  <2>2. QED
    BY <1>0, <2>1 DEF SweepGoto, SweepEnds, RestTyped
<1>1. CASE SweepSnapshot(u)
  BY <1>g, <1>1 DEF SweepSnapshot, RestTyped
<1>2. CASE SweepList(u)
  BY <1>g, <1>2 DEF SweepList, RestTyped
<1>3. CASE SweepLoad(u)
  <2>1. [pc |-> "persist", loaded |-> pendingFile] \in SweepType
    BY DEF SweepType, RestTyped
  <2>2. sweep' \in [Uuid -> SweepType]
    BY <1>3, <2>1 DEF SweepLoad, RestTyped
  <2>3. QED
    BY <1>3, <2>2 DEF SweepLoad, RestTyped
<1>4. CASE SweepWrite(u)
  <2>1. sweep[u].loaded \subseteq Uuid
    BY <1>0 DEF SweepType
  <2>2. /\ pendingFile' \subseteq Uuid /\ strays' \subseteq SUBSET Uuid /\ lost' \subseteq Uuid
        /\ swept' \subseteq Uuid
    <3>1. sweep[u].loaded \ {u} \in SUBSET Uuid
      BY <2>1
    <3>2. QED
      BY <1>4, <3>1, PublishesTyped DEF SweepWrite, RestTyped
  <2>3. QED
    BY <1>g, <1>4, <2>2 DEF SweepWrite, RestTyped
<1>5. QED
  BY <1>1, <1>2, <1>3, <1>4 DEF SweepStep

\* A crash, a start, a change to another topic, a stray write, or nothing.
LEMMA SystemTyped ==
  ASSUME TypeInv, OtherTopicWrites \/ StrayLands \/ Crash \/ Boot \/ UNCHANGED vars
  PROVE  RestTyped' /\ TaskTyped'
<1> USE DEF diskVars, fileVars, storeVars, memVars, doneVars, histVars
<1>0. RestTyped /\ TaskTyped
  BY TypeParts DEF TypeInv
<1>1. CASE OtherTopicWrites
  BY <1>0, <1>1 DEF OtherTopicWrites, RestTyped, TaskTyped, ReqTyped
<1>s. CASE StrayLands
  BY <1>0, <1>s DEF StrayLands, RestTyped, TaskTyped, ReqTyped
<1>2. CASE Crash
  <2>1. TaskTyped'
    BY <1>2, ConstantTypes DEF Crash, TaskTyped, ReqTyped
  <2>2. part' \in [Uuid -> PartType] /\ sweep' \in [Uuid -> SweepType]
    BY <1>2, ConstantTypes DEF Crash
  <2>3. /\ {topicsFile', topics', partitions'} \subseteq Topic \cup {NoTopic}
        /\ spawnLocks' \in 0 .. MaxUuids /\ held' \subseteq Uuid
        /\ fileLock' \in BOOLEAN /\ broker' \in {"up", "down"}
        /\ strays' \subseteq SUBSET Uuid
    BY <1>0, <1>2, ConstantTypes DEF Crash, RestTyped
  <2>4. QED
    BY <1>0, <1>2, <2>1, <2>2, <2>3 DEF Crash, RestTyped
<1>3. CASE Boot
  <2>1. TaskTyped'
    BY <1>0, <1>3 DEF Boot, TaskTyped, ReqTyped
  <2>2. sweep' \in [Uuid -> SweepType]
    <3>1. [NoSweep EXCEPT !.pc = "snapshot"] \in SweepType
      BY DEF SweepType, NoSweep
    <3>2. QED
      BY <1>3, <3>1, ConstantTypes DEF Boot
  <2>3. walDir' \subseteq Uuid /\ part' \in [Uuid -> PartType]
    <3>1. CASE topicsFile = NoTopic
      BY <1>0, <1>3, <3>1 DEF Boot, RestTyped
    <3>2. CASE topicsFile # NoTopic
      <4>1. topicsFile.uuid \in Uuid /\ topicsFile.cfg \in 0 .. MaxAlters
        BY <1>0, <3>2, ConstantTypes DEF RestTyped
      <4>2. /\ Recovered(topicsFile.uuid, topicsFile.cfg) \in PartType
            /\ Uncovered(topicsFile.uuid) \subseteq Uuid
        BY <1>0, <4>1, RecoveredTyped
      <4>3. QED
        BY <1>0, <1>3, <3>2, <4>1, <4>2 DEF Boot, RestTyped
    <3>3. QED
      BY <3>1, <3>2
  <2>4. boots' \in 0 .. MaxBoots
    <3>1. boots < MaxBoots /\ boots' = boots + 1 /\ boots \in 0 .. MaxBoots
      BY <1>0, <1>3 DEF Boot, TypeInv, DownOK, RestTyped
    <3>2. QED
      BY <3>1, LifecycleAssumption
  <2>5. /\ {topicsFile', topics', partitions'} \subseteq Topic \cup {NoTopic}
        /\ spawnLocks' \in 0 .. MaxUuids /\ broker' \in {"up", "down"}
    BY <1>0, <1>3, ConstantTypes DEF Boot, RestTyped
  <2>6. QED
    BY <1>0, <1>3, <2>1, <2>2, <2>3, <2>4, <2>5 DEF Boot, RestTyped
<1>4. CASE UNCHANGED vars
  BY <1>0, <1>4 DEF vars, RestTyped, TaskTyped, ReqTyped
<1>5. QED
  BY <1>1, <1>s, <1>2, <1>3, <1>4

\* Only a crash and a start change what the broker is.
LEMMA BrokerKept ==
  /\ \A r \in Requests : RequestStep(r) \/ Disconnect(r) => broker' = broker
  /\ \A u \in Uuid : PartitionStep(u) \/ SweepStep(u) => broker' = broker
<1> USE DEF memVars
<1>1. ASSUME NEW r \in Requests, RequestStep(r) \/ Disconnect(r)
      PROVE  broker' = broker
  <2>1. CASE \/ RegistryRejects(r) \/ EnsureFinds(r) \/ RegistryCreate(r)
             \/ PutEmptyManifest(r) \/ CreateFails(r) \/ RegistryDelete(r)
             \/ RegistryAlter(r)
    BY <2>1
       DEF RegistryRejects, EnsureFinds, RegistryCreate, PutEmptyManifest, CreateFails,
           RegistryDelete, RegistryAlter
  <2>2. CASE \/ SpawnEntry(r) \/ SpawnLock(r) \/ SpawnRecover(r) \/ SpawnPanics(r)
             \/ SpawnInsert(r) \/ LookupHandle(r) \/ Commit(r)
    BY <2>2
       DEF SpawnEntry, SpawnLock, SpawnRecover, SpawnPanics, SpawnInsert, LookupHandle, Commit
  <2>3. CASE \/ RemoveHandle(r) \/ ShutWriter(r) \/ WaitWriter(r) \/ WaitUploader(r)
             \/ WipeWal(r)
    BY <2>3 DEF RemoveHandle, DropLock, ShutWriter, WaitWriter, WaitUploader, WipeWal
  <2>4. CASE \/ TakeSnapshot(r) \/ AppendLoad(r) \/ AppendWrite(r) \/ AppendFails(r)
             \/ TakeHandles(r) \/ PushConfig(r) \/ SetHandleConfig(r) \/ Disconnect(r)
    BY <2>4
       DEF TakeSnapshot, AppendLoad, AppendWrite, AppendFails, TakeHandles, PushConfig,
           SetHandleConfig, Disconnect
  <2>5. QED
    BY <1>1, <2>1, <2>2, <2>3, <2>4 DEF RequestStep
<1>2. ASSUME NEW u \in Uuid, PartitionStep(u) \/ SweepStep(u)
      PROVE  broker' = broker
  BY <1>2
     DEF PartitionStep, SweepStep, Upload, UploadFails, WriterStops, UploaderStops,
         SweepSnapshot, SweepList, SweepLoad, SweepWrite
<1>3. QED
  BY <1>1, <1>2

\* A request step needs a request under way, or a broker that is up.
LEMMA DownStep ==
  ASSUME TypeInv, [Next]_vars
  PROVE  DownOK'
<1> USE DEF diskVars, fileVars, storeVars, memVars, doneVars, histVars
<1>1. CASE broker = "up"
  <2>1. CASE Crash
    <3>1. /\ boots' = boots /\ boots < MaxBoots /\ topics' = NoTopic
          /\ held' = {} /\ fileLock' = FALSE
          /\ req' = [r \in Requests |-> Idle] /\ sweep' = [u \in Uuid |-> NoSweep]
      BY <2>1 DEF Crash
    <3>2. QED
      BY <3>1 DEF DownOK
  <2>2. CASE ~ Crash
    <3>1. broker' = "up"
      BY <1>1, <2>2, BrokerKept DEF Next, vars, OtherTopicWrites, StrayLands, Boot
    <3>2. QED
      BY <3>1 DEF DownOK
  <2>3. QED
    BY <2>1, <2>2
<1>2. CASE broker = "down"
  <2>1. /\ boots < MaxBoots /\ topics = NoTopic /\ held = {} /\ fileLock = FALSE
        /\ \A r \in Requests : req[r] = Idle
        /\ \A u \in Uuid : sweep[u] = NoSweep
    BY <1>2 DEF TypeInv, DownOK
  <2>2. \A r \in Requests : ~ RequestStep(r) /\ ~ Disconnect(r)
    <3> SUFFICES ASSUME NEW r \in Requests PROVE ~ RequestStep(r) /\ ~ Disconnect(r)
      OBVIOUS
    <3>1. req[r].pc = "idle" /\ req[r].op = "none" /\ broker # "up"
      BY <1>2, <2>1 DEF Idle
    <3>2. QED
      BY <3>1
         DEF RequestStep, RegistryRejects, EnsureFinds, RegistryCreate, RegistryDelete,
             RegistryAlter, Arrives, At, PutEmptyManifest, CreateFails, SpawnEntry, SpawnLock,
             SpawnRecover, SpawnPanics, SpawnInsert, LookupHandle, Commit, RemoveHandle,
             ShutWriter, WaitWriter, WaitUploader, WipeWal, TakeSnapshot, AppendLoad, AppendWrite,
             AppendFails, TakeHandles, PushConfig, SetHandleConfig, Disconnect
  <2>3. CASE Boot
    BY <2>3 DEF Boot, DownOK
  <2>4. CASE ~ Boot
    <3>0. \A u \in Uuid : ~ SweepStep(u)
      BY <2>1 DEF NoSweep, SweepStep, SweepSnapshot, SweepList, SweepLoad, SweepWrite, SweepAt
    <3>1. UNCHANGED <<boots, topics, held, fileLock, req, sweep>>
      BY <1>2, <2>2, <2>4, <3>0
         DEF Next, vars, PartitionStep, Upload, UploadFails, WriterStops, UploaderStops,
             OtherTopicWrites, StrayLands, Crash
    <3>2. QED
      BY <2>1, <3>1 DEF DownOK
  <2>5. QED
    BY <2>3, <2>4
<1>3. QED
  BY <1>1, <1>2 DEF TypeInv, TypeOK

LEMMA TypeStep ==
  ASSUME TypeInv, [Next]_vars
  PROVE  TypeInv'
<1>0. RestTyped /\ TaskTyped
  BY TypeParts DEF TypeInv
<1>1. RestTyped' /\ TaskTyped'
  <2>1. ASSUME NEW r \in Requests, RequestStep(r) \/ Disconnect(r)
        PROVE  RestTyped' /\ TaskTyped'
    BY <2>1, RegistryTyped, SpawnTyped, DeleteTyped, AlterTyped DEF RequestStep
  <2>2. ASSUME NEW u \in Uuid, PartitionStep(u) \/ SweepStep(u)
        PROVE  RestTyped' /\ TaskTyped'
    <3>1. RestTyped'
      BY <1>0, <2>2, PartitionTyped, SweepTyped
    <3>2. req' = req
      BY <2>2
         DEF PartitionStep, SweepStep, Upload, UploadFails, WriterStops, UploaderStops,
             SweepSnapshot, SweepList, SweepLoad, SweepWrite
    <3>3. QED
      BY <1>0, <3>1, <3>2 DEF TaskTyped, ReqTyped
  <2>3. QED
    BY <2>1, <2>2, SystemTyped DEF Next
<1>2. TypeOK' /\ ReqTyped'
  <2>1. (RestTyped /\ TaskTyped)' => (TypeOK /\ ReqTyped)'
    BY DEF TypeOK, RestTyped, TaskTyped, RequestType, PartType, SweepType
  <2>2. QED
    BY <1>1, <2>1
<1>3. QED
  BY <1>2, DownStep DEF TypeInv

LEMMA TypeHolds == Spec => []TypeInv
  BY TypeInit, TypeStep, PTL DEF Spec

\* Every variable keeps its type, with any number of requests, incarnations and
\* restarts: no step of a request, a sweep or a partition uses a handle, a lock or
\* an incarnation that was never assigned, and the restart counter keeps its bound.
THEOREM LifecycleTypes == Spec => []TypeOK
  BY TypeHolds, PTL DEF TypeInv

-----------------------------------------------------------------------------
(* How a request moves *)

\* It goes from one step to the next with what it knows so far; it ends; a
\* Produce goes on to its lookup, or a CreateTopic ends.
Others(r) == \A p \in Requests : p # r => req'[p] = req[p]

Kept(r) ==
  /\ req'[r].uuid = req[r].uuid /\ req'[r].handle = req[r].handle
  /\ req'[r].acks = req[r].acks

Ended(r) ==
  /\ Others(r)
  /\ req'[r].pc = "idle" /\ req'[r].uuid = 0 /\ req'[r].handle = 0

Moved(r, from, to) ==
  /\ Others(r)
  /\ req[r].pc = from /\ req'[r].pc = to
  /\ Kept(r)

SpawnEnded(r) ==
  /\ Others(r)
  /\ req'[r].pc \in {"idle", "lookup"}
  /\ req'[r].uuid = 0 /\ req'[r].handle = 0

\* DropLock: the deletion goes on to the data, or ends.
Dropped(r) ==
  \/ Ended(r) /\ deleted' = deleted \cup {req[r].uuid}
  \/ /\ Others(r)
     /\ req'[r].pc = "wipe" /\ req'[r].uuid = req[r].uuid /\ req'[r].handle = 0
     /\ UNCHANGED deleted

LEMMA EndedMoves ==
  ASSUME req \in [Requests -> RequestType], NEW r \in Requests, Answer(r)
  PROVE  Ended(r)
<1>1. req' = [req EXCEPT ![r] = Idle]
  BY DEF Answer, Goto
<1>2. req'[r] = Idle /\ \A p \in Requests : p # r => req'[p] = req[p]
  BY <1>1
<1>3. QED
  BY <1>2 DEF Ended, Others, Idle, NoUuid

LEMMA SpawnedMoves ==
  ASSUME req \in [Requests -> RequestType], NEW r \in Requests, Spawned(r)
  PROVE  SpawnEnded(r)
<1>1. CASE Answer(r)
  BY <1>1, EndedMoves DEF Ended, SpawnEnded
<1>2. CASE Goto(r, [Idle EXCEPT !.op = "produce", !.pc = "lookup"])
  BY <1>2 DEF Goto, SpawnEnded, Others, Idle, NoUuid
<1>3. QED
  BY <1>1, <1>2 DEF Spawned

LEMMA PcMoves ==
  ASSUME req \in [Requests -> RequestType], NEW r \in Requests, NEW to,
         NEW l, NEW k,
         \/ Goto(r, [req[r] EXCEPT !.pc = to])
         \/ Goto(r, [req[r] EXCEPT !.pc = to, !.lock = k])
         \/ Goto(r, [req[r] EXCEPT !.pc = to, !.loaded = l])
  PROVE  Moved(r, req[r].pc, to)
<1>1. req[r] \in RequestType
  OBVIOUS
<1>2. PICK q : /\ Goto(r, q)
               /\ \/ q = [req[r] EXCEPT !.pc = to]
                  \/ q = [req[r] EXCEPT !.pc = to, !.lock = k]
                  \/ q = [req[r] EXCEPT !.pc = to, !.loaded = l]
  OBVIOUS
<1>3. /\ q.pc = to /\ q.uuid = req[r].uuid /\ q.handle = req[r].handle
      /\ q.acks = req[r].acks
  BY <1>1, <1>2 DEF RequestType
<1>4. req'[r] = q /\ Others(r)
  BY <1>2 DEF Goto, Others
<1>5. QED
  BY <1>3, <1>4 DEF Moved, Kept

LEMMA RegistryMoves ==
  ASSUME req \in [Requests -> RequestType], NEW r \in Requests
  PROVE  /\ EnsureFinds(r) => SpawnEnded(r) /\ req[r].pc = "idle"
         /\ RegistryCreate(r) =>
              /\ Others(r) /\ req[r].pc = "idle" /\ req'[r].pc = "put"
              /\ req'[r].uuid = nextUuid /\ req'[r].handle = 0
         /\ PutEmptyManifest(r) => Ended(r) \/ Moved(r, "put", "spawn")
         /\ CreateFails(r) => Ended(r)
         /\ RegistryDelete(r) =>
              /\ Others(r) /\ req[r].pc = "idle" /\ req'[r].pc = "remove"
              /\ req'[r].uuid = topics.uuid /\ req'[r].handle = 0
         /\ RegistryAlter(r) =>
              /\ Others(r) /\ req[r].pc = "idle" /\ req'[r].pc = "handles"
              /\ req'[r].uuid = 0 /\ req'[r].handle = 0
<1>1. EnsureFinds(r) => SpawnEnded(r) /\ req[r].pc = "idle"
  BY DEF EnsureFinds, Arrives, At, Goto, SpawnEnded, Others, Idle, NoUuid
<1>2. ASSUME RegistryCreate(r)
      PROVE  /\ Others(r) /\ req[r].pc = "idle" /\ req'[r].pc = "put"
             /\ req'[r].uuid = nextUuid /\ req'[r].handle = 0
  <2>1. req[r].pc = "idle"
    BY <1>2 DEF RegistryCreate, Arrives, At
  <2>2. PICK op : Goto(r, [Idle EXCEPT !.op = op, !.pc = "put", !.uuid = nextUuid])
    BY <1>2 DEF RegistryCreate
  <2>3. QED
    BY <2>1, <2>2 DEF Goto, Others, Idle, NoUuid
<1>3. ASSUME PutEmptyManifest(r) PROVE Ended(r) \/ Moved(r, "put", "spawn")
  <2>1. req[r].pc = "put" /\ (Answer(r) \/ Goto(r, [req[r] EXCEPT !.pc = "spawn"]))
    BY <1>3 DEF PutEmptyManifest, At
  <2>2. QED
    BY <2>1, EndedMoves, PcMoves
<1>4. CreateFails(r) => Ended(r)
  BY EndedMoves DEF CreateFails
<1>5. ASSUME RegistryDelete(r)
      PROVE  /\ Others(r) /\ req[r].pc = "idle" /\ req'[r].pc = "remove"
             /\ req'[r].uuid = topics.uuid /\ req'[r].handle = 0
  <2>1. req[r].pc = "idle"
    BY <1>5 DEF RegistryDelete, Arrives, At
  <2>2. PICK data : Goto(r, [Idle EXCEPT !.op = "delete", !.pc = "remove",
                                         !.uuid = topics.uuid, !.data = data])
    BY <1>5 DEF RegistryDelete
  <2>3. QED
    BY <2>1, <2>2 DEF Goto, Others, Idle, NoUuid
<1>6. RegistryAlter(r) =>
        /\ Others(r) /\ req[r].pc = "idle" /\ req'[r].pc = "handles"
        /\ req'[r].uuid = 0 /\ req'[r].handle = 0
  BY DEF RegistryAlter, Arrives, At, Goto, Others, Idle, NoUuid
<1>7. QED
  BY <1>1, <1>2, <1>3, <1>4, <1>5, <1>6

LEMMA SpawnMoves ==
  ASSUME req \in [Requests -> RequestType], NEW r \in Requests
  PROVE  /\ SpawnEntry(r) => Moved(r, "spawn", "lock")
         /\ SpawnLock(r) => \/ Moved(r, "lock", "recover")
                            \/ SpawnEnded(r)
         /\ SpawnRecover(r) => Moved(r, "recover", "insert")
         /\ SpawnPanics(r) => Ended(r)
         /\ SpawnInsert(r) => req[r].pc = "insert" /\ SpawnEnded(r)
         /\ LookupHandle(r) =>
              \/ Ended(r)
              \/ /\ Others(r) /\ req[r].pc = "lookup" /\ req'[r].pc = "commit"
                 /\ req'[r].uuid = req[r].uuid /\ req'[r].handle = partitions.uuid
         /\ Commit(r) => Ended(r)
<1>1. SpawnEntry(r) => Moved(r, "spawn", "lock")
  <2> SUFFICES ASSUME SpawnEntry(r) PROVE Moved(r, "spawn", "lock")
    OBVIOUS
  <2>1. PICK lock : req[r].pc = "spawn" /\ Goto(r, [req[r] EXCEPT !.pc = "lock", !.lock = lock])
    BY DEF SpawnEntry, At
  <2>2. QED
    BY <2>1, PcMoves
<1>2. SpawnLock(r) => Moved(r, "lock", "recover") \/ SpawnEnded(r)
  <2> SUFFICES ASSUME SpawnLock(r) PROVE Moved(r, "lock", "recover") \/ SpawnEnded(r)
    OBVIOUS
  <2>1. req[r].pc = "lock" /\ (Spawned(r) \/ Goto(r, [req[r] EXCEPT !.pc = "recover"]))
    BY DEF SpawnLock, At
  <2>2. QED
    BY <2>1, PcMoves, SpawnedMoves
<1>3. SpawnRecover(r) => Moved(r, "recover", "insert")
  BY PcMoves DEF SpawnRecover, At
<1>4. SpawnPanics(r) => Ended(r)
  BY EndedMoves DEF SpawnPanics
<1>5. SpawnInsert(r) => req[r].pc = "insert" /\ SpawnEnded(r)
  BY SpawnedMoves DEF SpawnInsert, At
<1>6. ASSUME LookupHandle(r)
      PROVE  \/ Ended(r)
             \/ /\ Others(r) /\ req[r].pc = "lookup" /\ req'[r].pc = "commit"
                /\ req'[r].uuid = req[r].uuid /\ req'[r].handle = partitions.uuid
  <2>1. CASE Answer(r)
    BY <2>1, EndedMoves
  <2>2. CASE ~ Answer(r)
    <3>1. /\ req[r].pc = "lookup"
          /\ req' = [req EXCEPT ![r] = [req[r] EXCEPT !.pc = "commit", !.handle = partitions.uuid]]
      BY <1>6, <2>2 DEF LookupHandle, At, Goto
    <3>2. req[r] \in RequestType
      OBVIOUS
    <3>3. QED
      BY <3>1, <3>2 DEF Others, RequestType
  <2>3. QED
    BY <2>1, <2>2
<1>7. Commit(r) => Ended(r)
  BY EndedMoves DEF Commit
<1>8. QED
  BY <1>1, <1>2, <1>3, <1>4, <1>5, <1>6, <1>7

LEMMA DropLockMoves ==
  ASSUME req \in [Requests -> RequestType], NEW r \in Requests, NEW a \in BOOLEAN,
         DropLock(r, a)
  PROVE  /\ Dropped(r)
         /\ req'[r].pc = "wipe" /\ req'[r].acks => a /\ req[r].handle = req[r].uuid
<1>1. CASE Answer(r) /\ deleted' = deleted \cup {req[r].uuid}
  BY <1>1, EndedMoves DEF Dropped, Ended
<1>2. CASE ~ (Answer(r) /\ deleted' = deleted \cup {req[r].uuid})
  <2> DEFINE b == a /\ req[r].handle = req[r].uuid
             q == [req[r] EXCEPT !.pc = "wipe", !.handle = NoUuid, !.acks = b]
  <2>1. Goto(r, q) /\ UNCHANGED deleted
    BY <1>2 DEF DropLock
  <2>2. req[r] \in RequestType
    OBVIOUS
  <2>3. b \in BOOLEAN
    OBVIOUS
  <2>4. b => a /\ req[r].handle = req[r].uuid
    OBVIOUS
  <2> HIDE DEF b
  <2>5. q.pc = "wipe" /\ q.uuid = req[r].uuid /\ q.handle = 0 /\ q.acks = b
    BY <2>2 DEF RequestType, NoUuid
  <2>6. req'[r] = q /\ Others(r)
    BY <2>1 DEF Goto, Others
  <2>7. Dropped(r)
    BY <2>1, <2>5, <2>6 DEF Dropped
  <2>8. QED
    BY <2>4, <2>5, <2>6, <2>7
<1>3. QED
  BY <1>1, <1>2

LEMMA DeleteMoves ==
  ASSUME req \in [Requests -> RequestType], NEW r \in Requests
  PROVE  /\ RemoveHandle(r) =>
              /\ req[r].pc = "remove"
              /\ \/ /\ partitions = NoTopic /\ Dropped(r)
                    /\ req'[r].pc = "wipe" => ~ req'[r].acks
                 \/ /\ partitions # NoTopic
                    /\ Others(r) /\ req'[r].pc = "shutwriter"
                    /\ req'[r].uuid = req[r].uuid /\ req'[r].handle = partitions.uuid
         /\ ShutWriter(r) => Moved(r, "shutwriter", "waitwriter")
         /\ WaitWriter(r) =>
              /\ Others(r) /\ req[r].pc = "waitwriter" /\ req'[r].pc = "waituploader"
              /\ req'[r].uuid = req[r].uuid /\ req'[r].handle = req[r].handle
         /\ WaitUploader(r) =>
              /\ req[r].pc = "waituploader" /\ Dropped(r)
              /\ req'[r].pc = "wipe" /\ req'[r].acks =>
                   /\ part[req[r].handle].uploader = "stopped"
                   /\ req[r].handle = req[r].uuid
         /\ WipeWal(r) => Moved(r, "wipe", "snapshot")
         /\ TakeSnapshot(r) => Moved(r, "snapshot", "append")
         /\ AppendLoad(r) => Moved(r, "append", "persist") /\ req'[r].loaded = pendingFile
         /\ AppendWrite(r) => req[r].pc = "persist" /\ Ended(r)
         /\ AppendFails(r) => req[r].pc = "persist" /\ Ended(r)
<1>0. req[r] \in RequestType
  OBVIOUS
<1>1. ASSUME RemoveHandle(r)
      PROVE  /\ req[r].pc = "remove"
             /\ \/ /\ partitions = NoTopic /\ Dropped(r)
                   /\ req'[r].pc = "wipe" => ~ req'[r].acks
                \/ /\ partitions # NoTopic
                   /\ Others(r) /\ req'[r].pc = "shutwriter"
                   /\ req'[r].uuid = req[r].uuid /\ req'[r].handle = partitions.uuid
  <2>1. req[r].pc = "remove"
    BY <1>1 DEF RemoveHandle, At
  <2>2. CASE partitions = NoTopic
    <3>1. DropLock(r, FALSE)
      BY <1>1, <2>2 DEF RemoveHandle
    <3>2. FALSE \in BOOLEAN
      OBVIOUS
    <3>3. QED
      BY <2>1, <2>2, <3>1, <3>2, DropLockMoves
  <2>3. CASE partitions # NoTopic
    <3>1. req' = [req EXCEPT ![r] = [req[r] EXCEPT !.pc = "shutwriter", !.handle = partitions.uuid]]
      BY <1>1, <2>3 DEF RemoveHandle, Goto
    <3>2. QED
      BY <1>0, <2>1, <2>3, <3>1 DEF Others, RequestType
  <2>4. QED
    BY <2>2, <2>3
<1>2. ASSUME WaitWriter(r)
      PROVE  /\ Others(r) /\ req[r].pc = "waitwriter" /\ req'[r].pc = "waituploader"
             /\ req'[r].uuid = req[r].uuid /\ req'[r].handle = req[r].handle
  <2>1. req[r].pc = "waitwriter"
    BY <1>2 DEF WaitWriter, At
  <2>2. PICK ack : req' = [req EXCEPT ![r] = [req[r] EXCEPT !.pc = "waituploader", !.acks = ack]]
    BY <1>2 DEF WaitWriter, Goto
  <2>3. QED
    BY <1>0, <2>1, <2>2 DEF Others, RequestType
<1>3. ASSUME WaitUploader(r)
      PROVE  /\ req[r].pc = "waituploader" /\ Dropped(r)
             /\ req'[r].pc = "wipe" /\ req'[r].acks =>
                  /\ part[req[r].handle].uploader = "stopped"
                  /\ req[r].handle = req[r].uuid
  <2>1. req[r].pc = "waituploader"
    BY <1>3 DEF WaitUploader, At
  <2>2. PICK ack \in {part[req[r].handle].uploader = "stopped", FALSE} :
          DropLock(r, req[r].acks /\ ack)
    BY <1>3 DEF WaitUploader
  <2>3. (req[r].acks /\ ack) \in BOOLEAN
    OBVIOUS
  <2>4. /\ Dropped(r)
        /\ req'[r].pc = "wipe" /\ req'[r].acks =>
             (req[r].acks /\ ack) /\ req[r].handle = req[r].uuid
    BY <2>2, <2>3, DropLockMoves
  <2>5. ack => part[req[r].handle].uploader = "stopped"
    BY <2>2
  <2>6. QED
    BY <2>1, <2>4, <2>5
<1>s. ShutWriter(r) => Moved(r, "shutwriter", "waitwriter")
  BY PcMoves DEF ShutWriter, At
<1>4. WipeWal(r) => Moved(r, "wipe", "snapshot")
  BY PcMoves DEF WipeWal, At
<1>5. TakeSnapshot(r) => Moved(r, "snapshot", "append")
  BY PcMoves DEF TakeSnapshot, At
<1>6. ASSUME AppendLoad(r)
      PROVE  Moved(r, "append", "persist") /\ req'[r].loaded = pendingFile
  <2>1. /\ req[r].pc = "append"
        /\ Goto(r, [req[r] EXCEPT !.pc = "persist", !.loaded = pendingFile])
    BY <1>6 DEF AppendLoad, At
  <2>2. Moved(r, "append", "persist")
    BY <2>1, PcMoves
  <2>3. QED
    BY <1>0, <2>1, <2>2 DEF Goto, RequestType
<1>7. AppendWrite(r) => req[r].pc = "persist" /\ Ended(r)
  BY EndedMoves DEF AppendWrite, At
<1>8. AppendFails(r) => req[r].pc = "persist" /\ Ended(r)
  BY EndedMoves DEF AppendFails, At
<1>9. QED
  BY <1>1, <1>s, <1>2, <1>3, <1>4, <1>5, <1>6, <1>7, <1>8

LEMMA AlterMoves ==
  ASSUME req \in [Requests -> RequestType], NEW r \in Requests
  PROVE  /\ TakeHandles(r) =>
              /\ Others(r) /\ req[r].pc = "handles" /\ req'[r].pc \in {"setcfg", "push"}
              /\ req'[r].uuid = req[r].uuid /\ req'[r].handle = partitions.uuid
         /\ PushConfig(r) => Moved(r, "push", "setcfg")
         /\ SetHandleConfig(r) => Ended(r)
         /\ Disconnect(r) => Ended(r) \/ Moved(r, "put", "put")
<1>0. req[r] \in RequestType
  OBVIOUS
<1>1. ASSUME TakeHandles(r)
      PROVE  /\ Others(r) /\ req[r].pc = "handles" /\ req'[r].pc \in {"setcfg", "push"}
             /\ req'[r].uuid = req[r].uuid /\ req'[r].handle = partitions.uuid
  <2>1. PICK pc \in {"setcfg", "push"} :
          req' = [req EXCEPT ![r] = [req[r] EXCEPT !.handle = partitions.uuid, !.pc = pc]]
    BY <1>1 DEF TakeHandles, Goto
  <2>2. req[r].pc = "handles"
    BY <1>1 DEF TakeHandles, At
  <2>3. QED
    BY <1>0, <2>1, <2>2 DEF Others, RequestType
<1>2. PushConfig(r) => Moved(r, "push", "setcfg")
  BY PcMoves DEF PushConfig, At
<1>3. SetHandleConfig(r) => Ended(r)
  BY EndedMoves DEF SetHandleConfig
<1>4. ASSUME Disconnect(r) PROVE Ended(r) \/ Moved(r, "put", "put")
  <2>1. CASE Answer(r)
    BY <2>1, EndedMoves
  <2>2. CASE ~ Answer(r)
    <3>1. req[r].pc = "put" /\ req' = [req EXCEPT ![r] = [req[r] EXCEPT !.op = "none"]]
      BY <1>4, <2>2 DEF Disconnect, At, Goto
    <3>2. QED
      BY <1>0, <3>1 DEF Moved, Kept, Others, RequestType
  <2>3. QED
    BY <2>1, <2>2
<1>5. QED
  BY <1>1, <1>2, <1>3, <1>4

-----------------------------------------------------------------------------
(* The registry *)

\* While an empty manifest is being PUT, the file has the new entry and the
\* memory none; the actor does one PUT at a time.
PutOK ==
  /\ \A r \in Requests : At(r, "put") =>
       topics = NoTopic /\ topicsFile = [uuid |-> req[r].uuid, cfg |-> 0]
  /\ \A r, q \in Requests : At(r, "put") /\ At(q, "put") => r = q

RegistryInv == PutOK /\ RegistryPersisted

\* Steps that leave the registry's entry alone and begin no PUT.
LEMMA RegistryFrame ==
  ASSUME RegistryInv, UNCHANGED <<topics, topicsFile>>,
         \A p \in Requests : req'[p].pc = "put" => /\ req[p].pc = "put"
                                                   /\ req'[p].uuid = req[p].uuid
  PROVE  RegistryInv'
  BY DEF RegistryInv, PutOK, RegistryPersisted, At

\* Steps that end with no PUT under way.
LEMMA RegistryQuiet ==
  ASSUME topics' # NoTopic => topicsFile' = topics',
         \A p \in Requests : req'[p].pc # "put"
  PROVE  RegistryInv'
  BY DEF RegistryInv, PutOK, RegistryPersisted, At

LEMMA RegistryRequestStep ==
  ASSUME TypeInv, RegistryInv, NEW r \in Requests, RequestStep(r) \/ Disconnect(r)
  PROVE  RegistryInv'
<1> USE DEF diskVars, fileVars, memVars, Others, Ended, Moved, Kept, SpawnEnded
<1>0. req \in [Requests -> RequestType]
  BY TypeFacts DEF TypeInv
<1>1. CASE RegistryRejects(r)
  BY <1>1, RegistryFrame DEF RegistryRejects
<1>2. CASE EnsureFinds(r)
  BY <1>0, <1>2, RegistryMoves, RegistryFrame DEF EnsureFinds
<1>3. CASE RegistryCreate(r)
  <2>1. /\ \A p \in Requests : req[p].pc # "put"
        /\ topics = NoTopic /\ topics' = topics
        /\ topicsFile' = [uuid |-> nextUuid, cfg |-> 0]
    BY <1>3 DEF RegistryCreate, RegistryFree, At
  <2>2. Others(r) /\ req'[r].pc = "put" /\ req'[r].uuid = nextUuid
    BY <1>0, <1>3, RegistryMoves
  <2>3. QED
    BY <2>1, <2>2 DEF RegistryInv, PutOK, RegistryPersisted, At
<1>4. CASE PutEmptyManifest(r)
  <2>1. /\ topics' = [uuid |-> req[r].uuid, cfg |-> 0] /\ topicsFile' = topicsFile
        /\ req[r].pc = "put"
    BY <1>4 DEF PutEmptyManifest, At
  <2>2. /\ topicsFile = [uuid |-> req[r].uuid, cfg |-> 0]
        /\ \A p \in Requests : req[p].pc = "put" => p = r
    BY <2>1 DEF RegistryInv, PutOK, At
  <2>3. Others(r) /\ req'[r].pc # "put"
    BY <1>0, <1>4, RegistryMoves
  <2>4. \A p \in Requests : req'[p].pc # "put"
    BY <2>2, <2>3
  <2>5. QED
    BY <2>1, <2>2, <2>4, RegistryQuiet
<1>5. CASE CreateFails(r)
  BY <1>0, <1>5, RegistryMoves, RegistryFrame DEF CreateFails
<1>6. CASE RegistryDelete(r)
  <2>1. topics' = NoTopic /\ \A p \in Requests : req[p].pc # "put"
    BY <1>6 DEF RegistryDelete, RegistryFree, At
  <2>2. QED
    BY <1>0, <1>6, <2>1, RegistryMoves, RegistryQuiet
<1>7. CASE RegistryAlter(r)
  <2>1. topicsFile' = topics' /\ \A p \in Requests : req[p].pc # "put"
    BY <1>7 DEF RegistryAlter, RegistryFree, At
  <2>2. QED
    BY <1>0, <1>7, <2>1, RegistryMoves, RegistryQuiet
<1>8. CASE \/ SpawnEntry(r) \/ SpawnLock(r) \/ SpawnRecover(r) \/ SpawnPanics(r)
           \/ SpawnInsert(r) \/ LookupHandle(r) \/ Commit(r)
  <2>1. UNCHANGED <<topics, topicsFile>>
    BY <1>8 DEF SpawnEntry, SpawnLock, SpawnRecover, SpawnPanics, SpawnInsert,
                LookupHandle, Commit
  <2>2. Others(r) /\ req'[r].pc # "put"
    BY <1>0, <1>8, SpawnMoves
  <2>3. QED
    BY <2>1, <2>2, RegistryFrame
<1>9. CASE \/ RemoveHandle(r) \/ ShutWriter(r) \/ WaitWriter(r) \/ WaitUploader(r)
           \/ WipeWal(r) \/ TakeSnapshot(r) \/ AppendLoad(r) \/ AppendWrite(r)
           \/ AppendFails(r)
  <2>1. UNCHANGED <<topics, topicsFile>>
    BY <1>9 DEF RemoveHandle, DropLock, ShutWriter, WaitWriter, WaitUploader, WipeWal,
                TakeSnapshot, AppendLoad, AppendWrite, AppendFails
  <2>2. Others(r) /\ req'[r].pc # "put"
    BY <1>0, <1>9, DeleteMoves DEF Dropped
  <2>3. QED
    BY <2>1, <2>2, RegistryFrame
<1>10. CASE TakeHandles(r) \/ PushConfig(r) \/ SetHandleConfig(r) \/ Disconnect(r)
  <2>1. UNCHANGED <<topics, topicsFile>>
    BY <1>10 DEF TakeHandles, PushConfig, SetHandleConfig, Disconnect
  <2>2. Others(r) /\ (req'[r].pc # "put" \/ Moved(r, "put", "put"))
    BY <1>0, <1>10, AlterMoves
  <2>3. QED
    BY <2>1, <2>2, RegistryFrame
<1>11. QED
  BY <1>1, <1>2, <1>3, <1>4, <1>5, <1>6, <1>7, <1>8, <1>9, <1>10 DEF RequestStep

LEMMA RegistryStep ==
  ASSUME TypeInv, RegistryInv, [Next]_vars
  PROVE  RegistryInv'
<1> USE DEF diskVars, fileVars, memVars
<1>1. ASSUME NEW r \in Requests, RequestStep(r) \/ Disconnect(r) PROVE RegistryInv'
  BY <1>1, RegistryRequestStep
<1>2. ASSUME NEW u \in Uuid, PartitionStep(u) \/ SweepStep(u) PROVE RegistryInv'
  <2>1. UNCHANGED <<topics, topicsFile, req>>
    BY <1>2
       DEF PartitionStep, SweepStep, Upload, UploadFails, WriterStops, UploaderStops,
           SweepSnapshot, SweepList, SweepLoad, SweepWrite
  <2>2. QED
    BY <2>1, RegistryFrame
<1>3. CASE OtherTopicWrites \/ StrayLands
  BY <1>3, RegistryQuiet, RegistryFrame DEF OtherTopicWrites, StrayLands, RegistryFree, At
<1>4. CASE Crash
  <2>1. topics' = NoTopic /\ req' = [r \in Requests |-> Idle]
    BY <1>4 DEF Crash
  <2>2. \A p \in Requests : req'[p].pc # "put"
    BY <2>1 DEF Idle
  <2>3. QED
    BY <2>1, <2>2, RegistryQuiet
<1>5. CASE Boot
  <2>1. topics' = topicsFile' /\ req' = req /\ broker = "down"
    BY <1>5 DEF Boot
  <2>2. \A p \in Requests : req'[p].pc # "put"
    BY <2>1 DEF TypeInv, DownOK, Idle
  <2>3. QED
    BY <2>1, <2>2, RegistryQuiet
<1>6. CASE UNCHANGED vars
  BY <1>6, RegistryFrame DEF vars
<1>7. QED
  BY <1>1, <1>2, <1>3, <1>4, <1>5, <1>6 DEF Next

LEMMA RegistryInit == Init => RegistryInv
  BY DEF Init, RegistryInv, PutOK, RegistryPersisted, At, Idle

LEMMA RegistryHolds == Spec => []RegistryInv
<1>1. TypeInv /\ RegistryInv /\ [Next]_vars => RegistryInv'
  BY RegistryStep
<1>2. QED
  BY <1>1, RegistryInit, TypeHolds, PTL DEF Spec

\* What the registry tells its clients survives a restart: however requests,
\* failed writes, half created topics and rewrites for other topics interleave,
\* the entry in memory is the one in topics.json (topic_registry.rs).
THEOREM RegistryDurable == Spec => []RegistryPersisted
  BY RegistryHolds, PTL DEF RegistryInv


-----------------------------------------------------------------------------
(* pending_deletes.json *)

\* FILE_LOCK has one holder, and what the holder has read is what the file has.
FileLockOK ==
  /\ \A r \in Requests : At(r, "persist") =>
       /\ fileLock /\ req[r].loaded = pendingFile
       /\ \A u \in Uuid : ~ SweepAt(u, "persist")
  /\ \A r, q \in Requests : At(r, "persist") /\ At(q, "persist") => r = q
  /\ \A u \in Uuid : SweepAt(u, "persist") =>
       fileLock /\ sweep[u].loaded = pendingFile
  /\ \A u, v \in Uuid : SweepAt(u, "persist") /\ SweepAt(v, "persist") => u = v

PendingInv == FileLockOK /\ DeletionNotForgotten

\* Steps outside the lock.
LEMMA PendingFrame ==
  ASSUME PendingInv, UNCHANGED <<pendingFile, lost, fileLock, promised, swept>>,
         \A p \in Requests : req'[p].pc = "persist" => req'[p] = req[p],
         \A u \in Uuid : sweep'[u].pc = "persist" => sweep'[u] = sweep[u]
  PROVE  PendingInv'
  BY DEF PendingInv, FileLockOK, DeletionNotForgotten, At, SweepAt

\* Steps that end with nobody reading or writing the file.
LEMMA PendingQuiet ==
  ASSUME promised' \subseteq pendingFile' \cup swept' \cup lost',
         \A p \in Requests : req'[p].pc # "persist",
         \A u \in Uuid : sweep'[u].pc # "persist"
  PROVE  PendingInv'
  BY DEF PendingInv, FileLockOK, DeletionNotForgotten, At, SweepAt

\* A request that is at the file is alone there.
LEMMA Alone ==
  ASSUME PendingInv, NEW r \in Requests, req[r].pc = "persist"
  PROVE  /\ fileLock /\ req[r].loaded = pendingFile
         /\ \A p \in Requests : p # r => req[p].pc # "persist"
         /\ \A u \in Uuid : sweep[u].pc # "persist"
  BY DEF PendingInv, FileLockOK, At, SweepAt

\* Of what was written and of what was lost, nothing goes missing.
LEMMA PublishesKeeps ==
  ASSUME NEW c, Publishes(c)
  PROVE  c \subseteq pendingFile' \cup lost' /\ lost \subseteq lost'
  BY DEF Publishes

LEMMA PendingRequestStep ==
  ASSUME TypeInv, PendingInv, NEW r \in Requests, RequestStep(r) \/ Disconnect(r)
  PROVE  PendingInv'
<1> USE DEF diskVars, fileVars, memVars, doneVars, histVars, Others, Ended, Moved, Kept, SpawnEnded
<1>0. req \in [Requests -> RequestType] /\ sweep \in [Uuid -> SweepType]
  BY TypeFacts DEF TypeInv
<1>1. CASE RegistryRejects(r)
  BY <1>1, PendingFrame DEF RegistryRejects
<1>2. CASE \/ EnsureFinds(r) \/ RegistryCreate(r) \/ PutEmptyManifest(r)
           \/ CreateFails(r) \/ RegistryDelete(r) \/ RegistryAlter(r)
  <2>1. UNCHANGED <<pendingFile, lost, fileLock, promised, swept, sweep>>
    BY <1>2 DEF EnsureFinds, RegistryCreate, PutEmptyManifest, CreateFails,
                RegistryDelete, RegistryAlter
  <2>2. Others(r) /\ req'[r].pc # "persist"
    BY <1>0, <1>2, RegistryMoves
  <2>3. QED
    BY <2>1, <2>2, PendingFrame
<1>3. CASE \/ SpawnEntry(r) \/ SpawnLock(r) \/ SpawnRecover(r) \/ SpawnPanics(r)
           \/ SpawnInsert(r) \/ LookupHandle(r) \/ Commit(r)
  <2>1. UNCHANGED <<pendingFile, lost, fileLock, promised, swept, sweep>>
    BY <1>3 DEF SpawnEntry, SpawnLock, SpawnRecover, SpawnPanics, SpawnInsert,
                LookupHandle, Commit
  <2>2. Others(r) /\ req'[r].pc # "persist"
    BY <1>0, <1>3, SpawnMoves
  <2>3. QED
    BY <2>1, <2>2, PendingFrame
<1>4. CASE \/ RemoveHandle(r) \/ ShutWriter(r) \/ WaitWriter(r) \/ WaitUploader(r) \/ WipeWal(r)
           \/ TakeSnapshot(r)
  <2>1. UNCHANGED <<pendingFile, lost, fileLock, promised, swept, sweep>>
    BY <1>4 DEF RemoveHandle, DropLock, ShutWriter, WaitWriter, WaitUploader, WipeWal, TakeSnapshot
  <2>2. Others(r) /\ req'[r].pc # "persist"
    BY <1>0, <1>4, DeleteMoves DEF Dropped
  <2>3. QED
    BY <2>1, <2>2, PendingFrame
<1>5. CASE AppendLoad(r)
  <2>1. /\ ~ fileLock /\ fileLock'
        /\ UNCHANGED <<pendingFile, lost, promised, swept, sweep>>
    BY <1>5 DEF AppendLoad
  <2>2. Others(r) /\ req'[r].pc = "persist" /\ req'[r].loaded = pendingFile
    BY <1>0, <1>5, DeleteMoves
  <2>3. /\ \A p \in Requests : req[p].pc # "persist"
        /\ \A u \in Uuid : sweep[u].pc # "persist"
    BY <2>1 DEF PendingInv, FileLockOK, At, SweepAt
  <2>4. FileLockOK'
    BY <2>1, <2>2, <2>3 DEF FileLockOK, At, SweepAt
  <2>5. QED
    BY <2>1, <2>4 DEF PendingInv, DeletionNotForgotten
<1>6. CASE AppendWrite(r)
  <2>1. /\ req[r].pc = "persist" /\ swept' = swept
        /\ Publishes(req[r].loaded \cup {req[r].uuid})
        /\ promised' = promised \cup {req[r].uuid}
        /\ sweep' = [sweep EXCEPT ![req[r].uuid] = [NoSweep EXCEPT !.pc = "snapshot"]]
    BY <1>6 DEF AppendWrite, Appended, At
  <2>2. Ended(r)
    BY <1>0, <1>6, DeleteMoves
  <2>3. \A p \in Requests : req'[p].pc # "persist"
    BY <2>1, <2>2, Alone
  <2>4. \A u \in Uuid : sweep'[u].pc # "persist"
    BY <1>0, <2>1, Alone DEF NoSweep
  <2>5. promised' \subseteq pendingFile' \cup swept' \cup lost'
    BY <2>1, Alone, PublishesKeeps DEF PendingInv, DeletionNotForgotten
  <2>6. QED
    BY <2>3, <2>4, <2>5, PendingQuiet
<1>7. CASE AppendFails(r)
  <2>1. UNCHANGED <<pendingFile, lost, promised, swept, sweep>> /\ req[r].pc = "persist"
    BY <1>7 DEF AppendFails, At
  <2>2. Ended(r)
    BY <1>0, <1>7, DeleteMoves
  <2>3. QED
    BY <2>1, <2>2, Alone, PendingQuiet DEF PendingInv, DeletionNotForgotten
<1>8. CASE TakeHandles(r) \/ PushConfig(r) \/ SetHandleConfig(r)
  <2>1. UNCHANGED <<pendingFile, lost, fileLock, promised, swept, sweep>>
    BY <1>8 DEF TakeHandles, PushConfig, SetHandleConfig
  <2>2. Others(r) /\ req'[r].pc # "persist"
    BY <1>0, <1>8, AlterMoves
  <2>3. QED
    BY <2>1, <2>2, PendingFrame
<1>9. CASE Disconnect(r)
  <2>1. /\ UNCHANGED <<promised, swept, sweep>>
        /\ fileLock' = (fileLock /\ req[r].pc # "persist")
        /\ UNCHANGED <<pendingFile, lost>>
    BY <1>9 DEF Disconnect, At
  <2>2. Others(r) /\ req'[r].pc # "persist"
    BY <1>0, <1>9, AlterMoves
  <2>3. CASE req[r].pc = "persist"
    BY <2>1, <2>2, <2>3, Alone, PendingQuiet DEF PendingInv, DeletionNotForgotten
  <2>4. CASE req[r].pc # "persist"
    <3>1. fileLock' = fileLock
      BY <2>1, <2>4 DEF TypeInv, TypeOK
    <3>2. QED
      BY <2>1, <2>2, <3>1, PendingFrame
  <2>5. QED
    BY <2>3, <2>4
<1>10. QED
  BY <1>1, <1>2, <1>3, <1>4, <1>5, <1>6, <1>7, <1>8, <1>9 DEF RequestStep

LEMMA PendingSweepStep ==
  ASSUME TypeInv, PendingInv, NEW u \in Uuid, SweepStep(u)
  PROVE  PendingInv'
<1> USE DEF diskVars, fileVars, memVars, doneVars, histVars
<1>0. sweep \in [Uuid -> SweepType]
  BY TypeFacts DEF TypeInv
<1>1. CASE SweepSnapshot(u) \/ SweepList(u)
  <2>1. UNCHANGED <<pendingFile, lost, fileLock, promised, swept, req>>
    BY <1>1 DEF SweepSnapshot, SweepList
  <2>2. \A v \in Uuid : sweep'[v].pc = "persist" => sweep'[v] = sweep[v]
    BY <1>0, <1>1 DEF SweepSnapshot, SweepList, SweepGoto, SweepEnds, NoSweep, SweepType
  <2>3. QED
    BY <2>1, <2>2, PendingFrame
<1>2. CASE SweepLoad(u)
  <2>1. /\ ~ fileLock /\ fileLock'
        /\ UNCHANGED <<pendingFile, lost, promised, swept, req>>
        /\ sweep' = [sweep EXCEPT ![u] = [pc |-> "persist", loaded |-> pendingFile]]
    BY <1>2 DEF SweepLoad
  <2>2. /\ \A p \in Requests : req[p].pc # "persist"
        /\ \A v \in Uuid : sweep[v].pc # "persist"
    BY <2>1 DEF PendingInv, FileLockOK, At, SweepAt
  <2>3. sweep'[u].loaded = pendingFile /\ \A v \in Uuid : v # u => sweep'[v] = sweep[v]
    BY <1>0, <2>1
  <2>4. FileLockOK'
    BY <2>1, <2>2, <2>3 DEF FileLockOK, At, SweepAt
  <2>5. QED
    BY <2>1, <2>4 DEF PendingInv, DeletionNotForgotten
<1>3. CASE SweepWrite(u)
  <2>1. /\ sweep[u].pc = "persist" /\ promised' = promised /\ req' = req
        /\ \/ Publishes(sweep[u].loaded \ {u}) /\ swept' = swept \cup {u}
           \/ UNCHANGED <<pendingFile, lost, swept>>
        /\ sweep' = [sweep EXCEPT ![u] = NoSweep]
    BY <1>3 DEF SweepWrite, SweepAt, SweepEnds
  <2>2. /\ sweep[u].loaded = pendingFile
        /\ \A p \in Requests : req[p].pc # "persist"
        /\ \A v \in Uuid : v # u => sweep[v].pc # "persist"
    BY <2>1 DEF PendingInv, FileLockOK, At, SweepAt
  <2>3. \A v \in Uuid : sweep'[v].pc # "persist"
    BY <1>0, <2>1, <2>2 DEF NoSweep
  <2>4. promised' \subseteq pendingFile' \cup swept' \cup lost'
    BY <2>1, <2>2, PublishesKeeps DEF PendingInv, DeletionNotForgotten
  <2>5. QED
    BY <2>1, <2>2, <2>3, <2>4, PendingQuiet
<1>4. QED
  BY <1>1, <1>2, <1>3 DEF SweepStep

LEMMA PendingStep ==
  ASSUME TypeInv, PendingInv, [Next]_vars
  PROVE  PendingInv'
<1> USE DEF diskVars, fileVars, memVars, doneVars, histVars
<1>1. ASSUME NEW u \in Uuid, PartitionStep(u) PROVE PendingInv'
  <2>1. UNCHANGED <<pendingFile, lost, fileLock, promised, swept, req, sweep>>
    BY <1>1 DEF PartitionStep, Upload, UploadFails, WriterStops, UploaderStops
  <2>2. QED
    BY <2>1, PendingFrame
<1>2. CASE OtherTopicWrites
  BY <1>2, PendingFrame DEF OtherTopicWrites
<1>s. CASE StrayLands
  <2>1. /\ UNCHANGED <<promised, swept, req, sweep>> /\ ~ fileLock
        /\ pendingFile \subseteq pendingFile' \cup lost' /\ lost \subseteq lost'
    BY <1>s DEF StrayLands
  <2>2. /\ \A p \in Requests : req[p].pc # "persist"
        /\ \A u \in Uuid : sweep[u].pc # "persist"
    BY <2>1 DEF PendingInv, FileLockOK, At, SweepAt
  <2>3. QED
    BY <2>1, <2>2, PendingQuiet DEF PendingInv, DeletionNotForgotten
<1>3. CASE Crash
  <2>1. /\ UNCHANGED <<pendingFile, lost, promised, swept>>
        /\ req' = [r \in Requests |-> Idle] /\ sweep' = [u \in Uuid |-> NoSweep]
    BY <1>3 DEF Crash
  <2>2. /\ \A p \in Requests : req'[p].pc # "persist"
        /\ \A u \in Uuid : sweep'[u].pc # "persist"
    BY <2>1 DEF Idle, NoSweep
  <2>3. QED
    BY <2>1, <2>2, PendingQuiet DEF PendingInv, DeletionNotForgotten
<1>4. CASE Boot
  <2>1. /\ UNCHANGED <<pendingFile, lost, promised, swept, req>> /\ broker = "down"
        /\ sweep' = [u \in Uuid |-> IF u \in pendingFile
                                    THEN [NoSweep EXCEPT !.pc = "snapshot"] ELSE NoSweep]
    BY <1>4 DEF Boot
  <2>2. \A p \in Requests : req'[p].pc # "persist"
    BY <2>1 DEF TypeInv, DownOK, Idle
  <2>3. \A u \in Uuid : sweep'[u].pc # "persist"
    BY <2>1 DEF NoSweep
  <2>4. QED
    BY <2>1, <2>2, <2>3, PendingQuiet DEF PendingInv, DeletionNotForgotten
<1>5. CASE UNCHANGED vars
  BY <1>5, PendingFrame DEF vars
<1>6. QED
  BY <1>1, <1>2, <1>s, <1>3, <1>4, <1>5, PendingRequestStep, PendingSweepStep DEF Next

LEMMA PendingInit == Init => PendingInv
<1> SUFFICES ASSUME Init PROVE PendingInv
  OBVIOUS
<1>1. /\ \A r \in Requests : req[r].pc # "persist"
      /\ \A u \in Uuid : sweep[u].pc # "persist"
      /\ promised \subseteq pendingFile
  BY DEF Init, Idle, NoSweep
<1>2. QED
  BY <1>1 DEF PendingInv, FileLockOK, DeletionNotForgotten, At, SweepAt

LEMMA PendingHolds == Spec => []PendingInv
<1>1. TypeInv /\ PendingInv /\ [Next]_vars => PendingInv'
  BY PendingStep
<1>2. QED
  BY <1>1, PendingInit, TypeHolds, PTL DEF Spec

\* A deletion the client was promised is in pending_deletes.json until a sweep has
\* run to its end: for all deletions and sweeps that race, and through crashes,
\* FILE_LOCK makes the read, change and replace of the file one step.  Only a write
\* that an aborted append leaves running, outside the lock, loses entries, and only
\* those its older content does not have (pending_deletes.rs).
THEOREM NoDeletionForgotten == Spec => []DeletionNotForgotten
  BY PendingHolds, PTL DEF PendingInv


-----------------------------------------------------------------------------
(* Retired incarnations *)

\* Incarnations whose deletion is on record, for good.
Gone == deleted \cup pendingFile \cup swept \cup lost

\* Incarnations in a write that an aborted append left running.
Straying == UNION strays

\* Incarnations the registry has given up, at whatever stage their deletion is.
Retired ==
  Gone \cup Straying
       \cup {req[r].uuid : r \in {q \in Requests : req[q].pc \in DeletePcs}}

\* Every incarnation in use has been numbered.
Number == 0 .. nextUuid - 1

Numbered ==
  /\ {topics.uuid, topicsFile.uuid, partitions.uuid} \subseteq Number
  /\ \A r \in Requests : {req[r].uuid, req[r].handle} \subseteq Number
  /\ Retired \subseteq Number

\* A retired incarnation does not come back.
RetiredOK == Retired \cap {topics.uuid, topicsFile.uuid} = {}

\* Only what is on record is swept, or was answered for.
RecordedOK ==
  /\ \A u \in Uuid : sweep[u].pc # "none" => u \in Gone
  /\ settled \subseteq Gone

\* Only what is on record loses its manifest or the objects that one names.
StoredOK ==
  /\ topics # NoTopic => topics.uuid \in manifests
  /\ listed \subseteq objects \cup Gone

RetiredInv == Numbered /\ RetiredOK /\ RecordedOK /\ StoredOK

\* What the provers need of sets of requests' uuids.
LEMMA RetiredMember ==
  /\ \A u : u \in Retired <=> \/ u \in Gone \/ u \in Straying
                              \/ \E r \in Requests : req[r].pc \in DeletePcs /\ u = req[r].uuid
  /\ Gone \subseteq Retired
  BY DEF Retired

LEMMA RetiredMemberNext ==
  /\ \A u : u \in Retired' <=> \/ u \in Gone' \/ u \in Straying'
                               \/ \E r \in Requests : req'[r].pc \in DeletePcs /\ u = req'[r].uuid
  /\ Gone' \subseteq Retired'
  BY DEF Retired

LEMMA RetiredTyped ==
  ASSUME TypeInv
  PROVE  Retired \subseteq Uuid /\ Gone \subseteq Uuid /\ 0 \notin Retired /\ 0 \in Number
<1>1. Gone \subseteq Uuid
  BY DEF TypeInv, TypeOK, Gone
<1>2. \A r \in Requests : req[r].pc \in DeletePcs => req[r].uuid \in Uuid
  BY DEF TypeInv, ReqTyped, Prepared
<1>s. Straying \subseteq Uuid
  BY DEF Straying, TypeInv, TypeOK
<1>3. Retired \subseteq Uuid
  BY <1>1, <1>2, <1>s, RetiredMember
<1>4. 0 \in Number
  BY LifecycleAssumption DEF TypeInv, TypeOK, Number
<1>5. QED
  BY <1>1, <1>3, <1>4, ConstantTypes

\* Steps that retire nothing and number nothing.
LEMMA RetiredFrame ==
  ASSUME TypeInv, RetiredInv, nextUuid' = nextUuid,
         {topics'.uuid, topicsFile'.uuid} \subseteq {topics.uuid, topicsFile.uuid, 0},
         partitions'.uuid \in Number,
         \A p \in Requests : {req'[p].uuid, req'[p].handle} \subseteq Number,
         \A p \in Requests : req'[p].pc \in DeletePcs => req'[p].uuid \in Retired,
         Gone' \subseteq Retired, Straying' \subseteq Retired, RecordedOK', StoredOK'
  PROVE  RetiredInv'
<1>1. Retired' \subseteq Retired
  BY RetiredMember, RetiredMemberNext
<1>2. Number' = Number
  BY DEF Number
<1>3. Numbered'
  BY <1>1, <1>2, RetiredTyped DEF RetiredInv, Numbered
<1>4. RetiredOK'
  BY <1>1, RetiredTyped DEF RetiredInv, RetiredOK
<1>5. QED
  BY <1>3, <1>4 DEF RetiredInv

\* Of these, the steps of a request that change neither record nor store.
LEMMA RetiredMove ==
  ASSUME TypeInv, RetiredInv, NEW r \in Requests, Others(r),
         UNCHANGED <<nextUuid, topics, topicsFile, deleted, fileVars, swept, settled,
                     sweep, manifests, listed, objects>>,
         partitions'.uuid \in Number,
         req'[r].uuid \in Number, req'[r].handle \in Number,
         req'[r].pc \in DeletePcs => req[r].pc \in DeletePcs /\ req'[r].uuid = req[r].uuid
  PROVE  RetiredInv'
<1>1. Gone' = Gone /\ Straying' = Straying
  BY DEF Gone, Straying, fileVars
<1>2. \A p \in Requests : {req'[p].uuid, req'[p].handle} \subseteq Number
  BY DEF Others, RetiredInv, Numbered
<1>3. \A p \in Requests : req'[p].pc \in DeletePcs => req'[p].uuid \in Retired
  BY RetiredMember DEF Others
<1>4. RecordedOK' /\ StoredOK'
  BY <1>1 DEF RetiredInv, RecordedOK, StoredOK
<1>5. QED
  BY <1>1, <1>2, <1>3, <1>4, RetiredFrame, RetiredMember

\* What the incarnations of a state are, as far as the steps need it.
LEMMA RetiredFacts ==
  ASSUME TypeInv, RetiredInv
  PROVE  /\ {topics.uuid, topicsFile.uuid, partitions.uuid} \subseteq Number
         /\ Straying \subseteq Retired /\ Gone \subseteq Retired
         /\ \A p \in Requests : req[p].uuid \in Number /\ req[p].handle \in Number
         /\ \A p \in Requests : req[p].pc \in DeletePcs => req[p].uuid \in Retired
         /\ topics.uuid \notin Retired /\ topicsFile.uuid \notin Retired
         /\ req \in [Requests -> RequestType] /\ 0 \in Number
  BY RetiredTyped, RetiredMember, TypeFacts DEF TypeInv, RetiredInv, Numbered, RetiredOK

LEMMA RetiredRegistryStep ==
  ASSUME TypeInv, RegistryInv, RetiredInv, NEW r \in Requests,
         \/ RegistryRejects(r) \/ EnsureFinds(r) \/ RegistryCreate(r)
         \/ PutEmptyManifest(r) \/ CreateFails(r) \/ RegistryDelete(r) \/ RegistryAlter(r)
  PROVE  RetiredInv'
<1> USE RetiredFacts
        DEF diskVars, fileVars, storeVars, memVars, doneVars, histVars, Others, Ended, Moved, Kept,
            SpawnEnded, DeletePcs, WaitPcs, DataPcs
<1>1. CASE RegistryRejects(r)
  BY <1>1, RetiredMove DEF RegistryRejects
<1>2. CASE EnsureFinds(r)
  BY <1>2, RetiredMove, RegistryMoves DEF EnsureFinds
<1>3. CASE RegistryCreate(r)
  <2>0. nextUuid' = nextUuid + 1 /\ nextUuid \in Nat
    <3>1. nextUuid' = nextUuid + 1
      BY <1>3 DEF RegistryCreate
    <3>2. QED
      BY <3>1, TypeFacts DEF TypeInv
  <2>1. /\ topics = NoTopic /\ topicsFile' = [uuid |-> nextUuid, cfg |-> 0]
        /\ UNCHANGED <<topics, partitions, deleted, fileVars, swept, settled, sweep,
                       manifests, listed, objects>>
    BY <1>3 DEF RegistryCreate
  <2>2. Others(r) /\ req'[r].pc = "put" /\ req'[r].uuid = nextUuid /\ req'[r].handle = 0
    BY <1>3, RegistryMoves
  <2>3. Number \subseteq Number' /\ nextUuid \in Number' /\ nextUuid \notin Number
    BY <2>0 DEF Number
  <2>4. Gone' = Gone /\ Straying' = Straying
    BY <2>1 DEF Gone, Straying
  <2>5. \A p \in Requests : req'[p].pc \in DeletePcs => req'[p].uuid \in Retired
    BY <2>2
  <2>6. Retired' \subseteq Retired /\ Retired \subseteq Number
    BY <2>4, <2>5, RetiredMember, RetiredMemberNext DEF RetiredInv, Numbered
  <2>7. Numbered'
    BY <2>1, <2>2, <2>3, <2>6 DEF Numbered
  <2>8. RetiredOK'
    BY <2>1, <2>3, <2>6 DEF RetiredOK
  <2>9. RecordedOK' /\ StoredOK'
    BY <2>1, <2>4 DEF RetiredInv, RecordedOK, StoredOK
  <2>10. QED
    BY <2>7, <2>8, <2>9 DEF RetiredInv
<1>4. CASE PutEmptyManifest(r)
  <2>1. /\ req[r].pc = "put" /\ topics' = [uuid |-> req[r].uuid, cfg |-> 0]
        /\ manifests' = manifests \cup {req[r].uuid}
        /\ UNCHANGED <<nextUuid, topicsFile, partitions, deleted, fileVars, swept, settled,
                       sweep, listed, objects>>
    BY <1>4 DEF PutEmptyManifest, At
  <2>2. topicsFile = [uuid |-> req[r].uuid, cfg |-> 0]
    BY <2>1 DEF RegistryInv, PutOK, At
  <2>3. Ended(r) \/ Moved(r, "put", "spawn")
    BY <1>4, RegistryMoves
  <2>4. topics'.uuid = topicsFile.uuid /\ topicsFile.uuid \in manifests'
    BY <2>1, <2>2
  <2>5. Gone' = Gone /\ Straying' = Straying
    BY <2>1 DEF Gone, Straying
  <2>6. RecordedOK' /\ StoredOK'
    BY <2>1, <2>4, <2>5 DEF RetiredInv, RecordedOK, StoredOK
  <2>7. QED
    BY <2>1, <2>3, <2>4, <2>5, <2>6, RetiredFrame, RetiredMember
<1>5. CASE CreateFails(r)
  <2>1. /\ manifests \subseteq manifests'
        /\ UNCHANGED <<nextUuid, topics, topicsFile, partitions, deleted, fileVars, swept,
                       settled, sweep, listed, objects>>
    BY <1>5 DEF CreateFails
  <2>2. Ended(r)
    BY <1>5, RegistryMoves
  <2>3. Gone' = Gone /\ Straying' = Straying
    BY <2>1 DEF Gone, Straying
  <2>4. RecordedOK' /\ StoredOK'
    BY <2>1, <2>3 DEF RetiredInv, RecordedOK, StoredOK
  <2>5. QED
    BY <2>1, <2>2, <2>3, <2>4, RetiredFrame, RetiredMember
<1>6. CASE RegistryDelete(r)
  <2>1. /\ topics' = NoTopic /\ topicsFile' = NoTopic
        /\ UNCHANGED <<nextUuid, partitions, deleted, fileVars, swept,
                       settled, sweep, manifests, listed, objects>>
    BY <1>6 DEF RegistryDelete
  <2>2. /\ Others(r) /\ req[r].pc = "idle" /\ req'[r].pc = "remove"
        /\ req'[r].uuid = topics.uuid /\ req'[r].handle = 0
    BY <1>6, RegistryMoves
  <2>3. Gone' = Gone /\ Straying' = Straying /\ Number' = Number
    BY <2>1 DEF Gone, Straying, Number
  <2>4. Retired' \subseteq Retired \cup {topics.uuid}
    BY <2>2, <2>3, RetiredMember, RetiredMemberNext
  <2>5. topics # NoTopic /\ topics.uuid \in Uuid
    BY <1>6, ConstantTypes DEF RegistryDelete, TypeInv, TypeOK
  <2>6. topics'.uuid = 0 /\ topicsFile'.uuid = 0 /\ 0 \notin Retired'
    BY <2>1, <2>4, <2>5, ConstantTypes, RetiredTyped
  <2>7. Numbered'
    BY <2>1, <2>2, <2>3, <2>4, <2>6 DEF RetiredInv, Numbered
  <2>8. RetiredOK'
    BY <2>6 DEF RetiredOK
  <2>9. RecordedOK' /\ StoredOK'
    BY <2>1, <2>3 DEF RetiredInv, RecordedOK, StoredOK
  <2>10. QED
    BY <2>7, <2>8, <2>9 DEF RetiredInv
<1>7. CASE RegistryAlter(r)
  <2>1. /\ topics # NoTopic /\ topics' = [topics EXCEPT !.cfg = @ + 1]
        /\ topicsFile' = topics'
        /\ UNCHANGED <<nextUuid, partitions, deleted, fileVars, swept,
                       settled, sweep, manifests, listed, objects>>
    BY <1>7 DEF RegistryAlter
  <2>2. topics'.uuid = topics.uuid
    <3>1. topics \in Topic
      BY <2>1 DEF TypeInv, TypeOK
    <3>2. QED
      BY <2>1, <3>1 DEF Topic
  <2>3. /\ Others(r) /\ req'[r].pc = "handles" /\ req'[r].uuid = 0 /\ req'[r].handle = 0
    BY <1>7, RegistryMoves
  <2>4. Gone' = Gone /\ Straying' = Straying
    BY <2>1 DEF Gone, Straying
  <2>5. RecordedOK' /\ StoredOK'
    BY <2>1, <2>2, <2>4 DEF RetiredInv, RecordedOK, StoredOK
  <2>6. {topics'.uuid, topicsFile'.uuid} \subseteq {topics.uuid, topicsFile.uuid, 0}
    BY <2>1, <2>2
  <2>7. QED
    BY <2>1, <2>3, <2>4, <2>5, <2>6, RetiredFrame, RetiredMember
<1>8. QED
  BY <1>1, <1>2, <1>3, <1>4, <1>5, <1>6, <1>7

LEMMA RetiredTaskStep ==
  ASSUME TypeInv, RetiredInv, NEW r \in Requests,
         \/ SpawnEntry(r) \/ SpawnLock(r) \/ SpawnRecover(r) \/ SpawnPanics(r)
         \/ SpawnInsert(r) \/ LookupHandle(r) \/ Commit(r)
         \/ TakeHandles(r) \/ PushConfig(r) \/ SetHandleConfig(r)
  PROVE  RetiredInv'
<1> USE RetiredFacts
        DEF diskVars, fileVars, storeVars, memVars, doneVars, histVars, Others, Ended, Moved, Kept,
            SpawnEnded, DeletePcs, WaitPcs, DataPcs
<1>1. UNCHANGED <<nextUuid, topics, topicsFile, deleted, fileVars, swept, settled,
                  sweep, manifests, listed, objects>>
  BY DEF SpawnEntry, SpawnLock, SpawnRecover, SpawnPanics, SpawnInsert, LookupHandle, Commit,
         TakeHandles, PushConfig, SetHandleConfig
<1>2. /\ Others(r) /\ req'[r].uuid \in Number /\ req'[r].handle \in Number
      /\ req'[r].pc \notin DeletePcs
  <2>1. CASE \/ SpawnEntry(r) \/ SpawnLock(r) \/ SpawnRecover(r) \/ SpawnPanics(r)
             \/ SpawnInsert(r) \/ LookupHandle(r) \/ Commit(r)
    BY <2>1, SpawnMoves
  <2>2. CASE TakeHandles(r) \/ PushConfig(r) \/ SetHandleConfig(r)
    BY <2>2, AlterMoves
  <2>3. QED
    BY <2>1, <2>2
<1>3. partitions'.uuid \in Number
  <2>1. CASE SpawnInsert(r)
    BY <2>1 DEF SpawnInsert
  <2>2. CASE SetHandleConfig(r)
    <3>1. \/ partitions' = NoTopic
          \/ partitions # NoTopic /\ partitions' = [partitions EXCEPT !.cfg = req[r].cfg]
      BY <2>2 DEF SetHandleConfig
    <3>2. partitions' = NoTopic \/ partitions'.uuid = partitions.uuid
      BY <3>1 DEF TypeInv, TypeOK, Topic
    <3>3. QED
      BY <3>2, ConstantTypes
  <2>3. CASE ~ SpawnInsert(r) /\ ~ SetHandleConfig(r)
    BY <2>3 DEF SpawnEntry, SpawnLock, SpawnRecover, SpawnPanics, LookupHandle, Commit,
                TakeHandles, PushConfig
  <2>4. QED
    BY <2>1, <2>2, <2>3
<1>4. QED
  BY <1>1, <1>2, <1>3, RetiredMove

\* A deletion is put on record: without its data, or in pending_deletes.json.
LEMMA RetiredRecord ==
  ASSUME TypeInv, RetiredInv, NEW r \in Requests, req[r].pc \in DeletePcs, Others(r),
         UNCHANGED <<nextUuid, topics, topicsFile, manifests, listed, objects>>,
         Gone \subseteq Gone', Gone' \subseteq Retired, Straying' \subseteq Retired,
         RecordedOK', partitions'.uuid \in Number,
         req'[r].uuid \in Number, req'[r].handle \in Number,
         req'[r].pc \in DeletePcs => req'[r].uuid = req[r].uuid
  PROVE  RetiredInv'
<1>1. StoredOK'
  BY DEF RetiredInv, StoredOK
<1>2. /\ \A p \in Requests : {req'[p].uuid, req'[p].handle} \subseteq Number
      /\ \A p \in Requests : req'[p].pc \in DeletePcs => req'[p].uuid \in Retired
  BY RetiredFacts, RetiredMember DEF Others
<1>3. QED
  BY <1>1, <1>2, RetiredFrame

\* The file, whichever write of it goes through: what is on record stays so.
LEMMA RetiredPublish ==
  ASSUME TypeInv, NEW c, Publishes(c), pendingFile \subseteq c \cup swept',
         c \subseteq Retired, deleted \subseteq deleted', deleted' \subseteq Retired,
         swept \subseteq swept', swept' \subseteq Retired
  PROVE  /\ Gone \subseteq Gone' /\ Gone' \subseteq Retired
         /\ Straying' \subseteq Retired
<1>0. Gone \subseteq Retired /\ Straying \subseteq Retired
  BY RetiredMember
<1>1. CASE pendingFile' = c /\ UNCHANGED <<strays, lost>>
  <2>1. Straying' = Straying
    BY <1>1 DEF Straying
  <2>2. QED
    BY <1>0, <1>1, <2>1 DEF Gone
<1>2. ASSUME NEW t \in strays, pendingFile' = t, strays' = strays \ {t},
             lost' = lost \cup (c \ t)
      PROVE  /\ Gone \subseteq Gone' /\ Gone' \subseteq Retired
             /\ Straying' \subseteq Retired
  <2>1. t \subseteq Straying /\ Straying' \subseteq Straying
    BY <1>2 DEF Straying
  <2>2. QED
    BY <1>0, <1>2, <2>1 DEF Gone
<1>3. QED
  BY <1>1, <1>2 DEF Publishes

LEMMA RetiredDeleteStep ==
  ASSUME TypeInv, PendingInv, RetiredInv, NEW r \in Requests,
         \/ RemoveHandle(r) \/ ShutWriter(r) \/ WaitWriter(r) \/ WaitUploader(r)
         \/ WipeWal(r) \/ TakeSnapshot(r) \/ AppendLoad(r) \/ AppendWrite(r)
         \/ AppendFails(r) \/ Disconnect(r)
  PROVE  RetiredInv'
<1> USE RetiredFacts
        DEF diskVars, fileVars, storeVars, memVars, doneVars, histVars, Others, Ended, Moved, Kept,
            DeletePcs, WaitPcs, DataPcs
<1>1. CASE RemoveHandle(r) \/ WaitUploader(r)
  <2>1. /\ UNCHANGED <<nextUuid, topics, topicsFile, fileVars, swept, settled,
                       sweep, manifests, listed, objects>>
        /\ partitions' \in {partitions, NoTopic}
    BY <1>1 DEF RemoveHandle, WaitUploader, DropLock
  <2>2. partitions'.uuid \in Number
    BY <2>1, ConstantTypes
  <2>3. CASE Dropped(r)
    <3>1. req[r].pc \in DeletePcs
      BY <1>1, DeleteMoves
    <3>2. deleted \subseteq deleted' /\ deleted' \subseteq deleted \cup {req[r].uuid}
      BY <2>3 DEF Dropped
    <3>3. /\ Gone \subseteq Gone' /\ Gone' \subseteq Gone \cup {req[r].uuid}
          /\ Straying' = Straying
      BY <2>1, <3>2 DEF Gone, Straying
    <3>4. RecordedOK'
      BY <2>1, <3>3 DEF RetiredInv, RecordedOK
    <3>5. Gone' \subseteq Retired /\ Straying' \subseteq Retired
      BY <3>1, <3>3
    <3>6. QED
      BY <2>1, <2>2, <2>3, <3>1, <3>3, <3>4, <3>5, RetiredRecord DEF Dropped
  <2>4. CASE RemoveHandle(r) /\ partitions # NoTopic
    <3>1. deleted' = deleted
      BY <2>4 DEF RemoveHandle
    <3>2. /\ Others(r) /\ req[r].pc = "remove" /\ req'[r].pc = "shutwriter"
          /\ req'[r].uuid = req[r].uuid /\ req'[r].handle = partitions.uuid
      BY <2>4, DeleteMoves
    <3>3. QED
      BY <2>1, <2>2, <3>1, <3>2, RetiredMove
  <2>5. QED
    BY <1>1, <2>3, <2>4, DeleteMoves
<1>2. CASE ShutWriter(r) \/ WaitWriter(r)
  BY <1>2, DeleteMoves, RetiredMove DEF ShutWriter, WaitWriter
<1>3. CASE WipeWal(r) \/ TakeSnapshot(r) \/ AppendLoad(r) \/ AppendFails(r)
  <2>1. UNCHANGED <<nextUuid, topics, topicsFile, partitions, deleted, fileVars, swept,
                    settled, sweep, manifests, listed, objects>>
    BY <1>3 DEF WipeWal, TakeSnapshot, AppendLoad, AppendFails
  <2>2. /\ Others(r) /\ req'[r].uuid \in Number /\ req'[r].handle \in Number
        /\ req'[r].pc \in DeletePcs => req[r].pc \in DeletePcs /\ req'[r].uuid = req[r].uuid
    BY <1>3, DeleteMoves
  <2>3. QED
    BY <2>1, <2>2, RetiredMove
<1>4. CASE AppendWrite(r)
  <2>1. /\ UNCHANGED <<nextUuid, topics, topicsFile, partitions, swept, manifests, listed,
                       objects>>
        /\ deleted' = deleted \cup {req[r].uuid}
        /\ Publishes(req[r].loaded \cup {req[r].uuid})
        /\ settled' \subseteq settled \cup {req[r].uuid}
        /\ sweep' = [sweep EXCEPT ![req[r].uuid] = [NoSweep EXCEPT !.pc = "snapshot"]]
    BY <1>4 DEF AppendWrite, Appended
  <2>2. Ended(r) /\ req[r].pc = "persist"
    BY <1>4, DeleteMoves
  <2>3. req[r].loaded = pendingFile /\ req[r].uuid \in Retired
    BY <2>2, Alone
  <2>4. /\ Gone \subseteq Gone' /\ Gone' \subseteq Retired
        /\ Straying' \subseteq Retired /\ req[r].uuid \in Gone'
    <3>1. deleted \subseteq Retired /\ pendingFile \subseteq Retired /\ swept \subseteq Retired
      BY RetiredMember DEF Gone
    <3>2. req[r].uuid \in Gone'
      BY <2>1 DEF Gone
    <3>3. QED
      BY <2>1, <2>3, <3>1, <3>2, RetiredPublish
  <2>5. \A u \in Uuid : u # req[r].uuid => sweep'[u] = sweep[u]
    BY <2>1, TypeFacts DEF TypeInv
  <2>6. RecordedOK'
    BY <2>1, <2>4, <2>5 DEF RetiredInv, RecordedOK
  <2>7. QED
    BY <2>1, <2>2, <2>4, <2>6, RetiredRecord
<1>5. CASE Disconnect(r)
  <2>1. /\ UNCHANGED <<nextUuid, topics, topicsFile, partitions, deleted, pendingFile, lost,
                       swept, settled, sweep, manifests, listed, objects>>
        /\ \/ strays' = strays
           \/ /\ req[r].pc = "persist"
              /\ strays' = strays \cup {req[r].loaded \cup {req[r].uuid}}
    BY <1>5 DEF Disconnect, Appended, At
  <2>2. Ended(r) \/ Moved(r, "put", "put")
    BY <1>5, AlterMoves
  <2>3. CASE strays' = strays
    BY <2>1, <2>2, <2>3, RetiredMove
  <2>4. CASE req[r].pc = "persist" /\ strays' = strays \cup {req[r].loaded \cup {req[r].uuid}}
    <3>1. Straying' = Straying \cup pendingFile \cup {req[r].uuid}
      BY <2>4, Alone DEF Straying
    <3>2. Gone' = Gone /\ pendingFile \subseteq Gone
      BY <2>1 DEF Gone
    <3>3. Straying' \subseteq Retired
      BY <2>4, <3>1, <3>2
    <3>4. RecordedOK'
      BY <2>1, <3>2 DEF RetiredInv, RecordedOK
    <3>5. QED
      BY <2>1, <2>2, <2>4, <3>2, <3>3, <3>4, RetiredRecord
  <2>5. QED
    BY <2>1, <2>3, <2>4
<1>6. QED
  BY <1>1, <1>2, <1>3, <1>4, <1>5

\* A sweep takes from the store only what is on record.
LEMMA RetiredSweepStep ==
  ASSUME TypeInv, PendingInv, RetiredInv, NEW u \in Uuid, PartitionStep(u) \/ SweepStep(u)
  PROVE  RetiredInv'
<1> USE DEF diskVars, fileVars, storeVars, memVars, doneVars, histVars
<1>1. UNCHANGED <<nextUuid, topics, topicsFile, partitions, req, deleted, settled>>
  BY DEF PartitionStep, SweepStep, Upload, UploadFails, WriterStops, UploaderStops,
         SweepSnapshot, SweepList, SweepLoad, SweepWrite
<1>2. ASSUME Gone \subseteq Gone', Gone' \subseteq Retired, Straying' \subseteq Retired,
             \A v \in Uuid : sweep'[v].pc # "none" => sweep[v].pc # "none",
             topics # NoTopic => topics.uuid \in manifests',
             listed' \subseteq objects' \cup Gone
      PROVE  RetiredInv'
  <2>1. RecordedOK' /\ StoredOK'
    BY <1>1, <1>2 DEF RetiredInv, RecordedOK, StoredOK
  <2>2. QED
    BY <1>1, <1>2, <2>1, RetiredFrame, RetiredFacts
<1>3. sweep \in [Uuid -> SweepType]
  BY TypeFacts DEF TypeInv
<1>4. CASE PartitionStep(u)
  <2>1. /\ UNCHANGED <<fileVars, swept, sweep, manifests>>
        /\ \/ UNCHANGED <<listed, objects>>
           \/ listed' \in {listed, listed \cup {u}} /\ objects' = objects \cup {u}
    BY <1>4 DEF PartitionStep, Upload, UploadFails, WriterStops, UploaderStops
  <2>2. Gone' = Gone /\ Straying' = Straying
    BY <1>1, <2>1 DEF Gone, Straying
  <2>3. QED
    BY <1>2, <2>1, <2>2, RetiredMember DEF RetiredInv, StoredOK
<1>5. CASE SweepStep(u)
  <2>1. sweep[u].pc # "none"
    BY <1>5 DEF SweepStep, SweepSnapshot, SweepList, SweepLoad, SweepWrite, SweepAt
  <2>2. u \in Gone /\ u # topics.uuid
    BY <2>1, RetiredFacts, RetiredMember DEF RetiredInv, RecordedOK
  <2>3. \A v \in Uuid : sweep'[v].pc # "none" => sweep[v].pc # "none"
    BY <1>3, <1>5, <2>1
       DEF SweepStep, SweepSnapshot, SweepList, SweepLoad, SweepWrite, SweepGoto, SweepEnds,
           SweepAt, NoSweep
  <2>4. /\ listed' = listed /\ objects \subseteq objects' \cup {u}
        /\ manifests \subseteq manifests' \cup {u}
    BY <1>5 DEF SweepStep, SweepSnapshot, SweepList, SweepLoad, SweepWrite
  <2>5. /\ Gone \subseteq Gone' /\ Gone' \subseteq Retired
        /\ Straying' \subseteq Retired
    <3>1. CASE UNCHANGED <<fileVars, swept>>
      BY <1>1, <3>1, RetiredMember DEF Gone, Straying
    <3>2. CASE /\ sweep[u].pc = "persist" /\ Publishes(sweep[u].loaded \ {u})
               /\ swept' = swept \cup {u}
      <4>1. sweep[u].loaded = pendingFile
        BY <3>2 DEF PendingInv, FileLockOK, SweepAt
      <4>2. deleted \subseteq Retired /\ pendingFile \subseteq Retired /\ swept \subseteq Retired
        BY RetiredMember DEF Gone
      <4>3. u \in Retired
        BY <2>2, RetiredMember
      <4>4. QED
        BY <1>1, <3>2, <4>1, <4>2, <4>3, RetiredPublish
    <3>3. QED
      BY <1>5, <3>1, <3>2 DEF SweepStep, SweepSnapshot, SweepList, SweepLoad, SweepWrite, SweepAt
  <2>6. QED
    BY <1>2, <2>2, <2>3, <2>4, <2>5, RetiredMember DEF RetiredInv, StoredOK
<1>6. QED
  BY <1>4, <1>5

LEMMA RetiredStep ==
  ASSUME TypeInv, RegistryInv, PendingInv, RetiredInv, [Next]_vars
  PROVE  RetiredInv'
<1> USE DEF diskVars, fileVars, storeVars, memVars, doneVars, histVars
<1>0. NoTopic.uuid = 0
  BY ConstantTypes
<1>1. ASSUME NEW r \in Requests, RequestStep(r) \/ Disconnect(r) PROVE RetiredInv'
  BY <1>1, RetiredRegistryStep, RetiredTaskStep, RetiredDeleteStep DEF RequestStep
<1>2. ASSUME UNCHANGED <<nextUuid, req, deleted, fileVars, swept, settled, sweep,
                         manifests, listed, objects>>,
             topics' = topics, topicsFile' \in {topicsFile, topics},
             partitions' = partitions
      PROVE  RetiredInv'
  <2>1. Gone' = Gone /\ Straying' = Straying
    BY <1>2 DEF Gone, Straying
  <2>2. RecordedOK' /\ StoredOK'
    BY <1>2, <2>1 DEF RetiredInv, RecordedOK, StoredOK
  <2>3. QED
    BY <1>2, <2>1, <2>2, RetiredFacts, RetiredFrame, RetiredMember
<1>3. CASE OtherTopicWrites
  BY <1>2, <1>3 DEF OtherTopicWrites
<1>s. CASE StrayLands
  <2>1. /\ UNCHANGED <<nextUuid, topics, topicsFile, partitions, req, deleted, swept, settled,
                       sweep, manifests, listed, objects>>
        /\ Publishes(pendingFile)
    BY <1>s DEF StrayLands, Publishes
  <2>2. deleted \subseteq Retired /\ pendingFile \subseteq Retired /\ swept \subseteq Retired
    BY RetiredMember DEF Gone
  <2>3. Gone \subseteq Gone' /\ Gone' \subseteq Retired /\ Straying' \subseteq Retired
    BY <2>1, <2>2, RetiredPublish
  <2>4. RecordedOK' /\ StoredOK'
    BY <2>1, <2>3 DEF RetiredInv, RecordedOK, StoredOK
  <2>5. QED
    BY <2>1, <2>3, <2>4, RetiredFacts, RetiredFrame
<1>4. CASE Crash
  <2>1. /\ topics' = NoTopic /\ partitions' = NoTopic
        /\ req' = [r \in Requests |-> Idle] /\ sweep' = [u \in Uuid |-> NoSweep]
        /\ UNCHANGED <<nextUuid, topicsFile, deleted, pendingFile, lost, swept, settled,
                       manifests, listed, objects>>
        /\ strays' = {}
    BY <1>4 DEF Crash
  <2>2. Gone' = Gone /\ Straying' = {}
    BY <2>1 DEF Gone, Straying
  <2>3. RecordedOK' /\ StoredOK'
    BY <2>1, <2>2 DEF RetiredInv, RecordedOK, StoredOK, NoSweep
  <2>4. \A p \in Requests : req'[p].uuid = 0 /\ req'[p].handle = 0 /\ req'[p].pc = "idle"
    BY <2>1 DEF Idle, NoUuid
  <2>5. QED
    BY <1>0, <2>1, <2>2, <2>3, <2>4, RetiredFacts, RetiredFrame, RetiredMember
       DEF DeletePcs, WaitPcs, DataPcs
<1>5. CASE Boot
  <2>1. /\ topics' = topicsFile /\ partitions' = topicsFile
        /\ topicsFile # NoTopic => topicsFile.uuid \in manifests
        /\ UNCHANGED <<nextUuid, req, topicsFile, deleted, fileVars, swept, settled,
                       manifests, listed, objects>>
        /\ sweep' = [u \in Uuid |-> IF u \in pendingFile
                                    THEN [NoSweep EXCEPT !.pc = "snapshot"] ELSE NoSweep]
    BY <1>5 DEF Boot
  <2>2. Gone' = Gone /\ Straying' = Straying /\ pendingFile \subseteq Gone
    BY <2>1 DEF Gone, Straying
  <2>3. \A u \in Uuid : sweep'[u].pc # "none" => u \in pendingFile
    BY <2>1 DEF NoSweep
  <2>4. RecordedOK' /\ StoredOK'
    BY <2>1, <2>2, <2>3 DEF RetiredInv, RecordedOK, StoredOK
  <2>5. QED
    BY <2>1, <2>2, <2>4, RetiredFacts, RetiredFrame, RetiredMember
<1>6. CASE UNCHANGED vars
  BY <1>2, <1>6 DEF vars
<1>7. QED
  BY <1>1, <1>3, <1>s, <1>4, <1>5, <1>6, RetiredSweepStep DEF Next

LEMMA RetiredInit == Init => RetiredInv
<1> SUFFICES ASSUME Init PROVE RetiredInv
  OBVIOUS
<1>1. /\ \A r \in Requests : req[r].pc = "idle" /\ req[r].uuid = 0 /\ req[r].handle = 0
      /\ \A u \in Uuid : sweep[u].pc = "none"
      /\ topics = NoTopic /\ topics.uuid = 0 /\ partitions.uuid = 0
  BY ConstantTypes DEF Init, Idle, NoSweep, NoUuid
<1>2. /\ deleted = promised /\ pendingFile = promised /\ swept = {} /\ settled = promised
      /\ listed = promised /\ objects = promised /\ strays = {} /\ lost = {}
  BY DEF Init
<1>3. Gone = promised /\ Retired = promised
  BY <1>1, <1>2 DEF Gone, Straying, Retired, DeletePcs, WaitPcs, DataPcs
<1>4. /\ 0 \in Number /\ topicsFile.uuid \in Number /\ promised \subseteq Number
      /\ 0 \notin promised /\ topicsFile.uuid \notin promised
  <2>1. CASE nextUuid = 1 /\ topicsFile = NoTopic /\ promised = {}
    BY <2>1, ConstantTypes DEF Number
  <2>2. CASE nextUuid = 2 /\ topicsFile = [uuid |-> 1, cfg |-> 0] /\ promised = {}
    BY <2>2 DEF Number
  <2>3. CASE nextUuid = 3 /\ topicsFile = [uuid |-> 2, cfg |-> 0] /\ promised = {1}
    BY <2>3 DEF Number
  <2>4. QED
    BY <2>1, <2>2, <2>3 DEF Init
<1>5. QED
  BY <1>1, <1>2, <1>3, <1>4 DEF RetiredInv, Numbered, RetiredOK, RecordedOK, StoredOK

LEMMA RetiredHolds == Spec => []RetiredInv
<1>1. TypeInv /\ RegistryInv /\ PendingInv /\ RetiredInv /\ [Next]_vars => RetiredInv'
  BY RetiredStep
<1>2. QED
  BY <1>1, RetiredInit, TypeHolds, RegistryHolds, PendingHolds, PTL DEF Spec

\* A topic whose DeleteTopic was answered with success is never listed again,
\* neither in memory nor, through topics.json, after a restart; not even by a create
\* that races it (handle_delete_topic).
THEOREM DeletedForGood == Spec => []DeletedStaysDeleted
<1>1. RetiredInv => DeletedStaysDeleted
  BY RetiredMember DEF RetiredInv, RetiredOK, Gone, DeletedStaysDeleted
<1>2. QED
  BY <1>1, RetiredHolds, PTL

\* Whatever sweeps run, however often they are replayed and whatever a create and a
\* delete under the same name do meanwhile, a topic of the registry keeps its
\* manifest and every segment the manifest names (deletion.rs).
THEOREM LiveTopicKept == Spec => []LiveTopicStored
<1>1. RetiredInv => LiveTopicStored
  BY RetiredMember DEF RetiredInv, RetiredOK, StoredOK, LiveTopicStored
<1>2. QED
  BY <1>1, RetiredHolds, PTL

-----------------------------------------------------------------------------
(* Partition tasks that were shut down *)

\* Nobody holds or will insert the handle of u, and its Uploader is gone.
Quiet(u) ==
  /\ partitions.uuid # u
  /\ \A r \in Requests : /\ req[r].pc \in SpawnPcs => req[r].uuid # u
                         /\ req[r].pc \in WaitPcs => req[r].handle # u
  /\ part[u].uploader \in {"none", "stopped"}

\* The handle of an incarnation is inserted once, and taken out once.
HandlesOK ==
  /\ \A r \in Requests : req[r].pc \in SpawnPcs => req[r].uuid # partitions.uuid
  /\ \A r, q \in Requests :
       /\ req[r].pc \in SpawnPcs /\ req[q].pc \in SpawnPcs /\ req[r].uuid = req[q].uuid
            => r = q
       /\ req[r].pc \in WaitPcs /\ req[q].pc \in SpawnPcs => req[r].handle # req[q].uuid
       /\ req[r].pc \in WaitPcs /\ req[q].pc \in WaitPcs /\ req[r].handle = req[q].handle
            => r = q
  /\ \A r \in Requests : req[r].pc \in WaitPcs => req[r].handle # partitions.uuid

\* An incarnation is deleted by one request, and swept only after that.
DeletesOK ==
  /\ \A r \in Requests : req[r].pc \in DeletePcs =>
       /\ req[r].uuid \notin swept \cup settled
       /\ SweepAt(req[r].uuid, "none")
  /\ \A r, q \in Requests :
       req[r].pc \in DeletePcs /\ req[q].pc \in DeletePcs /\ req[r].uuid = req[q].uuid
         => r = q

\* Both acks came: the tasks are gone for good.
SettledOK ==
  /\ \A r \in Requests : \A u \in Uuid :
       req[r].pc \in DataPcs /\ req[r].acks /\ req[r].uuid = u => Quiet(u)
  /\ \A u \in settled : Quiet(u)

\* What a sweep has removed stays removed.
SweepsOK ==
  \A u \in settled :
    u \in swept \/ sweep[u].pc \in {"list", "remove", "persist"} =>
      u \notin manifests /\ u \notin objects \cap snapshot

SettledInv == HandlesOK /\ DeletesOK /\ SettledOK /\ SweepsOK

\* A request goes on within its part of the work with what it knows, or leaves it.
Carried(p) ==
  /\ req'[p].pc \in SpawnPcs => req[p].pc \in SpawnPcs /\ req'[p].uuid = req[p].uuid
  /\ req'[p].pc \in WaitPcs => req[p].pc \in WaitPcs /\ req'[p].handle = req[p].handle
  /\ req'[p].pc \in DeletePcs => req[p].pc \in DeletePcs /\ req'[p].uuid = req[p].uuid
  /\ req'[p].pc \in DataPcs /\ req'[p].acks => req[p].pc \in DataPcs /\ req[p].acks

LEMMA QuietFrame ==
  ASSUME NEW u \in Uuid, Quiet(u), \A p \in Requests : Carried(p),
         partitions'.uuid # u, part'[u].uploader \in {"none", "stopped"}
  PROVE  Quiet(u)'
  BY DEF Quiet, Carried

LEMMA SettledTyped ==
  ASSUME TypeInv
  PROVE  /\ settled \subseteq Uuid
         /\ \A p \in Requests : /\ req[p].pc \in SpawnPcs => req[p].uuid \in Uuid
                                /\ req[p].pc \in DeletePcs => req[p].uuid \in Uuid
                                /\ req[p].pc \in WaitPcs => req[p].handle \in Uuid
         /\ 0 \notin Uuid /\ NoTopic.uuid = 0
         /\ DataPcs \subseteq DeletePcs /\ WaitPcs \subseteq DeletePcs
         /\ SpawnPcs \cap DeletePcs = {} /\ DataPcs \cap WaitPcs = {}
         /\ req \in [Requests -> RequestType]
<1>1. settled \subseteq Uuid /\ req \in [Requests -> RequestType]
  BY TypeFacts DEF TypeInv, TypeOK
<1>2. \A p \in Requests : /\ req[p].pc \in SpawnPcs => req[p].uuid \in Uuid
                          /\ req[p].pc \in DeletePcs => req[p].uuid \in Uuid
                          /\ req[p].pc \in WaitPcs => req[p].handle \in Uuid
  BY DEF TypeInv, ReqTyped, Prepared
<1>3. /\ DataPcs \subseteq DeletePcs /\ WaitPcs \subseteq DeletePcs
      /\ SpawnPcs \cap DeletePcs = {} /\ DataPcs \cap WaitPcs = {}
  BY DEF DeletePcs, DataPcs, WaitPcs, SpawnPcs
<1>4. QED
  BY <1>1, <1>2, <1>3, ConstantTypes

\* The sets of deletions are as before, and what is quiet keeps its Uploader and its
\* part of the store.
LEMMA SettledFrame ==
  ASSUME TypeInv, SettledInv, \A p \in Requests : Carried(p),
         UNCHANGED <<settled, swept, sweep>>, partitions'.uuid = partitions.uuid,
         \A u \in Uuid : Quiet(u) => part'[u].uploader = part[u].uploader,
         \A u \in settled : u \in manifests' => u \in manifests,
         \A u \in settled : u \in objects' \cap snapshot' => u \in objects \cap snapshot
  PROVE  SettledInv'
<1>1. HandlesOK'
  BY DEF SettledInv, HandlesOK, Carried
<1>2. DeletesOK'
  BY DEF SettledInv, DeletesOK, Carried, SweepAt
<1>3. \A u \in Uuid : Quiet(u) => Quiet(u)'
  <2> SUFFICES ASSUME NEW u \in Uuid, Quiet(u) PROVE Quiet(u)'
    OBVIOUS
  <2>1. partitions'.uuid # u /\ part'[u].uploader \in {"none", "stopped"}
    BY DEF Quiet
  <2>2. QED
    BY <2>1, QuietFrame
<1>4. SettledOK'
  <2>1. ASSUME NEW r \in Requests, NEW u \in Uuid, req'[r].pc \in DataPcs, req'[r].acks,
               req'[r].uuid = u
        PROVE  Quiet(u)'
    <3>1. req[r].pc \in DataPcs /\ req[r].acks /\ req[r].uuid = u
      BY <2>1, SettledTyped DEF Carried
    <3>2. QED
      BY <1>3, <3>1 DEF SettledInv, SettledOK
  <2>2. \A u \in settled' : Quiet(u)'
    BY <1>3, SettledTyped DEF SettledInv, SettledOK
  <2>3. QED
    BY <2>1, <2>2 DEF SettledOK
<1>5. SweepsOK'
  BY DEF SettledInv, SweepsOK
<1>6. QED
  BY <1>1, <1>2, <1>4, <1>5 DEF SettledInv

LEMMA CarriedAll ==
  ASSUME NEW r \in Requests, Others(r), Carried(r)
  PROVE  \A p \in Requests : Carried(p)
  BY DEF Others, Carried

\* An incarnation that is quiet is none of a request's spawn, or wait.
LEMMA QuietApart ==
  ASSUME NEW u \in Uuid, Quiet(u)
  PROVE  /\ partitions.uuid # u /\ part[u].uploader \in {"none", "stopped"}
         /\ \A p \in Requests : /\ req[p].pc \in SpawnPcs => req[p].uuid # u
                                /\ req[p].pc \in WaitPcs => req[p].handle # u
  BY DEF Quiet

\* Steps of a request that leave the map of partitions and the record alone.
LEMMA SettledTaskStep ==
  ASSUME TypeInv, SettledInv, NEW r \in Requests,
         \/ RegistryRejects(r) \/ EnsureFinds(r) \/ PutEmptyManifest(r) \/ CreateFails(r)
         \/ RegistryAlter(r) \/ SpawnEntry(r) \/ SpawnLock(r) \/ SpawnRecover(r)
         \/ SpawnPanics(r) \/ LookupHandle(r) \/ Commit(r) \/ ShutWriter(r) \/ WaitWriter(r) \/ WipeWal(r)
         \/ TakeSnapshot(r) \/ AppendLoad(r) \/ AppendFails(r) \/ TakeHandles(r)
         \/ PushConfig(r) \/ SetHandleConfig(r) \/ Disconnect(r)
  PROVE  SettledInv'
<1> USE DEF diskVars, fileVars, storeVars, memVars, doneVars, histVars
<1>0. req \in [Requests -> RequestType] /\ part \in [Uuid -> PartType]
  BY TypeFacts DEF TypeInv
<1>1. Others(r) /\ Carried(r)
  <2> USE DEF Ended, Moved, Kept, SpawnEnded, Carried, DeletePcs, WaitPcs, DataPcs, SpawnPcs
  <2>1. CASE RegistryRejects(r)
    BY <2>1 DEF RegistryRejects, Others
  <2>2. CASE EnsureFinds(r) \/ PutEmptyManifest(r) \/ CreateFails(r) \/ RegistryAlter(r)
    BY <1>0, <2>2, RegistryMoves
  <2>3. CASE \/ SpawnEntry(r) \/ SpawnLock(r) \/ SpawnRecover(r)
             \/ SpawnPanics(r) \/ LookupHandle(r) \/ Commit(r)
    BY <1>0, <2>3, SpawnMoves
  <2>4. CASE \/ ShutWriter(r) \/ WaitWriter(r) \/ WipeWal(r) \/ TakeSnapshot(r) \/ AppendLoad(r)
             \/ AppendFails(r)
    BY <1>0, <2>4, DeleteMoves
  <2>5. CASE TakeHandles(r) \/ PushConfig(r) \/ SetHandleConfig(r) \/ Disconnect(r)
    BY <1>0, <2>5, AlterMoves
  <2>6. QED
    BY <2>1, <2>2, <2>3, <2>4, <2>5
<1>2. UNCHANGED <<settled, swept, sweep>>
  <2>1. CASE \/ RegistryRejects(r) \/ EnsureFinds(r) \/ PutEmptyManifest(r) \/ CreateFails(r)
             \/ RegistryAlter(r) \/ SpawnEntry(r) \/ SpawnLock(r) \/ SpawnRecover(r)
             \/ SpawnPanics(r) \/ LookupHandle(r) \/ Commit(r)
    BY <2>1
       DEF RegistryRejects, EnsureFinds, PutEmptyManifest, CreateFails, RegistryAlter,
           SpawnEntry, SpawnLock, SpawnRecover, SpawnPanics, LookupHandle, Commit
  <2>2. CASE \/ ShutWriter(r) \/ WaitWriter(r) \/ WipeWal(r) \/ TakeSnapshot(r) \/ AppendLoad(r)
             \/ AppendFails(r) \/ TakeHandles(r) \/ PushConfig(r) \/ SetHandleConfig(r)
             \/ Disconnect(r)
    BY <2>2
       DEF ShutWriter, WaitWriter, WipeWal, TakeSnapshot, AppendLoad, AppendFails, TakeHandles,
           PushConfig, SetHandleConfig, Disconnect
  <2>3. QED
    BY <2>1, <2>2
<1>3. partitions'.uuid = partitions.uuid
  <2>1. CASE SetHandleConfig(r)
    <3>1. \/ partitions = NoTopic /\ partitions' = NoTopic
          \/ partitions # NoTopic /\ partitions' = [partitions EXCEPT !.cfg = req[r].cfg]
      BY <2>1 DEF SetHandleConfig
    <3>2. QED
      BY <3>1 DEF TypeInv, TypeOK, Topic
  <2>2. CASE ~ SetHandleConfig(r)
    <3>1. CASE \/ RegistryRejects(r) \/ EnsureFinds(r) \/ PutEmptyManifest(r) \/ CreateFails(r)
               \/ RegistryAlter(r) \/ SpawnEntry(r) \/ SpawnLock(r) \/ SpawnRecover(r)
               \/ SpawnPanics(r) \/ LookupHandle(r) \/ Commit(r)
      BY <3>1
         DEF RegistryRejects, EnsureFinds, PutEmptyManifest, CreateFails, RegistryAlter,
             SpawnEntry, SpawnLock, SpawnRecover, SpawnPanics, LookupHandle, Commit
    <3>2. CASE \/ ShutWriter(r) \/ WaitWriter(r) \/ WipeWal(r) \/ TakeSnapshot(r) \/ AppendLoad(r)
               \/ AppendFails(r) \/ TakeHandles(r) \/ PushConfig(r) \/ Disconnect(r)
      BY <3>2
         DEF ShutWriter, WaitWriter, WipeWal, TakeSnapshot, AppendLoad, AppendFails, TakeHandles,
             PushConfig, Disconnect
    <3>3. QED
      BY <2>2, <3>1, <3>2
  <2>3. QED
    BY <2>1, <2>2
<1>4. \A u \in Uuid : Quiet(u) => part'[u].uploader = part[u].uploader
  <2> SUFFICES ASSUME NEW u \in Uuid, Quiet(u) PROVE part'[u].uploader = part[u].uploader
    OBVIOUS
  <2>0. part[u] \in PartType
    BY <1>0
  <2>1. CASE SpawnRecover(r)
    <3>1. req[r].pc \in SpawnPcs /\ part' = [part EXCEPT ![req[r].uuid] = Recovered(req[r].uuid, 0)]
      BY <2>1 DEF SpawnRecover, At, SpawnPcs
    <3>2. req[r].uuid # u
      BY <3>1, QuietApart
    <3>3. QED
      BY <1>0, <3>1, <3>2
  <2>s. CASE ShutWriter(r)
    BY <1>0, <2>0, <2>s DEF ShutWriter, PartType
  <2>2. CASE WaitWriter(r)
    <3>1. req[r].pc \in WaitPcs /\ part' = [part EXCEPT ![req[r].handle].uploader = "stopping"]
      BY <2>2 DEF WaitWriter, At, WaitPcs
    <3>2. req[r].handle # u
      BY <3>1, QuietApart
    <3>3. QED
      BY <1>0, <3>1, <3>2
  <2>3. CASE Commit(r)
    BY <1>0, <2>0, <2>3 DEF Commit, PartType
  <2>4. CASE WipeWal(r)
    BY <1>0, <2>0, <2>4 DEF WipeWal, PartType
  <2>5. CASE PushConfig(r)
    BY <1>0, <2>0, <2>5 DEF PushConfig, PartType
  <2>6. CASE \/ RegistryRejects(r) \/ EnsureFinds(r) \/ PutEmptyManifest(r) \/ CreateFails(r)
             \/ RegistryAlter(r) \/ SpawnEntry(r) \/ SpawnLock(r) \/ SpawnPanics(r)
             \/ LookupHandle(r)
    BY <2>6
       DEF RegistryRejects, EnsureFinds, PutEmptyManifest, CreateFails, RegistryAlter,
           SpawnEntry, SpawnLock, SpawnPanics, LookupHandle
  <2>7. CASE \/ TakeSnapshot(r) \/ AppendLoad(r) \/ AppendFails(r) \/ TakeHandles(r)
             \/ SetHandleConfig(r) \/ Disconnect(r)
    BY <2>7
       DEF TakeSnapshot, AppendLoad, AppendFails, TakeHandles, SetHandleConfig, Disconnect
  <2>8. QED
    BY <2>1, <2>s, <2>2, <2>3, <2>4, <2>5, <2>6, <2>7
<1>5. \A u \in settled : u \in manifests' => u \in manifests
  <2> SUFFICES ASSUME NEW u \in settled, u \in manifests' PROVE u \in manifests
    OBVIOUS
  <2>1. CASE PutEmptyManifest(r) \/ CreateFails(r)
    <3>1. req[r].pc \in SpawnPcs /\ manifests' \subseteq manifests \cup {req[r].uuid}
      BY <2>1 DEF PutEmptyManifest, CreateFails, At, SpawnPcs
    <3>2. req[r].uuid # u
      BY <3>1, SettledTyped, QuietApart DEF SettledInv, SettledOK
    <3>3. QED
      BY <3>1, <3>2
  <2>2. CASE ~ PutEmptyManifest(r) /\ ~ CreateFails(r)
    BY <2>2
       DEF RegistryRejects, EnsureFinds, RegistryAlter,
           SpawnEntry, SpawnLock, SpawnRecover, SpawnPanics, LookupHandle, Commit,
           ShutWriter, WaitWriter, WipeWal, TakeSnapshot, AppendLoad, AppendFails, TakeHandles,
           PushConfig, SetHandleConfig, Disconnect
  <2>3. QED
    BY <2>1, <2>2
<1>6. \A u \in settled : u \in objects' \cap snapshot' => u \in objects \cap snapshot
  <2> SUFFICES ASSUME NEW u \in settled, u \in objects' \cap snapshot'
               PROVE  u \in objects \cap snapshot
    OBVIOUS
  <2>1. CASE TakeSnapshot(r)
    <3>1. /\ req[r].pc \in DeletePcs /\ objects' = objects
          /\ snapshot' \subseteq snapshot \cup {req[r].uuid}
      BY <2>1 DEF TakeSnapshot, At, DeletePcs, DataPcs
    <3>2. req[r].uuid # u
      BY <3>1 DEF SettledInv, DeletesOK
    <3>3. QED
      BY <3>1, <3>2
  <2>2. CASE ~ TakeSnapshot(r)
    BY <2>2
       DEF RegistryRejects, EnsureFinds, PutEmptyManifest, CreateFails, RegistryAlter,
           SpawnEntry, SpawnLock, SpawnRecover, SpawnPanics, LookupHandle, Commit,
           ShutWriter, WaitWriter, WipeWal, AppendLoad, AppendFails, TakeHandles,
           PushConfig, SetHandleConfig, Disconnect
  <2>3. QED
    BY <2>1, <2>2
<1>7. QED
  BY <1>1, <1>2, <1>3, <1>4, <1>5, <1>6, CarriedAll, SettledFrame

\* The invariant from its parts, for the steps that change who holds what.
LEMMA SettledFrom ==
  ASSUME TypeInv, SettledInv, HandlesOK', DeletesOK',
         UNCHANGED <<settled, swept, sweep, manifests, objects, snapshot>>,
         \A u \in Uuid : Quiet(u) => Quiet(u)',
         \A r \in Requests : \A u \in Uuid :
           req'[r].pc \in DataPcs /\ req'[r].acks /\ req'[r].uuid = u =>
             Quiet(u)' \/ (req[r].pc \in DataPcs /\ req[r].acks /\ req[r].uuid = u)
  PROVE  SettledInv'
<1>1. SettledOK'
  BY SettledTyped DEF SettledInv, SettledOK
<1>2. SweepsOK'
  BY DEF SettledInv, SweepsOK
<1>3. QED
  BY <1>1, <1>2 DEF SettledInv

\* A new incarnation has a number nobody has used.
LEMMA SettledCreate ==
  ASSUME TypeInv, RetiredInv, SettledInv, NEW r \in Requests, RegistryCreate(r)
  PROVE  SettledInv'
<1> USE SettledTyped DEF diskVars, fileVars, storeVars, memVars, doneVars, histVars
<1>1. /\ UNCHANGED <<settled, swept, sweep, manifests, objects, snapshot, partitions, part>>
      /\ nextUuid \in Uuid
  BY DEF RegistryCreate
<1>2. /\ Others(r) /\ req'[r].pc = "put" /\ req'[r].uuid = nextUuid
      /\ req[r].pc = "idle"
  BY RegistryMoves
<1>3. nextUuid \notin Number
  BY LifecycleAssumption DEF TypeInv, TypeOK, Number
<1>4. /\ partitions.uuid # nextUuid
      /\ \A p \in Requests : req[p].uuid # nextUuid /\ req[p].handle # nextUuid
  BY <1>3, RetiredFacts
<1>5. HandlesOK'
  BY <1>1, <1>2, <1>4 DEF SettledInv, HandlesOK, Others, SpawnPcs, WaitPcs
<1>6. DeletesOK'
  BY <1>1, <1>2 DEF SettledInv, DeletesOK, Others, SweepAt, DeletePcs, WaitPcs, DataPcs
<1>7. ASSUME NEW u \in Uuid, Quiet(u), u # nextUuid PROVE Quiet(u)'
  BY <1>1, <1>2, <1>7 DEF Quiet, Others, SpawnPcs, WaitPcs
<1>8. settled \subseteq Number
  BY RetiredMember DEF RetiredInv, RecordedOK, Numbered
<1>9. SettledOK'
  <2>1. \A u \in settled' : Quiet(u)'
    BY <1>1, <1>3, <1>7, <1>8 DEF SettledInv, SettledOK
  <2>2. ASSUME NEW p \in Requests, NEW u \in Uuid, req'[p].pc \in DataPcs, req'[p].acks,
               req'[p].uuid = u
        PROVE  Quiet(u)'
    <3>1. p # r
      BY <1>2, <2>2 DEF DataPcs
    <3>2. Quiet(u) /\ u # nextUuid
      BY <1>2, <1>4, <2>2, <3>1 DEF SettledInv, SettledOK, Others
    <3>3. QED
      BY <1>7, <3>2
  <2>3. QED
    BY <2>1, <2>2 DEF SettledOK
<1>10. SweepsOK'
  BY <1>1 DEF SettledInv, SweepsOK
<1>11. QED
  BY <1>5, <1>6, <1>9, <1>10 DEF SettledInv

\* The incarnation the registry gives up has not been deleted before.
LEMMA SettledDelete ==
  ASSUME TypeInv, RetiredInv, SettledInv, NEW r \in Requests, RegistryDelete(r)
  PROVE  SettledInv'
<1> USE SettledTyped DEF diskVars, fileVars, storeVars, memVars, doneVars, histVars
<1>1. /\ UNCHANGED <<settled, swept, sweep, manifests, objects, snapshot, partitions, part>>
      /\ topics # NoTopic
  BY DEF RegistryDelete
<1>2. /\ Others(r) /\ req'[r].pc = "remove" /\ req'[r].uuid = topics.uuid
      /\ req[r].pc = "idle"
  BY RegistryMoves
<1>3. topics.uuid \in Uuid
  BY <1>1, ConstantTypes DEF TypeInv, TypeOK
<1>4. /\ topics.uuid \notin Gone
      /\ \A p \in Requests : req[p].pc \in DeletePcs => req[p].uuid # topics.uuid
  BY RetiredFacts, RetiredMember
<1>5. topics.uuid \notin swept \cup settled /\ sweep[topics.uuid].pc = "none"
  BY <1>3, <1>4 DEF RetiredInv, RecordedOK, Gone
<1>6. HandlesOK'
  BY <1>1, <1>2 DEF SettledInv, HandlesOK, Others, SpawnPcs, WaitPcs
<1>7. DeletesOK'
  BY <1>1, <1>2, <1>4, <1>5 DEF SettledInv, DeletesOK, Others, SweepAt
<1>8. \A u \in Uuid : Quiet(u) => Quiet(u)'
  BY <1>1, <1>2 DEF Quiet, Others, SpawnPcs, WaitPcs
<1>9. \A p \in Requests : req'[p].pc \in DataPcs => req'[p] = req[p]
  BY <1>2 DEF Others, DataPcs
<1>10. QED
  BY <1>1, <1>6, <1>7, <1>8, <1>9, SettledFrom

\* The handle goes from the task that spawned into the map.
LEMMA SettledInsert ==
  ASSUME TypeInv, SettledInv, NEW r \in Requests, SpawnInsert(r)
  PROVE  SettledInv'
<1> USE SettledTyped DEF diskVars, fileVars, storeVars, memVars, doneVars, histVars
<1>1. /\ UNCHANGED <<settled, swept, sweep, manifests, objects, snapshot, part>>
      /\ partitions'.uuid = req[r].uuid
  BY DEF SpawnInsert
<1>2. /\ Others(r) /\ req[r].pc = "insert" /\ req'[r].pc \in {"idle", "lookup"}
  BY SpawnMoves DEF SpawnEnded
<1>3. HandlesOK'
  BY <1>1, <1>2 DEF SettledInv, HandlesOK, Others, SpawnPcs, WaitPcs
<1>4. DeletesOK'
  BY <1>1, <1>2 DEF SettledInv, DeletesOK, Others, SweepAt, DeletePcs, WaitPcs, DataPcs
<1>5. \A u \in Uuid : Quiet(u) => Quiet(u)'
  BY <1>1, <1>2 DEF Quiet, Others, SpawnPcs, WaitPcs
<1>6. \A p \in Requests : req'[p].pc \in DataPcs => req'[p] = req[p]
  BY <1>2 DEF Others, DataPcs
<1>7. QED
  BY <1>1, <1>3, <1>4, <1>5, <1>6, SettledFrom

\* It goes from the map to the deletion, which waits for its tasks ...
LEMMA SettledRemove ==
  ASSUME TypeInv, SettledInv, NEW r \in Requests, RemoveHandle(r)
  PROVE  SettledInv'
<1> USE SettledTyped DEF diskVars, fileVars, storeVars, memVars, doneVars, histVars
<1>1. /\ UNCHANGED <<settled, swept, sweep, manifests, objects, snapshot>>
      /\ partitions'.uuid = 0 /\ partitions' = NoTopic
  BY DEF RemoveHandle, DropLock
<1>2. part' = part
  BY DEF RemoveHandle
<1>3. /\ Others(r) /\ req[r].pc = "remove"
      /\ \/ req'[r].pc = "idle"
         \/ req'[r].pc = "wipe" /\ ~ req'[r].acks /\ req'[r].uuid = req[r].uuid
         \/ /\ req'[r].pc = "shutwriter" /\ req'[r].uuid = req[r].uuid
            /\ req'[r].handle = partitions.uuid /\ partitions.uuid # 0
  <2>1. partitions # NoTopic => partitions.uuid # 0
    BY ConstantTypes DEF TypeInv, TypeOK
  <2>2. QED
    BY <2>1, DeleteMoves DEF Dropped, Ended
<1>4. HandlesOK'
  BY <1>1, <1>3 DEF SettledInv, HandlesOK, Others, SpawnPcs, WaitPcs
<1>5. DeletesOK'
  BY <1>1, <1>3 DEF SettledInv, DeletesOK, Others, SweepAt, DeletePcs, WaitPcs, DataPcs
<1>6. \A u \in Uuid : Quiet(u) => Quiet(u)'
  BY <1>1, <1>2, <1>3 DEF Quiet, Others, SpawnPcs, WaitPcs
<1>7. \A p \in Requests : req'[p].pc \in DataPcs /\ req'[p].acks => req'[p] = req[p]
  BY <1>3 DEF Others, DataPcs
<1>8. QED
  BY <1>1, <1>4, <1>5, <1>6, <1>7, SettledFrom

\* ... and, once the Uploader has acked, nobody has it.
LEMMA SettledWait ==
  ASSUME TypeInv, SettledInv, NEW r \in Requests, WaitUploader(r)
  PROVE  SettledInv'
<1> USE SettledTyped DEF diskVars, fileVars, storeVars, memVars, doneVars, histVars
<1>1. UNCHANGED <<settled, swept, sweep, manifests, objects, snapshot, partitions, part>>
  BY DEF WaitUploader, DropLock
<1>2. /\ Others(r) /\ req[r].pc = "waituploader"
      /\ \/ req'[r].pc = "idle"
         \/ req'[r].pc = "wipe" /\ req'[r].uuid = req[r].uuid
      /\ req'[r].pc = "wipe" /\ req'[r].acks =>
           part[req[r].handle].uploader = "stopped" /\ req[r].handle = req[r].uuid
  BY DeleteMoves DEF Dropped, Ended
<1>3. HandlesOK'
  BY <1>1, <1>2 DEF SettledInv, HandlesOK, Others, SpawnPcs, WaitPcs
<1>4. DeletesOK'
  BY <1>1, <1>2 DEF SettledInv, DeletesOK, Others, SweepAt, DeletePcs, WaitPcs, DataPcs
<1>5. \A u \in Uuid : Quiet(u) => Quiet(u)'
  BY <1>1, <1>2 DEF Quiet, Others, SpawnPcs, WaitPcs
<1>6. ASSUME NEW u \in Uuid, req'[r].pc \in DataPcs, req'[r].acks, req'[r].uuid = u
      PROVE  Quiet(u)'
  <2>1. /\ req[r].handle = u /\ req[r].pc \in WaitPcs /\ part[u].uploader = "stopped"
        /\ req'[r].pc = "wipe"
    BY <1>2, <1>6 DEF DataPcs, WaitPcs
  <2>2. /\ partitions.uuid # u
        /\ \A p \in Requests : /\ req[p].pc \in SpawnPcs => req[p].uuid # u
                               /\ req[p].pc \in WaitPcs /\ p # r => req[p].handle # u
    BY <2>1 DEF SettledInv, HandlesOK
  <2>3. QED
    BY <1>1, <1>2, <2>1, <2>2 DEF Quiet, Others, SpawnPcs, WaitPcs
<1>7. \A p \in Requests : p # r => req'[p] = req[p]
  BY <1>2 DEF Others
<1>8. QED
  BY <1>1, <1>3, <1>4, <1>5, <1>6, <1>7, SettledFrom

\* The deletion is answered, and its sweep begins.
LEMMA SettledAppend ==
  ASSUME TypeInv, SettledInv, NEW r \in Requests, AppendWrite(r)
  PROVE  SettledInv'
<1> USE SettledTyped DEF diskVars, fileVars, storeVars, memVars, doneVars, histVars
<1>1. /\ UNCHANGED <<swept, manifests, objects, snapshot, partitions, part>>
      /\ sweep' = [sweep EXCEPT ![req[r].uuid] = [NoSweep EXCEPT !.pc = "snapshot"]]
      /\ settled' = IF req[r].acks THEN settled \cup {req[r].uuid} ELSE settled
  BY DEF AppendWrite
<1>2. Others(r) /\ req[r].pc = "persist" /\ req'[r].pc = "idle"
  BY DeleteMoves DEF Ended
<1>3. /\ req[r].pc \in DeletePcs /\ req[r].pc \in DataPcs /\ req[r].uuid \in Uuid
  BY <1>2 DEF DeletePcs, DataPcs
<1>4. /\ sweep'[req[r].uuid].pc = "snapshot"
      /\ \A u \in Uuid : u # req[r].uuid => sweep'[u] = sweep[u]
  BY <1>1, <1>3, TypeFacts DEF TypeInv, NoSweep
<1>5. HandlesOK'
  BY <1>1, <1>2 DEF SettledInv, HandlesOK, Others, SpawnPcs, WaitPcs
<1>6. DeletesOK'
  <2>1. \A p \in Requests : p # r /\ req[p].pc \in DeletePcs => req[p].uuid # req[r].uuid
    BY <1>3 DEF SettledInv, DeletesOK
  <2>2. QED
    BY <1>1, <1>2, <1>4, <2>1 DEF SettledInv, DeletesOK, Others, SweepAt, DeletePcs, WaitPcs, DataPcs
<1>7. \A u \in Uuid : Quiet(u) => Quiet(u)'
  BY <1>1, <1>2 DEF Quiet, Others, SpawnPcs, WaitPcs
<1>8. SettledOK'
  <2>1. \A u \in settled' : u \in Uuid /\ Quiet(u)
    BY <1>1, <1>3 DEF SettledInv, SettledOK
  <2>2. \A p \in Requests : req'[p].pc \in DataPcs => req'[p] = req[p]
    BY <1>2 DEF Others, DataPcs
  <2>3. QED
    BY <1>7, <2>1, <2>2 DEF SettledInv, SettledOK
<1>9. SweepsOK'
  <2>1. req[r].uuid \notin swept \cup settled
    BY <1>3 DEF SettledInv, DeletesOK
  <2>2. QED
    BY <1>1, <1>4, <2>1 DEF SettledInv, SweepsOK
<1>10. QED
  BY <1>5, <1>6, <1>8, <1>9 DEF SettledInv

\* Nobody uploads for an incarnation that is quiet.
LEMMA SettledPartitionStep ==
  ASSUME TypeInv, SettledInv, NEW u \in Uuid, PartitionStep(u)
  PROVE  SettledInv'
<1> USE SettledTyped DEF diskVars, fileVars, storeVars, memVars, doneVars, histVars
<1>0. part \in [Uuid -> PartType] /\ \A v \in Uuid : part[v] \in PartType
  BY TypeFacts DEF TypeInv
<1>1. /\ UNCHANGED <<settled, swept, sweep, partitions, req, manifests, snapshot>>
      /\ objects' \in {objects, objects \cup {u}}
  BY DEF PartitionStep, Upload, UploadFails, WriterStops, UploaderStops
<1>2. CASE part[u].uploader \in {"running", "stopping"}
  <2>1. ~ Quiet(u)
    BY <1>2 DEF Quiet
  <2>2. u \notin settled
    BY <2>1 DEF SettledInv, SettledOK
  <2>3. \A v \in Uuid : v # u => part'[v] = part[v]
    BY <1>0 DEF PartitionStep, Upload, UploadFails, WriterStops, UploaderStops
  <2>4. \A p \in Requests : Carried(p)
    BY <1>1 DEF Carried
  <2>5. QED
    BY <1>1, <2>1, <2>2, <2>3, <2>4, SettledFrame
<1>3. CASE WriterStops(u)
  <2>1. \A v \in Uuid : part'[v].uploader = part[v].uploader
    BY <1>0, <1>3 DEF WriterStops, PartType
  <2>2. objects' = objects /\ \A p \in Requests : Carried(p)
    BY <1>1, <1>3 DEF WriterStops, Carried
  <2>3. QED
    BY <1>1, <2>1, <2>2, SettledFrame
<1>4. QED
  BY <1>2, <1>3 DEF PartitionStep, Upload, UploadFails, UploaderStops

\* What a sweep has removed stays removed while it goes on, and when it is cut short.
LEMMA SettledSweepStep ==
  ASSUME TypeInv, SettledInv, NEW u \in Uuid, SweepStep(u)
  PROVE  SettledInv'
<1> USE SettledTyped DEF diskVars, fileVars, storeVars, memVars, doneVars, histVars
<1>0. sweep \in [Uuid -> SweepType] /\ sweep[u] \in SweepType
  BY TypeFacts DEF TypeInv
<1>1. /\ UNCHANGED <<settled, partitions, part, req, snapshot>>
      /\ objects' \subseteq objects /\ manifests' \subseteq manifests
      /\ swept' \in {swept, swept \cup {u}} /\ sweep[u].pc # "none"
  BY DEF SweepStep, SweepSnapshot, SweepList, SweepLoad, SweepWrite, SweepAt
<1>2. \A v \in Uuid : v # u => sweep'[v] = sweep[v]
  BY <1>0
     DEF SweepStep, SweepSnapshot, SweepList, SweepLoad, SweepWrite, SweepGoto, SweepEnds
<1>3. HandlesOK'
  BY <1>1 DEF SettledInv, HandlesOK
<1>4. DeletesOK'
  BY <1>1, <1>2 DEF SettledInv, DeletesOK, SweepAt
<1>5. SettledOK'
  BY <1>1 DEF SettledInv, SettledOK, Quiet
<1>6. SweepsOK'
  <2> SUFFICES ASSUME NEW v \in settled,
                      v \in swept' \/ sweep'[v].pc \in {"list", "remove", "persist"}
               PROVE  v \notin manifests' /\ v \notin objects' \cap snapshot'
    BY <1>1 DEF SweepsOK
  <2>1. CASE v # u
    BY <1>1, <1>2, <2>1 DEF SettledInv, SweepsOK
  <2>2. CASE v = u /\ (v \in swept \/ sweep[v].pc \in {"list", "remove", "persist"})
    BY <1>1, <2>2 DEF SettledInv, SweepsOK
  <2>3. CASE v = u /\ v \notin swept /\ sweep[v].pc \notin {"list", "remove", "persist"}
    <3>1. SweepSnapshot(u)
      BY <2>3 DEF SweepStep, SweepList, SweepLoad, SweepWrite, SweepAt
    <3>2. CASE SweepEnds(u) /\ UNCHANGED manifests
      BY <1>0, <2>3, <3>1, <3>2 DEF SweepSnapshot, SweepEnds, NoSweep
    <3>3. CASE objects' = objects \ ({u} \cap snapshot) /\ manifests' = manifests \ {u}
      BY <1>1, <2>3, <3>3
    <3>4. QED
      BY <3>1, <3>2, <3>3 DEF SweepSnapshot
  <2>4. QED
    BY <2>1, <2>2, <2>3
<1>7. QED
  BY <1>3, <1>4, <1>5, <1>6 DEF SettledInv

\* A crash leaves no task; a start spawns only what topics.json lists.
LEMMA SettledBoot ==
  ASSUME TypeInv, RetiredInv, SettledInv, Crash \/ Boot
  PROVE  SettledInv'
<1> USE SettledTyped DEF diskVars, fileVars, storeVars, memVars, doneVars, histVars
<1>1. UNCHANGED <<settled, swept, manifests, objects, snapshot>>
  BY DEF Crash, Boot
<1>2. \A r \in Requests : req'[r].pc = "idle"
  <2>1. CASE Crash
    BY <2>1 DEF Crash, Idle
  <2>2. CASE Boot
    BY <2>2 DEF Boot, TypeInv, DownOK, Idle
  <2>3. QED
    BY <2>1, <2>2
<1>3. \A u \in Uuid : sweep'[u].pc \in {"none", "snapshot"}
  BY DEF Crash, Boot, NoSweep
<1>4. HandlesOK' /\ DeletesOK'
  BY <1>2 DEF HandlesOK, DeletesOK, SpawnPcs, WaitPcs, DataPcs, DeletePcs
<1>5. \A u \in settled : Quiet(u)'
  <2> SUFFICES ASSUME NEW u \in settled PROVE Quiet(u)'
    OBVIOUS
  <2>1. partitions'.uuid # u /\ part'[u].uploader \in {"none", "stopped"}
    <3>1. CASE Crash
      BY <3>1 DEF Crash, NoPart
    <3>2. CASE Boot
      <4>1. /\ partitions' = topicsFile
            /\ topicsFile = NoTopic => part' = part
            /\ topicsFile # NoTopic =>
                 part' = [part EXCEPT ![topicsFile.uuid] =
                            Recovered(topicsFile.uuid, topicsFile.cfg)]
        BY <3>2 DEF Boot
      <4>2. topicsFile.uuid # u
        BY RetiredFacts, RetiredMember DEF RetiredInv, RecordedOK
      <4>3. part'[u] = part[u]
        BY <4>1, <4>2, TypeFacts DEF TypeInv
      <4>4. part[u].uploader \in {"none", "stopped"}
        BY QuietApart DEF SettledInv, SettledOK
      <4>5. QED
        BY <4>1, <4>2, <4>3, <4>4
    <3>3. QED
      BY <3>1, <3>2
  <2>2. QED
    BY <1>2, <2>1 DEF Quiet, SpawnPcs, WaitPcs
<1>6. SettledOK'
  BY <1>1, <1>2, <1>5 DEF SettledOK, DataPcs
<1>7. SweepsOK'
  BY <1>1, <1>3 DEF SettledInv, SweepsOK
<1>8. QED
  BY <1>4, <1>6, <1>7 DEF SettledInv

LEMMA SettledStep ==
  ASSUME TypeInv, RetiredInv, SettledInv, [Next]_vars
  PROVE  SettledInv'
<1>1. ASSUME NEW r \in Requests, RequestStep(r) \/ Disconnect(r) PROVE SettledInv'
  BY <1>1, SettledTaskStep, SettledCreate, SettledDelete, SettledInsert, SettledRemove,
     SettledWait, SettledAppend DEF RequestStep
<1>2. CASE OtherTopicWrites \/ StrayLands \/ UNCHANGED vars
  <2>1. UNCHANGED <<settled, swept, sweep, partitions, part, req, manifests, objects, snapshot>>
    BY <1>2 DEF OtherTopicWrites, StrayLands, vars, diskVars, fileVars, storeVars, memVars, doneVars, histVars
  <2>2. \A p \in Requests : Carried(p)
    BY <2>1 DEF Carried
  <2>3. QED
    BY <2>1, <2>2, SettledFrame
<1>3. QED
  BY <1>1, <1>2, SettledPartitionStep, SettledSweepStep, SettledBoot DEF Next

LEMMA SettledInit == Init => SettledInv
<1> SUFFICES ASSUME Init PROVE SettledInv
  OBVIOUS
<1>1. /\ \A r \in Requests : req[r].pc = "idle"
      /\ \A u \in Uuid : sweep[u].pc = "none" /\ part[u].uploader = "none"
      /\ partitions.uuid = 0 /\ swept = {} /\ settled \subseteq Uuid
  BY TypeInit, ConstantTypes DEF Init, Idle, NoSweep, NoPart, TypeInv, TypeOK
<1>2. HandlesOK /\ DeletesOK
  BY <1>1 DEF HandlesOK, DeletesOK, SpawnPcs, WaitPcs, DataPcs, DeletePcs
<1>3. \A u \in Uuid : Quiet(u)
  BY <1>1, ConstantTypes DEF Quiet, SpawnPcs, WaitPcs
<1>4. SettledOK
  BY <1>1, <1>3 DEF SettledOK
<1>5. SweepsOK
  BY <1>1 DEF SweepsOK
<1>6. QED
  BY <1>2, <1>4, <1>5 DEF SettledInv

\* When writer and Uploader have acked their Shutdown, a sweep that has run to its
\* end, perhaps in pieces over several starts, leaves neither the manifest nor a
\* segment its snapshot names: no task of a late create, commit or upload brings
\* them back (deletion.rs, handle_delete_topic).
THEOREM SweepsFinish == Spec => []SweepComplete
<1>1. TypeInv /\ RetiredInv /\ SettledInv /\ [Next]_vars => SettledInv'
  BY SettledStep
<1>2. SettledInv => SweepComplete
  BY DEF SettledInv, SweepsOK, SweepComplete
<1>3. QED
  BY <1>1, <1>2, SettledInit, TypeHolds, RetiredHolds, PTL DEF Spec

-----------------------------------------------------------------------------
(* The locks *)

\* Where a request has the start lock of its partition.
LockPcs == {"recover", "insert"}

SpawnLocksOK ==
  /\ \A l : l \in held <=> \E r \in Requests : req[r].pc \in LockPcs /\ req[r].lock = l
  /\ \A r, q \in Requests :
       req[r].pc \in LockPcs /\ req[q].pc \in LockPcs /\ req[r].lock = req[q].lock => r = q

FileHeldOK ==
  fileLock => \/ \E r \in Requests : req[r].pc = "persist"
              \/ \E u \in Uuid : sweep[u].pc = "persist"

\* Steps outside the locks.
LEMMA SpawnLocksFrame ==
  ASSUME SpawnLocksOK, held' = held,
         \A p \in Requests : req'[p].pc \in LockPcs <=> req[p].pc \in LockPcs,
         \A p \in Requests : req[p].pc \in LockPcs => req'[p].lock = req[p].lock
  PROVE  SpawnLocksOK'
  BY DEF SpawnLocksOK

LEMMA FileHeldFrame ==
  ASSUME FileHeldOK, fileLock' => fileLock,
         \A p \in Requests : req[p].pc = "persist" => req'[p].pc = "persist",
         \A u \in Uuid : sweep[u].pc = "persist" => sweep'[u].pc = "persist"
  PROVE  FileHeldOK'
  BY DEF FileHeldOK

\* A request lets go of its start lock.
LEMMA SpawnLocksDrop ==
  ASSUME SpawnLocksOK, NEW r \in Requests, req[r].pc \in LockPcs,
         held' = held \ {req[r].lock}, Others(r), req'[r].pc \notin LockPcs
  PROVE  SpawnLocksOK'
  BY DEF SpawnLocksOK, Others

\* A request step that has nothing to do with a lock.
LEMMA LocksApart ==
  ASSUME SpawnLocksOK, FileHeldOK, NEW r \in Requests, Others(r),
         UNCHANGED <<held, fileLock, sweep>>,
         req[r].pc \notin LockPcs \cup {"persist"}, req'[r].pc \notin LockPcs
  PROVE  SpawnLocksOK' /\ FileHeldOK'
  BY SpawnLocksFrame, FileHeldFrame DEF Others

LEMMA LocksRequestStep ==
  ASSUME TypeInv, SpawnLocksOK, FileHeldOK, NEW r \in Requests,
         RequestStep(r) \/ Disconnect(r)
  PROVE  SpawnLocksOK' /\ FileHeldOK'
<1> USE DEF memVars
<1>0. req \in [Requests -> RequestType] /\ req[r] \in RequestType
  BY TypeFacts DEF TypeInv
<1>1. CASE RegistryRejects(r)
  BY <1>1, SpawnLocksFrame, FileHeldFrame DEF RegistryRejects
<1>2. CASE \/ EnsureFinds(r) \/ RegistryCreate(r) \/ PutEmptyManifest(r) \/ CreateFails(r)
           \/ RegistryDelete(r) \/ RegistryAlter(r)
  <2>1. req[r].pc \in {"idle", "put"} /\ UNCHANGED <<held, fileLock, sweep>>
    BY <1>2 DEF EnsureFinds, RegistryCreate, PutEmptyManifest, CreateFails, RegistryDelete,
                RegistryAlter, Arrives, At
  <2>2. Others(r) /\ req'[r].pc \notin LockPcs
    BY <1>0, <1>2, RegistryMoves DEF SpawnEnded, Ended, Moved, LockPcs
  <2>3. QED
    BY <2>1, <2>2, LocksApart DEF LockPcs
<1>3. CASE SpawnEntry(r) \/ LookupHandle(r) \/ Commit(r)
  <2>1. /\ req[r].pc \in {"spawn", "lookup", "commit"}
        /\ UNCHANGED <<held, fileLock, sweep>>
    BY <1>3 DEF SpawnEntry, LookupHandle, Commit, At
  <2>2. Others(r) /\ req'[r].pc \notin LockPcs
    BY <1>0, <1>3, SpawnMoves DEF SpawnEnded, Ended, Moved, LockPcs
  <2>3. QED
    BY <2>1, <2>2, LocksApart DEF LockPcs
<1>4. CASE SpawnLock(r)
  <2>1. /\ req[r].pc = "lock" /\ req[r].lock \notin held
        /\ UNCHANGED <<fileLock, sweep>>
    BY <1>4 DEF SpawnLock, At
  <2>2. CASE Spawned(r) /\ UNCHANGED held
    <3>1. Others(r) /\ req'[r].pc \notin LockPcs
      BY <1>0, <2>2, SpawnedMoves DEF SpawnEnded, LockPcs
    <3>2. QED
      BY <2>1, <2>2, <3>1, LocksApart DEF LockPcs
  <2>3. CASE held' = held \cup {req[r].lock} /\ Goto(r, [req[r] EXCEPT !.pc = "recover"])
    <3>1. Others(r) /\ req'[r].pc = "recover" /\ req'[r].lock = req[r].lock
      BY <1>0, <2>3 DEF Goto, Others, RequestType
    <3>2. SpawnLocksOK'
      BY <2>1, <2>3, <3>1 DEF SpawnLocksOK, Others, LockPcs
    <3>3. QED
      BY <2>1, <3>1, <3>2, FileHeldFrame DEF Others
  <2>4. QED
    BY <1>4, <2>2, <2>3 DEF SpawnLock
<1>5. CASE SpawnRecover(r)
  <2>1. /\ req[r].pc = "recover" /\ UNCHANGED <<held, fileLock, sweep>>
        /\ Goto(r, [req[r] EXCEPT !.pc = "insert"])
    BY <1>5 DEF SpawnRecover, At
  <2>2. Others(r) /\ req'[r].pc = "insert" /\ req'[r].lock = req[r].lock
    BY <1>0, <2>1 DEF Goto, Others, RequestType
  <2>3. QED
    BY <2>1, <2>2, SpawnLocksFrame, FileHeldFrame DEF Others, LockPcs
<1>6. CASE SpawnPanics(r) \/ SpawnInsert(r)
  <2>1. /\ req[r].pc \in LockPcs /\ held' = held \ {req[r].lock}
        /\ UNCHANGED <<fileLock, sweep>>
    BY <1>6 DEF SpawnPanics, SpawnInsert, At, LockPcs
  <2>2. Others(r) /\ req'[r].pc \in {"idle", "lookup"}
    BY <1>0, <1>6, SpawnMoves DEF Ended, SpawnEnded
  <2>3. QED
    BY <2>1, <2>2, SpawnLocksDrop, FileHeldFrame DEF Others, LockPcs
<1>7. CASE \/ RemoveHandle(r) \/ ShutWriter(r) \/ WaitWriter(r) \/ WaitUploader(r)
           \/ WipeWal(r) \/ TakeSnapshot(r)
  <2>1. /\ req[r].pc \in {"remove", "shutwriter", "waitwriter", "waituploader", "wipe",
                          "snapshot"}
        /\ UNCHANGED <<held, fileLock, sweep>>
    BY <1>7 DEF RemoveHandle, DropLock, ShutWriter, WaitWriter, WaitUploader, WipeWal,
                TakeSnapshot, At
  <2>2. Others(r) /\ req'[r].pc \notin LockPcs
    BY <1>0, <1>7, DeleteMoves DEF Dropped, Ended, Moved, LockPcs
  <2>3. QED
    BY <2>1, <2>2, LocksApart DEF LockPcs
<1>8. CASE AppendLoad(r)
  <2>1. Moved(r, "append", "persist") /\ held' = held
    BY <1>0, <1>8, DeleteMoves DEF AppendLoad
  <2>2. SpawnLocksOK'
    BY <2>1, SpawnLocksFrame DEF Moved, Others, LockPcs
  <2>3. QED
    BY <2>1, <2>2 DEF FileHeldOK, Moved
<1>9. CASE AppendWrite(r) \/ AppendFails(r)
  <2>1. req[r].pc = "persist" /\ held' = held /\ fileLock' = FALSE
    BY <1>9 DEF AppendWrite, AppendFails, At
  <2>2. Ended(r)
    BY <1>0, <1>9, DeleteMoves
  <2>3. SpawnLocksOK'
    BY <2>1, <2>2, SpawnLocksFrame DEF Ended, Others, LockPcs
  <2>4. QED
    BY <2>1, <2>3 DEF FileHeldOK
<1>10. CASE TakeHandles(r) \/ PushConfig(r) \/ SetHandleConfig(r)
  <2>1. req[r].pc \in {"handles", "push", "setcfg"} /\ UNCHANGED <<held, fileLock, sweep>>
    BY <1>10 DEF TakeHandles, PushConfig, SetHandleConfig, At
  <2>2. Others(r) /\ req'[r].pc \notin LockPcs
    BY <1>0, <1>10, AlterMoves DEF Ended, Moved, LockPcs
  <2>3. QED
    BY <2>1, <2>2, LocksApart DEF LockPcs
<1>11. CASE Disconnect(r)
  <2>1. /\ held' = IF req[r].pc \in LockPcs THEN held \ {req[r].lock} ELSE held
        /\ fileLock' = (fileLock /\ req[r].pc # "persist")
        /\ sweep' = sweep
    BY <1>11 DEF Disconnect, At, LockPcs
  <2>2. Others(r) /\ req'[r].pc \notin LockPcs
    BY <1>0, <1>11, AlterMoves DEF Ended, Moved, LockPcs
  <2>3. SpawnLocksOK'
    <3>1. CASE req[r].pc \in LockPcs
      BY <2>1, <2>2, <3>1, SpawnLocksDrop
    <3>2. CASE req[r].pc \notin LockPcs
      BY <2>1, <2>2, <3>2, SpawnLocksFrame DEF Others
    <3>3. QED
      BY <3>1, <3>2
  <2>4. FileHeldOK'
    <3>1. CASE req[r].pc = "persist"
      BY <2>1, <3>1 DEF FileHeldOK
    <3>2. CASE req[r].pc # "persist"
      BY <2>1, <2>2, <3>2, FileHeldFrame DEF Others
    <3>3. QED
      BY <3>1, <3>2
  <2>5. QED
    BY <2>3, <2>4
<1>12. QED
  BY <1>1, <1>2, <1>3, <1>4, <1>5, <1>6, <1>7, <1>8, <1>9, <1>10, <1>11 DEF RequestStep

LEMMA LocksStep ==
  ASSUME TypeInv, SpawnLocksOK, FileHeldOK, [Next]_vars
  PROVE  SpawnLocksOK' /\ FileHeldOK'
<1> USE DEF memVars
<1>1. ASSUME UNCHANGED <<held, fileLock, req, sweep>> PROVE SpawnLocksOK' /\ FileHeldOK'
  BY <1>1, SpawnLocksFrame, FileHeldFrame
<1>2. ASSUME NEW u \in Uuid, PartitionStep(u) PROVE SpawnLocksOK' /\ FileHeldOK'
  BY <1>1, <1>2 DEF PartitionStep, Upload, UploadFails, WriterStops, UploaderStops
<1>3. ASSUME NEW u \in Uuid, SweepStep(u) PROVE SpawnLocksOK' /\ FileHeldOK'
  <2>1. UNCHANGED <<held, req>> /\ sweep \in [Uuid -> SweepType]
    BY <1>3, TypeFacts
       DEF TypeInv, SweepStep, SweepSnapshot, SweepList, SweepLoad, SweepWrite
  <2>2. SpawnLocksOK'
    BY <2>1, SpawnLocksFrame
  <2>3. CASE SweepSnapshot(u) \/ SweepList(u)
    <3>1. /\ sweep[u].pc \in {"snapshot", "list"} /\ fileLock' = fileLock
          /\ \A v \in Uuid : v # u => sweep'[v] = sweep[v]
      BY <2>1, <2>3 DEF SweepSnapshot, SweepList, SweepAt, SweepGoto, SweepEnds
    <3>2. QED
      BY <2>1, <2>2, <3>1, FileHeldFrame
  <2>4. CASE SweepLoad(u)
    BY <2>1, <2>2, <2>4 DEF SweepLoad, FileHeldOK
  <2>5. CASE SweepWrite(u)
    BY <2>2, <2>5 DEF SweepWrite, FileHeldOK
  <2>6. QED
    BY <1>3, <2>3, <2>4, <2>5 DEF SweepStep
<1>4. CASE OtherTopicWrites \/ StrayLands \/ UNCHANGED vars
  BY <1>1, <1>4 DEF OtherTopicWrites, StrayLands, vars
<1>5. CASE Crash \/ Boot
  <2>1. held' = {} /\ fileLock' = FALSE /\ \A r \in Requests : req'[r] = Idle
    <3>1. CASE Crash
      BY <3>1 DEF Crash
    <3>2. CASE Boot
      BY <3>2 DEF Boot, TypeInv, DownOK
    <3>3. QED
      BY <1>5, <3>1, <3>2
  <2>2. \A r \in Requests : req'[r].pc \notin LockPcs
    BY <2>1 DEF Idle, LockPcs
  <2>3. QED
    BY <2>1, <2>2 DEF SpawnLocksOK, FileHeldOK
<1>6. QED
  BY <1>2, <1>3, <1>4, <1>5, LocksRequestStep DEF Next

\* A lock that is taken has one owner, inside the section the lock is for, for any
\* number of requests, sweeps and restarts: a recovery that panics, an aborted task
\* or a failed write never leaves a partition's start lock (spawn_partition) or
\* FILE_LOCK (pending_deletes.rs) taken with everybody behind it.
THEOREM LocksComeBack == Spec => []LocksReleased
<1>1. Init => SpawnLocksOK /\ FileHeldOK
  <2> SUFFICES ASSUME Init PROVE SpawnLocksOK /\ FileHeldOK
    OBVIOUS
  <2>1. /\ held = {} /\ fileLock = FALSE
        /\ \A r \in Requests : req[r].pc \notin LockPcs
    BY DEF Init, Idle, LockPcs
  <2>2. QED
    BY <2>1 DEF SpawnLocksOK, FileHeldOK
<1>2. TypeInv /\ SpawnLocksOK /\ FileHeldOK /\ [Next]_vars => SpawnLocksOK' /\ FileHeldOK'
  BY LocksStep
<1>3. PendingInv /\ SpawnLocksOK /\ FileHeldOK => LocksReleased
  <2> SUFFICES ASSUME PendingInv, SpawnLocksOK, FileHeldOK PROVE LocksReleased
    OBVIOUS
  <2> DEFINE spawning == {r \in Requests : req[r].pc \in {"recover", "insert"}}
  <2>1. held = {req[r].lock : r \in spawning}
    BY DEF SpawnLocksOK, LockPcs
  <2>2. \A r, q \in spawning : req[r].lock = req[q].lock => r = q
    BY DEF SpawnLocksOK, LockPcs
  <2>3. fileLock <=> \/ \E r \in Requests : At(r, "persist")
                     \/ \E u \in Uuid : SweepAt(u, "persist")
    BY DEF FileHeldOK, PendingInv, FileLockOK, At, SweepAt
  <2>4. QED
    BY <2>1, <2>2, <2>3 DEF LocksReleased
<1>4. QED
  BY <1>1, <1>2, <1>3, TypeHolds, PendingHolds, PTL DEF Spec
=============================================================================
