--------------------------- MODULE TopicLifecycle ---------------------------
(***************************************************************************)
(* One topic name through creation, auto-creation, configuration changes,  *)
(* deletion and re-creation, with any number of requests under way at      *)
(* once, the registry actor, the deletion sweeps, crashes and restarts.    *)
(*                                                                         *)
(* Abstractions.                                                           *)
(*  - The topic has one partition; the loops over partitions do the same   *)
(*    for each.  Other topics appear only through the whole-file rewrites  *)
(*    of topics.json.                                                      *)
(*  - A uuid is the number of the topic's incarnation.  A record is the    *)
(*    incarnation whose producer was acked; offsets are left out, so WAL   *)
(*    files and objects are sets of such records.  PartitionLog has the    *)
(*    offsets, and the steps between manifest and WAL removal.             *)
(*  - A configuration is the number of AlterTopicConfig patches merged     *)
(*    into it.  The Uploader's copy is pushed like the writer's.           *)
(*  - A step that waits for a writer or an Uploader without a timeout (a   *)
(*    send to a full channel, the ack of a Produce) may be taken at any    *)
(*    time and need not be taken at all: the specification has no          *)
(*    fairness, and a request may stop anywhere.                           *)
(***************************************************************************)
EXTENDS Naturals, FiniteSets

CONSTANTS Requests,   \* request tasks
          MaxStarts,  \* bound: requests started
          MaxUuids,   \* bound: incarnations of the topic
          MaxAlters,  \* bound: patches merged into one incarnation
          MaxBoots,   \* bound: starts of the broker
          AutoCreate, \* auto_create_topics
          Disconnects \* clients may go away in the middle of a request

ASSUME LifecycleAssumption ==
  /\ MaxStarts \in Nat /\ MaxUuids \in Nat \ {0}
  /\ MaxAlters \in Nat /\ MaxBoots \in Nat \ {0}
  /\ AutoCreate \in BOOLEAN /\ Disconnects \in BOOLEAN

Uuid   == 1 .. MaxUuids
NoUuid == 0
Topic  == [uuid : Uuid, cfg : 0 .. MaxAlters]

VARIABLES
  \* local disk
  topicsFile,  \* the topic's entry in topics.json
  walDir,      \* records in the topic's WAL directory, which has no uuid
  pendingFile, \* the incarnations listed in pending_deletes.json
  strays,      \* contents for it that aborted appends are still writing
  lost,        \* history: entries that such a write has overwritten
  snapshot,    \* those whose entry there names a segment
  \* object store, by the uuid of the key
  manifests,   \* incarnations that have a manifest.json
  listed,      \* those whose manifest names a segment
  objects,     \* those that have a segment object
  \* broker memory
  broker,      \* up or down
  topics,      \* the registry's entry
  partitions,  \* the handle in SharedState.partitions: whose, which config
  spawnLocks,  \* the entry in the lock table, named by who inserted it
  held,        \* the locks taken
  part,        \* part[u]: the writer and the Uploader of an incarnation
  req,         \* the request tasks
  sweep,       \* sweep[u]: the deletion sweep of an incarnation
  fileLock,    \* pending_deletes.rs FILE_LOCK is taken
  \* history
  starts, nextUuid, boots,
  deleted,     \* incarnations whose DeleteTopic was answered with success
  promised,    \* those of them that were deleted with their data
  settled,     \* those whose writer and Uploader both acked their Shutdown
  swept        \* incarnations whose sweep ran to its end

fileVars  == <<pendingFile, strays, lost>>
diskVars  == <<topicsFile, walDir, fileVars, snapshot>>
storeVars == <<manifests, listed, objects>>
memVars   == <<broker, topics, partitions, spawnLocks, held, part, sweep, fileLock>>
doneVars  == <<boots, deleted, promised, settled, swept>>
histVars  == <<starts, nextUuid, doneVars>>
vars      == <<diskVars, storeVars, memVars, req, histVars>>

NoTopic == [uuid |-> NoUuid, cfg |-> 0]
Idle    == [op |-> "none", pc |-> "idle", uuid |-> NoUuid, handle |-> NoUuid,
            lock |-> NoUuid, cfg |-> 0, data |-> FALSE, acks |-> TRUE,
            loaded |-> {}]
NoPart  == [writer |-> "none", uploader |-> "none", active |-> {},
            linked |-> FALSE, cfg |-> 0]
NoSweep == [pc |-> "none", loaded |-> {}]

-----------------------------------------------------------------------------
(* Request tasks *)

At(r, pc) == req[r].pc = pc

\* The task goes on with its request in state q, or answers it.
Goto(r, q) == req' = [req EXCEPT ![r] = q]
Answer(r)  == Goto(r, Idle)

\* A request arrives.  A message that waits in the registry's queue is one that
\* has not arrived yet.
Arrives(r) ==
  /\ broker = "up"
  /\ At(r, "idle")
  /\ starts < MaxStarts
  /\ starts' = starts + 1

\* What the request's append makes of pending_deletes.json.
Appended(r) == req[r].loaded \cup {req[r].uuid}

\* The client is gone and the connection aborts the task at an await.  Its locks
\* are dropped.  A create that has begun goes on without it, and so does the
\* blocking write or rename of pending_deletes.json, now without FILE_LOCK.
Disconnect(r) ==
  /\ Disconnects
  /\ req[r].op # "none"
  /\ IF At(r, "put") THEN Goto(r, [req[r] EXCEPT !.op = "none"]) ELSE Answer(r)
  /\ held' = IF req[r].pc \in {"recover", "insert"} THEN held \ {req[r].lock} ELSE held
  /\ fileLock' = (fileLock /\ ~ At(r, "persist"))
  /\ strays' \in {strays, IF At(r, "persist") THEN strays \cup {Appended(r)} ELSE strays}
  /\ UNCHANGED <<topicsFile, walDir, pendingFile, lost, snapshot, storeVars, broker,
                 topics, partitions, spawnLocks, part, sweep, histVars>>

-----------------------------------------------------------------------------
(* Topic registry *)

\* The actor takes its next message when it is not waiting for a PUT.
RegistryFree == \A q \in Requests : ~ At(q, "put")

\* Mutant: a failed write does not roll the entry in memory back.
RegistryRejects_NoRollback(r) ==
  /\ Arrives(r)
  /\ RegistryFree
  /\ topics' \in {topics} \cup
       {t \in Topic : t.uuid = topics.uuid /\ t.cfg = topics.cfg + 1}
  /\ UNCHANGED <<diskVars, storeVars, broker, partitions, spawnLocks, held, part,
                 sweep, fileLock, req, nextUuid, doneVars>>

\* AlreadyExists, UnknownTopic, InvalidConfig, or topics.json could not be
\* written: an error, and memory and file are as they were.
RegistryRejects(r) ==
  /\ Arrives(r)
  /\ RegistryFree
  /\ UNCHANGED <<diskVars, storeVars, memVars, req, nextUuid, doneVars>>

\* A Produce; with auto_create_topics EnsureExists finds the topic there.
EnsureFinds(r) ==
  /\ Arrives(r)
  /\ AutoCreate => RegistryFree /\ topics # NoTopic
  /\ Goto(r, [Idle EXCEPT !.op = "produce", !.pc = "lookup"])
  /\ UNCHANGED <<diskVars, storeVars, memVars, nextUuid, doneVars>>

\* CreateTopic, or EnsureExists of a Produce, first half: topics.json gets the
\* entry, the directory is made.
RegistryCreate(r) ==
  /\ Arrives(r)
  /\ RegistryFree
  /\ topics = NoTopic
  /\ nextUuid \in Uuid
  /\ nextUuid' = nextUuid + 1
  /\ topicsFile' = [uuid |-> nextUuid, cfg |-> 0]
  /\ \E op \in {"create"} \cup IF AutoCreate THEN {"produce"} ELSE {} :
       Goto(r, [Idle EXCEPT !.op = op, !.pc = "put", !.uuid = nextUuid])
  /\ UNCHANGED <<walDir, fileVars, snapshot, storeVars, memVars, doneVars>>

\* Second half: the empty manifest is PUT, the entry enters the memory.  The
\* requester may be gone by then.
PutEmptyManifest(r) ==
  /\ At(r, "put")
  /\ manifests' = manifests \cup {req[r].uuid}
  /\ topics' = [uuid |-> req[r].uuid, cfg |-> 0]
  /\ IF req[r].op = "none" THEN Answer(r) ELSE Goto(r, [req[r] EXCEPT !.pc = "spawn"])
  /\ UNCHANGED <<diskVars, listed, objects, broker, partitions, spawnLocks, held,
                 part, sweep, fileLock, histVars>>

\* The directory or the PUT fails, with or without effect: an error, and the
\* entry in topics.json stays.
CreateFails(r) ==
  /\ At(r, "put")
  /\ manifests' \in {manifests, manifests \cup {req[r].uuid}}
  /\ Answer(r)
  /\ UNCHANGED <<diskVars, listed, objects, memVars, histVars>>

\* Mutant: topics.json is not rewritten.
RegistryDelete_NotPersisted(r) ==
  /\ Arrives(r)
  /\ RegistryFree
  /\ topics # NoTopic
  /\ topics' = NoTopic
  /\ \E data \in BOOLEAN :
       Goto(r, [Idle EXCEPT !.op = "delete", !.pc = "remove", !.uuid = topics.uuid,
                            !.data = data])
  /\ UNCHANGED <<diskVars, storeVars, broker, partitions, spawnLocks, held, part,
                 sweep, fileLock, nextUuid, doneVars>>

RegistryDelete(r) ==
  /\ Arrives(r)
  /\ RegistryFree
  /\ topics # NoTopic
  /\ topics' = NoTopic
  /\ topicsFile' = NoTopic
  /\ \E data \in BOOLEAN :
       Goto(r, [Idle EXCEPT !.op = "delete", !.pc = "remove", !.uuid = topics.uuid,
                            !.data = data])
  /\ UNCHANGED <<walDir, fileVars, snapshot, storeVars, broker, partitions,
                 spawnLocks, held, part, sweep, fileLock, nextUuid, doneVars>>

\* Mutant: an unknown topic gets an entry.
RegistryAlter_UnknownTopic(r) ==
  /\ Arrives(r)
  /\ RegistryFree
  /\ topics.cfg < MaxAlters
  /\ topics' = [topics EXCEPT !.cfg = @ + 1]
  /\ topicsFile' = topics'
  /\ Goto(r, [Idle EXCEPT !.op = "alter", !.pc = "handles", !.cfg = topics.cfg + 1])
  /\ UNCHANGED <<walDir, fileVars, snapshot, storeVars, broker, partitions,
                 spawnLocks, held, part, sweep, fileLock, nextUuid, doneVars>>

\* Merge the patch, validate, persist, reply with the merged configuration.
RegistryAlter(r) ==
  /\ Arrives(r)
  /\ RegistryFree
  /\ topics # NoTopic
  /\ topics.cfg < MaxAlters
  /\ topics' = [topics EXCEPT !.cfg = @ + 1]
  /\ topicsFile' = topics'
  /\ Goto(r, [Idle EXCEPT !.op = "alter", !.pc = "handles", !.cfg = topics.cfg + 1])
  /\ UNCHANGED <<walDir, fileVars, snapshot, storeVars, broker, partitions,
                 spawnLocks, held, part, sweep, fileLock, nextUuid, doneVars>>

\* A change to any other topic writes the registry's memory to the file.
OtherTopicWrites ==
  /\ broker = "up"
  /\ RegistryFree
  /\ topicsFile' = topics
  /\ UNCHANGED <<walDir, fileVars, snapshot, storeVars, memVars, req, histVars>>

-----------------------------------------------------------------------------
(* spawn_partition *)

\* A request that has spawned: CreateTopic answers, Produce looks its handle up.
Spawned(r) ==
  IF req[r].op = "create" THEN Answer(r)
  ELSE Goto(r, [Idle EXCEPT !.op = "produce", !.pc = "lookup"])

\* The files of the directory that the incarnation's own manifest does not
\* cover, whoever wrote them; those it covers are removed.
Uncovered(u) == IF u \in listed THEN walDir \ {u} ELSE walDir

Recovered(u, cfg) ==
  [NoPart EXCEPT !.writer = "running", !.uploader = "running",
                 !.active = Uncovered(u), !.linked = TRUE, !.cfg = cfg]

\* The lock of the table's entry, inserted if there is none.
SpawnEntry(r) ==
  /\ At(r, "spawn")
  /\ LET lock == IF spawnLocks = NoUuid THEN req[r].uuid ELSE spawnLocks
     IN  /\ spawnLocks' = lock
         /\ Goto(r, [req[r] EXCEPT !.pc = "lock", !.lock = lock])
  /\ UNCHANGED <<diskVars, storeVars, broker, topics, partitions, held, part,
                 sweep, fileLock, histVars>>

\* With the lock: nothing to do if the map has a handle, of any incarnation.
SpawnLock(r) ==
  /\ At(r, "lock")
  /\ req[r].lock \notin held
  /\ \/ /\ partitions # NoTopic
        /\ Spawned(r)
        /\ UNCHANGED held
     \/ /\ partitions = NoTopic
        /\ held' = held \cup {req[r].lock}
        /\ Goto(r, [req[r] EXCEPT !.pc = "recover"])
  /\ UNCHANGED <<diskVars, storeVars, broker, topics, partitions, spawnLocks,
                 part, sweep, fileLock, histVars>>

SpawnRecover(r) ==
  /\ At(r, "recover")
  /\ req[r].uuid \in manifests
  /\ part' = [part EXCEPT ![req[r].uuid] = Recovered(req[r].uuid, 0)]
  /\ walDir' = Uncovered(req[r].uuid)
  /\ Goto(r, [req[r] EXCEPT !.pc = "insert"])
  /\ UNCHANGED <<topicsFile, fileVars, snapshot, storeVars, broker, topics,
                 partitions, spawnLocks, held, sweep, fileLock, histVars>>

\* Mutant: the lock outlives the task.
SpawnPanics_KeepsLock(r) ==
  /\ At(r, "recover")
  /\ Answer(r)
  /\ UNCHANGED <<diskVars, storeVars, memVars, histVars>>

\* The manifest is missing or the GET fails: expect() ends the request's task.
SpawnPanics(r) ==
  /\ At(r, "recover")
  /\ held' = held \ {req[r].lock}
  /\ Answer(r)
  /\ UNCHANGED <<diskVars, storeVars, broker, topics, partitions, spawnLocks,
                 part, sweep, fileLock, histVars>>

SpawnInsert(r) ==
  /\ At(r, "insert")
  /\ partitions' = [uuid |-> req[r].uuid, cfg |-> 0]
  /\ held' = held \ {req[r].lock}
  /\ Spawned(r)
  /\ UNCHANGED <<diskVars, storeVars, broker, topics, spawnLocks, part, sweep,
                 fileLock, histVars>>

-----------------------------------------------------------------------------
(* Produce, and the tasks of a partition *)

LookupHandle(r) ==
  /\ At(r, "lookup")
  /\ IF partitions = NoTopic THEN Answer(r)
     ELSE Goto(r, [req[r] EXCEPT !.pc = "commit", !.handle = partitions.uuid])
  /\ UNCHANGED <<diskVars, storeVars, memVars, histVars>>

\* The record is in the WAL directory if the writer's file still is.  A writer
\* that is gone answers nothing: an error.
Commit(r) ==
  /\ At(r, "commit")
  /\ LET u == req[r].handle
     IN  IF part[u].writer = "running"
         THEN /\ walDir' = IF part[u].linked THEN walDir \cup {u} ELSE walDir
              /\ part' = [part EXCEPT ![u].active = @ \cup {u}]
         ELSE UNCHANGED <<walDir, part>>
  /\ Answer(r)
  /\ UNCHANGED <<topicsFile, fileVars, snapshot, storeVars, broker, topics,
                 partitions, spawnLocks, held, sweep, fileLock, histVars>>

\* upload_once of a sealed segment: the object, then the manifest that names
\* it; then a writer that lives removes the WAL file.  With the seal it opened
\* the next one.
Upload(u) ==
  /\ part[u].uploader \in {"running", "stopping"}
  /\ part[u].active # {}
  /\ u \in manifests
  /\ objects' = objects \cup {u}
  /\ listed' = listed \cup {u}
  /\ walDir' = IF part[u].writer = "stopped" THEN walDir
               ELSE walDir \ part[u].active
  /\ part' = [part EXCEPT ![u].active = {}, ![u].linked = part[u].writer # "stopped"]
  /\ UNCHANGED <<topicsFile, fileVars, snapshot, manifests, broker, topics,
                 partitions, spawnLocks, held, sweep, fileLock, req, histVars>>

\* The manifest is gone or the store fails after the object was PUT; the
\* Uploader will try again.
UploadFails(u) ==
  /\ part[u].uploader \in {"running", "stopping"}
  /\ part[u].active # {}
  /\ objects' = objects \cup {u}
  /\ UNCHANGED <<diskVars, manifests, listed, memVars, req, histVars>>

\* The writer's Shutdown: everything is sealed and with the Uploader.
WriterStops(u) ==
  /\ part[u].writer = "stopping"
  /\ part' = [part EXCEPT ![u].writer = "stopped", ![u].linked = FALSE]
  /\ UNCHANGED <<diskVars, storeVars, broker, topics, partitions, spawnLocks,
                 held, sweep, fileLock, req, histVars>>

\* The Uploader's Shutdown, behind every batch sealed before it was sent.  What
\* a late writer seals is dropped.
UploaderStops(u) ==
  /\ part[u].uploader = "stopping"
  /\ part[u].writer = "stopped" => part[u].active = {}
  /\ part' = [part EXCEPT ![u].uploader = "stopped", ![u].active = {}]
  /\ UNCHANGED <<diskVars, storeVars, broker, topics, partitions, spawnLocks,
                 held, sweep, fileLock, req, histVars>>

-----------------------------------------------------------------------------
(* DeleteTopic, after the registry's part *)

\* The lock table's entry goes; delete_data = false ends here.
DropLock(r, acks) ==
  /\ spawnLocks' = NoUuid
  /\ IF req[r].data
     THEN /\ Goto(r, [req[r] EXCEPT !.pc = "wipe", !.handle = NoUuid,
                        !.acks = acks /\ req[r].handle = req[r].uuid])
          /\ UNCHANGED deleted
     ELSE /\ Answer(r)
          /\ deleted' = deleted \cup {req[r].uuid}
  /\ UNCHANGED <<diskVars, storeVars, broker, topics, held, sweep, fileLock,
                 starts, nextUuid, boots, promised, settled, swept>>

\* Whatever handle the map has for the name.
RemoveHandle(r) ==
  /\ At(r, "remove")
  /\ partitions' = NoTopic
  /\ \/ /\ partitions = NoTopic
        /\ DropLock(r, FALSE)
     \/ /\ partitions # NoTopic
        /\ Goto(r, [req[r] EXCEPT !.pc = "shutwriter", !.handle = partitions.uuid])
        /\ UNCHANGED <<diskVars, storeVars, broker, topics, spawnLocks, held,
                       sweep, fileLock, histVars>>
  /\ UNCHANGED part

\* Shutdown finds a place in the writer's mailbox, if it ever does.
ShutWriter(r) ==
  /\ At(r, "shutwriter")
  /\ part' = [part EXCEPT ![req[r].handle].writer = "stopping"]
  /\ Goto(r, [req[r] EXCEPT !.pc = "waitwriter"])
  /\ UNCHANGED <<diskVars, storeVars, broker, topics, partitions, spawnLocks,
                 held, sweep, fileLock, histVars>>

\* The writer's ack, or ten seconds; then the Uploader is sent Shutdown, which
\* takes effect when the Uploader's channel has a place for it.
WaitWriter(r) ==
  /\ At(r, "waitwriter")
  /\ \E ack \in {part[req[r].handle].writer = "stopped", FALSE} :
       Goto(r, [req[r] EXCEPT !.pc = "waituploader", !.acks = ack])
  /\ part' = [part EXCEPT ![req[r].handle].uploader = "stopping"]
  /\ UNCHANGED <<diskVars, storeVars, broker, topics, partitions, spawnLocks,
                 held, sweep, fileLock, histVars>>

\* The Uploader's ack, or ten seconds.
WaitUploader(r) ==
  /\ At(r, "waituploader")
  /\ \E ack \in {part[req[r].handle].uploader = "stopped", FALSE} :
       DropLock(r, req[r].acks /\ ack)
  /\ UNCHANGED <<partitions, part>>

\* remove_dir_all of the topic's directory, or a warning.
WipeWal(r) ==
  /\ At(r, "wipe")
  /\ \/ /\ walDir' = {}
        /\ part' = [u \in Uuid |-> [part[u] EXCEPT !.linked = FALSE]]
     \/ UNCHANGED <<walDir, part>>
  /\ Goto(r, [req[r] EXCEPT !.pc = "snapshot"])
  /\ UNCHANGED <<topicsFile, fileVars, snapshot, storeVars, broker, topics,
                 partitions, spawnLocks, held, sweep, fileLock, histVars>>

\* The manifest as it is now; an empty one if the GET fails.
TakeSnapshot(r) ==
  /\ At(r, "snapshot")
  /\ snapshot' \in {snapshot, snapshot \cup ({req[r].uuid} \cap listed)}
  /\ Goto(r, [req[r] EXCEPT !.pc = "append"])
  /\ UNCHANGED <<topicsFile, walDir, fileVars, storeVars, memVars, histVars>>

\* Mutant: the file is read without the lock.
AppendLoad_NoLock(r) ==
  /\ At(r, "append")
  /\ fileLock' = TRUE
  /\ Goto(r, [req[r] EXCEPT !.pc = "persist", !.loaded = pendingFile])
  /\ UNCHANGED <<diskVars, storeVars, broker, topics, partitions, spawnLocks,
                 held, part, sweep, histVars>>

\* Under FILE_LOCK: read the file ...
AppendLoad(r) ==
  /\ At(r, "append")
  /\ ~ fileLock
  /\ fileLock' = TRUE
  /\ Goto(r, [req[r] EXCEPT !.pc = "persist", !.loaded = pendingFile])
  /\ UNCHANGED <<diskVars, storeVars, broker, topics, partitions, spawnLocks,
                 held, part, sweep, histVars>>

\* The content is written to the one .json.tmp there is and renamed.  A write
\* that an abort left running may come between the two, and its content is
\* the one that is renamed.
Publishes(content) ==
  \/ /\ pendingFile' = content
     /\ UNCHANGED <<strays, lost>>
  \/ \E s \in strays : /\ pendingFile' = s
                       /\ strays' = strays \ {s}
                       /\ lost' = lost \cup (content \ s)

\* ... and replace it, start the sweep and answer.
AppendWrite(r) ==
  /\ At(r, "persist")
  /\ Publishes(Appended(r))
  /\ fileLock' = FALSE
  /\ sweep' = [sweep EXCEPT ![req[r].uuid] = [NoSweep EXCEPT !.pc = "snapshot"]]
  /\ deleted' = deleted \cup {req[r].uuid}
  /\ promised' = promised \cup {req[r].uuid}
  /\ settled' = IF req[r].acks
                THEN settled \cup {req[r].uuid} ELSE settled
  /\ Answer(r)
  /\ UNCHANGED <<topicsFile, walDir, snapshot, storeVars, broker, topics,
                 partitions, spawnLocks, held, part, starts, nextUuid, boots, swept>>

\* Reading or writing the file fails: ErrInternal.
AppendFails(r) ==
  /\ At(r, "persist")
  /\ fileLock' = FALSE
  /\ Answer(r)
  /\ UNCHANGED <<diskVars, storeVars, broker, topics, partitions, spawnLocks,
                 held, part, sweep, histVars>>

\* A write that an abort left running reaches the file on its own: its rename
\* was under way, or another's finds its content in the .json.tmp.  One that
\* does so while somebody is at the file need not be told apart from one before
\* the lock was taken, after it was left, or (Publishes) under the holder's
\* own rename: otherwise the holder overwrites what it wrote.
StrayLands ==
  /\ ~ fileLock
  /\ \E s \in strays : /\ pendingFile' = s
                       /\ strays' = strays \ {s}
                       /\ lost' = lost \cup (pendingFile \ s)
  /\ UNCHANGED <<topicsFile, walDir, snapshot, storeVars, memVars, req, histVars>>

-----------------------------------------------------------------------------
(* AlterTopicConfig, after the registry's part *)

TakeHandles(r) ==
  /\ At(r, "handles")
  /\ Goto(r, [req[r] EXCEPT !.handle = partitions.uuid,
                !.pc = IF partitions = NoTopic THEN "setcfg" ELSE "push"])
  /\ UNCHANGED <<diskVars, storeVars, memVars, histVars>>

\* UpdateConfig; a writer that is gone drops it.
PushConfig(r) ==
  /\ At(r, "push")
  /\ part' = [part EXCEPT ![req[r].handle].cfg =
                IF part[req[r].handle].writer = "running" THEN req[r].cfg ELSE @]
  /\ Goto(r, [req[r] EXCEPT !.pc = "setcfg"])
  /\ UNCHANGED <<diskVars, storeVars, broker, topics, partitions, spawnLocks,
                 held, sweep, fileLock, histVars>>

\* Whatever handle the map has by now.
SetHandleConfig(r) ==
  /\ At(r, "setcfg")
  /\ partitions' = IF partitions = NoTopic THEN NoTopic
                   ELSE [partitions EXCEPT !.cfg = req[r].cfg]
  /\ Answer(r)
  /\ UNCHANGED <<diskVars, storeVars, broker, topics, spawnLocks, held, part,
                 sweep, fileLock, histVars>>

-----------------------------------------------------------------------------
(* Deletion sweep *)

SweepAt(u, pc) == sweep[u].pc = pc
SweepGoto(u, pc) == sweep' = [sweep EXCEPT ![u].pc = pc]
SweepEnds(u) == sweep' = [sweep EXCEPT ![u] = NoSweep]

\* Mutant: a failed delete is skipped.
SweepSnapshot_Skips(u) ==
  /\ SweepAt(u, "snapshot")
  /\ objects' \in {objects, objects \ ({u} \cap snapshot)}
  /\ manifests' = manifests \ {u}
  /\ SweepGoto(u, "list")
  /\ UNCHANGED <<diskVars, listed, broker, topics, partitions, spawnLocks, held,
                 part, fileLock, req, histVars>>

\* Every segment the snapshot names, then the manifest; the first delete that
\* fails ends the sweep and leaves its entry in the file.
SweepSnapshot(u) ==
  /\ SweepAt(u, "snapshot")
  /\ \/ /\ objects' = objects \ ({u} \cap snapshot)
        /\ manifests' = manifests \ {u}
        /\ SweepGoto(u, "list")
     \/ /\ objects' \in {objects, objects \ ({u} \cap snapshot)}
        /\ UNCHANGED manifests
        /\ SweepEnds(u)
  /\ UNCHANGED <<diskVars, listed, broker, topics, partitions, spawnLocks, held,
                 part, fileLock, req, histVars>>

\* Mutant: the prefix stops at the topic's name.
SweepList_WholeTopic(u) ==
  /\ SweepAt(u, "list")
  /\ objects' = {}
  /\ SweepGoto(u, "remove")
  /\ UNCHANGED <<diskVars, manifests, listed, broker, topics, partitions,
                 spawnLocks, held, part, fileLock, req, histVars>>

\* LIST under the incarnation's prefix.  A delete that fails is logged and
\* skipped; a failing LIST ends the sweep.
SweepList(u) ==
  /\ SweepAt(u, "list")
  /\ objects' \in {objects, objects \ {u}}
  /\ \/ SweepGoto(u, "remove")
     \/ SweepEnds(u)
  /\ UNCHANGED <<diskVars, manifests, listed, broker, topics, partitions,
                 spawnLocks, held, part, fileLock, req, histVars>>

SweepLoad(u) ==
  /\ SweepAt(u, "remove")
  /\ ~ fileLock
  /\ fileLock' = TRUE
  /\ sweep' = [sweep EXCEPT ![u] = [pc |-> "persist", loaded |-> pendingFile]]
  /\ UNCHANGED <<diskVars, storeVars, broker, topics, partitions, spawnLocks,
                 held, part, req, histVars>>

\* The entry leaves the file, or the write fails and the next boot sweeps again.
SweepWrite(u) ==
  /\ SweepAt(u, "persist")
  /\ \/ /\ Publishes(sweep[u].loaded \ {u})
        /\ swept' = swept \cup {u}
     \/ UNCHANGED <<fileVars, swept>>
  /\ fileLock' = FALSE
  /\ SweepEnds(u)
  /\ UNCHANGED <<topicsFile, walDir, snapshot, storeVars, broker, topics,
                 partitions, spawnLocks, held, part, req, starts, nextUuid,
                 boots, deleted, promised, settled>>

-----------------------------------------------------------------------------
(* Crash and boot *)

Crash ==
  /\ broker = "up"
  /\ boots < MaxBoots
  /\ broker' = "down"
  /\ topics' = NoTopic /\ partitions' = NoTopic
  /\ spawnLocks' = NoUuid /\ held' = {} /\ fileLock' = FALSE
  /\ part' = [u \in Uuid |-> NoPart]
  /\ sweep' = [u \in Uuid |-> NoSweep]
  /\ req' = [r \in Requests |-> Idle]
  /\ strays' = {}
  /\ UNCHANGED <<topicsFile, walDir, pendingFile, lost, snapshot, storeVars, histVars>>

\* main: load topics.json, spawn the partition, resume the pending sweeps.
\* Without the manifest spawn_partition panics and the broker stays down.
Boot ==
  /\ broker = "down"
  /\ topicsFile # NoTopic => topicsFile.uuid \in manifests
  /\ broker' = "up"
  /\ boots' = boots + 1
  /\ topics' = topicsFile /\ partitions' = topicsFile
  /\ spawnLocks' = topicsFile.uuid
  /\ IF topicsFile = NoTopic
     THEN UNCHANGED <<walDir, part>>
     ELSE /\ walDir' = Uncovered(topicsFile.uuid)
          /\ part' = [part EXCEPT ![topicsFile.uuid] =
                        Recovered(topicsFile.uuid, topicsFile.cfg)]
  /\ sweep' = [u \in Uuid |-> IF u \in pendingFile
                              THEN [NoSweep EXCEPT !.pc = "snapshot"] ELSE NoSweep]
  /\ UNCHANGED <<topicsFile, fileVars, snapshot, storeVars, held, fileLock,
                 req, starts, nextUuid, deleted, promised, settled, swept>>

-----------------------------------------------------------------------------
\* The broker is about to start: on an empty data directory; on one with the
\* topic's first incarnation and its records in the WAL; or on one with the
\* second, the deletion of the first, all of it uploaded, being pending.
Init ==
  /\ \/ /\ nextUuid = 1
        /\ topicsFile = NoTopic /\ manifests = {} /\ walDir = {}
        /\ promised = {}
     \/ /\ nextUuid = 2
        /\ topicsFile = [uuid |-> 1, cfg |-> 0] /\ manifests = {1} /\ walDir = {1}
        /\ promised = {}
     \/ /\ nextUuid = 3 /\ MaxUuids > 1
        /\ topicsFile = [uuid |-> 2, cfg |-> 0] /\ manifests = {1, 2} /\ walDir = {2}
        /\ promised = {1}
  /\ pendingFile = promised /\ snapshot = promised /\ strays = {} /\ lost = {}
  /\ listed = promised /\ objects = promised
  /\ deleted = promised /\ settled = promised /\ swept = {}
  /\ broker = "down" /\ topics = NoTopic /\ partitions = NoTopic
  /\ spawnLocks = NoUuid /\ held = {} /\ fileLock = FALSE
  /\ part = [u \in Uuid |-> NoPart]
  /\ sweep = [u \in Uuid |-> NoSweep]
  /\ req = [r \in Requests |-> Idle]
  /\ starts = 0 /\ boots = 0

RequestStep(r) ==
  \/ RegistryRejects(r) \/ EnsureFinds(r) \/ RegistryCreate(r)
  \/ PutEmptyManifest(r) \/ CreateFails(r) \/ RegistryDelete(r) \/ RegistryAlter(r)
  \/ SpawnEntry(r) \/ SpawnLock(r) \/ SpawnRecover(r) \/ SpawnPanics(r)
  \/ SpawnInsert(r) \/ LookupHandle(r) \/ Commit(r)
  \/ RemoveHandle(r) \/ ShutWriter(r) \/ WaitWriter(r) \/ WaitUploader(r)
  \/ WipeWal(r) \/ TakeSnapshot(r)
  \/ AppendLoad(r) \/ AppendWrite(r) \/ AppendFails(r)
  \/ TakeHandles(r) \/ PushConfig(r) \/ SetHandleConfig(r)

PartitionStep(u) ==
  \/ Upload(u) \/ UploadFails(u) \/ WriterStops(u) \/ UploaderStops(u)

SweepStep(u) ==
  \/ SweepSnapshot(u) \/ SweepList(u) \/ SweepLoad(u)
  \/ SweepWrite(u)

Next ==
  \/ \E r \in Requests : RequestStep(r) \/ Disconnect(r)
  \/ \E u \in Uuid : PartitionStep(u)
  \/ \E u \in Uuid : SweepStep(u)
  \/ OtherTopicWrites
  \/ StrayLands
  \/ Crash
  \/ Boot

Spec == Init /\ [][Next]_vars

-----------------------------------------------------------------------------
(* Properties *)

\* Every variable has its type.
TypeOK ==
  /\ {topicsFile, topics, partitions} \subseteq Topic \cup {NoTopic}
  /\ walDir \subseteq Uuid /\ pendingFile \subseteq Uuid
  /\ strays \subseteq SUBSET Uuid /\ lost \subseteq Uuid
  /\ snapshot \subseteq Uuid /\ manifests \subseteq Uuid
  /\ listed \subseteq Uuid /\ objects \subseteq Uuid
  /\ broker \in {"up", "down"}
  /\ spawnLocks \in 0 .. MaxUuids /\ held \subseteq Uuid
  /\ part \in [Uuid -> [writer : {"none", "running", "stopping", "stopped"},
                        uploader : {"none", "running", "stopping", "stopped"},
                        active : SUBSET Uuid, linked : BOOLEAN, cfg : 0 .. MaxAlters]]
  /\ req \in [Requests ->
       [op : {"none", "create", "produce", "delete", "alter"},
        pc : {"idle", "put", "spawn", "lock", "recover", "insert", "lookup",
              "commit", "remove", "shutwriter", "waitwriter", "waituploader",
              "wipe", "snapshot", "append", "persist", "handles", "push", "setcfg"},
        uuid : 0 .. MaxUuids, handle : 0 .. MaxUuids, lock : 0 .. MaxUuids,
        cfg : 0 .. MaxAlters, data : BOOLEAN, acks : BOOLEAN,
        loaded : SUBSET Uuid]]
  /\ sweep \in [Uuid -> [pc : {"none", "snapshot", "list", "remove",
                               "persist"}, loaded : SUBSET Uuid]]
  /\ fileLock \in BOOLEAN
  /\ starts \in 0 .. MaxStarts /\ nextUuid \in 1 .. MaxUuids + 1
  /\ boots \in 0 .. MaxBoots
  /\ deleted \subseteq Uuid /\ promised \subseteq Uuid
  /\ settled \subseteq Uuid /\ swept \subseteq Uuid

\* README.md: a uuid in every key makes "Delete + Create" under the same name
\* use "disjoint storage".  In the object store it does: whatever sweeps run,
\* however often they are replayed, a topic of the registry keeps its manifest
\* and every segment the manifest names.
LiveTopicStored ==
  topics # NoTopic =>
    /\ topics.uuid \in manifests
    /\ topics.uuid \in listed => topics.uuid \in objects

\* What the registry tells its clients survives a restart: the entry in memory
\* is the one in topics.json, through failed writes, half created topics and
\* the rewrites other topics cause.
RegistryPersisted == topics # NoTopic => topicsFile = topics

\* A topic whose deletion was answered with success is never listed again,
\* neither in memory nor after a restart, although the name may be created
\* again and requests for the deleted incarnation are still under way.
DeletedStaysDeleted ==
  deleted \cap {topics.uuid, topicsFile.uuid} = {}

\* delete-topic design, invariant 5: pending_deletes.json is the source of
\* truth.  A deletion the client was promised is in it until a sweep has run
\* to its end, although appends and removals of other deletions race.  The
\* exception the code leaves: a write that a disconnecting client's append
\* leaves running, without FILE_LOCK, may overwrite it with older content.
DeletionNotForgotten == promised \subseteq pendingFile \cup swept \cup lost

\* delete-topic design, invariants 3 and 4: when writer and Uploader acked
\* their Shutdown, a sweep that ran to its end, perhaps in pieces over several
\* boots, left neither the manifest nor a segment its snapshot names.
SweepComplete ==
  \A u \in swept \cap settled :
    u \notin manifests /\ u \notin objects \cap snapshot

\* A lock that is taken has one owner, inside the section the lock is for: no
\* panic of a recovery, aborted task or restart leaves a partition's start
\* lock or FILE_LOCK taken, with every later request behind it, and dropping
\* the table's entry while the lock is held lets no second task in under it.
LocksReleased ==
  LET spawning == {r \in Requests : req[r].pc \in {"recover", "insert"}}
  IN  /\ held = {req[r].lock : r \in spawning}
      /\ \A r, q \in spawning : req[r].lock = req[q].lock => r = q
      /\ fileLock <=> \/ \E r \in Requests : At(r, "persist")
                      \/ \E u \in Uuid : SweepAt(u, "persist")

\* PartitionHandle: the uuid "isolates topic incarnations across a Delete +
\* re-Create of the same topic name".  A partition has only records of its own.
\* The code does not keep this; no run has it (README, known differences).
IncarnationsDisjoint ==
  \A u \in Uuid : part[u].active \subseteq {u}

\* handle_alter_topic_config: partitions that start meanwhile "start correct".
\* When no request is under way the writer and the handle of the listed topic
\* have the configuration the registry has.  The code does not keep this either;
\* no run has it (README, known differences).
ConfigServed ==
  /\ \A r \in Requests : At(r, "idle")
  /\ topics # NoTopic /\ partitions.uuid = topics.uuid
  => topics.cfg = partitions.cfg /\ topics.cfg = part[topics.uuid].cfg

\* storage design: a crash in the middle of CreateTopic "must leave the topic
\* recoverable on next startup".
CrashLeavesRecoverable ==
  broker = "down" /\ topicsFile # NoTopic => topicsFile.uuid \in manifests
=============================================================================
