----------------------------- MODULE BrokerFiles -----------------------------
(***************************************************************************)
(* What one broker keeps in its data directory from boot to boot: its      *)
(* identity, the configuration of a topic and the WAL file of a partition; *)
(* and the way of a record from client to file to client.                  *)
(*                                                                         *)
(* Crashes.  When the process dies, what it wrote stays.  When the power   *)
(* goes, bytes that were not synced may be lost or mixed up, and a rename  *)
(* may be undone as long as the directory has not reached the disk (the    *)
(* code syncs files, not directories).  An I/O error during the boot ends  *)
(* the process, so it is one of its deaths.                                *)
(*                                                                         *)
(* Abstractions.  There is one topic with one partition, and its first     *)
(* segment is never sealed (PartitionLog has the rest).  A Produce is      *)
(* committed by itself.  The write of topics.json is one step; one that    *)
(* fails is rolled back and shows nothing.  One administrative request is  *)
(* served at a time, and a client waits for the end of its CreateTopic     *)
(* (TopicLifecycle has the other cases).  A generated broker id is new.    *)
(***************************************************************************)
EXTENDS RecordCodec, TopicConfig

CONSTANTS Tomls,       \* config.toml files: [cluster : BOOLEAN, id, disk]
          Overrides,   \* the overrides clients send
          Batches,     \* the batches clients produce: sequences of records
          MaxBoots,    \* bound: boots
          MaxFrames,   \* bound: frames in the WAL file
          MaxAdmin     \* bound: CreateTopic and AlterTopicConfig that reach topics.json

Entries == [uuid : Nat, config : Settings]

ASSUME FilesAssumption ==
  /\ \A c \in Tomls : c.cluster \in BOOLEAN
  /\ Overrides \subseteq Settings
  /\ Batches \subseteq Seq([key : Seq(Nat), value : Seq(Nat)])
  /\ {MaxBoots, MaxFrames, MaxAdmin} \subseteq Nat
  /\ Unset \notin Entries

NoFile  == [id |-> Unset, state |-> "none"]
NoTopic == Unset

VARIABLES
  \* data directory
  idFile,     \* broker_id: the id, and whether it is none, cached, synced or torn
  idTmp,      \* broker_id.tmp
  idDisk,     \* what a power loss may make of broker_id
  saved,      \* the topic's entry in topics.json: its uuid and its overrides
  savedDisk,  \* what a power loss may make of it
  wal,        \* the frames in the WAL file
  synced,     \* how many of them are on disk
  \* object store
  manifests,  \* the uuids of topics whose empty manifest has been PUT
  \* the broker
  phase,      \* down, naming, tmp, synced, named or up
  toml,       \* its config.toml
  identity,   \* its broker id
  topic,      \* the topic's overrides in the registry
  cfg,        \* the configuration in the partition's handle
  log,        \* the records it serves
  waiting,    \* the records of the Produce that waits for the sync
  admin,      \* the administrative request under way, and its overrides
  \* history
  boots,      \* boots so far
  named,      \* ids announced by boots whose config.toml names none
  refusals,   \* why boots were refused
  told,       \* what the replies leave possible: overrides, or no topic
  nAdmin,     \* CreateTopic and AlterTopicConfig that reached topics.json
  acked,      \* records whose producer has its answer
  offered,    \* records clients sent
  undone      \* a power loss undid a rename

idVars    == <<idFile, idTmp, idDisk>>
topicVars == <<saved, savedDisk, manifests>>
walVars   == <<wal, synced>>
upVars    == <<phase, toml, identity, topic, cfg, log, waiting, admin>>
histVars  == <<boots, named, refusals, told, nAdmin, acked, offered, undone>>
vars      == <<idVars, topicVars, walVars, upVars, histVars>>

-----------------------------------------------------------------------------
(* Boot: the identity *)

\* validate_persisted_broker_id: a torn file is empty or not printable.
ValidBrokerId(f) == f.state # "torn"

Refuse(why) ==
  /\ refusals' = refusals \cup {why}
  /\ UNCHANGED <<phase, identity>>

Name(id, next) ==
  /\ identity' = id
  /\ phase' = next
  /\ UNCHANGED refusals

\* Mutant: the persisted id is not read.
ResolveBrokerId_IgnoresFile ==
  IF toml'.id # Unset THEN Name(toml'.id, "named") ELSE Name(boots, "naming")

\* resolve_broker_id: the configured id, the persisted one, or a new one.
ResolveBrokerId ==
  IF toml'.id # Unset THEN Name(toml'.id, "named")
  ELSE IF idFile.state = "none" THEN Name(boots, "naming")
  ELSE IF ValidBrokerId(idFile) THEN Name(idFile.id, "named")
  ELSE Refuse("broker_id")

\* main up to the identity: a config.toml without cluster_id is refused.
Boot(c) ==
  /\ phase = "down" /\ boots < MaxBoots
  /\ boots' = boots + 1
  /\ toml' = c
  /\ IF c.cluster THEN ResolveBrokerId ELSE Refuse("cluster_id")
  /\ UNCHANGED <<idVars, topicVars, walVars, topic, cfg, log, waiting, admin, named,
                 told, nAdmin, acked, offered, undone>>

\* atomic_write_broker_id: create and write the temporary file, ...
WriteIdTmp ==
  /\ phase = "naming"
  /\ idTmp' = [id |-> identity, state |-> "cached"]
  /\ phase' = "tmp"
  /\ UNCHANGED <<idFile, idDisk, topicVars, walVars, toml, identity, topic, cfg, log,
                 waiting, admin, histVars>>

\* Mutant: the temporary file is not synced.
SyncIdTmp_Skipped ==
  /\ phase = "tmp"
  /\ phase' = "synced"
  /\ UNCHANGED <<idVars, topicVars, walVars, toml, identity, topic, cfg, log, waiting,
                 admin, histVars>>

\* ... sync it ...
SyncIdTmp ==
  /\ phase = "tmp"
  /\ idTmp' = [idTmp EXCEPT !.state = "synced"]
  /\ phase' = "synced"
  /\ UNCHANGED <<idFile, idDisk, topicVars, walVars, toml, identity, topic, cfg, log,
                 waiting, admin, histVars>>

\* ... and rename it.
RenameIdTmp ==
  /\ phase = "synced"
  /\ idFile' = idTmp
  /\ idTmp' = NoFile
  /\ idDisk' = idDisk \cup {idTmp}
  /\ phase' = "named"
  /\ UNCHANGED <<topicVars, walVars, toml, identity, topic, cfg, log, waiting, admin,
                 histVars>>

-----------------------------------------------------------------------------
(* Boot: the registry and the partition *)

\* Mutant: the file keeps what follows the frames that decode.
RecoverWalFile_Keeps(file) == file

\* recover_wal_file: the file is cut at the first frame that does not decode.
RecoverWalFile(file) == ScanWal(file)

\* Mutant: the cut of the file is not synced.
StartPartition_Miscounts(o) ==
  /\ topic' = o
  /\ cfg' = Resolve(o, toml.disk)
  /\ log' = Records(ScanWal(wal))
  /\ wal' = RecoverWalFile(wal)
  /\ synced' = synced

\* spawn_partition: recover the file's records and go on with them.  Only a cut
\* is synced: frames a dead process had not synced are served all the same.
StartPartition(o) ==
  /\ topic' = o
  /\ cfg' = Resolve(o, toml.disk)
  /\ log' = Records(ScanWal(wal))
  /\ wal' = RecoverWalFile(wal)
  /\ synced' = IF wal' = wal THEN synced ELSE Len(wal')

\* Why this topics.json stops a boot: TopicRegistry::load panics on a topic
\* whose overrides are not valid, recover_partition on one without a manifest.
LoadRefused ==
  IF saved = NoTopic THEN {}
  ELSE IF ~Valid(saved.config) THEN {"topics.json"}
  ELSE IF saved.uuid \notin manifests THEN {"manifest"} ELSE {}

\* The registry is read and the partition recovered; then the listener opens.
Load ==
  /\ phase = "named"
  /\ refusals' = refusals \cup LoadRefused
  /\ \/ /\ LoadRefused # {}
        /\ phase' = "down" /\ identity' = Unset
        /\ UNCHANGED <<topic, cfg, log, walVars, named>>
     \/ /\ LoadRefused = {}
        /\ phase' = "up"
        /\ IF saved = NoTopic THEN UNCHANGED <<topic, cfg, log, walVars>>
                              ELSE StartPartition(saved.config)
        /\ named' = IF toml.id = Unset THEN named \cup {identity} ELSE named
        /\ UNCHANGED identity
  /\ UNCHANGED <<idVars, topicVars, toml, waiting, admin, boots, told, nAdmin, acked,
                 offered, undone>>

-----------------------------------------------------------------------------
(* Topic configuration *)

NoAdmin == [op |-> "none", o |-> NoOverrides]

\* A handler's first await: the registry validates, and writes topics.json.
Save(op, uuid, o, config) ==
  /\ phase = "up" /\ admin = NoAdmin /\ nAdmin < MaxAdmin
  /\ Valid(config)
  /\ saved' = [uuid |-> uuid, config |-> config]
  /\ savedDisk' = savedDisk \cup {saved'}
  /\ admin' = [op |-> op, o |-> o]
  /\ nAdmin' = nAdmin + 1
  /\ UNCHANGED <<idVars, manifests, walVars, phase, toml, identity, cfg, log, waiting,
                 boots, named, refusals, acked, offered, undone>>

\* The reply, and what it says.
Answer(possible) ==
  /\ admin' = NoAdmin
  /\ told' = possible
  /\ UNCHANGED <<idVars, saved, savedDisk, phase, toml, identity, waiting, boots, named,
                 refusals, nAdmin, acked, offered, undone>>

\* TopicRegistry::create: an entry with a new uuid, for now only in the file.
CreateSaves(o) ==
  /\ topic = NoTopic
  /\ Save("create", nAdmin, o, o)
  /\ told' = told \cup {o}
  /\ UNCHANGED topic

\* The empty manifest is PUT.
CreatePuts ==
  /\ admin.op = "create" /\ saved.uuid \notin manifests
  /\ manifests' = manifests \cup {saved.uuid}
  /\ UNCHANGED <<idVars, saved, savedDisk, walVars, upVars, histVars>>

\* A directory cannot be made, or the PUT fails, done or not: the client gets
\* an error, the entry stays in the file.
CreateFails ==
  /\ admin.op = "create" /\ saved.uuid \notin manifests
  /\ manifests' \in {manifests, manifests \cup {saved.uuid}}
  /\ Answer(told)
  /\ UNCHANGED <<walVars, topic, cfg, log>>

\* The registry takes the entry up, the handler starts the partition and replies.
CreateStarts ==
  /\ admin.op = "create" /\ saved.uuid \in manifests
  /\ StartPartition(admin.o)
  /\ Answer({admin.o})
  /\ UNCHANGED manifests

\* What was possible before a patch, with the fields that it sets.
Patched(possible, patch) ==
  {[f \in Field |-> IF patch[f] # Unset THEN patch[f] ELSE o[f]] : o \in possible \ {NoTopic}}

\* Mutant: the patch replaces the stored overrides.
AlterSaves_Replaces(patch) ==
  /\ topic # NoTopic
  /\ Save("alter", saved.uuid, patch, patch)
  /\ topic' = Merge(topic, patch)
  /\ told' = told \cup Patched(told, patch)

\* TopicRegistry::alter: from here on a restart brings the patch, answered or not.
AlterSaves(patch) ==
  /\ topic # NoTopic
  /\ Save("alter", saved.uuid, patch, Merge(topic, patch))
  /\ topic' = Merge(topic, patch)
  /\ told' = told \cup Patched(told, patch)

\* The result is handed to the tasks and to the handle; the reply.
AlterPushes ==
  /\ admin.op = "alter"
  /\ cfg' = Resolve(topic, toml.disk)
  /\ Answer(Patched(told, admin.o))
  /\ UNCHANGED <<manifests, walVars, topic, log>>

\* The client goes away, and the handler with it, before the handle has the
\* result.
AlterAborted ==
  /\ admin.op = "alter"
  /\ Answer(told)
  /\ UNCHANGED <<manifests, walVars, topic, cfg, log>>

-----------------------------------------------------------------------------
(* Records *)

\* validate_record_sizes
SizesValid(metas) ==
  \A i \in DOMAIN metas :
    /\ metas[i].kl <= cfg["max_key_size_bytes"]
    /\ metas[i].vl <= cfg["max_value_size_bytes"]

\* A Produce the broker accepts: it is sliced, gets its offsets and is
\* written, not yet synced, to the WAL file.  Other clients than this one may
\* send a payload with a byte more or less than they declare.
Produce(recs, payload) ==
  /\ phase = "up" /\ topic # NoTopic /\ waiting = <<>>
  /\ recs # <<>>
  /\ LET metas == MetasOf(recs)
     IN /\ SizesValid(metas)
        /\ PayloadFits(metas, payload)
        /\ Len(wal) + Len(metas) <= MaxFrames
        /\ LET sliced == SlicePayload(metas, payload)
               new == [i \in DOMAIN sliced |->
                         [off |-> Len(log) + i - 1, key |-> sliced[i].key,
                          value |-> sliced[i].value]]
           IN /\ waiting' = new
              /\ wal' = wal \o [i \in DOMAIN new |-> EncodeRecord(new[i])]
  /\ offered' = offered \cup ToSet(recs)
  /\ UNCHANGED <<idVars, topicVars, synced, phase, toml, identity, topic, cfg, log, admin,
                 boots, named, refusals, told, nAdmin, acked, undone>>

\* fsync, then the ack.
SyncAndAck ==
  /\ phase = "up" /\ waiting # <<>>
  /\ synced' = Len(wal)
  /\ log' = log \o waiting
  /\ acked' = acked \cup ToSet(waiting)
  /\ waiting' = <<>>
  /\ UNCHANGED <<idVars, topicVars, wal, phase, toml, identity, topic, cfg, admin, boots,
                 named, refusals, told, nAdmin, offered, undone>>

\* read_active with max_records 1: the first record at or after the offset.
ReadActive(from) ==
  LET hits == {i \in DOMAIN log : log[i].off >= from}
  IN IF hits = {} THEN <<>> ELSE <<log[Min(hits)]>>

\* What a Fetch of one record gives the client: the broker puts lengths and
\* bytes side by side, the client takes them apart.
FetchOne(off) ==
  LET found == ReadActive(off)
      sliced == SlicePayload(MetasOf(found), PayloadOf(found))
  IN [i \in DOMAIN found |->
        [off |-> found[i].off, key |-> sliced[i].key, value |-> sliced[i].value]]

-----------------------------------------------------------------------------
(* Crashes *)

\* The frames the last write had not synced: some are there, the next may be
\* torn, the rest is lost.
AfterCrash(file, n) ==
  {SubSeq(file, 1, k) : k \in n .. Len(file)}
  \cup {Append(SubSeq(file, 1, k), Torn(file[k + 1])) : k \in n .. Len(file) - 1}

Crash(powerLoss) ==
  /\ phase # "down"
  /\ phase' = "down"
  /\ identity' = Unset /\ topic' = NoTopic /\ cfg' = Unset
  /\ log' = <<>> /\ waiting' = <<>> /\ admin' = NoAdmin
  /\ wal' \in AfterCrash(wal, synced)
  /\ synced' = IF powerLoss THEN Len(wal') ELSE synced
  /\ \/ ~powerLoss /\ UNCHANGED <<idFile, idDisk, saved, savedDisk, undone>>
     \/ /\ powerLoss
        /\ \E f \in idDisk : idFile' = IF f.state = "cached"
                                       THEN [f EXCEPT !.state = "torn"] ELSE f
        /\ saved' \in savedDisk
        /\ idDisk' = {idFile'} /\ savedDisk' = {saved'}
        /\ undone' = (undone \/ idFile'.id # idFile.id \/ saved' # saved)
  /\ idTmp' = NoFile
  /\ UNCHANGED <<manifests, toml, boots, named, refusals, told, nAdmin, acked, offered>>

\* The file system writes the directory out.
DirectorySettles ==
  /\ idDisk # {idFile} \/ savedDisk # {saved}
  /\ idDisk' = {idFile} /\ savedDisk' = {saved}
  /\ UNCHANGED <<idFile, idTmp, saved, manifests, walVars, upVars, histVars>>

-----------------------------------------------------------------------------
Init ==
  /\ idFile = NoFile /\ idTmp = NoFile /\ idDisk = {NoFile}
  /\ saved = NoTopic /\ savedDisk = {NoTopic} /\ manifests = {}
  /\ wal = <<>> /\ synced = 0
  /\ phase = "down" /\ toml \in Tomls /\ identity = Unset
  /\ topic = NoTopic /\ cfg = Unset /\ log = <<>> /\ waiting = <<>>
  /\ admin = NoAdmin
  /\ boots = 0 /\ named = {} /\ refusals = {} /\ told = {NoTopic} /\ nAdmin = 0
  /\ acked = {} /\ offered = {} /\ undone = FALSE

\* The payload as declared, one byte short, one byte long.
Payloads(recs) ==
  LET p == PayloadOf(recs)
  IN {p, Append(p, 0)} \cup (IF p = <<>> THEN {} ELSE {Front(p)})

Next ==
  \/ \E c \in Tomls : Boot(c)
  \/ WriteIdTmp \/ SyncIdTmp \/ RenameIdTmp \/ Load
  \/ \E o \in Overrides : CreateSaves(o) \/ AlterSaves(o)
  \/ CreatePuts \/ CreateFails \/ CreateStarts \/ AlterPushes \/ AlterAborted
  \/ \E recs \in Batches : \E p \in Payloads(recs) : Produce(recs, p)
  \/ SyncAndAck
  \/ \E powerLoss \in BOOLEAN : Crash(powerLoss)
  \/ DirectorySettles

Spec == Init /\ [][Next]_vars

-----------------------------------------------------------------------------
(* Properties *)

\* Every variable has its type; the synced frames are in the file.
TypeOK ==
  /\ phase \in {"down", "naming", "tmp", "synced", "named", "up"}
  /\ idFile.state \in {"none", "cached", "synced", "torn"} /\ idFile \in idDisk
  /\ saved \in savedDisk
  /\ synced \in 0 .. Len(wal) /\ Len(wal) <= MaxFrames
  /\ boots \in 0 .. MaxBoots /\ nAdmin \in 0 .. MaxAdmin
  /\ refusals \subseteq {"cluster_id", "broker_id", "topics.json", "manifest"}
  /\ admin.op \in {"none", "create", "alter"}
  /\ \A r \in acked : r.off \in 0 .. MaxFrames - 1
  /\ undone \in BOOLEAN

\* "Resolved from data_dir/broker_id on restart": all boots whose config.toml
\* names no id announce the same one, whatever boots with a configured id and
\* crashes at any step of the first boot come between, unless a power loss
\* undid a rename.
IdentityStable == undone \/ Cardinality(named) <= 1

\* The broker does not refuse to boot over a file it wrote itself: no crash
\* leaves a torn broker_id, no request an invalid topics.json, and a topic in it
\* has its manifest once a client has been told that the topic exists.  Before
\* that, the file of a CreateTopic that failed or was cut short stops every boot
\* (the finding of topics_boot), and so may one that a power loss brought back.
BootsOnOwnFiles ==
  /\ refusals \subseteq {"cluster_id", "manifest"}
  /\ "manifest" \in refusals /\ ~undone => NoTopic \in told

\* The stored and the running configuration of a topic are such that the replies
\* to CreateTopic and AlterTopicConfig allow them, before and after a restart: a
\* request that was answered is in force, one that was cut short by a crash, an
\* error or its client may be, and no field of another is lost.
ConfigKept ==
  phase = "up" /\ topic # NoTopic /\ ~undone =>
    topic \in told /\ \E o \in told \ {NoTopic} : cfg = Resolve(o, toml.disk)

TooLong(r) == Len(r.key) >= KeyLenMod

\* An acknowledged record can be fetched under its offset exactly as it was
\* produced, over any number of crashes and torn tails; unless an acknowledged
\* record at or before it has a key that key_len cannot hold.
AckedComeBack ==
  phase = "up" /\ topic # NoTopic =>
    \A r \in acked :
      (\A q \in acked : q.off <= r.off => ~TooLong(q)) => FetchOne(r.off) = <<r>>

\* No record is served that no client sent: nothing is made up from torn
\* frames, wrapped lengths or a payload cut at the wrong place.
NothingInvented ==
  \A i \in DOMAIN log : [key |-> log[i].key, value |-> log[i].value] \in offered
==============================================================================
