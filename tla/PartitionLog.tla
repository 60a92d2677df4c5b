---------------------------- MODULE PartitionLog ----------------------------
(***************************************************************************)
(* One partition of the broker: the PartitionWriter task, its write-ahead  *)
(* log files, the Uploader task, the partition's objects and manifest in   *)
(* the object store, and the crash and recovery of the whole.              *)
(*                                                                         *)
(* Abstractions.                                                           *)
(*  - A record is its offset and the boot that assigned it: within one     *)
(*    boot an offset is assigned once, so the pair tells two records that  *)
(*    share an offset apart.  Keys, values and timestamps are left out and *)
(*    every record has size 1.                                             *)
(*  - WAL files, objects and in-memory batches are sets of records.  A     *)
(*    file is written in offset order, so first() and last() are the       *)
(*    smallest and the largest offset.  An empty set is a file or object   *)
(*    that is empty or absent: recovery skips both.                        *)
(*  - The channels are unbounded.  Batches are queued in the order of      *)
(*    their base offsets, so a queue is a set and its head is the smallest *)
(*    base.                                                                *)
(*  - retention.rs picks a prefix of the manifest from clock, timestamps   *)
(*    and sizes; here it may pick any prefix without the tail segment.     *)
(***************************************************************************)
EXTENDS Integers, FiniteSets, FiniteSetsExt

CONSTANTS MaxOffset,        \* bound: offsets 0 .. MaxOffset-1 are assigned
          MaxBatch,         \* bound: records in one Produce request
          MaxBoots,         \* bound: restarts after a crash
          Configs,          \* configurations: [groupCount, segmentSize]
          RetentionEnabled, \* retention_ms or retention_bytes is set
          OpenMayFail       \* creating the next WAL file may fail

ASSUME ConstantsAssumption ==
  /\ MaxOffset \in Nat \ {0}
  /\ MaxBatch \in Nat \ {0}
  /\ MaxBoots \in Nat
  /\ Configs # {}
  /\ Configs \subseteq [groupCount : Nat \ {0}, segmentSize : Nat \ {0}]
  /\ RetentionEnabled \in BOOLEAN
  /\ OpenMayFail \in BOOLEAN

Offset == 0 .. MaxOffset
Rec    == [off : 0 .. MaxOffset - 1, boot : 0 .. MaxBoots]
Batch  == [base : Offset, last : 0 .. MaxOffset - 1, recs : SUBSET Rec]
Entry  == [base : Offset, last : 0 .. MaxOffset - 1]

VARIABLES
  \* local disk
  wal,        \* wal[b]: the records of file b.wal
  \* object store
  obj,        \* obj[b]: the records of segment-b.parquet
  manifest,   \* the segment entries of manifest.json
  \* PartitionWriter
  pw,         \* the task: running, panicked, stopped (topic deleted), or
              \* down (the whole broker is)
  cfg,        \* its topic configuration
  nextOffset, \* next offset to assign
  active,     \* records of the active segment
  pending,    \* records awaiting the group commit
  walBase,    \* the base of the WAL file it holds open
  walLinked,  \* that file still has its directory entry
  inFlight,   \* bases of the sealed segments not yet known durable
  \* Uploader
  uploads,    \* its queue of sealed batches
  up,         \* its position; stopped and down as for the writer
  batch,      \* the batch it works on
  evicting,   \* entries whose objects retention still has to delete
  closing,    \* DeleteTopic has sent it Shutdown: no, acked (the writer had
              \* stopped) or late (the writer had panicked or was too slow)
  durable,    \* SegmentDurable messages on their way to the PartitionWriter
  \* history
  boots,      \* restarts so far
  acked,      \* records whose producer was sent its ack
  evicted     \* records retention has removed from the manifest

diskVars  == <<wal>>
storeVars == <<obj, manifest, evicted>>
pwVars    == <<pw, cfg, nextOffset, active, pending, walBase, walLinked, inFlight>>
upVars    == <<up, batch, evicting, closing>>
vars      == <<diskVars, storeVars, pwVars, upVars, uploads, durable, boots, acked>>

-----------------------------------------------------------------------------
(* Records, files and the manifest *)

Offs(recs) == {r.off : r \in recs}

NoBatch == [base |-> 0, last |-> 0, recs |-> {}]

SealedBatch(recs) ==
  [base |-> Min(Offs(recs)), last |-> Max(Offs(recs)), recs |-> recs]

EntryOf(b) == [base |-> b.base, last |-> b.last]

Bases == {e.base : e \in manifest}

\* What a crash leaves: the WAL files and the objects the manifest names.
InWal      == UNION {wal[b] : b \in Offset}
Manifested == UNION {obj[e.base] : e \in manifest}

\* The manifest with the batch's entry, unless one with that base is there.
WithEntry(b) ==
  IF b.base \in Bases THEN manifest ELSE manifest \cup {EntryOf(b)}

\* last_uploaded_offset: of the entry with the largest base; -1 for None.
LastUploaded ==
  IF manifest = {} THEN -1
  ELSE (CHOOSE e \in manifest : \A f \in manifest : f.base <= e.base).last

\* Mutant: the tail segment may go too.
EvictablePrefixes_WithTail ==
  {s \in SUBSET manifest :
     s # {} /\ \A e \in s, f \in manifest : f.base <= e.base => f \in s}

\* The evictions retention may decide on: never the tail segment, and once a
\* segment survives every newer one does.
EvictablePrefixes ==
  {s \in SUBSET manifest :
     /\ s # {} /\ s # manifest
     /\ \A e \in s, f \in manifest : f.base <= e.base => f \in s}

-----------------------------------------------------------------------------
(* PartitionWriter *)

\* The Uploader's queue with one more batch.  The Uploader returns at Shutdown,
\* so a batch that is sent behind it is lost with the channel.
Enqueued(b) == IF closing = "no" THEN uploads \cup {b} ELSE uploads

\* Mutant: the next file is named one too high.
SealAndHandoff_OffByOne(recs, next) ==
  /\ active' = {}
  /\ inFlight' = inFlight \cup {SealedBatch(recs).base}
  /\ uploads' = Enqueued(SealedBatch(recs))
  /\ walBase' = next + 1
  /\ walLinked' = TRUE

\* Freeze the active batch, hand it to the Uploader, open the next WAL.  When
\* the open fails the writer goes on with the file it has.
SealAndHandoff(recs, next) ==
  /\ active' = {}
  /\ inFlight' = inFlight \cup {SealedBatch(recs).base}
  /\ uploads' = Enqueued(SealedBatch(recs))
  /\ \/ /\ walBase' = next
        /\ walLinked' = TRUE
     \/ /\ OpenMayFail
        /\ UNCHANGED <<walBase, walLinked>>

\* The bytes reach the file's inode; only a linked file survives a crash.
WalAppend(recs) ==
  IF walLinked THEN [wal EXCEPT ![walBase] = @ \cup recs] ELSE wal

\* Mutant: the acks are sent before the fsync.
FlushPanics_AcksFirst(recs) ==
  /\ \E w \in SUBSET recs :
       /\ \A r \in w, s \in recs : s.off < r.off => s \in w
       /\ wal' = WalAppend(w)
  /\ pw' = "panicked"
  /\ acked' = acked \cup recs
  /\ active' = {} /\ pending' = {} /\ inFlight' = {}
  /\ UNCHANGED <<walBase, walLinked, uploads>>

\* append_and_sync fails: the task panics, the acks are dropped, and any
\* prefix of the batch may have reached the disk whole.
FlushPanics(recs) ==
  /\ \E w \in SUBSET recs :
       /\ \A r \in w, s \in recs : s.off < r.off => s \in w
       /\ wal' = WalAppend(w)
  /\ pw' = "panicked"
  /\ active' = {} /\ pending' = {} /\ inFlight' = {}
  /\ UNCHANGED <<walBase, walLinked, uploads, acked>>

\* WAL, fsync, acks, active batch; then seal a full segment.
FlushCommit(recs, next) ==
  \/ /\ wal' = WalAppend(recs)
     /\ acked' = acked \cup recs
     /\ pending' = {}
     /\ IF Cardinality(active \cup recs) >= cfg.segmentSize
        THEN SealAndHandoff(active \cup recs, next)
        ELSE /\ active' = active \cup recs
             /\ UNCHANGED <<inFlight, uploads, walBase, walLinked>>
     /\ UNCHANGED pw
  \/ FlushPanics(recs)

\* A Produce of n records is assigned its offsets, joins the pending batch
\* and commits it at once when the group is full.
OnProduce(n) ==
  /\ pw = "running"
  /\ nextOffset + n <= MaxOffset
  /\ LET next == nextOffset + n
         recs == pending \cup
                   {[off |-> o, boot |-> boots] : o \in nextOffset .. next - 1}
     IN  /\ nextOffset' = next
         /\ IF Cardinality(recs) >= cfg.groupCount
            THEN FlushCommit(recs, next)
            ELSE /\ pending' = recs
                 /\ UNCHANGED <<wal, acked, pw, active, inFlight, uploads,
                                walBase, walLinked>>
  /\ UNCHANGED <<storeVars, cfg, upVars, durable, boots>>

\* group_commit_time_ms after the first pending arrival.
GroupCommitTimeout ==
  /\ pw = "running"
  /\ pending # {}
  /\ FlushCommit(pending, nextOffset)
  /\ UNCHANGED <<storeVars, cfg, nextOffset, upVars, durable, boots>>

\* The next SegmentDurable: forget the segment and remove its WAL file; the
\* result of remove_file is ignored.  A writer that is gone drops the message.
OnDurable ==
  /\ \E b \in durable :
       /\ \A c \in durable : b <= c
       /\ durable' = durable \ {b}
       /\ IF pw = "running"
          THEN /\ inFlight' = inFlight \ {b}
               /\ \/ /\ wal' = [wal EXCEPT ![b] = {}]
                     /\ walLinked' = (walLinked /\ b # walBase)
                  \/ UNCHANGED <<wal, walLinked>>
          ELSE UNCHANGED <<wal, inFlight, walLinked>>
  /\ UNCHANGED <<storeVars, pw, cfg, nextOffset, active, pending, walBase,
                 upVars, uploads, boots, acked>>

UpdateConfig ==
  /\ pw = "running"
  /\ cfg' \in Configs
  /\ UNCHANGED <<diskVars, storeVars, pw, nextOffset, active, pending, walBase,
                 walLinked, inFlight, upVars, uploads, durable, boots, acked>>

\* DeleteTopic: commit what is pending, seal what is active, end the task.
Shutdown ==
  /\ pw = "running"
  /\ LET all == active \cup pending
     IN  \/ /\ wal' = WalAppend(pending)
            /\ acked' = acked \cup pending
            /\ pending' = {}
            /\ IF all = {}
               THEN UNCHANGED <<active, inFlight, uploads, walBase, walLinked>>
               ELSE SealAndHandoff(all, nextOffset)
            /\ pw' = "stopped"
         \/ /\ pending # {}
            /\ FlushPanics(pending)
  /\ UNCHANGED <<storeVars, cfg, nextOffset, upVars, durable, boots>>

-----------------------------------------------------------------------------
(* Uploader *)

TakeUpload ==
  /\ up = "idle"
  /\ \E b \in uploads :
       /\ \A c \in uploads : b.base <= c.base
       /\ batch' = b
       /\ uploads' = uploads \ {b}
  /\ up' = "segment"
  /\ UNCHANGED <<diskVars, storeVars, pwVars, evicting, closing, durable, boots, acked>>

\* Mutant: the segment is reported durable before the manifest names it.
PutSegment_SkipsManifest ==
  /\ up = "segment"
  /\ obj' = [obj EXCEPT ![batch.base] = batch.recs]
  /\ up' = "durable"
  /\ UNCHANGED <<diskVars, manifest, evicted, pwVars, batch, evicting, closing, uploads,
                 durable, boots, acked>>

PutSegment ==
  /\ up = "segment"
  /\ obj' = [obj EXCEPT ![batch.base] = batch.recs]
  /\ up' = "manifest"
  /\ UNCHANGED <<diskVars, manifest, evicted, pwVars, batch, evicting, closing, uploads,
                 durable, boots, acked>>

\* GET, insert and sort unless the base is there, PUT.
PutManifest ==
  /\ up = "manifest"
  /\ manifest' = WithEntry(batch)
  /\ up' = "durable"
  /\ UNCHANGED <<diskVars, obj, evicted, pwVars, batch, evicting, closing, uploads,
                 durable, boots, acked>>

\* Mutant: a failed upload is dropped instead of retried.
UploadFails_GivesUp ==
  /\ up \in {"segment", "manifest"}
  /\ up' = "idle"
  /\ batch' = NoBatch
  /\ UNCHANGED <<diskVars, storeVars, pwVars, evicting, closing, uploads, durable, boots,
                 acked>>

\* A store call errors, whether or not it took effect: upload_once again.
UploadFails ==
  /\ \/ /\ up = "segment"
        /\ obj' \in {obj, [obj EXCEPT ![batch.base] = batch.recs]}
        /\ UNCHANGED manifest
     \/ /\ up = "manifest"
        /\ manifest' \in {manifest, WithEntry(batch)}
        /\ UNCHANGED obj
  /\ up' = "segment"
  /\ UNCHANGED <<diskVars, evicted, pwVars, batch, evicting, closing, uploads, durable,
                 boots, acked>>

SendDurable ==
  /\ up = "durable"
  /\ durable' = durable \cup {batch.base}
  /\ batch' = NoBatch
  /\ up' = "retention"
  /\ UNCHANGED <<diskVars, storeVars, pwVars, evicting, closing, uploads, boots, acked>>

\* The sweeper's kick finds the Uploader between two batches.
RetentionKick ==
  /\ RetentionEnabled
  /\ up = "idle"
  /\ up' = "retention"
  /\ UNCHANGED <<diskVars, storeVars, pwVars, batch, evicting, closing, uploads, durable,
                 boots, acked>>

\* Nothing to evict, or the GET or the PUT fails without effect.
RetentionKeeps ==
  /\ up = "retention"
  /\ up' = "idle"
  /\ UNCHANGED <<diskVars, storeVars, pwVars, batch, evicting, closing, uploads, durable,
                 boots, acked>>

\* Mutant: the objects go while the manifest still names them.
RetentionRewrites_DeletesFirst ==
  /\ RetentionEnabled
  /\ up = "retention"
  /\ \E s \in EvictablePrefixes :
       /\ up' = "delete"
       /\ evicting' = s
       /\ evicted' = evicted \cup UNION {obj[e.base] : e \in s}
  /\ UNCHANGED <<diskVars, obj, manifest, pwVars, batch, closing, uploads, durable, boots,
                 acked>>

\* The manifest is rewritten first.  If that PUT took effect and errors, the
\* pass ends there and the objects are orphans.
RetentionRewrites ==
  /\ RetentionEnabled
  /\ up = "retention"
  /\ \E s \in EvictablePrefixes :
       /\ manifest' = manifest \ s
       /\ evicted' = evicted \cup UNION {obj[e.base] : e \in s}
       /\ \/ up' = "delete" /\ evicting' = s
          \/ up' = "idle" /\ UNCHANGED evicting
  /\ UNCHANGED <<diskVars, obj, pwVars, batch, closing, uploads, durable, boots, acked>>

\* Then each object is deleted in turn; one that fails is left an orphan.
RetentionDeletes ==
  /\ up = "delete"
  /\ \E e \in evicting :
       /\ \A f \in evicting : e.base <= f.base
       /\ obj' \in {obj, [obj EXCEPT ![e.base] = {}]}
       /\ evicting' = evicting \ {e}
       /\ up' = IF evicting = {e} THEN "idle" ELSE "delete"
  /\ UNCHANGED <<diskVars, manifest, evicted, pwVars, batch, closing, uploads, durable,
                 boots, acked>>

\* DeleteTopic waits at most 10 s for the writer's ack of Shutdown, and a
\* writer that panicked fails it at once; then the Uploader's Shutdown is sent.
SendUploaderShutdown ==
  /\ closing = "no"
  /\ pw \in {"running", "panicked", "stopped"}
  /\ closing' = IF pw = "stopped" THEN "acked" ELSE "late"
  /\ UNCHANGED <<diskVars, storeVars, pwVars, up, batch, evicting, uploads,
                 durable, boots, acked>>

\* Mutant: Shutdown overtakes the queued batches.
UploaderShutdown_Overtakes ==
  /\ closing # "no"
  /\ up = "idle"
  /\ up' = "stopped"
  /\ UNCHANGED <<diskVars, storeVars, pwVars, batch, evicting, closing, uploads,
                 durable, boots, acked>>

\* The Uploader comes to the Shutdown message: every batch queued before it
\* has been taken.
UploaderShutdown ==
  /\ closing # "no"
  /\ up = "idle"
  /\ uploads = {}
  /\ up' = "stopped"
  /\ UNCHANGED <<diskVars, storeVars, pwVars, batch, evicting, closing, uploads,
                 durable, boots, acked>>

-----------------------------------------------------------------------------
(* Crash and recovery *)

\* The broker dies: files and objects stay, everything in memory goes.  A
\* topic whose Uploader was told to stop is in no registry any more.
Crash ==
  /\ pw \in {"running", "panicked"}
  /\ closing = "no"
  /\ boots < MaxBoots
  /\ pw' = "down"
  /\ nextOffset' = 0 /\ active' = {} /\ pending' = {} /\ inFlight' = {}
  /\ walBase' = 0 /\ walLinked' = FALSE
  /\ uploads' = {} /\ durable' = {}
  /\ up' = "down" /\ batch' = NoBatch /\ evicting' = {}
  /\ UNCHANGED <<diskVars, storeVars, cfg, closing, boots, acked>>

\* Mutant: recovery does not look for uploaded segments.
Covered_Never(b) == b \notin Offset

\* A WAL file whose segment is in the manifest.
Covered(b) == b <= LastUploaded /\ b \in Bases

\* Mutant: only the manifest counts.
RecoveredNext_ManifestOnly(left) == LastUploaded + 1

\* The next offset: above the manifest's tail and above every record found.
RecoveredNext(left) ==
  Max({LastUploaded + 1} \cup {o + 1 : o \in UNION {Offs(wal[b]) : b \in left}})

\* The files recovery reads: those with records and without an entry.
UncoveredFiles == {b \in Offset : wal[b] # {} /\ ~Covered(b)}

\* recover_partition and spawn_partition: covered files are removed (errors
\* ignored), the remaining one with the largest base becomes the active
\* segment, the others are queued for upload in base order.
Recover ==
  /\ pw = "down"
  /\ LET left == UncoveredFiles
         next == RecoveredNext(left)
     IN  /\ \E gone \in SUBSET {b \in Offset : Covered(b)} :
              wal' = [b \in Offset |-> IF b \in gone THEN {} ELSE wal[b]]
         /\ nextOffset' = next
         /\ active' = IF left = {} THEN {} ELSE wal[Max(left)]
         /\ walBase' = IF left = {} THEN next ELSE Min(Offs(wal[Max(left)]))
         /\ walLinked' = TRUE
         /\ uploads' = {[base |-> b, last |-> Max(Offs(wal[b])), recs |-> wal[b]] :
                          b \in {c \in left : c # Max(left)}}
  /\ pw' = "running"
  /\ up' = "idle"
  /\ cfg' \in Configs
  /\ boots' = boots + 1
  /\ UNCHANGED <<storeVars, pending, inFlight, batch, evicting, closing, durable,
                 acked>>

-----------------------------------------------------------------------------
Init ==
  /\ wal = [b \in Offset |-> {}]
  /\ obj = [b \in Offset |-> {}]
  /\ manifest = {}
  /\ pw = "running"
  /\ cfg \in Configs
  /\ nextOffset = 0 /\ active = {} /\ pending = {} /\ inFlight = {}
  /\ walBase = 0 /\ walLinked = TRUE
  /\ uploads = {} /\ durable = {}
  /\ up = "idle" /\ batch = NoBatch /\ evicting = {} /\ closing = "no"
  /\ boots = 0 /\ acked = {} /\ evicted = {}

Next ==
  \/ \E n \in 1 .. MaxBatch : OnProduce(n)
  \/ GroupCommitTimeout
  \/ OnDurable
  \/ UpdateConfig
  \/ Shutdown
  \/ TakeUpload
  \/ PutSegment
  \/ PutManifest
  \/ UploadFails
  \/ SendDurable
  \/ RetentionKick
  \/ RetentionKeeps
  \/ RetentionRewrites
  \/ RetentionDeletes
  \/ SendUploaderShutdown
  \/ UploaderShutdown
  \/ Crash
  \/ Recover

Spec == Init /\ [][Next]_vars

\* The tasks of a live broker keep running.  A failing store call is retried
\* for ever and succeeds if it can succeed again and again (SF); a retention
\* kick never overtakes the batches queued before it (SF on TakeUpload).
\* Producers, the operator and the store's failures owe nothing, and neither
\* does SendDurable, an untimed send to a channel that may stay full.
Fairness ==
  /\ WF_vars(GroupCommitTimeout)
  /\ WF_vars(OnDurable)
  /\ SF_vars(TakeUpload)
  /\ SF_vars(PutSegment)
  /\ SF_vars(PutManifest)
  /\ WF_vars(RetentionKeeps \/ RetentionRewrites)
  /\ WF_vars(RetentionDeletes)
  /\ WF_vars(Recover)

FairSpec == Spec /\ Fairness

-----------------------------------------------------------------------------
(* Properties *)

\* Every variable has its type.
TypeOK ==
  /\ wal \in [Offset -> SUBSET Rec]
  /\ obj \in [Offset -> SUBSET Rec]
  /\ manifest \subseteq Entry
  /\ pw \in {"running", "panicked", "stopped", "down"}
  /\ cfg \in Configs
  /\ nextOffset \in Offset
  /\ active \subseteq Rec
  /\ pending \subseteq Rec
  /\ walBase \in Offset
  /\ walLinked \in BOOLEAN
  /\ inFlight \subseteq Offset
  /\ uploads \subseteq Batch
  /\ up \in {"idle", "segment", "manifest", "durable", "retention", "delete",
             "stopped", "down"}
  /\ batch \in Batch
  /\ evicting \subseteq Entry
  /\ closing \in {"no", "acked", "late"}
  /\ durable \subseteq Offset
  /\ boots \in 0 .. MaxBoots
  /\ acked \subseteq Rec
  /\ evicted \subseteq Rec

\* README.md: "never loses acked records".  Whatever the interleaving of
\* commits, uploads, WAL removals, retention and crashes, a record whose
\* producer was acked is in a WAL file, in an object the manifest names, or
\* was evicted by retention.
AckedDurable == acked \subseteq InWal \cup Manifested \cup evicted

\* An offset identifies one record for good: a restart never assigns an
\* offset again that an acked or stored record has.
OffsetsUnique ==
  \A r, s \in acked \cup InWal \cup Manifested : r.off = s.off => r = s

\* manifest.rs: the segment list is "offset-sorted, non-overlapping", which
\* segment_for_offset's binary search and last_uploaded_offset rely on.
ManifestNonOverlapping ==
  \A e, f \in manifest : e.base < f.base => e.last < f.base

\* Without retention the manifest tiles the uploaded log: every offset up to
\* the last uploaded one is in exactly one segment, and the segment's object
\* holds exactly the offsets its entry announces.
ManifestTiles ==
  /\ ManifestNonOverlapping
  /\ \A o \in 0 .. LastUploaded : \E e \in manifest : o \in e.base .. e.last
  /\ \A e \in manifest : Offs(obj[e.base]) = e.base .. e.last

\* The manifest never names an object that is missing or that starts or ends
\* elsewhere than the entry says: uploads put the object first, retention
\* deletes it last, and a retried or repeated upload changes neither end.
ManifestBacked ==
  \A e \in manifest : {e.base, e.last} \subseteq Offs(obj[e.base])

\* Once the Uploader has acked DeleteTopic's Shutdown, every record that was
\* acked is in the object store (uploader.rs: "every pending PUT + manifest
\* update is durable by the time we ack"), provided that the writer's own ack
\* came first.  DeleteTopic goes on without that ack after 10 s, or at once
\* when the writer panicked; acked records may then be in the WAL alone.
ShutdownDrained ==
  up = "stopped" /\ closing = "acked" => acked \subseteq Manifested \cup evicted

\* Recovery takes the next offset from the manifest's tail entry, so the tail
\* may never move back, whatever retention evicts.
LastUploadedNeverRegresses == [][LastUploaded' >= LastUploaded]_vars

\* A sealed segment that the Uploader has in its queue reaches the manifest
\* however often the store fails, unless the broker crashes first: the Uploader
\* retries for ever, and takes what was queued before a Shutdown.  The premise
\* is that it never blocks for good in durable_tx.send, as it does in the
\* circular wait of writer, Uploader and forwarder (PartitionChannels).
SealedReachesManifest ==
  []<>(up # "durable") =>
    \A b \in Offset :
      (b \in {u.base : u \in uploads}) ~> (b \in Bases \/ pw = "down")

\* The partition is an append-only log for its producers: see CommitLog.
Log == INSTANCE CommitLog
         WITH Records <- Rec,
              log <- InWal \cup Manifested,
              ackedLog <- acked

IsCommitLog == Log!Spec
=============================================================================
