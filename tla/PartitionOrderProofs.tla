------------------------ MODULE PartitionOrderProofs ------------------------
(***************************************************************************)
(* The order of a partition's log, for every value of the constants: what  *)
(* the manifest says of the objects, what DeleteTopic leaves behind, that  *)
(* the manifest's tail never moves back, that an offset is one record's    *)
(* for good, and that the partition implements CommitLog.                  *)
(*                                                                         *)
(* All of it rests on DurabilityInv and is layered: SpanInv and DrainInv   *)
(* hold beside DurabilityInv, FreshInv needs SpanInv, and OrderInv needs   *)
(* the three and that retention is off.  A step is first reduced to one of *)
(* eight moves (StepMoves), and each layer is shown to survive each move.  *)
(***************************************************************************)
EXTENDS PartitionLogProofs

-----------------------------------------------------------------------------
(* The invariants *)

\* recs starts at offset first, ends at offset last and stays between them.
Spans(first, last, recs) ==
  /\ {first, last} \subseteq Offs(recs)
  /\ \A r \in recs : first <= r.off /\ r.off <= last

\* A sealed segment and a manifest entry tell their first and last offset
\* right, and a base has one entry.
SpanInv ==
  /\ \A u \in Work : Spans(u.base, u.last, u.recs)
  /\ \A e \in manifest : Spans(e.base, e.last, obj[e.base])
  /\ \A e, f \in manifest : e.base = f.base => e = f

\* What a WAL file is still there for, and that a stopped Uploader has left
\* nothing undone of what was queued before its Shutdown.  The open file
\* follows every sealed segment, and so does a segment sealed behind a late
\* Shutdown, which nobody uploads.
DrainInv ==
  /\ up = "stopped" => closing # "no" /\ Work = {}
  /\ closing = "acked" => pw = "stopped"
  /\ pw = "down" => closing = "no"
  /\ pw = "stopped" => wal[walBase] = {}
  /\ pw # "down" =>
       /\ \A u \in Work : u.base < walBase
       /\ \A b \in Offset :
            \/ wal[b] \subseteq evicted
            \/ b \in Bases \/ b = walBase
            \/ \E u \in Work : u.base = b
            \/ closing = "late" /\ \A u \in Work : u.base < b

\* The file b starts above every entry of the manifest.
Above(b) == \A e \in manifest : e.base < b

Fresh(b) == wal[b] # {} /\ Above(b)

\* The files above the manifest follow one another,
FilesOrdered ==
  \A b, c \in Offset :
    Fresh(b) /\ Fresh(c) /\ b < c => \A r \in wal[b] : r.off < c

\* and the last offset of the tail entry,
TailBelow == \A c \in Offset : Fresh(c) => LastUploaded < c

\* and a running writer's file and next offset follow them all.
WriterAhead ==
  pw = "running" =>
    /\ LastUploaded < nextOffset
    /\ Above(walBase) => LastUploaded < walBase
    /\ \A b \in Offset : Fresh(b) =>
         \A r \in wal[b] :
           /\ r.off < nextOffset
           /\ b # walBase => r.off < walBase

\* A file below the tail (one whose removal failed and whose entry retention
\* evicted) is left out: what the code does with it cannot move the tail.
FreshInv == FilesOrdered /\ TailBelow /\ WriterAhead

\* Without retention a file that has no entry is above the manifest, the open
\* one is even while it is empty, and the Uploader works on the first of them.
UploadsInOrder ==
  /\ ManifestNonOverlapping
  /\ pw = "running" => Above(walBase)
  /\ \A b \in Offset : wal[b] # {} /\ b \notin Bases =>
       Above(b) /\ (Busy => batch.base <= b)

\* The records a crash leaves.
Stored == InWal \cup Manifested

\* An offset belongs to one record, stored or pending.
OneRecordEach ==
  \A r, s \in Stored \cup pending : r.off = s.off => r = s

\* The stored records have no gap, and the pending ones follow up to the next
\* offset of a running writer.
NoGaps ==
  /\ \A r \in Stored : \A o \in 0 .. r.off - 1 : o \in Offs(Stored)
  /\ \A r \in Stored, p \in pending : r.off < p.off
  /\ pw = "running" => Offs(Stored \cup pending) = 0 .. nextOffset - 1
  /\ pw # "running" => pending = {}

OrderInv == evicted = {} /\ UploadsInOrder /\ OneRecordEach /\ NoGaps

-----------------------------------------------------------------------------
(* The moves *)

\* The records of a Produce of n, and those a commit takes with them.
Arrivals(n) ==
  {[off |-> o, boot |-> boots] : o \in nextOffset .. (nextOffset + n) - 1}

Group(n) == pending \cup Arrivals(n)

\* No file changes, the manifest neither, and no object that it names; the
\* Uploader starts on its first segment or is done with one that is stored.
Quiet ==
  /\ UNCHANGED <<wal, manifest, evicted, acked, pw, nextOffset, active, pending,
                 walBase>>
  /\ \A e \in manifest : obj'[e.base] = obj[e.base]
  /\ Work' \subseteq Work
  /\ \A u \in Work : u \in Work' \/ u.base \in Bases
  /\ up' = "stopped" => up = "stopped" \/ (closing # "no" /\ Work' = {})
  /\ \/ closing' = closing
     \/ /\ closing = "no" /\ pw # "down"
        /\ closing' = IF pw = "stopped" THEN "acked" ELSE "late"
  /\ Busy' => \/ Busy /\ batch' = batch
              \/ batch' \in Work /\ \A u \in Work : batch'.base <= u.base

\* The file of a durable segment is removed.
Forgets ==
  \E b \in Offset :
    /\ pw = "running" /\ b # walBase
    /\ wal[b] \subseteq Manifested \cup evicted
    /\ wal' = [wal EXCEPT ![b] = {}]
    /\ UNCHANGED <<obj, manifest, evicted, acked, pw, nextOffset, active, pending,
                   walBase, uploads, up, batch, closing>>

\* A Produce waits for the group commit.
Holds ==
  \E n \in 1 .. MaxBatch :
    /\ pw = "running"
    /\ nextOffset + n \in Offset
    /\ pending' = Group(n)
    /\ nextOffset' = nextOffset + n
    /\ UNCHANGED <<wal, obj, manifest, evicted, acked, pw, active, walBase, uploads,
                   up, batch, closing>>

\* The four ends of a commit of recs, of which w reached the open file.
Panics(recs, w) ==
  pw' = "panicked" /\ UNCHANGED <<acked, walBase, uploads>>

Grows(recs, w) ==
  /\ w = recs /\ recs # {}
  /\ pw' = "running"
  /\ acked' = acked \cup recs
  /\ UNCHANGED <<walBase, uploads>>

Seals(recs, w) ==
  /\ w = recs
  /\ pw' \in {"running", "stopped"}
  /\ acked' = acked \cup recs
  /\ walBase' = nextOffset'
  /\ \E u \in Batch :
       /\ u.base = walBase /\ u.recs = active \cup recs /\ u.recs # {}
       /\ Spans(u.base, u.last, u.recs)
       /\ uploads' = IF closing = "no" THEN uploads \cup {u} ELSE uploads

Ends(recs, w) ==
  /\ recs = {} /\ active = {}
  /\ pw' = "stopped"
  /\ UNCHANGED <<acked, walBase, uploads>>

CommitsGroup(n, w) ==
  /\ Committable(Group(n), nextOffset + n)
  /\ \A r \in w, s \in Group(n) : s.off < r.off => s \in w
  /\ wal' = WalAppend(w)
  /\ nextOffset' = nextOffset + n
  /\ pending' = {}
  /\ \/ Panics(Group(n), w) \/ Grows(Group(n), w)
     \/ Seals(Group(n), w) \/ Ends(Group(n), w)
  /\ UNCHANGED <<obj, manifest, evicted, up, batch, evicting, closing, durable>>

Commits ==
  \E n \in 0 .. MaxBatch : \E w \in SUBSET Group(n) : CommitsGroup(n, w)

\* The manifest names the Uploader's batch.
Names ==
  /\ Busy /\ batch.base \notin Bases
  /\ obj[batch.base] = batch.recs
  /\ manifest' = manifest \cup {EntryOf(batch)}
  /\ up' # "stopped"
  /\ UNCHANGED <<wal, obj, evicted, acked, pw, nextOffset, active, pending, walBase,
                 uploads, batch, closing>>
  /\ Busy'

\* Retention drops a prefix of the manifest.
Evicts ==
  \E s \in EvictablePrefixes :
    /\ manifest' = manifest \ s
    /\ evicted' = evicted \cup UNION {obj[e.base] : e \in s}
    /\ RetentionEnabled
    /\ up' # "stopped" /\ ~ Busy /\ ~ Busy'
    /\ UNCHANGED <<wal, obj, acked, pw, nextOffset, active, pending, walBase,
                   uploads, batch, closing>>

Dies ==
  /\ pw' = "down" /\ up' # "stopped" /\ Work' = {} /\ ~ Busy' /\ pending' = {}
  /\ closing = "no"
  /\ UNCHANGED <<wal, obj, manifest, evicted, acked, closing>>

\* Recovery reads the files without an entry: the last becomes the open file,
\* the others are queued.
Restarts ==
  /\ pw = "down" /\ closing' = closing
  /\ pw' = "running" /\ up' # "stopped" /\ ~ Busy' /\ pending' = {}
  /\ UNCHANGED <<obj, manifest, evicted, acked>>
  /\ \A b \in Offset : wal'[b] = wal[b] \/ (b \in Bases /\ wal'[b] = {})
  /\ walBase' \in Offset /\ nextOffset' \in Offset
  /\ LastUploaded < nextOffset'
  /\ \A b \in Offset : b \notin Bases => \A r \in wal[b] : r.off < nextOffset'
  /\ \/ nextOffset' = LastUploaded + 1
     \/ \E b \in Offset : \E r \in wal[b] : nextOffset' = r.off + 1
  /\ \/ walBase' = nextOffset'
     \/ wal[walBase'] # {} /\ walBase' \notin Bases
  /\ \A b \in Offset : wal[b] # {} /\ b \notin Bases =>
       b <= walBase' /\ (b = walBase' \/ \E u \in Work' : u.base = b)
  /\ \A u \in Work' : u.base < walBase' /\ Spans(u.base, u.last, u.recs)

Move ==
  Quiet \/ Forgets \/ Holds \/ Commits \/ Names \/ Evicts \/ Dies \/ Restarts

-----------------------------------------------------------------------------
(* Every step is a move *)

LEMMA GroupOfPending == pw = "running" /\ TypeOK => Group(0) = pending
<1> SUFFICES ASSUME TypeOK PROVE Group(0) = pending
  OBVIOUS
<1>1. nextOffset \in Int
  BY DEF TypeOK, Offset
<1>2. nextOffset .. (nextOffset + 0) - 1 = {}
  BY <1>1
<1>3. QED
  BY <1>2 DEF Group, Arrivals

\* A group that a Produce joins is not empty and can be committed.
LEMMA GroupCommittable ==
  ASSUME DurabilityInv, NEW n \in 1 .. MaxBatch, pw = "running",
         nextOffset + n <= MaxOffset
  PROVE  Committable(Group(n), nextOffset + n) /\ Group(n) # {}
<1> DEFINE next == nextOffset + n
           new  == Arrivals(n)
<1>1. /\ next \in Offset /\ nextOffset \in Int /\ next \in Int /\ nextOffset < next
      /\ walBase \in Int /\ boots \in 0 .. MaxBoots
  BY ConstantsAssumption DEF DurabilityInv, TypeInv, TypeOK, Offset
<1>2. Group(n) = pending \cup new
  BY DEF Group
<1>3. /\ \A r \in new : r.off \in Int /\ nextOffset <= r.off /\ r.off < next
      /\ \E r \in new : r.off = nextOffset
  <2>1. ASSUME NEW r \in Arrivals(n)
        PROVE  r.off \in Int /\ nextOffset <= r.off /\ r.off < nextOffset + n
    <3>1. PICK o \in nextOffset .. (nextOffset + n) - 1 : r = [off |-> o, boot |-> boots]
      BY DEF Arrivals
    <3>2. r.off = o
      BY <3>1
    <3>3. o \in Int /\ nextOffset <= o /\ o < nextOffset + n
      BY <1>1
    <3>4. QED
      BY <3>2, <3>3
  <2>2. nextOffset \in nextOffset .. (nextOffset + n) - 1
    BY <1>1
  <2>3. [off |-> nextOffset, boot |-> boots] \in Arrivals(n)
    BY <2>2 DEF Arrivals
  <2>4. \E r \in Arrivals(n) : r.off = nextOffset
    BY <2>3
  <2>5. QED
    BY <2>1, <2>4
<1>4. new \subseteq Rec
  BY <1>1, ConstantsAssumption DEF Arrivals, Rec, Offset, DurabilityInv, TypeInv, TypeOK
<1> HIDE DEF next, new
<1>5. /\ walBase <= nextOffset
      /\ pending \subseteq Rec
      /\ \A r \in pending : r.off \in Int /\ walBase <= r.off /\ r.off < nextOffset
      /\ active = {} /\ pending = {} => walBase = nextOffset
      /\ active = {} /\ pending # {} => \E r \in pending : r.off = walBase
  BY OffsetFacts DEF DurabilityInv, WriterOK, TypeInv, TypeOK
<1>6. \A r \in Group(n) : walBase <= r.off /\ r.off < next
  BY <1>1, <1>2, <1>3, <1>5
<1>7. active = {} => \E r \in Group(n) : r.off = walBase
  BY <1>2, <1>3, <1>5
<1>8. next = nextOffset + n
  BY DEF next
<1>9. QED
  BY <1>1, <1>2, <1>3, <1>4, <1>5, <1>6, <1>7, <1>8 DEF Committable

\* The batch that seal_and_handoff queues starts at the open file's base.
LEMMA SealedSpans ==
  ASSUME DurabilityInv, NEW recs, NEW next, Committable(recs, next),
         active \cup recs # {}
  PROVE  LET u == SealedBatch(active \cup recs)
         IN  /\ u \in Batch
             /\ u.base = walBase /\ u.recs = active \cup recs
             /\ Spans(u.base, u.last, u.recs)
<1> DEFINE S == active \cup recs
           u == SealedBatch(S)
<1>1. /\ S \in SUBSET Rec /\ S # {} /\ walBase \in Int /\ walBase \in Offset
      /\ wal[walBase] = active
  BY DEF DurabilityInv, TypeInv, TypeOK, Committable, WriterOK, Offset
<1>2. \A r \in S : r.off \in Int /\ walBase <= r.off
  BY <1>1, OffsetFacts DEF DurabilityInv, WriterOK, Committable
<1>3. \E r \in S : r.off = walBase
  BY <1>1 DEF DurabilityInv, FilesOK, Committable
<1>4. walBase \in Offs(S) /\ \A o \in Offs(S) : walBase <= o
  BY <1>2, <1>3 DEF Offs
<1> DEFINE m == Min(Offs(S))
           M == Max(Offs(S))
<1>5. /\ m \in Offs(S) /\ M \in Offs(S)
      /\ \A o \in Offs(S) : m <= o /\ o <= M
      /\ Offs(S) \subseteq Int
  BY <1>1, OffsBounds, OffsetFacts
<1>6. u = [base |-> m, last |-> M, recs |-> S]
  BY DEF SealedBatch
<1>7. u \in Batch
  BY <1>1, SealedBatchType
<1>8. \A r \in S : r.off \in Offs(S)
  BY DEF Offs
<1> HIDE DEF S, u, m, M
<1>9. m = walBase
  BY <1>1, <1>4, <1>5
<1>10. \A r \in S : m <= r.off /\ r.off <= M
  BY <1>5, <1>8
<1>11. u.base = m /\ u.last = M /\ u.recs = S
  BY <1>6
<1>12. Spans(u.base, u.last, u.recs)
  BY <1>5, <1>10, <1>11 DEF Spans
<1>13. QED
  BY <1>7, <1>9, <1>11, <1>12 DEF u, S

LEMMA FlushMoves ==
  ASSUME DurabilityInv, ~ OpenMayFail, NEW n \in 0 .. MaxBatch,
         Committable(Group(n), nextOffset + n), Group(n) # {},
         FlushCommit(Group(n), nextOffset + n), nextOffset' = nextOffset + n,
         UNCHANGED <<storeVars, upVars, durable>>
  PROVE  Commits
<1> USE DEF storeVars, upVars
<1> DEFINE recs == Group(n)
<1>1. CASE FlushPanics(recs)
  <2>1. PICK w \in SUBSET recs :
          /\ \A r \in w, s \in recs : s.off < r.off => s \in w
          /\ wal' = WalAppend(w)
    BY <1>1 DEF FlushPanics
  <2>2. Panics(recs, w) /\ pending' = {}
    BY <1>1 DEF FlushPanics, Panics
  <2>3. QED
    BY <2>1, <2>2 DEF Commits, CommitsGroup
<1>2. CASE ~ FlushPanics(recs)
  <2>1. /\ wal' = WalAppend(recs) /\ acked' = acked \cup recs /\ pending' = {}
        /\ pw' = "running"
    BY <1>2 DEF FlushCommit, Committable
  <2>2. CASE Cardinality(active \cup recs) >= cfg.segmentSize
    <3>1. SealAndHandoff(active \cup recs, nextOffset + n)
      BY <1>2, <2>2 DEF FlushCommit
    <3>2. /\ uploads' = Enqueued(SealedBatch(active \cup recs))
          /\ walBase' = nextOffset + n
      BY <3>1 DEF SealAndHandoff
    <3>3. Seals(recs, recs)
      BY <2>1, <3>2, SealedSpans DEF Seals, Enqueued
    <3>4. QED
      BY <2>1, <3>3 DEF Commits, CommitsGroup
  <2>3. CASE ~ (Cardinality(active \cup recs) >= cfg.segmentSize)
    <3>1. Grows(recs, recs)
      BY <1>2, <2>1, <2>3 DEF FlushCommit, Grows
    <3>2. QED
      BY <2>1, <3>1 DEF Commits, CommitsGroup
  <2>4. QED
    BY <2>2, <2>3
<1>3. QED
  BY <1>1, <1>2

LEMMA ProduceMoves ==
  ASSUME DurabilityInv, ~ OpenMayFail, NEW n \in 1 .. MaxBatch, OnProduce(n)
  PROVE  Commits \/ Holds
<1> USE DEF storeVars, upVars
<1>1. /\ pw = "running" /\ nextOffset + n <= MaxOffset
      /\ nextOffset' = nextOffset + n /\ UNCHANGED <<storeVars, upVars, durable>>
  BY DEF OnProduce
<1>2. Committable(Group(n), nextOffset + n) /\ Group(n) # {}
  BY <1>1, GroupCommittable
<1>3. n \in 0 .. MaxBatch
  BY ConstantsAssumption
<1>4. \/ FlushCommit(Group(n), nextOffset + n)
      \/ /\ pending' = Group(n)
         /\ UNCHANGED <<wal, acked, pw, active, uploads, walBase>>
  <2> DEFINE next == nextOffset + n
             new  == {[off |-> o, boot |-> boots] : o \in nextOffset .. next - 1}
  <2>1. \/ FlushCommit(pending \cup new, next)
        \/ /\ pending' = pending \cup new
           /\ UNCHANGED <<wal, acked, pw, active, uploads, walBase>>
    BY DEF OnProduce
  <2>2. Arrivals(n) = new
    BY DEF Arrivals
  <2>3. QED
    BY <2>1, <2>2 DEF Group
<1>5. CASE FlushCommit(Group(n), nextOffset + n)
  BY <1>1, <1>2, <1>3, <1>5, FlushMoves
<1>6. CASE /\ pending' = Group(n)
           /\ UNCHANGED <<wal, acked, pw, active, uploads, walBase>>
  <2>1. nextOffset + n \in Offset
    BY <1>2 DEF Committable
  <2>2. QED
    BY <1>1, <1>6, <2>1 DEF Holds
<1>7. QED
  BY <1>4, <1>5, <1>6

LEMMA TimeoutMoves ==
  ASSUME DurabilityInv, ~ OpenMayFail, GroupCommitTimeout
  PROVE  Commits
<1> USE DEF storeVars, upVars
<1>1. /\ pw = "running" /\ pending # {} /\ FlushCommit(pending, nextOffset)
      /\ nextOffset' = nextOffset /\ UNCHANGED <<storeVars, upVars, durable>>
  BY DEF GroupCommitTimeout
<1>2. Committable(pending, nextOffset)
  BY <1>1, PendingCommittable
<1>3. Group(0) = pending /\ nextOffset + 0 = nextOffset /\ 0 \in 0 .. MaxBatch
  BY <1>1, GroupOfPending, ConstantsAssumption DEF DurabilityInv, TypeInv, TypeOK, Offset
<1>4. QED
  BY <1>1, <1>2, <1>3, FlushMoves

LEMMA ShutdownMoves ==
  ASSUME DurabilityInv, ~ OpenMayFail, Shutdown
  PROVE  Commits
<1> USE DEF storeVars, upVars
<1>1. /\ pw = "running"
      /\ nextOffset' = nextOffset /\ UNCHANGED <<storeVars, upVars, durable>>
  BY DEF Shutdown
<1>2. Committable(pending, nextOffset)
  BY <1>1, PendingCommittable
<1>3. Group(0) = pending /\ nextOffset + 0 = nextOffset /\ 0 \in 0 .. MaxBatch
  BY <1>1, GroupOfPending, ConstantsAssumption DEF DurabilityInv, TypeInv, TypeOK, Offset
<1>4. CASE FlushPanics(pending)
  <2>1. PICK w \in SUBSET pending :
          /\ \A r \in w, s \in pending : s.off < r.off => s \in w
          /\ wal' = WalAppend(w)
    BY <1>4 DEF FlushPanics
  <2>2. Panics(pending, w) /\ pending' = {}
    BY <1>4 DEF FlushPanics, Panics
  <2>3. QED
    BY <1>1, <1>2, <1>3, <2>1, <2>2 DEF Commits, CommitsGroup
<1>5. CASE ~ FlushPanics(pending)
  <2>1. /\ wal' = WalAppend(pending) /\ acked' = acked \cup pending
        /\ pending' = {} /\ pw' = "stopped"
    BY <1>5 DEF Shutdown
  <2>2. CASE active \cup pending # {}
    <3>1. SealAndHandoff(active \cup pending, nextOffset)
      BY <1>5, <2>2 DEF Shutdown
    <3>2. /\ uploads' = Enqueued(SealedBatch(active \cup pending))
          /\ walBase' = nextOffset
      BY <3>1 DEF SealAndHandoff
    <3>3. Seals(pending, pending)
      BY <1>1, <1>2, <2>1, <2>2, <3>2, SealedSpans DEF Seals, Enqueued
    <3>4. QED
      BY <1>1, <1>2, <1>3, <2>1, <3>3 DEF Commits, CommitsGroup
  <2>3. CASE active \cup pending = {}
    <3>1. UNCHANGED <<uploads, walBase>>
      BY <1>5, <2>3 DEF Shutdown
    <3>2. Ends(pending, pending)
      BY <2>1, <2>3, <3>1 DEF Ends
    <3>3. QED
      BY <1>1, <1>2, <1>3, <2>1, <3>2 DEF Commits, CommitsGroup
  <2>4. QED
    BY <2>2, <2>3
<1>6. QED
  BY <1>4, <1>5

LEMMA OnDurableMoves ==
  ASSUME DurabilityInv, OnDurable
  PROVE  Quiet \/ Forgets
<1> USE DEF storeVars, upVars
<1>1. PICK b \in durable :
        \/ wal' = wal
        \/ pw = "running" /\ wal' = [wal EXCEPT ![b] = {}]
  BY DEF OnDurable
<1>2. UNCHANGED <<obj, manifest, evicted, acked, pw, nextOffset, active, pending,
                  walBase, uploads, up, batch, closing>>
  BY DEF OnDurable
<1>3. CASE wal' = wal
  <2>1. Work' = Work /\ Busy' = Busy
    BY <1>2 DEF Work, Busy
  <2>2. QED
    BY <1>2, <1>3, <2>1 DEF Quiet
<1>4. CASE pw = "running" /\ wal' = [wal EXCEPT ![b] = {}]
  <2>1. b \in Offset /\ b # walBase /\ wal[b] \subseteq Manifested \cup evicted
    BY <1>4 DEF DurabilityInv, DurableOK, TypeInv, TypeOK
  <2>2. QED
    BY <1>2, <1>4, <2>1 DEF Forgets
<1>5. QED
  BY <1>1, <1>3, <1>4

LEMMA TakeMoves ==
  ASSUME DurabilityInv, TakeUpload
  PROVE  Quiet
<1> USE DEF storeVars, diskVars, pwVars
<1>1. PICK b \in uploads : /\ \A c \in uploads : b.base <= c.base
                           /\ batch' = b /\ uploads' = uploads \ {b}
  BY DEF TakeUpload
<1>2. up = "idle" /\ up' = "segment"
  BY DEF TakeUpload
<1>3. UNCHANGED <<wal, obj, manifest, evicted, acked, pw, nextOffset, active, pending,
                  walBase, closing>>
  BY DEF TakeUpload
<1>4. Work = uploads /\ Work' = uploads /\ Busy'
  BY <1>1, <1>2 DEF Work, Busy
<1>5. QED
  BY <1>1, <1>2, <1>3, <1>4 DEF Quiet

LEMMA SendMoves ==
  ASSUME DurabilityInv, SendDurable
  PROVE  Quiet
<1> USE DEF storeVars, diskVars, pwVars
<1>1. up = "durable" /\ up' = "retention" /\ uploads' = uploads
  BY DEF SendDurable
<1>2. UNCHANGED <<wal, obj, manifest, evicted, acked, pw, nextOffset, active, pending,
                  walBase, closing>>
  BY DEF SendDurable
<1>3. Work = uploads \cup {batch} /\ Work' = uploads /\ ~ Busy'
  BY <1>1 DEF Work, Busy
<1>4. batch.base \in Bases
  BY <1>1 DEF DurabilityInv, UploaderOK
<1>5. QED
  BY <1>1, <1>2, <1>3, <1>4 DEF Quiet

\* A PUT of the batch's object, whether it answers or not.
LEMMA PutObjectMoves ==
  ASSUME DurabilityInv, up = "segment",
         obj' \in {obj, [obj EXCEPT ![batch.base] = batch.recs]},
         up' \in {"segment", "manifest"},
         UNCHANGED <<wal, manifest, evicted, acked, pwVars, batch, uploads, closing>>
  PROVE  Quiet
<1> USE DEF pwVars
<1>1. /\ obj \in [Offset -> SUBSET Rec] /\ batch.base \in Offset
      /\ \A e \in manifest : e.base \in Offset
  BY DEF DurabilityInv, TypeInv, TypeOK, Batch, Entry
<1>2. batch.base \in Bases => obj[batch.base] = batch.recs
  BY DEF DurabilityInv, UploaderOK
<1>3. \A e \in manifest : obj'[e.base] = obj[e.base]
  BY <1>1, <1>2 DEF Bases
<1>4. Work' = Work /\ Busy' /\ Busy
  BY DEF Work, Busy
<1>5. QED
  BY <1>3, <1>4 DEF Quiet

\* A PUT of the manifest, whether it answers or not.
LEMMA PutEntryMoves ==
  ASSUME DurabilityInv, up = "manifest",
         manifest' \in {manifest, WithEntry(batch)},
         up' \in {"segment", "durable"},
         UNCHANGED <<wal, obj, evicted, acked, pwVars, batch, uploads, closing>>
  PROVE  Quiet \/ Names
<1> USE DEF pwVars
<1>1. Work' = Work /\ Busy' /\ Busy
  BY DEF Work, Busy
<1>2. obj[batch.base] = batch.recs
  BY DEF DurabilityInv, UploaderOK
<1>3. CASE manifest' = manifest
  BY <1>1, <1>3 DEF Quiet
<1>4. CASE manifest' # manifest
  <2>1. manifest' = WithEntry(batch)
    BY <1>4
  <2>2. batch.base \notin Bases /\ manifest' = manifest \cup {EntryOf(batch)}
    BY <1>4, <2>1 DEF WithEntry
  <2>3. QED
    BY <1>1, <1>2, <2>2 DEF Names
<1>5. QED
  BY <1>3, <1>4

LEMMA RewriteMoves ==
  ASSUME DurabilityInv, RetentionRewrites
  PROVE  Evicts
<1> USE DEF diskVars, pwVars
<1>1. PICK s \in EvictablePrefixes :
        /\ manifest' = manifest \ s
        /\ evicted' = evicted \cup UNION {obj[e.base] : e \in s}
        /\ up' \in {"delete", "idle"}
  BY DEF RetentionRewrites
<1>2. /\ RetentionEnabled /\ up = "retention"
      /\ UNCHANGED <<wal, obj, acked, pw, nextOffset, active, pending, walBase,
                     uploads, batch, closing>>
  BY DEF RetentionRewrites
<1>3. ~ Busy /\ ~ Busy' /\ up' # "stopped"
  BY <1>1, <1>2 DEF Busy
<1>4. QED
  BY <1>1, <1>2, <1>3 DEF Evicts

LEMMA DeletesMoves ==
  ASSUME DurabilityInv, RetentionDeletes
  PROVE  Quiet
<1> USE DEF diskVars, pwVars
<1>1. PICK e \in evicting :
        /\ obj' \in {obj, [obj EXCEPT ![e.base] = {}]}
        /\ up' = IF evicting = {e} THEN "idle" ELSE "delete"
  BY DEF RetentionDeletes
<1>2. /\ up = "delete"
      /\ UNCHANGED <<wal, manifest, evicted, acked, batch, uploads, closing>>
      /\ UNCHANGED <<pw, nextOffset, active, pending, walBase>>
  BY DEF RetentionDeletes
<1>3. /\ obj \in [Offset -> SUBSET Rec] /\ \A f \in manifest : f.base \in Offset
      /\ e.base \notin Bases
  BY <1>1 DEF DurabilityInv, TypeInv, TypeOK, Entry, UploaderOK
<1>4. \A f \in manifest : obj'[f.base] = obj[f.base]
  BY <1>1, <1>3 DEF Bases
<1>5. Work' = Work /\ ~ Busy /\ ~ Busy' /\ up' # "stopped"
  BY <1>1, <1>2 DEF Work, Busy
<1>6. QED
  BY <1>2, <1>4, <1>5 DEF Quiet

\* The Uploader between two batches, and steps that concern neither files nor
\* store.
LEMMA IdleMoves ==
  ASSUME DurabilityInv,
         \/ RetentionKick \/ RetentionKeeps \/ SendUploaderShutdown
         \/ UploaderShutdown \/ UpdateConfig \/ UNCHANGED vars
  PROVE  Quiet
<1> USE DEF storeVars, diskVars, pwVars, upVars
<1>1. UNCHANGED <<wal, obj, manifest, evicted, acked, pw, nextOffset, active, pending,
                  walBase, uploads, batch>>
  BY DEF RetentionKick, RetentionKeeps, SendUploaderShutdown, UploaderShutdown,
     UpdateConfig, vars
<1>2. \/ up' = up
      \/ up \in {"idle", "retention"} /\ up' \in {"idle", "retention"}
      \/ up = "idle" /\ up' = "stopped" /\ closing # "no" /\ uploads = {}
  BY DEF RetentionKick, RetentionKeeps, SendUploaderShutdown, UploaderShutdown,
     UpdateConfig, vars
<1>3. Work' = Work /\ Busy' = Busy
  BY <1>1, <1>2 DEF Work, Busy
<1>4. up' = "stopped" => up = "stopped" \/ (closing # "no" /\ Work' = {})
  BY <1>1, <1>2 DEF Work, Busy
<1>5. \/ closing' = closing
      \/ /\ closing = "no" /\ pw # "down"
         /\ closing' = IF pw = "stopped" THEN "acked" ELSE "late"
  BY DEF RetentionKick, RetentionKeeps, SendUploaderShutdown, UploaderShutdown,
     UpdateConfig, vars
<1>6. QED
  BY <1>1, <1>3, <1>4, <1>5 DEF Quiet

LEMMA CrashMoves ==
  ASSUME Crash
  PROVE  Dies
<1> USE DEF storeVars, diskVars
<1>1. pw' = "down" /\ up' = "down" /\ uploads' = {} /\ pending' = {}
  BY DEF Crash
<1>2. Work' = {} /\ ~ Busy'
  BY <1>1 DEF Work, Busy
<1>3. QED
  BY <1>1, <1>2 DEF Crash, Dies

\* The next offset recovery computes is the one after a record it found or
\* after the manifest's tail.
LEMMA RecoveredNextAttained ==
  ASSUME manifest \subseteq Entry, wal \in [Offset -> SUBSET Rec],
         NEW left \in SUBSET Offset
  PROVE  \/ RecoveredNext(left) = LastUploaded + 1
         \/ \E b \in left : \E r \in wal[b] : RecoveredNext(left) = r.off + 1
<1> DEFINE L == LastUploaded
           O == UNION {Offs(wal[b]) : b \in left}
           S == {L + 1} \cup {o + 1 : o \in O}
<1>1. L \in Int /\ L < MaxOffset
  BY LastUploadedType
<1>2. O \subseteq 0 .. MaxOffset - 1
  BY OffsetFacts DEF Offs
<1>3. \A o \in O : \E b \in left : \E r \in wal[b] : r.off = o
  BY DEF Offs
<1>4. RecoveredNext(left) = Max(S)
  BY DEF RecoveredNext
<1> HIDE DEF O, L
<1>5. S \in SUBSET Int /\ S # {} /\ \A x \in S : x <= MaxOffset
  BY <1>1, <1>2, OffsetFacts
<1>6. Max(S) \in S
  <2>1. MaxOffset \in Int
    BY OffsetFacts
  <2>2. QED
    BY <1>5, <2>1, MaxOfBounded
<1>7. Max(S) = L + 1 \/ \E o \in O : Max(S) = o + 1
  BY <1>6
<1>8. QED
  BY <1>3, <1>4, <1>7 DEF L

\* A non-empty file spans its name and its last record.
LEMMA FileSpans ==
  ASSUME DurabilityInv, NEW b \in Offset, wal[b] # {}
  PROVE  Min(Offs(wal[b])) = b /\ Spans(b, Max(Offs(wal[b])), wal[b])
<1> DEFINE S == Offs(wal[b])
           m == Min(S)
           M == Max(S)
<1>1. wal[b] \in SUBSET Rec /\ b \in Int
  BY DEF DurabilityInv, TypeInv, TypeOK, Offset
<1>2. b \in S /\ \A o \in S : b <= o
  BY DEF DurabilityInv, FilesOK, Offs
<1>3. m \in S /\ M \in S /\ S \subseteq Int /\ \A o \in S : m <= o /\ o <= M
  BY <1>1, OffsBounds, OffsetFacts
<1>4. \A r \in wal[b] : r.off \in S
  BY DEF Offs
<1> HIDE DEF m, M
<1>5. m = b
  BY <1>1, <1>2, <1>3
<1>6. Spans(b, M, wal[b])
  BY <1>2, <1>3, <1>4 DEF Spans
<1>7. QED
  BY <1>5, <1>6 DEF m, M

LEMMA RecoverMoves ==
  ASSUME DurabilityInv, Recover
  PROVE  Restarts
<1> USE DEF storeVars
<1> DEFINE left == UncoveredFiles
           next == RecoveredNext(left)
<1>1. PICK gone \in SUBSET {b \in Offset : Covered(b)} :
        wal' = [b \in Offset |-> IF b \in gone THEN {} ELSE wal[b]]
  BY DEF Recover
<1>2. /\ pw = "down" /\ closing' = closing /\ pw' = "running" /\ up' = "idle"
      /\ nextOffset' = next
      /\ walBase' = IF left = {} THEN next ELSE Min(Offs(wal[Max(left)]))
      /\ uploads' = {[base |-> b, last |-> Max(Offs(wal[b])), recs |-> wal[b]] :
                       b \in {c \in left : c # Max(left)}}
  BY DEF Recover
<1>3. UNCHANGED <<obj, manifest, evicted, acked>> /\ pending' = {}
  BY DEF Recover, DurabilityInv, TypeInv, DownOK
<1>4. /\ manifest \subseteq Entry /\ wal \in [Offset -> SUBSET Rec]
      /\ Offset \subseteq Int /\ MaxOffset \in Int
      /\ \A b \in Offset : b <= MaxOffset
  BY OffsetFacts DEF DurabilityInv, TypeInv, TypeOK, Offset
<1>5. left \subseteq Offset /\ \A b \in left : wal[b] # {} /\ b \notin Bases
  BY CoveredIsManifested DEF UncoveredFiles
<1>6. \A b \in Offset : wal[b] # {} /\ b \notin Bases => b \in left
  BY CoveredIsManifested DEF UncoveredFiles
<1>7. \A b \in gone : b \in Offset /\ b \in Bases
  BY CoveredIsManifested
<1>8. /\ next \in Offset /\ LastUploaded < next
      /\ \A b \in left : \A r \in wal[b] : r.off < next
  <2>1. next \in Offset /\ next > LastUploaded
        /\ \A b \in left : \A r \in wal[b] : r.off < next
    BY <1>4, <1>5, RecoveredNextBounds
  <2>2. LastUploaded \in Int
    BY <1>4, LastUploadedType
  <2> DEFINE L == LastUploaded
  <2>3. next > L /\ L \in Int
    BY <2>1, <2>2
  <2> HIDE DEF L, next
  <2>4. L < next
    BY <1>4, <2>1, <2>3
  <2>5. QED
    BY <2>1, <2>4 DEF L
<1>9. \/ next = LastUploaded + 1
      \/ \E b \in Offset : \E r \in wal[b] : next = r.off + 1
  BY <1>4, <1>5, RecoveredNextAttained
<1> HIDE DEF left, next
<1>10. \A b \in Offset : wal'[b] = wal[b] \/ (b \in Bases /\ wal'[b] = {})
  BY <1>1, <1>7
<1>11. left # {} => Max(left) \in left /\ \A b \in left : b <= Max(left)
  BY <1>4, <1>5, MaxOfBounded
<1>12. left # {} => walBase' = Max(left)
  BY <1>2, <1>5, <1>11, FileSpans
<1>13. \/ walBase' = next
       \/ wal[walBase'] # {} /\ walBase' \notin Bases
  BY <1>2, <1>5, <1>11, <1>12
<1>13a. walBase' \in Offset
  BY <1>2, <1>5, <1>8, <1>11, <1>12
<1>14. Work' = uploads' /\ ~ Busy'
  BY <1>2 DEF Work, Busy
<1>15. \A u \in uploads' : \E b \in left :
         /\ b # Max(left) /\ u.base = b /\ u.last = Max(Offs(wal[b])) /\ u.recs = wal[b]
  BY <1>2
<1>16. ASSUME NEW b \in left, b # Max(left) PROVE \E u \in uploads' : u.base = b
  <2> DEFINE u == [base |-> b, last |-> Max(Offs(wal[b])), recs |-> wal[b]]
  <2>1. u \in uploads'
    BY <1>2, <1>16
  <2>2. u.base = b
    OBVIOUS
  <2>3. QED
    BY <2>1, <2>2
<1>17. ASSUME NEW u \in Work' PROVE u.base < walBase' /\ Spans(u.base, u.last, u.recs)
  <2>1. PICK b \in left :
          /\ b # Max(left) /\ u.base = b /\ u.last = Max(Offs(wal[b])) /\ u.recs = wal[b]
    BY <1>14, <1>15
  <2>2. Spans(u.base, u.last, u.recs)
    BY <1>5, <2>1, FileSpans
  <2> DEFINE m == Max(left)
  <2>3. m \in Int /\ b \in Int /\ b <= m /\ b # m /\ walBase' = m
    BY <1>4, <1>5, <1>11, <1>12, <2>1
  <2> HIDE DEF m
  <2>4. b < m
    BY <2>3
  <2>5. QED
    BY <2>1, <2>2, <2>3, <2>4
<1>18. ASSUME NEW b \in Offset, wal[b] # {}, b \notin Bases
       PROVE  b <= walBase' /\ (b = walBase' \/ \E u \in Work' : u.base = b)
  BY <1>6, <1>11, <1>12, <1>14, <1>16, <1>18
<1>19. \A b \in Offset : b \notin Bases => \A r \in wal[b] : r.off < next
  BY <1>6, <1>8
<1>20. QED
  BY <1>2, <1>3, <1>8, <1>9, <1>10, <1>13, <1>14, <1>17, <1>18, <1>19, <1>13a DEF Restarts

LEMMA StepMoves ==
  ASSUME ~ OpenMayFail, DurabilityInv, [Next]_vars
  PROVE  Move
<1> USE DEF Move, storeVars, diskVars, pwVars, upVars
<1>1. ASSUME NEW n \in 1 .. MaxBatch, OnProduce(n) PROVE Move
  BY <1>1, ProduceMoves
<1>2. CASE GroupCommitTimeout
  BY <1>2, TimeoutMoves
<1>3. CASE OnDurable
  BY <1>3, OnDurableMoves
<1>4. CASE Shutdown
  BY <1>4, ShutdownMoves
<1>5. CASE TakeUpload
  BY <1>5, TakeMoves
<1>6. CASE PutSegment
  BY <1>6, PutObjectMoves DEF PutSegment
<1>7. CASE PutManifest
  BY <1>7, PutEntryMoves DEF PutManifest
<1>8. CASE UploadFails
  <2>1. CASE up = "segment"
    BY <1>8, <2>1, PutObjectMoves DEF UploadFails
  <2>2. CASE up = "manifest"
    BY <1>8, <2>2, PutEntryMoves DEF UploadFails
  <2>3. QED
    BY <1>8, <2>1, <2>2 DEF UploadFails
<1>9. CASE SendDurable
  BY <1>9, SendMoves
<1>10. CASE \/ RetentionKick \/ RetentionKeeps \/ SendUploaderShutdown
            \/ UploaderShutdown \/ UpdateConfig \/ UNCHANGED vars
  BY <1>10, IdleMoves
<1>11. CASE RetentionRewrites
  BY <1>11, RewriteMoves
<1>12. CASE RetentionDeletes
  BY <1>12, DeletesMoves
<1>13. CASE Crash
  BY <1>13, CrashMoves
<1>14. CASE Recover
  BY <1>14, RecoverMoves
<1>15. QED
  BY <1>1, <1>2, <1>3, <1>4, <1>5, <1>6, <1>7, <1>8, <1>9, <1>10, <1>11,
     <1>12, <1>13, <1>14 DEF Next

-----------------------------------------------------------------------------
(* Segments and entries span what they say *)

LEMMA SpanKept ==
  ASSUME DurabilityInv, SpanInv, Move
  PROVE  SpanInv'
<1> USE DEF Move
<1>1. CASE Quiet
  <2>1. /\ manifest' = manifest /\ Work' \subseteq Work
        /\ \A e \in manifest : obj'[e.base] = obj[e.base]
    BY <1>1 DEF Quiet
  <2>2. QED
    BY <2>1 DEF SpanInv
<1>2. CASE Forgets \/ Holds
  <2>1. UNCHANGED <<obj, manifest, uploads, up, batch>>
    BY <1>2 DEF Forgets, Holds
  <2>2. Work' = Work
    BY <2>1 DEF Work, Busy
  <2>3. QED
    BY <2>1, <2>2 DEF SpanInv
<1>3. CASE Commits
  <2>1. \E n \in 0 .. MaxBatch : \E w \in SUBSET Group(n) :
          \/ Panics(Group(n), w) \/ Grows(Group(n), w)
          \/ Seals(Group(n), w) \/ Ends(Group(n), w)
    BY <1>3 DEF Commits, CommitsGroup
  <2>2. UNCHANGED <<obj, manifest, up, batch>>
    BY <1>3 DEF Commits, CommitsGroup
  <2>3. \/ uploads' = uploads
        \/ \E u \in Batch : Spans(u.base, u.last, u.recs) /\ uploads' \subseteq uploads \cup {u}
    BY <2>1 DEF Panics, Grows, Seals, Ends
  <2>4. \A u \in Work' : u \in Work \/ Spans(u.base, u.last, u.recs)
    BY <2>2, <2>3 DEF Work, Busy
  <2>5. QED
    BY <2>2, <2>4 DEF SpanInv
<1>4. CASE Names
  <2>1. /\ batch.base \notin Bases /\ obj[batch.base] = batch.recs
        /\ manifest' = manifest \cup {EntryOf(batch)}
        /\ UNCHANGED <<obj, uploads, batch>> /\ Busy /\ Busy'
    BY <1>4 DEF Names
  <2>2. Work' = Work /\ batch \in Work
    BY <2>1 DEF Work
  <2>3. EntryOf(batch).base = batch.base /\ EntryOf(batch).last = batch.last
    BY DEF EntryOf
  <2>4. Spans(batch.base, batch.last, obj[batch.base])
    BY <2>1, <2>2 DEF SpanInv
  <2>5. \A e \in manifest : e.base # batch.base
    BY <2>1 DEF Bases
  <2>6. QED
    BY <2>1, <2>2, <2>3, <2>4, <2>5 DEF SpanInv
<1>5. CASE Evicts
  <2>1. manifest' \subseteq manifest /\ UNCHANGED <<obj, uploads, batch>> /\ ~ Busy /\ ~ Busy'
    BY <1>5 DEF Evicts
  <2>2. Work' = Work
    BY <2>1 DEF Work
  <2>3. QED
    BY <2>1, <2>2 DEF SpanInv
<1>6. CASE Dies
  BY <1>6 DEF Dies, SpanInv
<1>7. CASE Restarts
  BY <1>7 DEF Restarts, SpanInv
<1>8. QED
  BY <1>1, <1>2, <1>3, <1>4, <1>5, <1>6, <1>7

-----------------------------------------------------------------------------
(* What files are kept for *)

\* What the four ends of a commit have in common.
LEMMA CommitAppends ==
  ASSUME DurabilityInv, NEW n \in 0 .. MaxBatch, NEW w \in SUBSET Group(n),
         CommitsGroup(n, w)
  PROVE  /\ pw = "running" /\ walBase \in Offset /\ walBase \notin Bases
         /\ wal[walBase] = active
         /\ wal'[walBase] = active \cup w
         /\ \A b \in Offset : b # walBase => wal'[b] = wal[b]
         /\ Bases' = Bases /\ Manifested' = Manifested /\ InWal' = InWal \cup w
         /\ \A r \in Group(n) : r \in Rec /\ walBase <= r.off /\ r.off < nextOffset + n
<1> USE DEF storeVars, upVars
<1>1. /\ wal'[walBase] = active \cup w
      /\ \A b \in Offset : b # walBase => wal'[b] = wal[b]
      /\ Manifested' = Manifested /\ InWal' = InWal \cup w
  BY AppendKeeps DEF CommitsGroup
<1>2. Bases' = Bases
  BY DEF Bases, CommitsGroup
<1>3. /\ pw = "running" /\ walBase \in Offset /\ walBase \notin Bases
      /\ wal[walBase] = active
  BY DEF DurabilityInv, TypeInv, TypeOK, WriterOK, Committable, CommitsGroup
<1>4. \A r \in Group(n) : r \in Rec /\ walBase <= r.off /\ r.off < nextOffset + n
  BY DEF Committable, CommitsGroup
<1>5. QED
  BY <1>1, <1>2, <1>3, <1>4

LEMMA DrainCommits ==
  ASSUME DurabilityInv, DrainInv, Commits
  PROVE  DrainInv'
<1>0. PICK n \in 0 .. MaxBatch : \E w \in SUBSET Group(n) : CommitsGroup(n, w)
  BY DEF Commits
<1>1. PICK w \in SUBSET Group(n) : CommitsGroup(n, w)
  BY <1>0
<1> USE DEF CommitsGroup
<1>2. /\ pw = "running" /\ walBase \in Offset /\ walBase \notin Bases
      /\ wal[walBase] = active
      /\ wal'[walBase] = active \cup w
      /\ \A b \in Offset : b # walBase => wal'[b] = wal[b]
      /\ Bases' = Bases
  BY <1>1, CommitAppends
<1>3. /\ up' = up /\ closing' = closing
      /\ closing # "acked" /\ pw' # "down"
      /\ up = "stopped" => closing # "no" /\ Work = {}
  BY <1>1, <1>2 DEF DrainInv, Panics, Grows, Seals, Ends
<1>4. /\ \A u \in Work : u.base < walBase
      /\ \A b \in Offset :
           \/ wal[b] \subseteq evicted \/ b \in Bases \/ b = walBase
           \/ \E u \in Work : u.base = b
           \/ closing = "late" /\ \A u \in Work : u.base < b
  BY <1>2 DEF DrainInv
<1>5. CASE Panics(Group(n), w) \/ Grows(Group(n), w) \/ Ends(Group(n), w)
  <2>0. UNCHANGED <<uploads, walBase>>
    BY <1>5 DEF Panics, Grows, Ends
  <2>1. Work' = Work
    BY <1>1, <2>0 DEF Work, Busy
  <2>2. pw' = "stopped" => wal'[walBase'] = {}
    BY <1>2, <1>5, <2>0 DEF Panics, Grows, Ends
  <2>3. \A b \in Offset : \/ wal'[b] \subseteq evicted' \/ b \in Bases' \/ b = walBase'
                          \/ \E u \in Work' : u.base = b
                          \/ closing' = "late" /\ \A u \in Work' : u.base < b
    BY <1>1, <1>2, <1>3, <1>4, <2>0, <2>1
  <2>4. QED
    BY <1>3, <1>4, <2>0, <2>1, <2>2, <2>3 DEF DrainInv
<1>6. CASE Seals(Group(n), w)
  <2>1. PICK u0 \in Batch :
          /\ u0.base = walBase
          /\ uploads' = IF closing = "no" THEN uploads \cup {u0} ELSE uploads
    BY <1>6 DEF Seals
  <2>2. walBase' = nextOffset + n /\ w = Group(n) /\ active \cup w # {}
    BY <1>1, <1>6 DEF Seals
  <2>3. Work' = IF closing = "no" THEN Work \cup {u0} ELSE Work
    BY <1>1, <2>1 DEF Work, Busy
  <2>4. /\ walBase \in Int /\ nextOffset + n \in Int /\ nextOffset + n \in Offset
        /\ nextOffset \in Int /\ nextOffset <= nextOffset + n
        /\ \A u \in Work : u.base \in Int
        /\ \A r \in active \cup w : walBase <= r.off /\ r.off < nextOffset + n /\ r.off \in Int
    BY <1>1, <1>2, OffsetFacts
       DEF Committable, DurabilityInv, TypeInv, TypeOK, Offset, Work, Batch, WriterOK
  <2>5. walBase < nextOffset + n
    BY <2>2, <2>4
  <2>6. \A u \in Work' : u.base < walBase'
    BY <1>4, <2>1, <2>2, <2>3, <2>4, <2>5
  <2>7. wal'[walBase'] = {}
    <3>1. \A b \in Offset : wal[b] # {} => b < nextOffset
      BY <1>2 DEF DurabilityInv, WriterOK
    <3>2. wal[nextOffset + n] = {}
      BY <2>4, <3>1
    <3>3. QED
      BY <1>2, <2>2, <2>4, <2>5, <3>2
  <2>8. \A b \in Offset : \/ wal'[b] \subseteq evicted' \/ b \in Bases' \/ b = walBase'
                          \/ \E u \in Work' : u.base = b
                          \/ closing' = "late" /\ \A u \in Work' : u.base < b
    <3> SUFFICES ASSUME NEW b \in Offset, ~ (wal'[b] \subseteq evicted'),
                        b \notin Bases'
                 PROVE  \/ b = walBase' \/ \E u \in Work' : u.base = b
                        \/ closing' = "late" /\ \A u \in Work' : u.base < b
      OBVIOUS
    <3>1. CASE b = walBase
      <4>1. closing \in {"no", "late"}
        BY <1>3 DEF DurabilityInv, TypeInv, TypeOK
      <4>2. QED
        BY <1>3, <1>4, <2>1, <2>3, <3>1, <4>1
    <3>2. CASE b # walBase
      <4>1. \/ \E u \in Work : u.base = b
            \/ closing = "late" /\ \A u \in Work : u.base < b
        BY <1>1, <1>2, <1>4, <3>2
      <4>2. QED
        BY <1>3, <2>3, <4>1
    <3>3. QED
      BY <3>1, <3>2
  <2>9. closing # "no" => Work' = Work
    BY <2>3
  <2>10. QED
    BY <1>3, <2>6, <2>7, <2>8, <2>9 DEF DrainInv
<1>7. QED
  BY <1>1, <1>5, <1>6

LEMMA DrainKept ==
  ASSUME DurabilityInv, DrainInv, Move
  PROVE  DrainInv'
<1> USE DEF Move
<1>1. CASE Quiet
  <2>1. /\ UNCHANGED <<wal, manifest, evicted, pw, walBase>> /\ Work' \subseteq Work
        /\ \A u \in Work : u \in Work' \/ u.base \in Bases
        /\ up' = "stopped" => up = "stopped" \/ (closing # "no" /\ Work' = {})
        /\ \/ closing' = closing
           \/ /\ closing = "no" /\ pw # "down"
              /\ closing' = IF pw = "stopped" THEN "acked" ELSE "late"
    BY <1>1 DEF Quiet
  <2>2. Bases' = Bases
    BY <2>1 DEF Bases
  <2>3. QED
    BY <2>1, <2>2 DEF DrainInv
<1>2. CASE Forgets
  <2>1. /\ UNCHANGED <<manifest, evicted, pw, walBase, uploads, up, batch, closing>>
        /\ pw = "running"
        /\ \E b \in Offset : wal' = [wal EXCEPT ![b] = {}]
    BY <1>2 DEF Forgets
  <2>2. Work' = Work /\ Bases' = Bases
    BY <2>1 DEF Work, Busy, Bases
  <2>3. \A b \in Offset : wal'[b] \subseteq wal[b]
    BY <2>1 DEF DurabilityInv, TypeInv, TypeOK
  <2>4. QED
    BY <2>1, <2>2, <2>3 DEF DrainInv
<1>3. CASE Holds
  <2>1. UNCHANGED <<wal, manifest, evicted, pw, walBase, uploads, up, batch, closing>>
    BY <1>3 DEF Holds
  <2>2. Work' = Work /\ Bases' = Bases
    BY <2>1 DEF Work, Busy, Bases
  <2>3. QED
    BY <2>1, <2>2 DEF DrainInv
<1>4. CASE Commits
  BY <1>4, DrainCommits
<1>5. CASE Names
  <2>1. /\ manifest \subseteq manifest' /\ Busy /\ Busy' /\ up' # "stopped"
        /\ UNCHANGED <<wal, evicted, pw, walBase, uploads, batch, closing>>
    BY <1>5 DEF Names
  <2>2. Work' = Work /\ Bases \subseteq Bases'
    BY <2>1 DEF Work, Bases
  <2>3. QED
    BY <2>1, <2>2 DEF DrainInv
<1>6. CASE Evicts
  <2>1. PICK s \in EvictablePrefixes :
          /\ manifest' = manifest \ s
          /\ evicted' = evicted \cup UNION {obj[e.base] : e \in s}
    BY <1>6 DEF Evicts
  <2>2. UNCHANGED <<wal, obj, pw, walBase, uploads, batch, closing>> /\ up' # "stopped" /\ ~ Busy /\ ~ Busy'
    BY <1>6 DEF Evicts
  <2>3. Work' = Work
    BY <2>2 DEF Work
  <2>4. ASSUME NEW b \in Offset, b \in Bases PROVE b \in Bases' \/ wal[b] \subseteq evicted'
    <3>1. PICK e \in manifest : e.base = b
      BY <2>4 DEF Bases
    <3>2. wal[b] \subseteq obj[e.base]
      BY <3>1 DEF DurabilityInv, CoverOK
    <3>3. e \in manifest' \/ obj[e.base] \subseteq evicted'
      BY <2>1, <3>1
    <3>4. QED
      BY <3>1, <3>2, <3>3 DEF Bases
  <2>5. QED
    BY <2>1, <2>2, <2>3, <2>4 DEF DrainInv
<1>7. CASE Dies
  BY <1>7 DEF Dies, DrainInv
<1>8. CASE Restarts
  <2>1. /\ pw = "down" /\ pw' = "running" /\ up' # "stopped"
        /\ UNCHANGED <<manifest, evicted, closing>>
        /\ \A u \in Work' : u.base < walBase'
        /\ \A b \in Offset : wal'[b] = wal[b] \/ (b \in Bases /\ wal'[b] = {})
        /\ \A b \in Offset : wal[b] # {} /\ b \notin Bases =>
             b = walBase' \/ \E u \in Work' : u.base = b
    BY <1>8 DEF Restarts
  <2>2. Bases' = Bases
    BY <2>1 DEF Bases
  <2>3. QED
    BY <2>1, <2>2 DEF DrainInv
<1>9. QED
  BY <1>1, <1>2, <1>3, <1>4, <1>5, <1>6, <1>7, <1>8

-----------------------------------------------------------------------------
(* The manifest's tail *)

TailLast(m) ==
  IF m = {} THEN -1 ELSE (CHOOSE e \in m : \A f \in m : f.base <= e.base).last

LEMMA TailIs ==
  ASSUME NEW m \in SUBSET Entry, \A e, f \in m : e.base = f.base => e = f,
         NEW e \in m, \A f \in m : f.base <= e.base
  PROVE  TailLast(m) = e.last
<1> DEFINE t == CHOOSE x \in m : \A f \in m : f.base <= x.base
<1>1. t \in m /\ \A f \in m : f.base <= t.base
  OBVIOUS
<1>2. TailLast(m) = t.last
  BY DEF TailLast
<1> HIDE DEF t
<1>3. t.base \in Int /\ e.base \in Int
  BY <1>1 DEF Entry, Offset
<1>4. t.base <= e.base /\ e.base <= t.base
  BY <1>1
<1>5. t = e
  BY <1>1, <1>3, <1>4
<1>6. QED
  BY <1>2, <1>5

\* A new entry becomes the tail if it is above the manifest, and else leaves
\* the tail where it is.
LEMMA NamesTail ==
  ASSUME DurabilityInv, SpanInv, Names
  PROVE  /\ Above(batch.base) => LastUploaded' = batch.last
         /\ ~ Above(batch.base) => LastUploaded' = LastUploaded
         /\ \A b \in Offset : Above(b)' <=> Above(b) /\ batch.base < b
<1> DEFINE e0 == EntryOf(batch)
<1>1. batch.base \notin Bases /\ manifest' = manifest \cup {e0}
  BY DEF Names
<1>2. e0.base = batch.base /\ e0.last = batch.last
  BY DEF EntryOf
<1>3. manifest \in SUBSET Entry /\ e0 \in Entry /\ batch.base \in Int
  BY DEF DurabilityInv, TypeInv, TypeOK, Batch, Entry, EntryOf, Offset
<1> HIDE DEF e0
<1>4. \A e \in manifest : e.base \in Int /\ e.base # e0.base
  BY <1>1, <1>2, <1>3 DEF Bases, Entry, Offset
<1>5. manifest' \in SUBSET Entry /\ \A e, f \in manifest' : e.base = f.base => e = f
  BY <1>1, <1>3, <1>4 DEF SpanInv
<1>6. LastUploaded' = TailLast(manifest') /\ LastUploaded = TailLast(manifest)
  BY DEF LastUploaded, TailLast
<1>7. ASSUME Above(batch.base) PROVE LastUploaded' = batch.last
  <2>1. \A f \in manifest' : f.base <= e0.base
    BY <1>1, <1>2, <1>3, <1>4, <1>7 DEF Above
  <2>2. e0 \in manifest'
    BY <1>1
  <2>3. TailLast(manifest') = e0.last
    BY <1>5, <2>1, <2>2, TailIs
  <2>4. QED
    BY <1>2, <1>6, <2>3
<1>8. ASSUME ~ Above(batch.base) PROVE LastUploaded' = LastUploaded
  <2>1. manifest # {}
    BY <1>8 DEF Above
  <2>2. PICK t \in manifest : \A f \in manifest : f.base <= t.base
    BY <1>3, <2>1, LastUploadedTail
  <2>3. e0.base <= t.base
    BY <1>2, <1>3, <1>4, <1>8, <2>2 DEF Above
  <2>4. t \in manifest' /\ \A f \in manifest' : f.base <= t.base
    BY <1>1, <2>2, <2>3
  <2>5. TailLast(manifest') = t.last
    BY <1>5, <2>4, TailIs
  <2>6. TailLast(manifest) = t.last
    BY <1>3, <2>2, TailIs DEF SpanInv
  <2>7. QED
    BY <1>6, <2>5, <2>6
<1>9. \A b \in Offset : Above(b)' <=> Above(b) /\ batch.base < b
  BY <1>1, <1>2 DEF Above
<1>10. QED
  BY <1>7, <1>8, <1>9

\* Retention never takes the tail.
LEMMA EvictsTail ==
  ASSUME DurabilityInv, SpanInv, Evicts
  PROVE  /\ LastUploaded' = LastUploaded
         /\ \A b \in Offset : Above(b)' <=> Above(b)
<1>1. PICK s \in EvictablePrefixes : manifest' = manifest \ s
  BY DEF Evicts
<1>2. /\ s \subseteq manifest /\ s # manifest
      /\ \A e \in s, f \in manifest : f.base <= e.base => f \in s
  BY DEF EvictablePrefixes
<1>3. manifest \in SUBSET Entry /\ \A e \in manifest : e.base \in Int
  BY DEF DurabilityInv, TypeInv, TypeOK, Entry, Offset
<1>4. manifest # {}
  BY <1>2
<1>5. PICK t \in manifest : \A f \in manifest : f.base <= t.base
  BY <1>3, <1>4, LastUploadedTail
<1>6. t \notin s
  BY <1>2, <1>5
<1>7. t \in manifest' /\ \A f \in manifest' : f.base <= t.base
  BY <1>1, <1>5, <1>6
<1>8. manifest' \in SUBSET Entry /\ \A e, f \in manifest' : e.base = f.base => e = f
  BY <1>1, <1>3 DEF SpanInv
<1>9. TailLast(manifest') = t.last /\ TailLast(manifest) = t.last
  BY <1>3, <1>5, <1>7, <1>8, TailIs DEF SpanInv
<1>10. LastUploaded' = TailLast(manifest') /\ LastUploaded = TailLast(manifest)
  BY DEF LastUploaded, TailLast
<1>11. ASSUME NEW b \in Offset PROVE Above(b)' <=> Above(b)
  <2>1. b \in Int
    BY DEF Offset
  <2>2. Above(b) <=> t.base < b
    BY <1>3, <1>5, <2>1 DEF Above
  <2>3. Above(b)' <=> t.base < b
    BY <1>1, <1>3, <1>7, <2>1 DEF Above
  <2>4. QED
    BY <2>2, <2>3
<1>12. QED
  BY <1>9, <1>10, <1>11

\* The tail stays where it is unless an entry above the manifest is added.
LEMMA TailMoves ==
  ASSUME DurabilityInv, SpanInv, Move
  PROVE  LastUploaded' = LastUploaded \/ (Names /\ Above(batch.base))
<1> USE DEF Move
<1>1. CASE Names
  BY <1>1, NamesTail
<1>2. CASE Evicts
  BY <1>2, EvictsTail
<1>3. CASE Quiet \/ Forgets \/ Holds \/ Commits \/ Dies \/ Restarts
  <2>1. manifest' = manifest
    BY <1>3 DEF Quiet, Forgets, Holds, Commits, CommitsGroup, Dies, Restarts
  <2>2. QED
    BY <2>1 DEF LastUploaded
<1>4. QED
  BY <1>1, <1>2, <1>3

-----------------------------------------------------------------------------
(* Files above the manifest *)

\* What holds of the files holds while files only disappear and the manifest
\* keeps its tail.
LEMMA FreshFrame ==
  ASSUME FreshInv, LastUploaded' = LastUploaded,
         \A b \in Offset : Above(b)' <=> Above(b),
         \A b \in Offset : wal'[b] = wal[b] \/ wal'[b] = {}
  PROVE  FilesOrdered' /\ TailBelow'
<1>1. \A b \in Offset : Fresh(b)' => Fresh(b) /\ wal'[b] = wal[b]
  BY DEF Fresh
<1>2. FilesOrdered'
  BY <1>1 DEF FreshInv, FilesOrdered
<1>3. TailBelow'
  BY <1>1 DEF FreshInv, TailBelow
<1>4. QED
  BY <1>2, <1>3

LEMMA WriterFrame ==
  ASSUME FreshInv, LastUploaded' = LastUploaded,
         \A b \in Offset : Above(b)' <=> Above(b),
         \A b \in Offset : wal'[b] = wal[b] \/ wal'[b] = {},
         walBase \in Offset,
         UNCHANGED <<pw, nextOffset, walBase>>
  PROVE  WriterAhead'
<1>1. \A b \in Offset : Fresh(b)' => Fresh(b) /\ wal'[b] = wal[b]
  BY DEF Fresh
<1>2. Above(walBase)' <=> Above(walBase)
  BY DEF Above
<1>3. QED
  BY <1>1, <1>2 DEF FreshInv, WriterAhead

LEMMA SameManifest ==
  ASSUME manifest' = manifest
  PROVE  LastUploaded' = LastUploaded /\ \A b \in Offset : Above(b)' <=> Above(b)
  BY DEF LastUploaded, Above

LEMMA FreshHolds ==
  ASSUME DurabilityInv, FreshInv, Holds
  PROVE  FreshInv'
<1>1. PICK n \in 1 .. MaxBatch : nextOffset' = nextOffset + n
  BY DEF Holds
<1>2. UNCHANGED <<wal, manifest, pw, walBase>>
  BY DEF Holds
<1>3. /\ LastUploaded' = LastUploaded /\ \A b \in Offset : Above(b)' <=> Above(b)
  BY <1>2, SameManifest
<1>4. FilesOrdered' /\ TailBelow'
  BY <1>2, <1>3, FreshFrame
<1>5. /\ nextOffset \in Int /\ nextOffset' \in Int /\ nextOffset < nextOffset'
      /\ LastUploaded \in Int
      /\ \A b \in Offset : \A r \in wal[b] : r.off \in Int
  BY <1>1, LastUploadedType, OffsetFacts DEF DurabilityInv, TypeInv, TypeOK, Offset
<1>6. WriterAhead'
  <2> DEFINE L == LastUploaded
  <2>1. L' = L /\ L \in Int
    BY <1>3, <1>5
  <2>2. pw = "running" => L < nextOffset
    BY DEF FreshInv, WriterAhead
  <2> HIDE DEF L
  <2>3. pw = "running" => L < nextOffset'
    BY <1>5, <2>1, <2>2
  <2>4. pw = "running" => LastUploaded' < nextOffset'
    BY <1>3, <2>3 DEF L
  <2>5. \A b \in Offset : Fresh(b)' => Fresh(b)
    BY <1>2 DEF Fresh, Above
  <2>6. pw = "running" => \A b \in Offset : Fresh(b)' => \A r \in wal[b] :
          r.off < nextOffset' /\ (b # walBase => r.off < walBase)
    BY <1>5, <2>5 DEF FreshInv, WriterAhead
  <2>7. pw = "running" /\ Above(walBase)' => LastUploaded' < walBase
    BY <1>2, <1>3 DEF FreshInv, WriterAhead, Above
  <2>8. QED
    BY <1>2, <2>4, <2>6, <2>7 DEF WriterAhead
<1>7. QED
  BY <1>4, <1>6 DEF FreshInv

LEMMA FreshCommits ==
  ASSUME DurabilityInv, FreshInv, Commits
  PROVE  FreshInv'
<1>0. PICK n \in 0 .. MaxBatch : \E w \in SUBSET Group(n) : CommitsGroup(n, w)
  BY DEF Commits
<1>1. PICK w \in SUBSET Group(n) : CommitsGroup(n, w)
  BY <1>0
<1> DEFINE L == LastUploaded
<1>2. /\ pw = "running" /\ walBase \in Offset
      /\ wal[walBase] = active
      /\ wal'[walBase] = active \cup w
      /\ \A b \in Offset : b # walBase => wal'[b] = wal[b]
      /\ \A r \in Group(n) : r \in Rec /\ walBase <= r.off /\ r.off < nextOffset + n
  BY <1>1, CommitAppends
<1>3. manifest' = manifest /\ nextOffset' = nextOffset + n
  BY <1>1 DEF CommitsGroup
<1>4. /\ LastUploaded' = L
      /\ \A b \in Offset : Above(b)' <=> Above(b)
  BY <1>3, SameManifest
<1>5. /\ nextOffset \in Int /\ nextOffset + n \in Int /\ nextOffset <= nextOffset + n
      /\ L \in Int /\ walBase \in Int /\ Offset \subseteq Int
      /\ \A b \in Offset : \A r \in wal[b] : r.off \in Int
      /\ \A r \in Group(n) : r.off \in Int
  BY <1>2, LastUploadedType, OffsetFacts DEF DurabilityInv, TypeInv, TypeOK, Offset
<1>6. /\ L < nextOffset
      /\ Above(walBase) => L < walBase
      /\ \A b \in Offset : Fresh(b) =>
           \A r \in wal[b] : r.off < nextOffset /\ (b # walBase => r.off < walBase)
  BY <1>2 DEF FreshInv, WriterAhead
<1> HIDE DEF L
<1>7. \A b \in Offset : b # walBase /\ Fresh(b)' => Fresh(b)
  BY <1>2, <1>4 DEF Fresh
<1>8. \A b \in Offset : b # walBase /\ Fresh(b) => b < walBase
  <2> SUFFICES ASSUME NEW b \in Offset, b # walBase, Fresh(b) PROVE b < walBase
    OBVIOUS
  <2>1. PICK r \in wal[b] : r.off = b
    BY DEF DurabilityInv, FilesOK, Fresh
  <2>2. r.off < walBase
    BY <1>6, <2>1
  <2>3. QED
    BY <2>1, <2>2
<1>9. \A b \in Offset : Fresh(b)' => \A r \in wal'[b] : r.off < nextOffset + n
  <2>1. \A b \in Offset : b # walBase /\ Fresh(b)' => \A r \in wal'[b] : r.off < nextOffset + n
    BY <1>2, <1>5, <1>6, <1>7
  <2>2. \A r \in active : r.off < nextOffset
    BY <1>2 DEF DurabilityInv, WriterOK
  <2>3. \A r \in active : r.off \in Int
    BY <1>2, <1>5
  <2>4. \A r \in active \cup w : r.off < nextOffset + n
    BY <1>2, <1>5, <2>2, <2>3
  <2>5. QED
    BY <1>2, <2>1, <2>4
<1>10. FilesOrdered'
  <2> SUFFICES ASSUME NEW b \in Offset, NEW c \in Offset, Fresh(b)', Fresh(c)', b < c
               PROVE  \A r \in wal'[b] : r.off < c
    BY DEF FilesOrdered
  <2>1. b \in Int /\ c \in Int
    BY <1>5
  <2>2. b # walBase
    BY <1>5, <1>7, <1>8, <2>1
  <2>3. Fresh(b) /\ wal'[b] = wal[b]
    BY <1>2, <1>7, <2>2
  <2>4. CASE c = walBase
    BY <1>6, <2>2, <2>3, <2>4
  <2>5. CASE c # walBase
    <3>1. Fresh(c)
      BY <1>7, <2>5
    <3>2. QED
      BY <2>3, <3>1 DEF FreshInv, FilesOrdered
  <2>6. QED
    BY <2>4, <2>5
<1>11. TailBelow'
  <2> SUFFICES ASSUME NEW c \in Offset, Fresh(c)' PROVE LastUploaded' < c
    BY DEF TailBelow
  <2>1. CASE c = walBase
    <3>1. Above(walBase)
      BY <1>2, <1>4, <2>1 DEF Fresh
    <3>2. QED
      BY <1>4, <1>6, <2>1, <3>1
  <2>2. CASE c # walBase
    <3>1. Fresh(c)
      BY <1>7, <2>2
    <3>2. LastUploaded < c
      BY <3>1 DEF FreshInv, TailBelow
    <3>3. QED
      BY <1>4, <3>2 DEF L
  <2>3. QED
    BY <2>1, <2>2
<1>12. WriterAhead'
  <2>1. L < nextOffset + n
    BY <1>5, <1>6
  <2>2. CASE walBase' = walBase
    <3>1. Above(walBase)' <=> Above(walBase)
      BY <1>3, <2>2 DEF Above
    <3>2. \A b \in Offset : Fresh(b)' /\ b # walBase => \A r \in wal'[b] : r.off < walBase
      BY <1>2, <1>6, <1>7
    <3>3. QED
      BY <1>3, <1>4, <1>6, <1>9, <2>1, <2>2, <3>1, <3>2 DEF WriterAhead
  <2>3. CASE walBase' = nextOffset'
    BY <1>3, <1>4, <1>9, <2>1, <2>3 DEF WriterAhead
  <2>4. walBase' = walBase \/ walBase' = nextOffset'
    BY <1>1 DEF CommitsGroup, Panics, Grows, Seals, Ends
  <2>5. QED
    BY <2>2, <2>3, <2>4
<1>13. QED
  BY <1>10, <1>11, <1>12 DEF FreshInv

LEMMA FreshNames ==
  ASSUME DurabilityInv, SpanInv, FreshInv, Names
  PROVE  FreshInv'
<1>1. UNCHANGED <<wal, pw, nextOffset, walBase>>
  BY DEF Names
<1>2. batch \in Work /\ batch.base \notin Bases
  BY DEF Names, Work
<1>3. /\ wal[batch.base] = batch.recs /\ batch.recs # {}
      /\ pw = "running" => batch.base # walBase
  BY <1>2 DEF DurabilityInv, WorkOK
<1>4. Spans(batch.base, batch.last, batch.recs)
  BY <1>2 DEF SpanInv
<1>5. /\ Above(batch.base) => LastUploaded' = batch.last
      /\ ~ Above(batch.base) => LastUploaded' = LastUploaded
      /\ \A b \in Offset : Above(b)' <=> Above(b) /\ batch.base < b
  BY NamesTail
<1>6. batch.base \in Offset /\ walBase \in Offset /\ Offset \subseteq Int
  BY DEF DurabilityInv, TypeInv, TypeOK, Batch, Offset
<1>7. CASE ~ Above(batch.base)
  <2>1. \A b \in Offset : Above(b) => batch.base < b
    <3>1. PICK e \in manifest : ~ (e.base < batch.base)
      BY <1>7 DEF Above
    <3>2. e.base \in Int /\ batch.base \in Int
      BY <1>6 DEF DurabilityInv, TypeInv, TypeOK, Entry, Offset
    <3>3. \A b \in Offset : e.base < b => batch.base < b
      BY <1>6, <3>1, <3>2
    <3>4. QED
      BY <3>3 DEF Above
  <2>2. \A b \in Offset : Above(b)' <=> Above(b)
    BY <1>5, <2>1
  <2>3. LastUploaded' = LastUploaded
    BY <1>5, <1>7
  <2>4. \A b \in Offset : wal'[b] = wal[b]
    BY <1>1
  <2>5. FilesOrdered' /\ TailBelow'
    BY <2>2, <2>3, <2>4, FreshFrame
  <2>6. WriterAhead'
    BY <1>1, <1>6, <2>2, <2>3, <2>4, WriterFrame
  <2>7. QED
    BY <2>5, <2>6 DEF FreshInv
<1>8. CASE Above(batch.base)
  <2>1. LastUploaded' = batch.last
    BY <1>5, <1>8
  <2>2. \A b \in Offset : Fresh(b)' => Fresh(b) /\ batch.base < b
    BY <1>1, <1>5 DEF Fresh
  <2>3. Fresh(batch.base)
    BY <1>3, <1>8 DEF Fresh
  <2>4. PICK r \in wal[batch.base] : r.off = batch.last
    BY <1>3, <1>4 DEF Spans, Offs
  <2>5. FilesOrdered'
    BY <1>1, <2>2 DEF FreshInv, FilesOrdered
  <2>6. TailBelow'
    BY <1>6, <2>1, <2>2, <2>3, <2>4 DEF FreshInv, FilesOrdered, TailBelow
  <2>7. pw = "running" => batch.last < nextOffset /\ batch.last < walBase
    BY <1>3, <1>6, <2>3, <2>4 DEF FreshInv, WriterAhead
  <2>8. WriterAhead'
    BY <1>1, <2>1, <2>2, <2>7 DEF FreshInv, WriterAhead
  <2>9. QED
    BY <2>5, <2>6, <2>8 DEF FreshInv
<1>9. QED
  BY <1>7, <1>8

LEMMA FreshRestarts ==
  ASSUME DurabilityInv, FreshInv, Restarts
  PROVE  FreshInv'
<1> DEFINE L == LastUploaded
<1>1. /\ manifest' = manifest
      /\ \A b \in Offset : wal'[b] = wal[b] \/ (b \in Bases /\ wal'[b] = {})
      /\ L < nextOffset'
      /\ \A b \in Offset : b \notin Bases => \A r \in wal[b] : r.off < nextOffset'
  BY DEF Restarts
<1>2. /\ walBase' = nextOffset' \/ (wal[walBase'] # {} /\ walBase' \notin Bases)
      /\ \A b \in Offset : wal[b] # {} /\ b \notin Bases => b <= walBase'
  BY DEF Restarts
<1>3. /\ LastUploaded' = L /\ \A b \in Offset : Above(b)' <=> Above(b)
  BY <1>1, SameManifest
<1>4. FilesOrdered' /\ TailBelow'
  BY <1>1, <1>3, FreshFrame
<1>5. \A b \in Offset : Fresh(b)' => Fresh(b) /\ wal'[b] = wal[b]
  BY <1>1, <1>3 DEF Fresh
<1>6. \A b \in Offset : Fresh(b) => b \notin Bases
  <2>1. \A e \in manifest : e.base \in Int
    BY DEF DurabilityInv, TypeInv, TypeOK, Entry, Offset
  <2>2. QED
    BY <2>1 DEF Fresh, Above, Bases
<1>8. walBase' \in Offset /\ Offset \subseteq Int
  BY DEF Restarts, Offset
<1>9. Above(walBase)' => L < walBase'
  <2>1. CASE walBase' = nextOffset'
    BY <1>1, <2>1
  <2>2. CASE wal[walBase'] # {}
    <3>1. \A b \in Offset : wal[b] # {} /\ Above(b) => L < b
      BY DEF FreshInv, TailBelow, Fresh
    <3>2. Above(walBase)' <=> \A e \in manifest : e.base < walBase'
      BY <1>1 DEF Above
    <3>3. QED
      BY <1>8, <2>2, <3>1, <3>2 DEF Above
  <2>3. QED
    BY <1>2, <2>1, <2>2
<1>10. \A b \in Offset : Fresh(b) /\ b # walBase' => \A r \in wal[b] : r.off < walBase'
  <2> SUFFICES ASSUME NEW b \in Offset, Fresh(b), b # walBase'
               PROVE  \A r \in wal[b] : r.off < walBase'
    OBVIOUS
  <2>1. CASE walBase' = nextOffset'
    BY <1>1, <1>6, <2>1
  <2>2. CASE wal[walBase'] # {} /\ walBase' \notin Bases
    <3>1. b <= walBase' /\ b < walBase'
      BY <1>2, <1>6, <1>8 DEF Fresh
    <3>2. \A c \in Offset : wal[c] # {} /\ b < c => Fresh(c)
      <4>1. \A e \in manifest : e.base \in Int
        BY DEF DurabilityInv, TypeInv, TypeOK, Entry, Offset
      <4>2. QED
        BY <1>8, <4>1 DEF Fresh, Above
    <3>3. \A c \in Offset : wal[c] # {} /\ b < c => \A r \in wal[b] : r.off < c
      BY <3>2 DEF FreshInv, FilesOrdered
    <3>4. QED
      BY <1>8, <2>2, <3>1, <3>3
  <2>3. QED
    BY <1>2, <2>1, <2>2
<1> HIDE DEF L
<1>11. WriterAhead'
  BY <1>1, <1>3, <1>5, <1>6, <1>9, <1>10 DEF WriterAhead
<1>12. QED
  BY <1>4, <1>11 DEF FreshInv

LEMMA FreshKept ==
  ASSUME DurabilityInv, SpanInv, FreshInv, Move
  PROVE  FreshInv'
<1> USE DEF Move
<1>0. walBase \in Offset
  BY DEF DurabilityInv, TypeInv, TypeOK
<1>1. CASE Quiet \/ Forgets
  <2>1. UNCHANGED <<manifest, pw, nextOffset, walBase>>
    BY <1>1 DEF Quiet, Forgets
  <2>2. LastUploaded' = LastUploaded /\ \A b \in Offset : Above(b)' <=> Above(b)
    BY <2>1, SameManifest
  <2>3. \A b \in Offset : wal'[b] = wal[b] \/ wal'[b] = {}
    BY <1>1 DEF Quiet, Forgets, DurabilityInv, TypeInv, TypeOK
  <2>4. QED
    BY <1>0, <2>1, <2>2, <2>3, FreshFrame, WriterFrame DEF FreshInv
<1>2. CASE Holds
  BY <1>2, FreshHolds
<1>3. CASE Commits
  BY <1>3, FreshCommits
<1>4. CASE Names
  BY <1>4, FreshNames
<1>5. CASE Evicts
  <2>1. UNCHANGED <<wal, pw, nextOffset, walBase>>
    BY <1>5 DEF Evicts
  <2>2. LastUploaded' = LastUploaded /\ \A b \in Offset : Above(b)' <=> Above(b)
    BY <1>5, EvictsTail
  <2>3. QED
    BY <1>0, <2>1, <2>2, FreshFrame, WriterFrame DEF FreshInv
<1>6. CASE Dies
  <2>1. UNCHANGED <<wal, manifest>> /\ pw' = "down"
    BY <1>6 DEF Dies
  <2>2. LastUploaded' = LastUploaded /\ \A b \in Offset : Above(b)' <=> Above(b)
    BY <2>1, SameManifest
  <2>3. FilesOrdered' /\ TailBelow'
    BY <2>1, <2>2, FreshFrame
  <2>4. WriterAhead'
    BY <2>1 DEF WriterAhead
  <2>5. QED
    BY <2>3, <2>4 DEF FreshInv
<1>7. CASE Restarts
  BY <1>7, FreshRestarts
<1>8. QED
  BY <1>1, <1>2, <1>3, <1>4, <1>5, <1>6, <1>7

-----------------------------------------------------------------------------
(* With or without retention *)

SegmentInv == DurabilityInv /\ SpanInv /\ DrainInv /\ FreshInv

LEMMA SegmentInit == Init => SegmentInv
<1> SUFFICES ASSUME Init PROVE SegmentInv
  OBVIOUS
<1>1. DurabilityInv
  BY DurabilityInit
<1>2. /\ \A b \in Offset : wal[b] = {}
      /\ manifest = {} /\ uploads = {} /\ up = "idle" /\ pw = "running"
      /\ closing = "no"
      /\ walBase = 0 /\ nextOffset = 0
  BY DEF Init
<1>3. Work = {}
  BY <1>2 DEF Work, Busy
<1>4. LastUploaded = -1
  BY <1>2 DEF LastUploaded
<1>5. SpanInv /\ DrainInv
  BY <1>2, <1>3 DEF SpanInv, DrainInv
<1>6. \A b \in Offset : ~ Fresh(b)
  BY <1>2 DEF Fresh
<1>7. FreshInv
  BY <1>2, <1>4, <1>6 DEF FreshInv, FilesOrdered, TailBelow, WriterAhead
<1>8. QED
  BY <1>1, <1>5, <1>7 DEF SegmentInv

LEMMA SegmentStep ==
  ASSUME ~ OpenMayFail
  PROVE  SegmentInv /\ [Next]_vars => SegmentInv'
<1> SUFFICES ASSUME SegmentInv, [Next]_vars PROVE SegmentInv'
  OBVIOUS
<1>1. DurabilityInv /\ SpanInv /\ DrainInv /\ FreshInv
  BY DEF SegmentInv
<1>2. Move
  BY <1>1, StepMoves
<1>3. DurabilityInv'
  BY <1>1, DurabilityStep
<1>4. SpanInv' /\ DrainInv' /\ FreshInv'
  BY <1>1, <1>2, SpanKept, DrainKept, FreshKept
<1>5. QED
  BY <1>3, <1>4 DEF SegmentInv

\* The manifest names no object that is missing or that starts or ends
\* elsewhere than its entry says, whatever retention evicts and however often
\* upload_once and its store calls are repeated.
THEOREM EntriesBacked ==
  ASSUME ~ OpenMayFail
  PROVE  Spec => []ManifestBacked
<1>1. SegmentInv => ManifestBacked
  BY DEF SegmentInv, SpanInv, Spans, ManifestBacked
<1>2. QED
  BY <1>1, SegmentInit, SegmentStep, PTL DEF Spec

\* When the Uploader has acked a Shutdown that DeleteTopic sent after the
\* writer's own ack, every acked record is in an object the manifest names or
\* was evicted: a file is there for an entry, for a queued segment or for the
\* writer, and the last two are empty then.  A Shutdown sent after a panic or
\* after the timeout is a step of the specification too (SendUploaderShutdown),
\* and then a file may also be there for a segment that nobody uploads.
THEOREM NothingLeftBehind ==
  ASSUME ~ OpenMayFail
  PROVE  Spec => []ShutdownDrained
<1>1. SegmentInv => ShutdownDrained
  <2> SUFFICES ASSUME SegmentInv, up = "stopped", closing = "acked"
               PROVE  acked \subseteq Manifested \cup evicted
    BY DEF ShutdownDrained
  <2>1. pw = "stopped" /\ Work = {} /\ wal[walBase] = {}
    BY DEF SegmentInv, DrainInv
  <2>2. \A b \in Offset : wal[b] \subseteq evicted \/ b \in Bases \/ b = walBase
    BY <2>1 DEF SegmentInv, DrainInv
  <2>3. \A e \in manifest : wal[e.base] \subseteq Manifested
    BY DEF SegmentInv, DurabilityInv, CoverOK, Manifested
  <2>4. \A b \in Offset : wal[b] \subseteq Manifested \cup evicted
    BY <2>1, <2>2, <2>3 DEF Bases
  <2>5. InWal \subseteq Manifested \cup evicted
    BY <2>4 DEF InWal
  <2>6. QED
    BY <2>5 DEF SegmentInv, DurabilityInv, AckedDurable
<1>2. QED
  BY <1>1, SegmentInit, SegmentStep, PTL DEF Spec

\* The manifest's tail never moves back: retention leaves the tail entry, and
\* an upload that becomes the tail starts above it.
THEOREM TailNeverMovesBack ==
  ASSUME ~ OpenMayFail
  PROVE  Spec => LastUploadedNeverRegresses
<1>1. SegmentInv /\ [Next]_vars => LastUploaded' >= LastUploaded
  <2> SUFFICES ASSUME SegmentInv, [Next]_vars PROVE LastUploaded' >= LastUploaded
    OBVIOUS
  <2>1. DurabilityInv /\ SpanInv /\ FreshInv
    BY DEF SegmentInv
  <2>2. Move
    BY <2>1, StepMoves
  <2>3. LastUploaded' = LastUploaded \/ (Names /\ Above(batch.base))
    BY <2>1, <2>2, TailMoves
  <2> DEFINE L == LastUploaded
  <2>4. L \in Int
    BY <2>1, LastUploadedType DEF DurabilityInv, TypeInv, TypeOK
  <2>5. ASSUME Names, Above(batch.base) PROVE LastUploaded' \in Int /\ L < LastUploaded'
    <3>1. LastUploaded' = batch.last
      BY <2>1, <2>5, NamesTail
    <3>2. batch \in Work
      BY <2>5 DEF Names, Work
    <3>3. /\ wal[batch.base] # {} /\ batch.base <= batch.last
          /\ batch.base \in Offset /\ batch.base \in Int /\ batch.last \in Int
      BY <2>1, <3>2 DEF DurabilityInv, WorkOK, TypeInv, TypeOK, Batch, Offset
    <3>4. L < batch.base
      BY <2>1, <2>5, <3>3 DEF FreshInv, TailBelow, Fresh
    <3> HIDE DEF L
    <3>5. L < batch.last
      BY <2>4, <3>3, <3>4
    <3>6. QED
      BY <3>1, <3>3, <3>5
  <2> DEFINE M == LastUploaded'
  <2>6. M = L \/ (M \in Int /\ L < M)
    BY <2>3, <2>5
  <2> HIDE DEF L, M
  <2>7. M >= L
    BY <2>4, <2>6
  <2>8. QED
    BY <2>7 DEF L, M
<1>2. QED
  BY <1>1, SegmentInit, SegmentStep, PTL DEF Spec, LastUploadedNeverRegresses

-----------------------------------------------------------------------------
(* Without retention: the manifest *)

\* No entry ends above the tail.
LEMMA NoEntryBeyondTail ==
  ASSUME DurabilityInv, SpanInv, ManifestNonOverlapping, NEW e \in manifest
  PROVE  e.last <= LastUploaded
<1>1. manifest \subseteq Entry /\ manifest # {}
  BY DEF DurabilityInv, TypeInv, TypeOK
<1>2. PICK t \in manifest : LastUploaded = t.last /\ \A f \in manifest : f.base <= t.base
  BY <1>1, LastUploadedTail
<1>3. /\ e.base \in Int /\ e.last \in Int /\ t.base \in Int /\ t.last \in Int
      /\ t.base <= t.last /\ e.base <= t.base
  BY <1>1, <1>2, OffsetFacts DEF Entry, Offset, DurabilityInv, CoverOK
<1>4. CASE e.base = t.base
  BY <1>2, <1>3, <1>4 DEF SpanInv
<1>5. CASE e.base < t.base
  <2>1. e.last < t.base
    BY <1>2, <1>5 DEF ManifestNonOverlapping
  <2>2. e.last <= t.last
    BY <1>3, <2>1
  <2>3. QED
    BY <1>2, <2>2
<1>6. QED
  BY <1>3, <1>4, <1>5

\* Files only disappear, the manifest and the Uploader's batch stay.
LEMMA UploadsFrame ==
  ASSUME UploadsInOrder, manifest' = manifest,
         \A b \in Offset : wal'[b] = wal[b] \/ wal'[b] = {},
         Busy' => Busy /\ batch' = batch,
         pw' = "running" => Above(walBase)'
  PROVE  UploadsInOrder'
<1>1. Bases' = Bases /\ \A b \in Offset : Above(b)' <=> Above(b)
  BY DEF Bases, Above
<1>2. ManifestNonOverlapping'
  BY DEF UploadsInOrder, ManifestNonOverlapping
<1>3. \A b \in Offset : wal'[b] # {} /\ b \notin Bases' =>
        Above(b)' /\ (Busy' => batch'.base <= b)
  BY <1>1 DEF UploadsInOrder
<1>4. QED
  BY <1>2, <1>3 DEF UploadsInOrder

LEMMA UploadsQuiet ==
  ASSUME SegmentInv, OrderInv, Quiet, DownOK'
  PROVE  UploadsInOrder'
<1>1. /\ UNCHANGED <<wal, manifest, pw, walBase>>
      /\ Busy' => \/ Busy /\ batch' = batch
                  \/ batch' \in Work /\ \A u \in Work : batch'.base <= u.base
  BY DEF Quiet
<1>2. pw' = "running" => Above(walBase)'
  BY <1>1 DEF OrderInv, UploadsInOrder, Above
<1>3. CASE Busy' => Busy /\ batch' = batch
  <2>1. \A b \in Offset : wal'[b] = wal[b]
    BY <1>1
  <2>2. QED
    BY <1>1, <1>2, <1>3, <2>1, UploadsFrame DEF OrderInv
<1>4. CASE Busy' /\ batch' \in Work /\ \A u \in Work : batch'.base <= u.base
  <2>1. pw # "down"
    BY <1>1, <1>4 DEF DownOK, Busy
  <2>2. /\ \A u \in Work : u.base < walBase
        /\ \A b \in Offset : \/ wal[b] \subseteq evicted \/ b \in Bases \/ b = walBase
                             \/ \E u \in Work : u.base = b
                             \/ \A u \in Work : u.base < b
    BY <2>1 DEF SegmentInv, DrainInv
  <2>3. batch'.base \in Int /\ walBase \in Int
    BY <1>4 DEF SegmentInv, DurabilityInv, TypeInv, TypeOK, Work, Batch, Offset
  <2>4. \A b \in Offset : wal[b] # {} /\ b \notin Bases => batch'.base <= b
    <3>1. evicted = {} /\ Offset \subseteq Int
      BY DEF OrderInv, Offset
    <3>2. QED
      BY <1>4, <2>2, <2>3, <3>1
  <2>5. Bases' = Bases /\ ManifestNonOverlapping' /\ \A b \in Offset : Above(b)' <=> Above(b)
    BY <1>1 DEF Bases, Above, OrderInv, UploadsInOrder, ManifestNonOverlapping
  <2>6. QED
    BY <1>1, <1>2, <2>4, <2>5 DEF OrderInv, UploadsInOrder
<1>5. QED
  BY <1>1, <1>3, <1>4

LEMMA UploadsCommits ==
  ASSUME SegmentInv, OrderInv, Commits
  PROVE  UploadsInOrder'
<1>0. PICK n \in 0 .. MaxBatch : \E w \in SUBSET Group(n) : CommitsGroup(n, w)
  BY DEF Commits
<1>1. PICK w \in SUBSET Group(n) : CommitsGroup(n, w)
  BY <1>0
<1>2. /\ pw = "running" /\ walBase \in Offset
      /\ \A b \in Offset : b # walBase => wal'[b] = wal[b]
  BY <1>1, CommitAppends DEF SegmentInv
<1>3. UNCHANGED <<manifest, up, batch>> /\ nextOffset' = nextOffset + n
  BY <1>1 DEF CommitsGroup
<1>4. /\ Bases' = Bases /\ Busy' = Busy /\ ManifestNonOverlapping'
      /\ \A b \in Offset : Above(b)' <=> Above(b)
  BY <1>3 DEF Bases, Busy, Above, OrderInv, UploadsInOrder, ManifestNonOverlapping
<1>5. Above(walBase) /\ (Busy => batch.base <= walBase)
  <2>1. Busy => batch \in Work /\ batch.base < walBase
    BY <1>2 DEF SegmentInv, DrainInv, Work
  <2>2. batch.base \in Int /\ walBase \in Int
    BY DEF SegmentInv, DurabilityInv, TypeInv, TypeOK, Batch, Offset
  <2>3. QED
    BY <1>2, <2>1, <2>2 DEF OrderInv, UploadsInOrder
<1>6. \A b \in Offset : wal'[b] # {} /\ b \notin Bases' =>
        Above(b)' /\ (Busy' => batch'.base <= b)
  BY <1>2, <1>3, <1>4, <1>5 DEF OrderInv, UploadsInOrder
<1>7. Above(walBase)'
  <2>1. CASE walBase' = walBase
    BY <1>3, <1>5, <2>1 DEF Above
  <2>2. CASE walBase' = nextOffset'
    <3>1. \A e \in manifest : e.base < nextOffset /\ e.base \in Int
      BY <1>2 DEF SegmentInv, DurabilityInv, WriterOK, TypeInv, TypeOK, Entry, Offset
    <3>2. nextOffset \in Int /\ nextOffset + n \in Int /\ nextOffset <= nextOffset + n
      BY DEF SegmentInv, DurabilityInv, TypeInv, TypeOK, Offset
    <3>3. \A e \in manifest : e.base < nextOffset + n
      BY <3>1, <3>2
    <3>4. QED
      BY <1>3, <2>2, <3>3 DEF Above
  <2>3. walBase' = walBase \/ walBase' = nextOffset'
    BY <1>1 DEF CommitsGroup, Panics, Grows, Seals, Ends
  <2>4. QED
    BY <2>1, <2>2, <2>3
<1>8. QED
  BY <1>4, <1>6, <1>7 DEF UploadsInOrder

LEMMA UploadsNames ==
  ASSUME SegmentInv, OrderInv, Names
  PROVE  UploadsInOrder'
<1>1. /\ UNCHANGED <<wal, pw, walBase, batch>>
      /\ Busy /\ batch.base \notin Bases /\ manifest' = manifest \cup {EntryOf(batch)}
  BY DEF Names
<1>2. EntryOf(batch).base = batch.base /\ EntryOf(batch).last = batch.last
  BY DEF EntryOf
<1>3. batch \in Work
  BY <1>1 DEF Work
<1>4. /\ wal[batch.base] # {} /\ batch.base \in Offset /\ Offset \subseteq Int
      /\ batch.base \in Int
  BY <1>3 DEF SegmentInv, DurabilityInv, WorkOK, TypeInv, TypeOK, Batch, Offset
<1>5. Above(batch.base)
  BY <1>1, <1>4 DEF OrderInv, UploadsInOrder
<1>6. Bases' = Bases \cup {batch.base}
  BY <1>1, <1>2 DEF Bases
<1>7. \A b \in Offset : Above(b)' <=> Above(b) /\ batch.base < b
  BY <1>1, <1>2 DEF Above
<1>8. ManifestNonOverlapping'
  <2>1. \A e \in manifest : e.last < batch.base /\ e.base < batch.base /\ e.base \in Int
    <3> SUFFICES ASSUME NEW e \in manifest
                 PROVE  e.last < batch.base /\ e.base < batch.base /\ e.base \in Int
      OBVIOUS
    <3> DEFINE L == LastUploaded
    <3>1. e.last <= L
      BY NoEntryBeyondTail DEF SegmentInv, OrderInv, UploadsInOrder
    <3>2. L < batch.base
      BY <1>4, <1>5 DEF SegmentInv, FreshInv, TailBelow, Fresh
    <3>3. L \in Int
      BY LastUploadedType DEF SegmentInv, DurabilityInv, TypeInv, TypeOK
    <3>4. e.last \in Int /\ e.base \in Int
      BY OffsetFacts DEF SegmentInv, DurabilityInv, TypeInv, TypeOK, Entry, Offset
    <3> HIDE DEF L
    <3>5. e.last < batch.base
      BY <1>4, <3>1, <3>2, <3>3, <3>4
    <3>6. QED
      BY <1>5, <3>4, <3>5 DEF Above
  <2>2. \A e \in manifest : ~ (batch.base < e.base)
    BY <1>4, <2>1
  <2>3. ~ (batch.base < batch.base)
    BY <1>4
  <2>4. QED
    BY <1>1, <1>2, <2>1, <2>2, <2>3 DEF OrderInv, UploadsInOrder, ManifestNonOverlapping
<1>9. \A b \in Offset : wal'[b] # {} /\ b \notin Bases' =>
        Above(b)' /\ (Busy' => batch'.base <= b)
  <2> SUFFICES ASSUME NEW b \in Offset, wal[b] # {}, b \notin Bases'
               PROVE  Above(b)' /\ batch.base <= b
    BY <1>1
  <2>1. b \notin Bases /\ b # batch.base /\ b \in Int
    BY <1>4, <1>6
  <2>2. Above(b) /\ batch.base <= b
    BY <1>1, <2>1 DEF OrderInv, UploadsInOrder
  <2>3. batch.base < b
    BY <1>4, <2>1, <2>2
  <2>4. QED
    BY <1>7, <2>2, <2>3
<1>10. pw' = "running" => Above(walBase)'
  <2>1. pw = "running" => batch.base < walBase
    BY <1>3 DEF SegmentInv, DrainInv
  <2>2. QED
    BY <1>1, <1>2, <2>1 DEF OrderInv, UploadsInOrder, Above
<1>11. QED
  BY <1>8, <1>9, <1>10 DEF UploadsInOrder

LEMMA UploadsRestarts ==
  ASSUME SegmentInv, OrderInv, Restarts
  PROVE  UploadsInOrder'
<1>1. /\ manifest' = manifest /\ ~ Busy' /\ walBase' \in Offset
      /\ \A b \in Offset : wal'[b] = wal[b] \/ wal'[b] = {}
      /\ walBase' = nextOffset' \/ (wal[walBase'] # {} /\ walBase' \notin Bases)
  BY DEF Restarts
<1>2. Above(walBase)'
  <2>1. CASE walBase' = nextOffset'
    <3> DEFINE L == LastUploaded
    <3>1. L \in Int /\ L < nextOffset' /\ nextOffset' \in Int
      BY LastUploadedType DEF Restarts, SegmentInv, DurabilityInv, TypeInv, TypeOK, Offset
    <3>2. \A e \in manifest : e.base \in Int /\ e.base <= L
      <4>1. \A e \in manifest : e.base \in Offset /\ e.base \in Bases
        BY DEF SegmentInv, DurabilityInv, TypeInv, TypeOK, Entry, Bases
      <4>2. QED
        BY <4>1, CoveredIsManifested DEF SegmentInv, Offset
    <3> HIDE DEF L
    <3>3. \A e \in manifest : e.base < nextOffset'
      BY <3>1, <3>2
    <3>4. QED
      BY <1>1, <2>1, <3>3 DEF Above
  <2>2. CASE wal[walBase'] # {} /\ walBase' \notin Bases
    <3>1. \A b \in Offset : wal[b] # {} /\ b \notin Bases => \A e \in manifest : e.base < b
      BY DEF OrderInv, UploadsInOrder, Above
    <3>2. QED
      BY <1>1, <2>2, <3>1 DEF Above
  <2>3. QED
    BY <1>1, <2>1, <2>2
<1>3. QED
  BY <1>1, <1>2, UploadsFrame DEF OrderInv

LEMMA UploadsKept ==
  ASSUME SegmentInv, OrderInv, Move, ~ RetentionEnabled, DownOK'
  PROVE  UploadsInOrder'
<1> USE DEF Move
<1>1. CASE Quiet
  BY <1>1, UploadsQuiet
<1>2. CASE Forgets \/ Holds
  <2>1. UNCHANGED <<manifest, pw, walBase, up, batch>>
    BY <1>2 DEF Forgets, Holds
  <2>2. \A b \in Offset : wal'[b] = wal[b] \/ wal'[b] = {}
    BY <1>2 DEF Forgets, Holds, SegmentInv, DurabilityInv, TypeInv, TypeOK
  <2>3. pw' = "running" => Above(walBase)'
    BY <2>1 DEF OrderInv, UploadsInOrder, Above
  <2>4. Busy' => Busy /\ batch' = batch
    BY <2>1 DEF Busy
  <2>5. QED
    BY <2>1, <2>2, <2>3, <2>4, UploadsFrame DEF OrderInv
<1>3. CASE Commits
  BY <1>3, UploadsCommits
<1>4. CASE Names
  BY <1>4, UploadsNames
<1>5. CASE Evicts
  BY <1>5 DEF Evicts
<1>6. CASE Dies
  <2>1. UNCHANGED <<wal, manifest>> /\ ~ Busy' /\ pw' # "running"
    BY <1>6 DEF Dies
  <2>2. \A b \in Offset : wal'[b] = wal[b]
    BY <2>1
  <2>3. QED
    BY <2>1, <2>2, UploadsFrame DEF OrderInv
<1>7. CASE Restarts
  BY <1>7, UploadsRestarts
<1>8. QED
  BY <1>1, <1>2, <1>3, <1>4, <1>5, <1>6, <1>7

-----------------------------------------------------------------------------
(* Without retention: the records *)

LEMMA StoredTyped ==
  ASSUME DurabilityInv
  PROVE  /\ Stored \subseteq Rec /\ pending \subseteq Rec
         /\ \A r \in Stored \cup pending : r.off \in Int /\ 0 <= r.off
         /\ nextOffset \in Int /\ nextOffset >= 0
<1>1. /\ wal \in [Offset -> SUBSET Rec] /\ obj \in [Offset -> SUBSET Rec]
      /\ \A e \in manifest : e.base \in Offset
      /\ pending \subseteq Rec /\ nextOffset \in Int /\ nextOffset >= 0
  BY DEF DurabilityInv, TypeInv, TypeOK, Entry, Offset
<1>2. Stored \subseteq Rec
  BY <1>1 DEF Stored, InWal, Manifested
<1>3. QED
  BY <1>1, <1>2, OffsetFacts

\* Only a commit changes what is stored.
LEMMA StoredKept ==
  ASSUME SegmentInv, OrderInv, Move, ~ RetentionEnabled, ~ Commits
  PROVE  Stored' = Stored /\ acked' = acked /\ evicted' = {}
<1> USE DEF Move
<1>0. \A e \in manifest : wal[e.base] \subseteq Manifested
  BY DEF SegmentInv, DurabilityInv, CoverOK, Manifested
<1>1. CASE Quiet \/ Holds \/ Dies
  <2>1. UNCHANGED <<wal, manifest, evicted, acked>> /\ \A e \in manifest : obj'[e.base] = obj[e.base]
    BY <1>1 DEF Quiet, Holds, Dies
  <2>2. Manifested' = Manifested
    BY <2>1 DEF Manifested
  <2>3. InWal' = InWal
    BY <2>1 DEF InWal, Offset
  <2>4. QED
    BY <2>1, <2>2, <2>3 DEF Stored, OrderInv
<1>2. CASE Forgets \/ Restarts
  <2>1. UNCHANGED <<obj, manifest, evicted, acked>>
    BY <1>2 DEF Forgets, Restarts
  <2>2. Manifested' = Manifested
    BY <2>1 DEF Manifested
  <2>3. \A b \in Offset : wal'[b] = wal[b] \/ (wal'[b] = {} /\ wal[b] \subseteq Manifested)
    <3>1. CASE Forgets
      BY <3>1 DEF Forgets, OrderInv, SegmentInv, DurabilityInv, TypeInv, TypeOK
    <3>2. CASE Restarts
      BY <1>0, <3>2 DEF Restarts, Bases
    <3>3. QED
      BY <1>2, <3>1, <3>2
  <2>4. InWal' \subseteq InWal /\ InWal \subseteq InWal' \cup Manifested
    BY <2>3 DEF InWal, Offset
  <2>5. QED
    BY <2>1, <2>2, <2>4 DEF Stored, OrderInv
<1>3. CASE Names
  <2>1. /\ UNCHANGED <<wal, obj, evicted, acked>> /\ Busy
        /\ manifest' = manifest \cup {EntryOf(batch)}
        /\ obj[batch.base] = batch.recs
    BY <1>3 DEF Names
  <2>2. wal[batch.base] = batch.recs /\ batch.base \in Offset
    BY <2>1 DEF SegmentInv, DurabilityInv, WorkOK, Work, TypeInv, TypeOK, Batch
  <2>3. EntryOf(batch).base = batch.base
    BY DEF EntryOf
  <2>4. Manifested' = Manifested \cup batch.recs
    BY <2>1, <2>3 DEF Manifested
  <2>5. InWal' = InWal /\ batch.recs \subseteq InWal
    BY <2>1, <2>2 DEF InWal, Offset
  <2>6. QED
    BY <2>1, <2>4, <2>5 DEF Stored, OrderInv
<1>4. CASE Evicts
  BY <1>4 DEF Evicts
<1>5. QED
  BY <1>1, <1>2, <1>3, <1>4

\* The offsets a writer assigns continue the log.
LEMMA GroupExtends ==
  ASSUME SegmentInv, OrderInv, pw = "running", NEW n \in Nat
  PROVE  /\ \A r \in Group(n) : r.off \in Int
         /\ Offs(Stored \cup Group(n)) = 0 .. (nextOffset + n) - 1
         /\ \A r, s \in Stored \cup Group(n) : r.off = s.off => r = s
         /\ \A r \in Stored, p \in Group(n) : r.off < p.off
<1>1. /\ \A r \in Stored \cup pending : r.off \in Int /\ 0 <= r.off
      /\ nextOffset \in Int /\ nextOffset >= 0
  BY StoredTyped DEF SegmentInv
<1>2. /\ Offs(Stored \cup pending) = 0 .. nextOffset - 1
      /\ \A r, s \in Stored \cup pending : r.off = s.off => r = s
      /\ \A r \in Stored, p \in pending : r.off < p.off
  BY DEF OrderInv, NoGaps, OneRecordEach
<1>3. \A r \in Stored \cup pending : r.off \in 0 .. nextOffset - 1
  BY <1>2 DEF Offs
<1>4. \A r \in Arrivals(n) :
        /\ r.off \in nextOffset .. (nextOffset + n) - 1
        /\ r = [off |-> r.off, boot |-> boots]
  BY DEF Arrivals
<1>5. \A o \in nextOffset .. (nextOffset + n) - 1 : \E r \in Arrivals(n) : r.off = o
  <2> SUFFICES ASSUME NEW o \in nextOffset .. (nextOffset + n) - 1
               PROVE  \E r \in Arrivals(n) : r.off = o
    OBVIOUS
  <2>1. [off |-> o, boot |-> boots] \in Arrivals(n)
    BY DEF Arrivals
  <2>2. QED
    BY <2>1
<1>6. Group(n) = pending \cup Arrivals(n)
  BY DEF Group
<1>7. \A r \in Stored \cup pending : r.off < nextOffset
  BY <1>1, <1>3
<1>8. \A r \in Arrivals(n) : r.off \in Int /\ nextOffset <= r.off /\ r.off < nextOffset + n
  BY <1>1, <1>4
<1>9. Offs(Stored \cup Group(n)) = 0 .. (nextOffset + n) - 1
  <2>1. ASSUME NEW r \in Stored \cup Group(n) PROVE r.off \in 0 .. (nextOffset + n) - 1
    <3>1. CASE r \in Stored \cup pending
      BY <1>1, <1>7, <3>1
    <3>2. CASE r \in Arrivals(n)
      BY <1>1, <1>8, <3>2
    <3>3. QED
      BY <1>6, <3>1, <3>2
  <2>2. ASSUME NEW o \in 0 .. (nextOffset + n) - 1
        PROVE  \E r \in Stored \cup Group(n) : r.off = o
    <3>1. CASE o \in 0 .. nextOffset - 1
      BY <1>2, <1>6, <3>1 DEF Offs
    <3>2. CASE o \in nextOffset .. (nextOffset + n) - 1
      BY <1>5, <1>6, <3>2
    <3>3. o \in 0 .. nextOffset - 1 \/ o \in nextOffset .. (nextOffset + n) - 1
      BY <1>1
    <3>4. QED
      BY <3>1, <3>2, <3>3
  <2>3. QED
    BY <2>1, <2>2 DEF Offs
<1>10. ASSUME NEW r \in Stored \cup Group(n), NEW s \in Stored \cup Group(n), r.off = s.off
       PROVE  r = s
  <2>1. CASE r \in Stored \cup pending /\ s \in Stored \cup pending
    BY <1>2, <1>10, <2>1
  <2>2. CASE r \in Arrivals(n) /\ s \in Arrivals(n)
    BY <1>4, <1>10, <2>2
  <2>3. CASE r \in Stored \cup pending /\ s \in Arrivals(n)
    BY <1>1, <1>7, <1>8, <1>10, <2>3
  <2>4. CASE r \in Arrivals(n) /\ s \in Stored \cup pending
    BY <1>1, <1>7, <1>8, <1>10, <2>4
  <2>5. QED
    BY <1>6, <2>1, <2>2, <2>3, <2>4
<1>11. \A r \in Stored, p \in Group(n) : r.off < p.off
  BY <1>1, <1>2, <1>6, <1>7, <1>8
<1>12. QED
  BY <1>1, <1>6, <1>8, <1>9, <1>10, <1>11

\* What a commit appends: a first part of the group.
LEMMA CommitExtends ==
  ASSUME SegmentInv, OrderInv, NEW n \in 0 .. MaxBatch, NEW w \in SUBSET Group(n),
         CommitsGroup(n, w)
  PROVE  /\ Stored' = Stored \cup w
         /\ \A r \in Stored, p \in w : r.off < p.off
         /\ \A r, s \in Stored \cup w : r.off = s.off => r = s
         /\ \A r \in Stored \cup w : \A o \in 0 .. r.off - 1 : o \in Offs(Stored \cup w)
<1>1. pw = "running" /\ Manifested' = Manifested /\ InWal' = InWal \cup w
  BY CommitAppends DEF SegmentInv
<1>2. Stored' = Stored \cup w
  BY <1>1 DEF Stored
<1>3. /\ \A r \in Group(n) : r.off \in Int
      /\ Offs(Stored \cup Group(n)) = 0 .. (nextOffset + n) - 1
      /\ \A r, s \in Stored \cup Group(n) : r.off = s.off => r = s
      /\ \A r \in Stored, p \in Group(n) : r.off < p.off
  <2>1. n \in Nat
    OBVIOUS
  <2>2. QED
    BY <1>1, <2>1, GroupExtends
<1>4. nextOffset \in Int /\ nextOffset >= 0
  BY StoredTyped DEF SegmentInv
<1>5. ASSUME NEW r \in Stored \cup w, NEW o \in 0 .. r.off - 1
      PROVE  o \in Offs(Stored \cup w)
  <2>1. CASE r \in Stored
    BY <2>1 DEF OrderInv, NoGaps, Offs
  <2>2. CASE r \in w
    <3>1. r.off \in 0 .. (nextOffset + n) - 1
      BY <1>3, <2>2 DEF Offs
    <3>2. o \in 0 .. (nextOffset + n) - 1 /\ o < r.off
      BY <1>4, <3>1
    <3>3. PICK s \in Stored \cup Group(n) : s.off = o
      BY <1>3, <3>2 DEF Offs
    <3>4. s \in Stored \/ s \in w
      BY <2>2, <3>2, <3>3 DEF CommitsGroup
    <3>5. QED
      BY <3>3, <3>4 DEF Offs
  <2>3. QED
    BY <2>1, <2>2
<1>6. QED
  BY <1>2, <1>3, <1>5

\* Recovery finds the end of the log.
LEMMA RestartsAtEnd ==
  ASSUME SegmentInv, OrderInv, Restarts
  PROVE  Offs(Stored) = 0 .. nextOffset' - 1
<1> DEFINE L == LastUploaded
<1>1. /\ \A b \in Offset : b \notin Bases => \A r \in wal[b] : r.off < nextOffset'
      /\ L < nextOffset' /\ nextOffset' \in Offset
      /\ \/ nextOffset' = L + 1
         \/ \E b \in Offset : \E r \in wal[b] : nextOffset' = r.off + 1
  BY DEF Restarts
<1>2. L \in Int /\ L >= -1 /\ nextOffset' \in Int /\ nextOffset' >= 0
  BY <1>1, LastUploadedType DEF SegmentInv, DurabilityInv, TypeInv, TypeOK, Offset
<1>3. \A r \in Stored : r.off \in Int /\ 0 <= r.off
  BY StoredTyped DEF SegmentInv
<1>4. \A e \in manifest : \A r \in obj[e.base] : r.off < nextOffset'
  <2> SUFFICES ASSUME NEW e \in manifest, NEW r \in obj[e.base] PROVE r.off < nextOffset'
    OBVIOUS
  <2>1. r.off <= e.last
    BY DEF SegmentInv, SpanInv, Spans
  <2>2. e.last <= L
    BY NoEntryBeyondTail DEF SegmentInv, OrderInv, UploadsInOrder
  <2>3. e.last \in Int
    BY OffsetFacts DEF SegmentInv, DurabilityInv, TypeInv, TypeOK, Entry
  <2>4. r \in Stored
    BY DEF Stored, Manifested
  <2> HIDE DEF L
  <2>5. QED
    BY <1>1, <1>2, <1>3, <2>1, <2>2, <2>3, <2>4
<1>5. \A b \in Offset : \A r \in wal[b] : r.off < nextOffset'
  <2>1. \A e \in manifest : \A r \in wal[e.base] : r.off < nextOffset'
    BY <1>4 DEF SegmentInv, DurabilityInv, CoverOK
  <2>2. QED
    BY <1>1, <2>1 DEF Bases
<1>6. \A r \in Stored : r.off < nextOffset'
  BY <1>4, <1>5 DEF Stored, InWal, Manifested
<1>7. nextOffset' = 0 \/ \E r \in Stored : nextOffset' = r.off + 1
  <2>1. ASSUME NEW b \in Offset, NEW r \in wal[b] PROVE r \in Stored
    BY DEF Stored, InWal
  <2>2. CASE nextOffset' = L + 1 /\ manifest = {}
    BY <2>2 DEF LastUploaded
  <2>3. CASE nextOffset' = L + 1 /\ manifest # {}
    <3>1. PICK t \in manifest : L = t.last
      BY <2>3, LastUploadedTail DEF SegmentInv, DurabilityInv, TypeInv, TypeOK
    <3>2. PICK r \in obj[t.base] : r.off = t.last
      BY DEF SegmentInv, SpanInv, Spans, Offs
    <3>3. r \in Stored
      BY <3>2 DEF Stored, Manifested
    <3>4. QED
      BY <2>3, <3>1, <3>2, <3>3
  <2>4. QED
    BY <1>1, <2>1, <2>2, <2>3
<1> HIDE DEF L
<1>8. \A o \in 0 .. nextOffset' - 1 : o \in Offs(Stored)
  <2>1. CASE nextOffset' = 0
    BY <2>1
  <2>2. ASSUME NEW r \in Stored, nextOffset' = r.off + 1
        PROVE  \A o \in 0 .. nextOffset' - 1 : o \in Offs(Stored)
    <3>1. r.off \in Offs(Stored) /\ \A o \in 0 .. r.off - 1 : o \in Offs(Stored)
      BY DEF OrderInv, NoGaps, Offs
    <3>2. \A o \in 0 .. nextOffset' - 1 : o = r.off \/ o \in 0 .. r.off - 1
      BY <1>3, <2>2
    <3>3. QED
      BY <3>1, <3>2
  <2>3. QED
    BY <1>7, <2>1, <2>2
<1>9. \A r \in Stored : r.off \in 0 .. nextOffset' - 1
  BY <1>2, <1>3, <1>6
<1>10. \A o \in Offs(Stored) : o \in 0 .. nextOffset' - 1
  BY <1>9 DEF Offs
<1>11. QED
  BY <1>8, <1>10

LEMMA RecordsKept ==
  ASSUME SegmentInv, OrderInv, Move, ~ RetentionEnabled
  PROVE  evicted' = {} /\ OneRecordEach' /\ NoGaps'
<1>1. CASE Commits
  <2>0. PICK n \in 0 .. MaxBatch : \E w \in SUBSET Group(n) : CommitsGroup(n, w)
    BY <1>1 DEF Commits
  <2>1. PICK w \in SUBSET Group(n) : CommitsGroup(n, w)
    BY <2>0
  <2>2. pending' = {} /\ nextOffset' = nextOffset + n /\ evicted' = {}
    BY <2>1 DEF CommitsGroup, OrderInv
  <2>3. /\ Stored' = Stored \cup w
        /\ \A r, s \in Stored \cup w : r.off = s.off => r = s
        /\ \A r \in Stored \cup w : \A o \in 0 .. r.off - 1 : o \in Offs(Stored \cup w)
    BY <2>1, CommitExtends
  <2>4. Stored' \cup pending' = Stored \cup w
    BY <2>2, <2>3
  <2>5. OneRecordEach'
    BY <2>3, <2>4 DEF OneRecordEach
  <2>6. pw' = "running" => Offs(Stored' \cup pending') = 0 .. nextOffset' - 1
    <3>1. pw' = "running" => w = Group(n)
      BY <2>1 DEF CommitsGroup, Panics, Grows, Seals, Ends
    <3>2. pw = "running" /\ n \in Nat
      BY <2>1 DEF CommitsGroup, Committable
    <3>3. Offs(Stored \cup Group(n)) = 0 .. (nextOffset + n) - 1
      BY <3>2, GroupExtends
    <3>4. QED
      BY <2>2, <2>4, <3>1, <3>3
  <2>7. \A r \in Stored' : \A o \in 0 .. r.off - 1 : o \in Offs(Stored')
    BY <2>3
  <2>8. NoGaps'
    BY <2>2, <2>6, <2>7 DEF NoGaps, Offs
  <2>9. QED
    BY <2>2, <2>5, <2>8
<1>2. CASE ~ Commits
  <2>1. Stored' = Stored /\ evicted' = {}
    BY <1>2, StoredKept
  <2>2. CASE Holds
    <3>1. PICK n \in 1 .. MaxBatch : pending' = Group(n) /\ nextOffset' = nextOffset + n
      BY <2>2 DEF Holds
    <3>2. pw = "running" /\ pw' = pw /\ n \in Nat
      BY <2>2 DEF Holds
    <3>3. /\ Offs(Stored \cup Group(n)) = 0 .. (nextOffset + n) - 1
          /\ \A r, s \in Stored \cup Group(n) : r.off = s.off => r = s
          /\ \A r \in Stored, p \in Group(n) : r.off < p.off
      BY <3>2, GroupExtends
    <3>4. OneRecordEach'
      BY <2>1, <3>1, <3>3 DEF OneRecordEach
    <3>5. Offs(Stored' \cup pending') = 0 .. nextOffset' - 1
      BY <2>1, <3>1, <3>3
    <3>6. \A r \in Stored' : \A o \in 0 .. r.off - 1 : o \in Offs(Stored')
      BY <2>1 DEF OrderInv, NoGaps
    <3>7. NoGaps'
      BY <2>1, <3>1, <3>2, <3>3, <3>5, <3>6 DEF NoGaps, Offs
    <3>8. QED
      BY <2>1, <3>4, <3>7
  <2>3. CASE Restarts
    <3>1. pw' = "running" /\ pending' = {}
      BY <2>3 DEF Restarts
    <3>2. Offs(Stored) = 0 .. nextOffset' - 1
      BY <2>3, RestartsAtEnd
    <3>3. Offs(Stored' \cup pending') = 0 .. nextOffset' - 1
      BY <2>1, <3>1, <3>2
    <3>4. OneRecordEach'
      BY <2>1, <3>1 DEF OrderInv, OneRecordEach
    <3>5. NoGaps'
      BY <2>1, <3>1, <3>3 DEF OrderInv, NoGaps, Offs
    <3>6. QED
      BY <2>1, <3>4, <3>5
  <2>4. CASE Quiet \/ Forgets \/ Names \/ Evicts
    <3>1. UNCHANGED <<pw, pending, nextOffset>>
      BY <2>4 DEF Quiet, Forgets, Names, Evicts
    <3>2. OneRecordEach' /\ NoGaps'
      BY <2>1, <3>1 DEF OrderInv, OneRecordEach, NoGaps, Offs
    <3>3. QED
      BY <2>1, <3>2
  <2>5. CASE Dies
    <3>1. pw' = "down" /\ pending' = {}
      BY <2>5 DEF Dies
    <3>2. OneRecordEach' /\ NoGaps'
      BY <2>1, <3>1 DEF OrderInv, OneRecordEach, NoGaps, Offs
    <3>3. QED
      BY <2>1, <3>2
  <2>6. QED
    BY <1>2, <2>2, <2>3, <2>4, <2>5 DEF Move
<1>3. QED
  BY <1>1, <1>2

LEMMA OrderInit == Init => OrderInv
<1> SUFFICES ASSUME Init PROVE OrderInv
  OBVIOUS
<1>1. /\ \A b \in Offset : wal[b] = {}
      /\ manifest = {} /\ evicted = {} /\ pending = {} /\ pw = "running" /\ nextOffset = 0
  BY DEF Init
<1>2. Stored = {}
  BY <1>1 DEF Stored, InWal, Manifested
<1>3. UploadsInOrder
  BY <1>1 DEF UploadsInOrder, ManifestNonOverlapping, Above
<1>4. OneRecordEach
  BY <1>1, <1>2 DEF OneRecordEach
<1>5. Offs(Stored \cup pending) = {} /\ 0 .. nextOffset - 1 = {}
  BY <1>1, <1>2 DEF Offs
<1>6. NoGaps
  BY <1>1, <1>2, <1>5 DEF NoGaps
<1>7. QED
  BY <1>1, <1>3, <1>4, <1>6 DEF OrderInv

LogInv == SegmentInv /\ OrderInv

LEMMA LogInit == Init => LogInv
  BY SegmentInit, OrderInit DEF LogInv

LEMMA LogStep ==
  ASSUME ~ OpenMayFail, ~ RetentionEnabled
  PROVE  LogInv /\ [Next]_vars => LogInv'
<1> SUFFICES ASSUME LogInv, [Next]_vars PROVE LogInv'
  OBVIOUS
<1>1. SegmentInv /\ OrderInv /\ DurabilityInv
  BY DEF LogInv, SegmentInv
<1>2. Move
  BY <1>1, StepMoves
<1>3. SegmentInv'
  BY <1>1, SegmentStep
<1>4. DownOK'
  BY <1>3 DEF SegmentInv, DurabilityInv, TypeInv
<1>5. UploadsInOrder'
  BY <1>1, <1>2, <1>4, UploadsKept
<1>6. evicted' = {} /\ OneRecordEach' /\ NoGaps'
  BY <1>1, <1>2, RecordsKept
<1>7. QED
  BY <1>3, <1>5, <1>6 DEF LogInv, OrderInv

\* An offset identifies one record for good, across any number of crashes,
\* half-done commits and re-uploads: recovery never hands out an offset that
\* an acked or stored record has.
THEOREM OffsetsNeverReused ==
  ASSUME ~ OpenMayFail, ~ RetentionEnabled
  PROVE  Spec => []OffsetsUnique
<1>1. LogInv => OffsetsUnique
  <2> SUFFICES ASSUME LogInv PROVE OffsetsUnique
    OBVIOUS
  <2>1. acked \subseteq Stored
    BY DEF LogInv, SegmentInv, OrderInv, DurabilityInv, AckedDurable, Stored
  <2>2. acked \cup InWal \cup Manifested \subseteq Stored
    BY <2>1 DEF Stored
  <2>3. QED
    BY <2>2 DEF LogInv, OrderInv, OneRecordEach, OffsetsUnique
<1>2. QED
  BY <1>1, LogInit, LogStep, PTL DEF Spec

\* Every stored record is in an object the manifest names, or in a file above
\* the manifest.
LEMMA StoredWhere ==
  ASSUME LogInv, NEW r \in Stored
  PROVE  \/ \E e \in manifest : r \in obj[e.base]
         \/ \E b \in Offset : r \in wal[b] /\ Fresh(b)
<1>1. CASE r \in Manifested
  BY <1>1 DEF Manifested
<1>2. CASE r \in InWal
  <2>1. PICK b \in Offset : r \in wal[b]
    BY <1>2 DEF InWal
  <2>2. CASE b \in Bases
    <3>1. PICK e \in manifest : e.base = b
      BY <2>2 DEF Bases
    <3>2. wal[e.base] \subseteq obj[e.base]
      BY DEF LogInv, SegmentInv, DurabilityInv, CoverOK
    <3>3. QED
      BY <2>1, <3>1, <3>2
  <2>3. CASE b \notin Bases
    <3>1. Fresh(b)
      BY <2>1, <2>3 DEF LogInv, OrderInv, UploadsInOrder, Fresh
    <3>2. QED
      BY <2>1, <3>1
  <2>4. QED
    BY <2>2, <2>3
<1>3. QED
  BY <1>1, <1>2 DEF Stored

\* Up to the tail the stored records are the manifest's.
LEMMA ManifestedUpToTail ==
  ASSUME LogInv, NEW o \in 0 .. LastUploaded
  PROVE  \E e \in manifest : \E r \in obj[e.base] : r.off = o
<1> DEFINE L == LastUploaded
<1>1. L \in Int /\ o \in 0 .. L
  BY LastUploadedType DEF LogInv, SegmentInv, DurabilityInv, TypeInv, TypeOK
<1>2. manifest # {}
  BY DEF LastUploaded
<1>3. PICK t \in manifest : L = t.last
  BY <1>2, LastUploadedTail DEF LogInv, SegmentInv, DurabilityInv, TypeInv, TypeOK
<1>4. PICK q \in obj[t.base] : q.off = t.last
  BY DEF LogInv, SegmentInv, SpanInv, Spans, Offs
<1>5. q \in Stored /\ q.off = L
  BY <1>3, <1>4 DEF Stored, Manifested
<1>6. o \in Offs(Stored)
  <2>1. o = q.off \/ o \in 0 .. q.off - 1
    BY <1>1, <1>5
  <2>2. q.off \in Offs(Stored)
    BY <1>5 DEF Offs
  <2>3. QED
    BY <1>5, <2>1, <2>2 DEF LogInv, OrderInv, NoGaps
<1>7. PICK r \in Stored : r.off = o
  BY <1>6 DEF Offs
<1>8. ASSUME NEW b \in Offset, r \in wal[b], Fresh(b) PROVE FALSE
  <2>1. L < b
    BY <1>8 DEF LogInv, SegmentInv, FreshInv, TailBelow
  <2>2. b <= r.off /\ b \in Int
    BY <1>8 DEF LogInv, SegmentInv, DurabilityInv, FilesOK, Offset
  <2> HIDE DEF L
  <2>3. QED
    BY <1>1, <1>7, <2>1, <2>2
<1>9. QED
  BY <1>7, <1>8, StoredWhere

\* What the invariant says of the manifest.
LEMMA ManifestTiled == LogInv => ManifestTiles
<1> SUFFICES ASSUME LogInv PROVE ManifestTiles
  OBVIOUS
<1>1. ManifestNonOverlapping
  BY DEF LogInv, OrderInv, UploadsInOrder
<1>2. \A e \in manifest : Spans(e.base, e.last, obj[e.base])
  BY DEF LogInv, SegmentInv, SpanInv
<1>3. \A e \in manifest : /\ e.base \in Int /\ e.last \in Int /\ 0 <= e.base
                          /\ e.last <= LastUploaded
  <2>1. \A e \in manifest : e.last <= LastUploaded
    BY <1>1, NoEntryBeyondTail DEF LogInv, SegmentInv
  <2>2. QED
    BY <2>1, OffsetFacts
       DEF LogInv, SegmentInv, DurabilityInv, TypeInv, TypeOK, Entry, Offset
<1>4. \A e \in manifest : \A r \in obj[e.base] : r.off \in Int
  <2>1. \A e \in manifest : \A r \in obj[e.base] : r \in Stored
    BY DEF Stored, Manifested
  <2>2. QED
    BY <2>1, StoredTyped DEF LogInv, SegmentInv
<1>5. \A o \in 0 .. LastUploaded : \E e \in manifest : o \in e.base .. e.last
  BY <1>2, <1>3, <1>4, ManifestedUpToTail DEF Spans
<1>6. ASSUME NEW e \in manifest, NEW o \in e.base .. e.last
      PROVE  \E r \in obj[e.base] : r.off = o
  <2> DEFINE L == LastUploaded
  <2>1. L \in Int
    BY LastUploadedType DEF LogInv, SegmentInv, DurabilityInv, TypeInv, TypeOK
  <2>2. o \in 0 .. L
    <3>1. e.last <= L
      BY <1>3
    <3> HIDE DEF L
    <3>2. QED
      BY <1>3, <2>1, <3>1
  <2>3. PICK f \in manifest : \E r \in obj[f.base] : r.off = o
    BY <2>2, ManifestedUpToTail
  <2>4. f.base <= o /\ o <= f.last
    BY <1>2, <2>3 DEF Spans
  <2>5. ~ (f.base < e.base) /\ ~ (e.base < f.base)
    BY <1>1, <1>3, <2>4 DEF ManifestNonOverlapping
  <2>6. f.base = e.base
    BY <1>3, <2>5
  <2>7. QED
    BY <2>3, <2>6
<1>7. \A e \in manifest : Offs(obj[e.base]) = e.base .. e.last
  <2> SUFFICES ASSUME NEW e \in manifest PROVE Offs(obj[e.base]) = e.base .. e.last
    OBVIOUS
  <2>1. \A r \in obj[e.base] : r.off \in e.base .. e.last
    BY <1>2, <1>3, <1>4 DEF Spans
  <2>2. QED
    BY <1>6, <2>1 DEF Offs
<1>8. QED
  BY <1>1, <1>5, <1>7 DEF ManifestTiles

\* Without retention the manifest tiles the uploaded log: no two segments
\* overlap, every offset up to the tail is in one, and an object holds exactly
\* the offsets its entry announces, so segment_for_offset finds every record.
THEOREM UploadedLogTiled ==
  ASSUME ~ OpenMayFail, ~ RetentionEnabled
  PROVE  Spec => []ManifestTiles
  BY ManifestTiled, LogInit, LogStep, PTL DEF Spec

-----------------------------------------------------------------------------
(* The partition implements CommitLog *)

\* As many records as offsets, when no two records share one.
LEMMA CardinalityOfOffsets ==
  ASSUME NEW S, \A r, s \in S : r.off = s.off => r = s,
         NEW a \in Int, NEW b \in Int, a <= b, Offs(S) = a .. b - 1
  PROVE  Cardinality(S) = b - a
<1> DEFINE f == [r \in S |-> r.off]
           T == a .. b - 1
<1>1. f \in [S -> T]
  BY DEF Offs
<1>2. f \in Injection(S, T)
  BY <1>1 DEF Injection, IsInjective
<1>3. f \in Surjection(S, T)
  <2>1. \A t \in T : \E r \in S : f[r] = t
    BY DEF Offs
  <2>2. QED
    BY <1>1, <2>1 DEF Surjection
<1>4. IsFiniteSet(T) /\ Cardinality(T) = b - a
  <2>1. IsFiniteSet(T) /\ Cardinality(T) = IF a > b - 1 THEN 0 ELSE (b - 1) - a + 1
    BY FS_Interval
  <2>2. QED
    BY <2>1
<1> HIDE DEF f, T
<1>5. QED
  BY <1>2, <1>3, <1>4, FS_Injection

\* Offsets without a gap below any of them are an interval from 0.
LEMMA GaplessIsInterval ==
  ASSUME NEW S \in SUBSET Rec,
         \A r \in S : \A o \in 0 .. r.off - 1 : o \in Offs(S)
  PROVE  \E k \in Nat : Offs(S) = 0 .. k - 1
<1>1. CASE S = {}
  <2>1. Offs(S) = {} /\ 0 .. 0 - 1 = {}
    BY <1>1 DEF Offs
  <2>2. QED
    BY <2>1
<1>2. CASE S # {}
  <2> DEFINE M == Max(Offs(S))
  <2>1. /\ M \in Offs(S) /\ \A o \in Offs(S) : o <= M
        /\ Offs(S) \subseteq 0 .. MaxOffset - 1
    BY <1>2, OffsBounds
  <2>2. M \in Nat /\ \A o \in Offs(S) : o \in Nat
    BY <2>1, OffsetFacts
  <2>3. PICK r \in S : r.off = M
    BY <2>1 DEF Offs
  <2>4. \A o \in 0 .. M - 1 : o \in Offs(S)
    BY <2>3
  <2> HIDE DEF M
  <2>5. \A o \in Offs(S) : o \in 0 .. (M + 1) - 1
    BY <2>1, <2>2
  <2>6. \A o \in 0 .. (M + 1) - 1 : o \in Offs(S)
    BY <2>1, <2>2, <2>4
  <2>7. M + 1 \in Nat /\ Offs(S) = 0 .. (M + 1) - 1
    <3>1. M + 1 \in Nat
      BY <2>2
    <3>2. Offs(S) \subseteq 0 .. (M + 1) - 1 /\ 0 .. (M + 1) - 1 \subseteq Offs(S)
      BY <2>5, <2>6
    <3>3. QED
      BY <3>1, <3>2
  <2>8. QED
    BY <2>7
<1>3. QED
  BY <1>1, <1>2

\* CommitLog counts as FiniteSets does.
LEMMA LogCardinality == \A S : Log!Cardinality(S) = Cardinality(S)
  BY DEF Log!Cardinality, Cardinality

\* A commit, whole or cut short by a panic, is a commit of the abstract log or
\* is invisible to it.
LEMMA CommitRefines ==
  ASSUME LogInv, LogInv', Commits
  PROVE  Log!Next \/ UNCHANGED <<InWal \cup Manifested, acked>>
<1>0. PICK n \in 0 .. MaxBatch : \E w \in SUBSET Group(n) : CommitsGroup(n, w)
  BY DEF Commits
<1>1. PICK w \in SUBSET Group(n) : CommitsGroup(n, w)
  BY <1>0
<1>2. /\ Stored' = Stored \cup w
      /\ \A r \in Stored, p \in w : r.off < p.off
      /\ \A r, s \in Stored \cup w : r.off = s.off => r = s
      /\ \A r \in Stored \cup w : \A o \in 0 .. r.off - 1 : o \in Offs(Stored \cup w)
  BY <1>1, CommitExtends DEF LogInv
<1>3. \A r \in Stored : \A o \in 0 .. r.off - 1 : o \in Offs(Stored)
  BY DEF LogInv, OrderInv, NoGaps
<1>4. /\ Stored \in SUBSET Rec /\ w \in SUBSET Rec
      /\ \A r \in Stored \cup w : r.off \in Int
  <2>1. Stored \subseteq Rec
    BY StoredTyped DEF LogInv, SegmentInv
  <2>2. w \subseteq Rec
    BY <1>1 DEF CommitsGroup, Committable
  <2>3. QED
    BY <2>1, <2>2, OffsetFacts
<1>5. acked' \in {acked, acked \cup w} /\ (w = {} => acked' = acked)
  BY <1>1 DEF CommitsGroup, Panics, Grows, Seals, Ends
<1>6. CASE w = {}
  BY <1>2, <1>5, <1>6 DEF Stored
<1>7. CASE w # {}
  <2>1. PICK k \in Nat : Offs(Stored) = 0 .. k - 1
    BY <1>3, <1>4, GaplessIsInterval
  <2>2. PICK m \in Nat : Offs(Stored \cup w) = 0 .. m - 1
    <3>1. Stored \cup w \in SUBSET Rec
      BY <1>4
    <3>2. QED
      BY <1>2, <3>1, GaplessIsInterval
  <2>3. \A r \in Stored : r.off \notin Offs(w)
    BY <1>2, <1>4 DEF Offs
  <2>4. \A o \in Offs(w) : o \in 0 .. m - 1 /\ o \notin 0 .. k - 1
    <3>1. \A o \in Offs(w) : o \in Offs(Stored \cup w) /\ o \notin Offs(Stored)
      BY <2>3 DEF Offs
    <3>2. QED
      BY <2>1, <2>2, <3>1
  <2>5. \A o \in 0 .. m - 1 : o \in 0 .. k - 1 \/ o \in Offs(w)
    <3>1. \A o \in Offs(Stored \cup w) : o \in Offs(Stored) \/ o \in Offs(w)
      BY DEF Offs
    <3>2. QED
      BY <2>1, <2>2, <3>1
  <2>6. Offs(w) # {}
    BY <1>7 DEF Offs
  <2>7. k < m
    BY <2>4, <2>6
  <2>8. Offs(w) = k .. m - 1
    <3>1. \A o \in Offs(w) : o \in k .. m - 1
      BY <2>4
    <3>2. \A o \in k .. m - 1 : o \in Offs(w)
      BY <2>5
    <3>3. QED
      BY <3>1, <3>2
  <2>9. Cardinality(Stored) = k
    <3>1. Cardinality(Stored) = k - 0
      BY <1>2, <2>1, CardinalityOfOffsets
    <3>2. QED
      BY <3>1
  <2>10. Cardinality(w) = m - k
    BY <1>2, <2>7, <2>8, CardinalityOfOffsets
  <2>11. Offs(w) = Cardinality(Stored) .. Cardinality(Stored) + Cardinality(w) - 1
    <3>1. k + ((m - k) - 1) = m - 1
      OBVIOUS
    <3>2. QED
      BY <2>8, <2>9, <2>10, <3>1
  <2>12. w \cap Stored = {}
    BY <2>3 DEF Offs
  <2>13. Stored' \ Stored = w /\ Stored \subseteq Stored'
    BY <1>2, <2>12
  <2>14. Log!Commit
    <3> DEFINE recs == (InWal \cup Manifested)' \ (InWal \cup Manifested)
               c    == Log!Cardinality(InWal \cup Manifested)
    <3>1. recs = w /\ InWal \cup Manifested \subseteq (InWal \cup Manifested)'
      BY <2>13 DEF Stored
    <3>2. c = Cardinality(Stored) /\ Log!Cardinality(recs) = Cardinality(w)
      BY <3>1, LogCardinality DEF Stored
    <3>3. {r.off : r \in recs} = Offs(w)
      BY <3>1 DEF Offs
    <3>4. {r.off : r \in recs} = c .. c + Log!Cardinality(recs) - 1
      BY <2>11, <3>2, <3>3
    <3>5. recs # {} /\ recs \subseteq Rec /\ acked' \in {acked, acked \cup recs}
      BY <1>4, <1>5, <1>7, <3>1
    <3>6. QED
      BY <3>1, <3>4, <3>5 DEF Log!Commit
  <2>15. QED
    BY <2>14 DEF Log!Next
<1>8. QED
  BY <1>6, <1>7

\* The partition is an append-only log for its producers: every step of the
\* writer, the Uploader, a crash or recovery either appends the next offsets
\* to what is stored and acks them or not, or changes nothing a producer sees.
THEOREM PartitionIsCommitLog ==
  ASSUME ~ OpenMayFail, ~ RetentionEnabled
  PROVE  Spec => IsCommitLog
<1>1. Init => Log!Init
  <2> SUFFICES ASSUME Init PROVE Log!Init
    OBVIOUS
  <2>1. (\A b \in Offset : wal[b] = {}) /\ manifest = {} /\ acked = {}
    BY DEF Init
  <2>2. InWal = {} /\ Manifested = {}
    BY <2>1 DEF InWal, Manifested
  <2>3. QED
    BY <2>1, <2>2 DEF Log!Init
<1>2. LogInv /\ LogInv' /\ [Next]_vars => [Log!Next]_<<InWal \cup Manifested, acked>>
  <2> SUFFICES ASSUME LogInv, LogInv', [Next]_vars
               PROVE  Log!Next \/ UNCHANGED <<InWal \cup Manifested, acked>>
    OBVIOUS
  <2>1. SegmentInv /\ OrderInv /\ Move
    BY StepMoves DEF LogInv, SegmentInv
  <2>2. CASE Commits
    BY <2>2, CommitRefines
  <2>3. CASE ~ Commits
    BY <2>1, <2>3, StoredKept DEF Stored
  <2>4. QED
    BY <2>2, <2>3
<1>3. QED
  BY <1>1, <1>2, LogInit, LogStep, PTL DEF Spec, IsCommitLog, Log!Spec
=============================================================================
