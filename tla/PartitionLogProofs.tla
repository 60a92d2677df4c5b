------------------------- MODULE PartitionLogProofs -------------------------
(***************************************************************************)
(* Type correctness and durability of PartitionLog, for every value of the *)
(* constants.                                                              *)
(***************************************************************************)
EXTENDS PartitionLog, NaturalFacts, FiniteSetTheorems, TLAPS

-----------------------------------------------------------------------------
(* Type correctness *)

LEMMA OffsetFacts ==
  /\ MaxOffset \in Nat /\ MaxOffset > 0
  /\ \A r \in Rec : r.off \in Nat /\ r.off < MaxOffset
  /\ \A c \in Configs : c.segmentSize \in Nat /\ c.segmentSize > 0
  BY ConstantsAssumption DEF Rec

\* first() and last() of a batch.
LEMMA OffsBounds ==
  ASSUME NEW recs \in SUBSET Rec, recs # {}
  PROVE  /\ Min(Offs(recs)) \in Offs(recs) /\ Max(Offs(recs)) \in Offs(recs)
         /\ \A o \in Offs(recs) : Min(Offs(recs)) <= o /\ o <= Max(Offs(recs))
         /\ Offs(recs) \subseteq 0 .. MaxOffset - 1
<1> DEFINE S == Offs(recs)
<1>1. S \subseteq 0 .. MaxOffset - 1 /\ S # {}
  BY OffsetFacts DEF Offs
<1>2. S \in SUBSET Nat /\ S \in SUBSET Int /\ MaxOffset \in Int /\ \A x \in S : x <= MaxOffset
  BY <1>1, OffsetFacts
<1>3. Min(S) \in S /\ \A x \in S : Min(S) <= x
  BY <1>1, <1>2, MinOfNaturals
<1>4. Max(S) \in S /\ \A x \in S : x <= Max(S)
  BY <1>1, <1>2, MaxOfBounded
<1>5. QED
  BY <1>1, <1>3, <1>4

\* A full segment is not empty: segment_size_bytes is at least 1.
LEMMA FullIsNonEmpty ==
  ASSUME NEW S, NEW c \in Configs, Cardinality(S) >= c.segmentSize
  PROVE  S # {}
  BY OffsetFacts, FS_EmptySet

LEMMA SealedBatchType ==
  ASSUME NEW recs \in SUBSET Rec, recs # {}
  PROVE  /\ SealedBatch(recs) \in Batch
         /\ SealedBatch(recs).base <= SealedBatch(recs).last
  BY OffsBounds, OffsetFacts DEF SealedBatch, Batch, Offset

\* last_uploaded_offset is -1 or a last offset, and no entry's base is above
\* the tail entry's.
LEMMA LastUploadedTail ==
  ASSUME manifest \subseteq Entry, manifest # {}
  PROVE  \E e \in manifest : /\ LastUploaded = e.last
                             /\ \A f \in manifest : f.base <= e.base
<1> DEFINE S == {e.base : e \in manifest}
<1>1. S \in SUBSET Int /\ S # {} /\ \A x \in S : x <= MaxOffset
  BY OffsetFacts DEF Entry, Offset
<1>2. MaxOffset \in Int
  BY OffsetFacts
<1>3. Max(S) \in S /\ \A x \in S : x <= Max(S)
  BY <1>1, <1>2, MaxOfBounded
<1>4. PICK e \in manifest : e.base = Max(S)
  BY <1>3
<1>5. \A f \in manifest : f.base <= e.base
  BY <1>3, <1>4
<1>6. QED
  BY <1>5 DEF LastUploaded

LEMMA LastUploadedType ==
  ASSUME manifest \subseteq Entry
  PROVE  LastUploaded \in Int /\ LastUploaded >= -1 /\ LastUploaded < MaxOffset
<1>1. CASE manifest = {}
  BY <1>1, OffsetFacts DEF LastUploaded
<1>2. CASE manifest # {}
  BY <1>2, LastUploadedTail, OffsetFacts DEF Entry
<1>3. QED
  BY <1>1, <1>2

\* The next offset recovery computes is above the manifest's tail and above
\* every record of the files it keeps.
LEMMA RecoveredNextBounds ==
  ASSUME manifest \subseteq Entry, wal \in [Offset -> SUBSET Rec],
         NEW left \in SUBSET Offset
  PROVE  /\ RecoveredNext(left) \in Offset
         /\ RecoveredNext(left) > LastUploaded
         /\ \A b \in left : \A r \in wal[b] : r.off < RecoveredNext(left)
<1> DEFINE L == LastUploaded
           O == UNION {Offs(wal[b]) : b \in left}
           S == {L + 1} \cup {o + 1 : o \in O}
<1>1. L \in Int /\ L >= -1 /\ L < MaxOffset
  BY LastUploadedType
<1>2. O \subseteq 0 .. MaxOffset - 1
  BY OffsetFacts DEF Offs
<1>3. \A b \in left : \A r \in wal[b] : r.off \in O
  BY DEF Offs
<1>4. RecoveredNext(left) = Max(S)
  BY DEF RecoveredNext
<1> HIDE DEF O, L
<1>5. S \in SUBSET Int /\ S # {} /\ \A x \in S : x >= 0 /\ x <= MaxOffset
  BY <1>1, <1>2, OffsetFacts
<1>6. MaxOffset \in Int
  BY OffsetFacts
<1>7. Max(S) \in S /\ \A x \in S : x <= Max(S)
  BY <1>5, <1>6, MaxOfBounded
<1>8. L + 1 \in S /\ \A o \in O : o + 1 \in S
  OBVIOUS
<1> DEFINE m == Max(S)
<1>9. /\ m \in Int /\ 0 <= m /\ m <= MaxOffset
      /\ L + 1 <= m /\ \A o \in O : o + 1 <= m
  BY <1>5, <1>7, <1>8
<1>10. RecoveredNext(left) = m
  BY <1>4
<1> HIDE DEF m
<1>11. m \in Offset /\ m > L
  BY <1>1, <1>6, <1>9 DEF Offset
<1>12. \A o \in O : o < m
  BY <1>2, <1>6, <1>9
<1>13. \A b \in left : \A r \in wal[b] : r.off < m
  BY <1>3, <1>12
<1>14. QED
  BY <1>10, <1>11, <1>13 DEF L

\* What flush_commit and the operations it calls change keeps its type.
FlushTypes ==
  /\ wal \in [Offset -> SUBSET Rec]
  /\ acked \subseteq Rec
  /\ pw \in {"running", "panicked", "stopped", "down"}
  /\ active \subseteq Rec /\ pending \subseteq Rec
  /\ inFlight \subseteq Offset
  /\ uploads \subseteq Batch
  /\ walBase \in Offset
  /\ walLinked \in BOOLEAN

LEMMA SealType ==
  ASSUME TypeOK, NEW recs \in SUBSET Rec, recs # {}, NEW next \in Offset,
         SealAndHandoff(recs, next)
  PROVE  /\ active' \subseteq Rec
         /\ inFlight' \subseteq Offset
         /\ uploads' \subseteq Batch
         /\ walBase' \in Offset
         /\ walLinked' \in BOOLEAN
<1>1. SealedBatch(recs) \in Batch /\ SealedBatch(recs).base \in Offset
  BY SealedBatchType DEF Batch
<1>2. QED
  BY <1>1 DEF SealAndHandoff, Enqueued, TypeOK

LEMMA WalAppendType ==
  ASSUME TypeOK, NEW recs \in SUBSET Rec
  PROVE  WalAppend(recs) \in [Offset -> SUBSET Rec]
  BY DEF TypeOK, WalAppend

LEMMA PanicType ==
  ASSUME TypeOK, NEW recs \in SUBSET Rec, FlushPanics(recs)
  PROVE  FlushTypes'
<1>1. wal' \in [Offset -> SUBSET Rec]
  BY WalAppendType DEF FlushPanics
<1>2. QED
  BY <1>1 DEF FlushPanics, FlushTypes, TypeOK

LEMMA FlushType ==
  ASSUME TypeOK, NEW recs \in SUBSET Rec, NEW next \in Offset,
         FlushCommit(recs, next)
  PROVE  FlushTypes'
<1>1. CASE FlushPanics(recs)
  BY <1>1, PanicType
<1>2. CASE ~ FlushPanics(recs)
  <2>1. wal' \in [Offset -> SUBSET Rec]
    BY <1>2, WalAppendType DEF FlushCommit
  <2>2. acked' \subseteq Rec /\ pending' = {} /\ pw' = pw
    BY <1>2 DEF FlushCommit, TypeOK
  <2>3. CASE Cardinality(active \cup recs) >= cfg.segmentSize
    <3>1. active \cup recs \in SUBSET Rec /\ active \cup recs # {}
      BY <2>3, FullIsNonEmpty DEF TypeOK
    <3>2. SealAndHandoff(active \cup recs, next)
      BY <1>2, <2>3 DEF FlushCommit
    <3>3. QED
      BY <2>1, <2>2, <3>1, <3>2, SealType DEF FlushTypes, TypeOK
  <2>4. CASE ~ (Cardinality(active \cup recs) >= cfg.segmentSize)
    BY <1>2, <2>1, <2>2, <2>4 DEF FlushCommit, FlushTypes, TypeOK
  <2>5. QED
    BY <2>3, <2>4
<1>3. QED
  BY <1>1, <1>2

\* While the broker is down nothing is in memory, and a restart is left.
DownOK ==
  pw = "down" =>
    /\ boots < MaxBoots
    /\ up = "down"
    /\ durable = {} /\ pending = {} /\ evicting = {}

\* TypeOK needs DownOK: recovery counts a restart.
TypeInv == TypeOK /\ DownOK

LEMMA TypeInit == Init => TypeInv
<1> SUFFICES ASSUME Init PROVE TypeInv
  OBVIOUS
<1>1. TypeOK
  BY ConstantsAssumption DEF Init, TypeOK, Offset, Rec, Batch, NoBatch, Entry
<1>2. QED
  BY <1>1 DEF Init, DownOK, TypeInv

LEMMA DownStep == TypeInv /\ [Next]_vars => DownOK'
<1> SUFFICES ASSUME TypeInv, [Next]_vars PROVE DownOK'
  OBVIOUS
<1> USE DEF storeVars, diskVars, pwVars, upVars, TypeInv, DownOK
<1>1. ASSUME NEW n \in 1 .. MaxBatch, OnProduce(n) PROVE DownOK'
  BY <1>1 DEF OnProduce, FlushCommit, FlushPanics
<1>2. CASE GroupCommitTimeout
  BY <1>2 DEF GroupCommitTimeout, FlushCommit, FlushPanics
<1>3. CASE OnDurable
  BY <1>3 DEF OnDurable
<1>4. CASE Shutdown
  BY <1>4 DEF Shutdown, FlushPanics
<1>5. CASE Crash
  BY <1>5 DEF Crash
<1>6. CASE Recover
  BY <1>6 DEF Recover
<1>7. CASE UpdateConfig
  BY <1>7 DEF UpdateConfig
<1>8. CASE TakeUpload \/ PutSegment \/ PutManifest \/ UploadFails \/ SendDurable
  BY <1>8 DEF TakeUpload, PutSegment, PutManifest, UploadFails, SendDurable
<1>9. CASE \/ RetentionKick \/ RetentionKeeps \/ RetentionRewrites
           \/ RetentionDeletes \/ SendUploaderShutdown \/ UploaderShutdown
  BY <1>9 DEF RetentionKick, RetentionKeeps, RetentionRewrites,
     RetentionDeletes, SendUploaderShutdown, UploaderShutdown
<1>10. CASE UNCHANGED vars
  BY <1>10 DEF vars
<1>11. QED
  BY <1>1, <1>2, <1>3, <1>4, <1>5, <1>6, <1>7, <1>8, <1>9, <1>10 DEF Next

\* Every action keeps every variable in its type.
LEMMA TypeStep == TypeInv /\ [Next]_vars => TypeInv'
<1> SUFFICES ASSUME TypeInv, [Next]_vars PROVE TypeOK'
  BY DownStep DEF TypeInv
<1>0. TypeOK
  BY DEF TypeInv
<1> USE <1>0
<1> USE DEF storeVars, diskVars, pwVars, upVars
<1>1. ASSUME NEW n \in 1 .. MaxBatch, OnProduce(n) PROVE TypeOK'
  <2> DEFINE next == nextOffset + n
             new  == {[off |-> o, boot |-> boots] : o \in nextOffset .. next - 1}
             recs == pending \cup new
  <2>1. next \in Offset
    BY <1>1, ConstantsAssumption DEF OnProduce, TypeOK, Offset
  <2>2. recs \in SUBSET Rec
    BY <1>0, <2>1, ConstantsAssumption DEF TypeOK, Offset, Rec
  <2>3. CASE Cardinality(recs) >= cfg.groupCount
    <3>1. FlushCommit(recs, next)
      BY <1>1, <2>3 DEF OnProduce
    <3>2. FlushTypes'
      BY <2>1, <2>2, <3>1, FlushType
    <3>3. QED
      BY <1>1, <2>1, <3>2 DEF OnProduce, TypeOK, FlushTypes
  <2>4. CASE ~ (Cardinality(recs) >= cfg.groupCount)
    BY <1>1, <2>1, <2>2, <2>4 DEF OnProduce, TypeOK
  <2>5. QED
    BY <2>3, <2>4
<1>2. CASE GroupCommitTimeout
  <2>1. FlushTypes'
    BY <1>2, FlushType DEF GroupCommitTimeout, TypeOK
  <2>2. QED
    BY <1>2, <2>1 DEF GroupCommitTimeout, TypeOK, FlushTypes
<1>3. CASE OnDurable
  BY <1>3 DEF OnDurable, TypeOK
<1>4. CASE UpdateConfig
  BY <1>4 DEF UpdateConfig, TypeOK
<1>5. CASE Shutdown
  <2>1. FlushTypes'
    <3>1. CASE FlushPanics(pending)
      BY <3>1, PanicType DEF TypeOK
    <3>2. CASE ~ FlushPanics(pending)
      <4>1. wal' \in [Offset -> SUBSET Rec]
        BY <1>5, <3>2, WalAppendType DEF Shutdown, TypeOK
      <4>2. acked' \subseteq Rec /\ pending' = {} /\ pw' = "stopped"
        BY <1>5, <3>2 DEF Shutdown, TypeOK
      <4>3. CASE active \cup pending = {}
        BY <1>5, <3>2, <4>1, <4>2, <4>3 DEF Shutdown, TypeOK, FlushTypes
      <4>4. CASE active \cup pending # {}
        <5>1. SealAndHandoff(active \cup pending, nextOffset)
          BY <1>5, <3>2, <4>4 DEF Shutdown
        <5>2. active \cup pending \in SUBSET Rec /\ nextOffset \in Offset
          BY DEF TypeOK
        <5>3. QED
          BY <4>1, <4>2, <4>4, <5>1, <5>2, SealType DEF FlushTypes
      <4>5. QED
        BY <4>3, <4>4
    <3>3. QED
      BY <3>1, <3>2
  <2>2. QED
    BY <1>5, <2>1 DEF Shutdown, TypeOK, FlushTypes
<1>6. CASE TakeUpload
  BY <1>6 DEF TakeUpload, TypeOK
<1>7. CASE PutSegment
  BY <1>7 DEF PutSegment, TypeOK, Batch
<1>8. CASE PutManifest
  BY <1>8 DEF PutManifest, WithEntry, EntryOf, TypeOK, Batch, Entry
<1>9. CASE UploadFails
  BY <1>9 DEF UploadFails, WithEntry, EntryOf, TypeOK, Batch, Entry
<1>10. CASE SendDurable
  <2>1. NoBatch \in Batch
    BY ConstantsAssumption DEF NoBatch, Batch, Offset
  <2>2. QED
    BY <1>10, <2>1 DEF SendDurable, TypeOK, Batch
<1>11. CASE RetentionKick
  BY <1>11 DEF RetentionKick, TypeOK
<1>12. CASE RetentionKeeps
  BY <1>12 DEF RetentionKeeps, TypeOK
<1>13. CASE RetentionRewrites
  BY <1>13 DEF RetentionRewrites, EvictablePrefixes, TypeOK, Entry
<1>14. CASE RetentionDeletes
  BY <1>14 DEF RetentionDeletes, TypeOK, Entry
<1>15. CASE SendUploaderShutdown \/ UploaderShutdown
  BY <1>15 DEF SendUploaderShutdown, UploaderShutdown, TypeOK
<1>16. CASE Crash
  <2>1. NoBatch \in Batch /\ 0 \in Offset
    BY ConstantsAssumption DEF NoBatch, Batch, Offset
  <2>2. QED
    BY <1>16, <2>1 DEF Crash, TypeOK
<1>17. CASE Recover
  <2> DEFINE left == UncoveredFiles
  <2>1. /\ nextOffset' = RecoveredNext(left)
        /\ active' = IF left = {} THEN {} ELSE wal[Max(left)]
        /\ walBase' = IF left = {} THEN nextOffset' ELSE Min(Offs(wal[Max(left)]))
        /\ uploads' = {[base |-> b, last |-> Max(Offs(wal[b])), recs |-> wal[b]] :
                         b \in {c \in left : c # Max(left)}}
    BY <1>17 DEF Recover
  <2>2. left \in SUBSET Offset /\ \A b \in left : wal[b] \in SUBSET Rec /\ wal[b] # {}
    BY DEF TypeOK, UncoveredFiles
  <2>3. nextOffset' \in Offset
    BY <2>1, <2>2, RecoveredNextBounds DEF TypeOK
  <2>4. left # {} => Max(left) \in left
    <3>1. left \in SUBSET Int /\ MaxOffset \in Int /\ \A b \in left : b <= MaxOffset
      BY <2>2, OffsetFacts DEF Offset
    <3>2. QED
      BY <3>1, MaxOfBounded
  <2>5. \A b \in left : /\ Min(Offs(wal[b])) \in 0 .. MaxOffset - 1
                        /\ Max(Offs(wal[b])) \in 0 .. MaxOffset - 1
    BY <2>2, OffsBounds
  <2> HIDE DEF left
  <2>6. active' \subseteq Rec
    BY <2>1, <2>2, <2>4
  <2>7. walBase' \in Offset
    BY <2>1, <2>3, <2>4, <2>5, OffsetFacts DEF Offset
  <2>8. uploads' \subseteq Batch
    BY <2>1, <2>2, <2>5 DEF Batch
  <2>9. wal' \in [Offset -> SUBSET Rec]
    BY <1>17 DEF Recover, TypeOK
  <2>10. boots' \in 0 .. MaxBoots
    BY <1>17, ConstantsAssumption DEF Recover, TypeOK, TypeInv, DownOK
  <2>11. QED
    BY <1>17, <2>3, <2>6, <2>7, <2>8, <2>9, <2>10 DEF Recover, TypeOK
<1>18. CASE UNCHANGED vars
  BY <1>18 DEF vars, TypeOK
<1>19. QED
  BY <1>1, <1>2, <1>3, <1>4, <1>5, <1>6, <1>7, <1>8, <1>9, <1>10, <1>11,
     <1>12, <1>13, <1>14, <1>15, <1>16, <1>17, <1>18 DEF Next

\* Every variable keeps its type, whatever the bounds and configurations: no
\* offset, base or batch leaves its range, and a sealed batch is never empty.
THEOREM TypeCorrect == Spec => []TypeOK
<1>1. Init => TypeInv
  BY TypeInit
<1>2. TypeInv /\ [Next]_vars => TypeInv'
  BY TypeStep
<1>3. TypeInv => TypeOK
  BY DEF TypeInv
<1>4. QED
  BY <1>1, <1>2, <1>3, PTL DEF Spec

-----------------------------------------------------------------------------
(***************************************************************************)
(* The inductive invariant for AckedDurable.  A record may leave a WAL     *)
(* file only when the manifest names an object that has it (or had it      *)
(* until retention), so the invariant follows a segment from its WAL file  *)
(* through the queue, the Uploader and the SegmentDurable message.         *)
(***************************************************************************)

Busy == up \in {"segment", "manifest", "durable"}

\* The sealed segments the Uploader has not reported yet.
Work == uploads \cup (IF Busy THEN {batch} ELSE {})

\* A WAL file is named after its first record.
FilesOK ==
  \A b \in Offset :
    /\ \A r \in wal[b] : b <= r.off
    /\ wal[b] # {} => \E r \in wal[b] : r.off = b

\* A running writer appends to a file of its own, beyond everything stored.
WriterOK ==
  pw = "running" =>
    /\ walLinked
    /\ wal[walBase] = active
    /\ walBase <= nextOffset
    /\ \A r \in active \cup pending : walBase <= r.off /\ r.off < nextOffset
    /\ active = {} /\ pending = {} => walBase = nextOffset
    /\ active = {} /\ pending # {} => \E r \in pending : r.off = walBase
    /\ \A b \in Offset : wal[b] # {} => b < nextOffset
    /\ \A e \in manifest : e.base < nextOffset
    /\ walBase \notin Bases

\* A sealed segment is its WAL file, and no two have the same base.
WorkOK ==
  /\ \A u \in Work :
       /\ u.recs # {}
       /\ u.base <= u.last
       /\ wal[u.base] = u.recs
       /\ pw = "running" => u.base # walBase
  /\ \A u, v \in Work : u.base = v.base => u = v
  /\ Busy => batch \notin uploads

\* Where the Uploader stands with its batch, and what it may do to objects.
UploaderOK ==
  /\ up \in {"manifest", "durable"} => obj[batch.base] = batch.recs
  /\ up = "durable" => batch.base \in Bases
  /\ up = "segment" /\ batch.base \in Bases => obj[batch.base] = batch.recs
  /\ \A u \in uploads : u.base \notin Bases
  /\ \A e \in evicting : e.base \notin Bases
  /\ evicting # {} => up = "delete"

\* An object the manifest names has whatever its WAL file still has.
CoverOK ==
  \A e \in manifest :
    /\ e.base <= e.last
    /\ wal[e.base] \subseteq obj[e.base]

\* A SegmentDurable message is about a segment that is stored or evicted.
DurableOK ==
  \A d \in durable :
    /\ wal[d] \subseteq Manifested \cup evicted
    /\ \A u \in Work : u.base # d
    /\ pw = "running" => d # walBase /\ d < nextOffset

DurabilityInv ==
  /\ TypeInv
  /\ FilesOK
  /\ WriterOK
  /\ WorkOK
  /\ UploaderOK
  /\ CoverOK
  /\ DurableOK
  /\ AckedDurable

-----------------------------------------------------------------------------
(* Steps of the PartitionWriter *)

\* recs can be committed by a writer whose next offset then is next: they
\* follow the active segment, and start it if it is empty.
Committable(recs, next) ==
  /\ pw = "running"
  /\ next \in Offset /\ nextOffset <= next
  /\ recs \subseteq Rec
  /\ \A r \in recs : walBase <= r.off /\ r.off < next
  /\ active = {} /\ recs # {} => \E r \in recs : r.off = walBase

\* Appending a prefix of a committable batch to the open WAL file disturbs no
\* other file and nothing that the Uploader or a message relies on.
LEMMA AppendKeeps ==
  ASSUME DurabilityInv, NEW recs, NEW next, Committable(recs, next),
         NEW w \in SUBSET recs,
         \A r \in w, s \in recs : s.off < r.off => s \in w,
         wal' = WalAppend(w), UNCHANGED <<storeVars, upVars, durable>>
  PROVE  /\ wal'[walBase] = active \cup w
         /\ \A b \in Offset : b # walBase => wal'[b] = wal[b]
         /\ FilesOK' /\ CoverOK'
         /\ Manifested' = Manifested
         /\ InWal' = InWal \cup w
<1> USE DEF storeVars, upVars
<1>0. /\ wal \in [Offset -> SUBSET Rec] /\ obj \in [Offset -> SUBSET Rec]
      /\ manifest \subseteq Entry /\ walBase \in Offset
      /\ recs \subseteq Rec /\ active \subseteq Rec
  BY DEF DurabilityInv, TypeInv, TypeOK, Committable
<1>1. wal' = [wal EXCEPT ![walBase] = wal[walBase] \cup w]
  BY DEF DurabilityInv, WriterOK, WalAppend, Committable
<1>2. wal[walBase] = active /\ walBase \notin Bases
  BY DEF DurabilityInv, WriterOK, Committable
<1>3. /\ wal'[walBase] = active \cup w
      /\ \A b \in Offset : b # walBase => wal'[b] = wal[b]
  BY <1>0, <1>1, <1>2
<1>4. FilesOK'
  <2>1. \A b \in Offset : b # walBase =>
          /\ \A r \in wal'[b] : b <= r.off
          /\ wal'[b] # {} => \E r \in wal'[b] : r.off = b
    BY <1>3 DEF DurabilityInv, FilesOK
  <2>2. \A r \in active \cup w : walBase <= r.off
    BY <1>0, <1>2 DEF DurabilityInv, FilesOK, Committable
  <2>3. ASSUME active \cup w # {} PROVE \E r \in active \cup w : r.off = walBase
    <3>1. CASE active # {}
      BY <3>1, <1>0, <1>2 DEF DurabilityInv, FilesOK
    <3>2. CASE active = {}
      <4>1. PICK r \in w : TRUE
        BY <2>3, <3>2
      <4>2. PICK s \in recs : s.off = walBase
        BY <3>2, <4>1 DEF Committable
      <4>3. r \in Rec /\ s \in Rec /\ walBase <= r.off
        BY <1>0, <2>2, <4>1
      <4>4. r.off = walBase \/ s.off < r.off
        BY <4>2, <4>3, OffsetFacts
      <4>5. QED
        BY <4>1, <4>2, <4>4
    <3>3. QED
      BY <3>1, <3>2
  <2>4. QED
    BY <1>3, <2>1, <2>2, <2>3 DEF FilesOK, Offset
<1>5. Bases' = Bases /\ Manifested' = Manifested
  BY DEF Bases, Manifested
<1>6. CoverOK'
  <2>1. \A e \in manifest : e.base \in Offset /\ e.base # walBase
    BY <1>0, <1>2 DEF Entry, Bases
  <2>2. QED
    BY <1>3, <2>1 DEF DurabilityInv, CoverOK
<1>7. InWal' = InWal \cup w
  <2>1. walBase \in Offset /\ wal[walBase] \cup w = wal'[walBase]
    BY <1>0, <1>2, <1>3
  <2>2. QED
    BY <1>3, <2>1 DEF InWal, Offset
<1>8. QED
  BY <1>3, <1>4, <1>5, <1>6, <1>7

\* The part of the invariant that a type-correct step has to keep.
StoreInv ==
  FilesOK /\ WriterOK /\ WorkOK /\ UploaderOK /\ CoverOK /\ DurableOK /\ AckedDurable

\* The panic of a failed append.
LEMMA PanicKeeps ==
  ASSUME DurabilityInv, NEW recs, NEW next, Committable(recs, next),
         FlushPanics(recs), UNCHANGED <<storeVars, upVars, durable>>
  PROVE  StoreInv'
<1> USE DEF storeVars, upVars
<1>1. PICK w \in SUBSET recs :
        /\ \A r \in w, s \in recs : s.off < r.off => s \in w
        /\ wal' = WalAppend(w)
  BY DEF FlushPanics
<1>2. /\ \A b \in Offset : b # walBase => wal'[b] = wal[b]
      /\ FilesOK' /\ CoverOK' /\ Manifested' = Manifested /\ InWal' = InWal \cup w
  BY <1>1, AppendKeeps
<1>3. pw' = "panicked" /\ UNCHANGED <<uploads, acked, walBase>>
  BY DEF FlushPanics
<1>4. Work' = Work /\ Busy' = Busy
  BY <1>3 DEF Work, Busy
<1>5. \A u \in Work : u.base \in Offset /\ u.base # walBase
  BY DEF DurabilityInv, TypeInv, TypeOK, Batch, WorkOK, Committable, Work
<1>6. \A d \in durable : d \in Offset /\ d # walBase
  BY DEF DurabilityInv, TypeInv, TypeOK, DurableOK, Committable
<1>7. WorkOK'
  BY <1>2, <1>3, <1>4, <1>5 DEF DurabilityInv, WorkOK
<1>8. UploaderOK'
  BY <1>3 DEF DurabilityInv, UploaderOK, Bases
<1>9. DurableOK'
  BY <1>2, <1>3, <1>4, <1>6 DEF DurabilityInv, DurableOK
<1>10. AckedDurable'
  BY <1>2, <1>3 DEF DurabilityInv, AckedDurable
<1>11. WriterOK'
  BY <1>3 DEF WriterOK
<1>12. QED
  BY <1>2, <1>7, <1>8, <1>9, <1>10, <1>11 DEF StoreInv

\* A commit that leaves the segment open.
LEMMA CommitKeeps ==
  ASSUME DurabilityInv, NEW recs, NEW next, Committable(recs, next), recs # {},
         wal' = WalAppend(recs), acked' = acked \cup recs, pending' = {},
         active' = active \cup recs, nextOffset' = next, pw' = pw,
         UNCHANGED <<uploads, walBase, walLinked, storeVars, upVars, durable>>
  PROVE  StoreInv'
<1> USE DEF storeVars, upVars
<1>1. /\ \A b \in Offset : b # walBase => wal'[b] = wal[b]
      /\ wal'[walBase] = active \cup recs
      /\ FilesOK' /\ CoverOK' /\ Manifested' = Manifested
      /\ InWal' = InWal \cup recs
  BY AppendKeeps
<1>2. Work' = Work /\ Busy' = Busy /\ Bases' = Bases
  BY DEF Work, Busy, Bases
<1>3. \A u \in Work : u.base \in Offset /\ u.base # walBase
  BY DEF DurabilityInv, TypeInv, TypeOK, Batch, WorkOK, Committable, Work
<1>4. /\ nextOffset \in Int /\ next \in Int /\ nextOffset <= next
      /\ walBase \in Offset /\ walBase \in Int
      /\ \A r \in active \cup pending : r.off \in Int
      /\ \A r \in recs : r.off \in Int /\ walBase <= r.off /\ r.off < next
      /\ \A e \in manifest : e.base \in Int
      /\ durable \subseteq Offset /\ Offset \subseteq Int
  BY OffsetFacts
     DEF DurabilityInv, TypeInv, TypeOK, Committable, Offset, Entry
<1>5. WorkOK'
  BY <1>1, <1>2, <1>3 DEF DurabilityInv, WorkOK
<1>6. UploaderOK'
  BY <1>2 DEF DurabilityInv, UploaderOK
<1>7. DurableOK'
  BY <1>1, <1>2, <1>4 DEF DurabilityInv, DurableOK, Committable
<1>8. AckedDurable'
  BY <1>1 DEF DurabilityInv, AckedDurable
<1>9. WriterOK'
  <2> USE DEF DurabilityInv, WriterOK, Committable
  <2>1. walLinked' /\ wal'[walBase'] = active'
    BY <1>1
  <2>2. walBase < next
    BY <1>4
  <2>3. \A r \in active' \cup pending' : walBase' <= r.off /\ r.off < nextOffset'
    BY <1>4
  <2>4. active' # {}
    OBVIOUS
  <2>5. \A b \in Offset : wal'[b] # {} => b < nextOffset'
    BY <1>1, <1>4, <2>2
  <2>6. \A e \in manifest' : e.base < nextOffset'
    BY <1>4
  <2>7. QED
    BY <1>2, <1>4, <2>1, <2>2, <2>3, <2>4, <2>5, <2>6
<1>10. QED
  BY <1>1, <1>5, <1>6, <1>7, <1>8, <1>9 DEF StoreInv

\* A commit that fills the segment, or the last one of Shutdown: the segment
\* becomes a sealed batch and the next file starts above everything.
LEMMA SealKeeps ==
  ASSUME DurabilityInv, ~ OpenMayFail,
         NEW recs, NEW next, Committable(recs, next), active \cup recs # {},
         wal' = WalAppend(recs), acked' = acked \cup recs, pending' = {},
         SealAndHandoff(active \cup recs, next), nextOffset' = next,
         pw' \in {"running", "stopped"},
         UNCHANGED <<storeVars, upVars, durable>>
  PROVE  StoreInv'
<1> USE DEF storeVars, upVars
<1> DEFINE u0 == SealedBatch(active \cup recs)
<1>1. /\ \A b \in Offset : b # walBase => wal'[b] = wal[b]
      /\ wal'[walBase] = active \cup recs
      /\ FilesOK' /\ CoverOK' /\ Manifested' = Manifested
      /\ InWal' = InWal \cup recs
  BY AppendKeeps
<1>2. /\ active' = {} /\ uploads' \in {uploads, uploads \cup {u0}}
      /\ walBase' = next /\ walLinked'
  BY DEF SealAndHandoff, Enqueued
<1>3. /\ nextOffset \in Int /\ next \in Int /\ nextOffset <= next
      /\ walBase \in Offset /\ walBase \in Int /\ next \in Offset
      /\ \A r \in active \cup recs : r.off \in Int /\ walBase <= r.off /\ r.off < next
      /\ \A e \in manifest : e.base \in Int
      /\ durable \subseteq Offset /\ Offset \subseteq Int
      /\ active \cup recs \in SUBSET Rec
  BY OffsetFacts
     DEF DurabilityInv, TypeInv, TypeOK, WriterOK, Committable, Offset, Entry
<1>4. walBase < next
  BY <1>3
<1>5. u0.base = walBase /\ u0.recs = active \cup recs /\ u0.base <= u0.last
  <2> DEFINE S == Offs(active \cup recs)
  <2>1. PICK r \in active \cup recs : r.off = walBase
    BY <1>1, <1>3 DEF FilesOK
  <2>2. walBase \in S /\ \A o \in S : walBase <= o
    BY <1>3, <2>1 DEF Offs
  <2> DEFINE m == Min(S)
  <2>3. m \in S /\ m <= walBase /\ m \in Int
    BY <1>3, <2>2, OffsBounds, OffsetFacts
  <2>4. walBase <= m
    BY <2>2, <2>3
  <2> HIDE DEF m
  <2>5. m = walBase
    BY <1>3, <2>3, <2>4
  <2>6. QED
    BY <1>3, <2>5, SealedBatchType DEF SealedBatch, m
<1> HIDE DEF u0
<1>6. Work' \subseteq Work \cup {u0} /\ Busy' = Busy /\ Bases' = Bases
  BY <1>2 DEF Work, Busy, Bases
<1>7. \A u \in Work : u.base \in Offset /\ u.base # walBase /\ wal[u.base] = u.recs
                      /\ u.recs # {} /\ u.base < nextOffset
  BY DEF DurabilityInv, TypeInv, TypeOK, Batch, WorkOK, WriterOK, Committable, Work
<1>8. WorkOK'
  <2>1. \A u \in Work' : u.recs # {} /\ u.base <= u.last /\ wal'[u.base] = u.recs
    BY <1>1, <1>5, <1>6, <1>7 DEF DurabilityInv, WorkOK
  <2>2. \A u \in Work' : u.base # walBase'
    BY <1>2, <1>3, <1>4, <1>5, <1>6, <1>7
  <2>3. \A u, v \in Work' : u.base = v.base => u = v
    BY <1>5, <1>6, <1>7 DEF DurabilityInv, WorkOK
  <2>4. Busy' => batch' \notin uploads'
    <3>1. Busy => batch \in Work
      BY DEF Work
    <3>2. QED
      BY <1>2, <1>5, <1>6, <1>7, <3>1 DEF DurabilityInv, WorkOK
  <2>5. QED
    BY <2>1, <2>2, <2>3, <2>4 DEF WorkOK
<1>9. UploaderOK'
  <2>1. walBase \notin Bases
    BY DEF DurabilityInv, WriterOK, Committable
  <2>2. \A u \in uploads' : u.base \notin Bases'
    BY <1>2, <1>5, <1>6, <2>1 DEF DurabilityInv, UploaderOK
  <2>3. QED
    BY <1>6, <2>2 DEF DurabilityInv, UploaderOK
<1>10. DurableOK'
  <2>1. pw = "running" /\ \A d \in durable : d \in Offset /\ d # walBase /\ d < nextOffset
    BY <1>3 DEF DurabilityInv, DurableOK, Committable
  <2>2. \A d \in durable : wal'[d] \subseteq Manifested' \cup evicted'
    BY <1>1, <2>1 DEF DurabilityInv, DurableOK
  <2>3. \A d \in durable : \A u \in Work' : u.base # d
    BY <1>5, <1>6, <2>1 DEF DurabilityInv, DurableOK
  <2>4. \A d \in durable : d # next /\ d < next
    BY <1>3, <2>1
  <2>5. QED
    BY <1>2, <2>2, <2>3, <2>4 DEF DurableOK
<1>11. AckedDurable'
  BY <1>1 DEF DurabilityInv, AckedDurable
<1>12. WriterOK'
  <2> USE DEF DurabilityInv, WriterOK, Committable
  <2>1. \A b \in Offset : wal'[b] # {} => b < next
    BY <1>1, <1>3, <1>4
  <2>2. wal'[next] = {}
    BY <1>3, <2>1
  <2>3. \A e \in manifest : e.base < next
    BY <1>3
  <2>4. next \notin Bases'
    BY <1>3, <1>6, <2>3 DEF Bases
  <2>5. QED
    BY <1>2, <1>3, <2>1, <2>2, <2>3, <2>4
<1>13. QED
  BY <1>1, <1>8, <1>9, <1>10, <1>11, <1>12 DEF StoreInv

\* What the writer holds back for the next group commit is committable.
LEMMA PendingCommittable ==
  ASSUME DurabilityInv, pw = "running"
  PROVE  Committable(pending, nextOffset)
  BY OffsetFacts
     DEF DurabilityInv, TypeInv, TypeOK, WriterOK, Committable, Offset

LEMMA FlushKeeps ==
  ASSUME DurabilityInv, ~ OpenMayFail, NEW recs, NEW next,
         Committable(recs, next), recs # {}, FlushCommit(recs, next),
         nextOffset' = next, UNCHANGED <<storeVars, upVars, durable>>
  PROVE  StoreInv'
<1>1. CASE FlushPanics(recs)
  BY <1>1, PanicKeeps
<1>2. CASE ~ FlushPanics(recs)
  <2>1. wal' = WalAppend(recs) /\ acked' = acked \cup recs /\ pending' = {} /\ pw' = pw
    BY <1>2 DEF FlushCommit
  <2>2. CASE Cardinality(active \cup recs) >= cfg.segmentSize
    <3>1. SealAndHandoff(active \cup recs, next) /\ active \cup recs # {}
      BY <1>2, <2>2 DEF FlushCommit
    <3>2. pw' \in {"running", "stopped"}
      BY <2>1 DEF Committable
    <3>3. QED
      BY <2>1, <3>1, <3>2, SealKeeps
  <2>3. CASE ~ (Cardinality(active \cup recs) >= cfg.segmentSize)
    <3>1. active' = active \cup recs /\ UNCHANGED <<uploads, walBase, walLinked>>
      BY <1>2, <2>3 DEF FlushCommit
    <3>2. QED
      BY <2>1, <3>1, CommitKeeps
  <2>4. QED
    BY <2>2, <2>3
<1>3. QED
  BY <1>1, <1>2

LEMMA ProduceKeeps ==
  ASSUME DurabilityInv, ~ OpenMayFail, NEW n \in 1 .. MaxBatch, OnProduce(n)
  PROVE  StoreInv'
<1> USE DEF storeVars, upVars
<1> DEFINE next == nextOffset + n
           new  == {[off |-> o, boot |-> boots] : o \in nextOffset .. next - 1}
           recs == pending \cup new
<1>1. /\ next \in Offset /\ nextOffset \in Int /\ next \in Int /\ nextOffset < next
      /\ walBase \in Int /\ boots \in 0 .. MaxBoots
  BY ConstantsAssumption
     DEF OnProduce, DurabilityInv, TypeInv, TypeOK, Offset
<1>2. /\ \A r \in new : r.off \in Int /\ nextOffset <= r.off /\ r.off < next
      /\ \E r \in new : r.off = nextOffset
  <2>1. \A r \in new : \E o \in nextOffset .. next - 1 : r.off = o
    OBVIOUS
  <2>2. nextOffset \in nextOffset .. next - 1
    BY <1>1
  <2>3. [off |-> nextOffset, boot |-> boots] \in new
    BY <2>2
  <2>4. \E r \in new : r.off = nextOffset
    BY <2>3
  <2> HIDE DEF next, new
  <2>5. QED
    BY <1>1, <2>1, <2>4
<1>3. new \subseteq Rec
  BY <1>1, ConstantsAssumption DEF Rec, Offset, DurabilityInv, TypeInv, TypeOK
<1> HIDE DEF next, new
<1>4. /\ pw = "running"
      /\ walBase <= nextOffset
      /\ pending \subseteq Rec
      /\ \A r \in pending : r.off \in Int /\ walBase <= r.off /\ r.off < nextOffset
      /\ active = {} /\ pending = {} => walBase = nextOffset
      /\ active = {} /\ pending # {} => \E r \in pending : r.off = walBase
  BY OffsetFacts DEF OnProduce, DurabilityInv, WriterOK, TypeInv, TypeOK
<1>5. Committable(recs, next) /\ recs # {}
  <2>1. \A r \in recs : walBase <= r.off /\ r.off < next
    BY <1>1, <1>2, <1>4
  <2>2. active = {} => \E r \in recs : r.off = walBase
    BY <1>2, <1>4
  <2>3. QED
    BY <1>1, <1>2, <1>3, <1>4, <2>1, <2>2 DEF Committable
<1>6. nextOffset' = next /\ UNCHANGED <<storeVars, upVars, durable>>
  BY DEF OnProduce, next
<1>7. CASE Cardinality(recs) >= cfg.groupCount
  <2>1. FlushCommit(recs, next)
    BY <1>7 DEF OnProduce, next, new
  <2>2. QED
    BY <1>5, <1>6, <2>1, FlushKeeps
<1>8. CASE ~ (Cardinality(recs) >= cfg.groupCount)
  <2>1. /\ pending' = recs
        /\ UNCHANGED <<wal, acked, pw, active, uploads, walBase, walLinked>>
    BY <1>8 DEF OnProduce, next, new
  <2>2. Work' = Work /\ Busy' = Busy /\ Bases' = Bases
    BY <1>6, <2>1 DEF Work, Busy, Bases
  <2>3. FilesOK' /\ CoverOK' /\ AckedDurable' /\ Manifested' = Manifested
    BY <1>6, <2>1
       DEF DurabilityInv, FilesOK, CoverOK, AckedDurable, InWal, Manifested, Offset
  <2>4. WorkOK' /\ UploaderOK'
    BY <1>6, <2>1, <2>2 DEF DurabilityInv, WorkOK, UploaderOK
  <2>5. /\ durable \subseteq Int /\ Offset \subseteq Int
        /\ \A e \in manifest : e.base \in Int
        /\ \A r \in active : r.off \in Int
    BY OffsetFacts DEF DurabilityInv, TypeInv, TypeOK, Offset, Entry
  <2>6. DurableOK'
    BY <1>1, <1>4, <1>6, <2>1, <2>2, <2>3, <2>5 DEF DurabilityInv, DurableOK
  <2>7. WriterOK'
    <3> USE DEF DurabilityInv, WriterOK
    <3>1. \A r \in active' \cup pending' : walBase' <= r.off /\ r.off < nextOffset'
      <4>1. \A r \in active : walBase <= r.off /\ r.off < next
        BY <1>1, <1>4, <2>5
      <4>2. \A r \in recs : walBase <= r.off /\ r.off < next
        BY <1>5 DEF Committable
      <4>3. QED
        BY <1>6, <2>1, <4>1, <4>2
    <3>2. walBase' <= nextOffset' /\ pending' # {}
      BY <1>1, <1>4, <1>5, <1>6, <2>1
    <3>3. \A b \in Offset : wal'[b] # {} => b < nextOffset'
      BY <1>1, <1>4, <1>6, <2>1, <2>5
    <3>4. \A e \in manifest' : e.base < nextOffset'
      BY <1>1, <1>4, <1>6, <2>1, <2>5
    <3>5. active' = {} => \E r \in pending' : r.off = walBase'
      BY <1>5, <2>1 DEF Committable
    <3>6. QED
      BY <1>4, <2>1, <2>2, <3>1, <3>2, <3>3, <3>4, <3>5
  <2>8. QED
    BY <2>3, <2>4, <2>6, <2>7 DEF StoreInv
<1>9. QED
  BY <1>7, <1>8

LEMMA ShutdownKeeps ==
  ASSUME DurabilityInv, ~ OpenMayFail, Shutdown
  PROVE  StoreInv'
<1> USE DEF storeVars, upVars
<1>1. /\ Committable(pending, nextOffset)
      /\ nextOffset' = nextOffset /\ UNCHANGED <<storeVars, upVars, durable>>
  BY PendingCommittable DEF Shutdown
<1>2. CASE FlushPanics(pending)
  BY <1>1, <1>2, PanicKeeps
<1>3. CASE ~ FlushPanics(pending)
  <2>1. /\ wal' = WalAppend(pending) /\ acked' = acked \cup pending
        /\ pending' = {} /\ pw' = "stopped"
    BY <1>3 DEF Shutdown
  <2>2. CASE active \cup pending # {}
    <3>1. SealAndHandoff(active \cup pending, nextOffset)
      BY <1>3, <2>2 DEF Shutdown
    <3>2. QED
      BY <1>1, <2>1, <2>2, <3>1, SealKeeps
  <2>3. CASE active \cup pending = {}
    <3>1. UNCHANGED <<active, uploads, walBase>>
      BY <1>3, <2>3 DEF Shutdown
    <3>2. wal' = wal /\ acked' = acked
      BY <2>1, <2>3 DEF WalAppend, DurabilityInv, TypeInv, TypeOK
    <3>3. Work' = Work /\ Busy' = Busy /\ Bases' = Bases /\ Manifested' = Manifested
      BY <1>1, <3>1 DEF Work, Busy, Bases, Manifested
    <3>4. FilesOK' /\ CoverOK' /\ AckedDurable'
      BY <1>1, <3>2, <3>3
         DEF DurabilityInv, FilesOK, CoverOK, AckedDurable, InWal, Offset
    <3>5. WorkOK' /\ UploaderOK' /\ DurableOK' /\ WriterOK'
      BY <1>1, <2>1, <3>1, <3>2, <3>3
         DEF DurabilityInv, WorkOK, UploaderOK, DurableOK, WriterOK
    <3>6. QED
      BY <3>4, <3>5 DEF StoreInv
  <2>4. QED
    BY <2>2, <2>3
<1>4. QED
  BY <1>2, <1>3

\* Removing the WAL file of a durable segment loses nothing.
LEMMA OnDurableKeeps ==
  ASSUME DurabilityInv, OnDurable
  PROVE  StoreInv'
<1> USE DEF storeVars, upVars
<1>1. PICK b \in durable :
        /\ durable' = durable \ {b}
        /\ \/ wal' = wal /\ walLinked' = walLinked
           \/ /\ pw = "running"
              /\ wal' = [wal EXCEPT ![b] = {}]
              /\ walLinked' = (walLinked /\ b # walBase)
  BY DEF OnDurable
<1>2. UNCHANGED <<storeVars, upVars, pw, nextOffset, active, pending, walBase, uploads, acked>>
  BY DEF OnDurable
<1>3. Work' = Work /\ Busy' = Busy /\ Bases' = Bases /\ Manifested' = Manifested
  BY <1>2 DEF Work, Busy, Bases, Manifested
<1>4. CASE wal' = wal /\ walLinked' = walLinked
  <2>1. FilesOK' /\ CoverOK' /\ AckedDurable'
    BY <1>2, <1>3, <1>4
       DEF DurabilityInv, FilesOK, CoverOK, AckedDurable, InWal, Offset
  <2>2. WorkOK' /\ UploaderOK' /\ DurableOK' /\ WriterOK'
    BY <1>1, <1>2, <1>3, <1>4
       DEF DurabilityInv, WorkOK, UploaderOK, DurableOK, WriterOK
  <2>3. QED
    BY <2>1, <2>2 DEF StoreInv
<1>5. CASE /\ pw = "running"
           /\ wal' = [wal EXCEPT ![b] = {}]
           /\ walLinked' = (walLinked /\ b # walBase)
  <2>1. /\ b \in Offset /\ b # walBase
        /\ \A u \in Work : u.base # b
        /\ wal[b] \subseteq Manifested \cup evicted
    BY <1>1, <1>5 DEF DurabilityInv, DurableOK, TypeInv, TypeOK
  <2>2. /\ wal'[b] = {}
        /\ \A c \in Offset : c # b => wal'[c] = wal[c]
        /\ \A c \in Offset : wal'[c] \subseteq wal[c]
    BY <1>5, <2>1 DEF DurabilityInv, TypeInv, TypeOK
  <2>3. /\ \A u \in Work : u.base \in Offset
        /\ \A e \in manifest : e.base \in Offset
        /\ walBase \in Offset /\ durable \subseteq Offset
    BY DEF DurabilityInv, TypeInv, TypeOK, Batch, Entry, Work
  <2>4. FilesOK'
    BY <2>2 DEF DurabilityInv, FilesOK
  <2>5. CoverOK'
    BY <1>2, <2>2, <2>3 DEF DurabilityInv, CoverOK
  <2>6. WorkOK'
    BY <1>2, <1>3, <2>1, <2>2, <2>3 DEF DurabilityInv, WorkOK
  <2>7. UploaderOK'
    BY <1>2, <1>3 DEF DurabilityInv, UploaderOK
  <2>8. DurableOK'
    BY <1>1, <1>2, <1>3, <2>2, <2>3 DEF DurabilityInv, DurableOK
  <2>9. WriterOK'
    BY <1>2, <1>3, <1>5, <2>1, <2>2, <2>3 DEF DurabilityInv, WriterOK
  <2>10. InWal \subseteq InWal' \cup wal[b]
    BY <2>2 DEF InWal, Offset
  <2>11. AckedDurable'
    BY <1>2, <1>3, <2>1, <2>10 DEF DurabilityInv, AckedDurable
  <2>12. QED
    BY <2>4, <2>5, <2>6, <2>7, <2>8, <2>9, <2>11 DEF StoreInv
<1>6. QED
  BY <1>1, <1>4, <1>5

-----------------------------------------------------------------------------
(* Steps of the Uploader *)

\* A step that leaves files, objects and manifest alone keeps what is only
\* about them.
LEMMA StoreUnchanged ==
  ASSUME DurabilityInv, UNCHANGED <<wal, obj, manifest, evicted, acked>>
  PROVE  /\ FilesOK' /\ CoverOK' /\ AckedDurable'
         /\ Bases' = Bases /\ Manifested' = Manifested
<1>1. Bases' = Bases /\ Manifested' = Manifested /\ InWal' = InWal
  BY DEF Bases, Manifested, InWal, Offset
<1>2. FilesOK' /\ CoverOK' /\ AckedDurable'
  BY <1>1 DEF DurabilityInv, FilesOK, CoverOK, AckedDurable
<1>3. QED
  BY <1>1, <1>2

LEMMA TakeUploadKeeps ==
  ASSUME DurabilityInv, TakeUpload
  PROVE  StoreInv'
<1> USE DEF storeVars, diskVars, pwVars
<1>1. PICK b \in uploads : batch' = b /\ uploads' = uploads \ {b}
  BY DEF TakeUpload
<1>2. up = "idle" /\ up' = "segment" /\ UNCHANGED <<evicting, durable>>
  BY DEF TakeUpload
<1>3. UNCHANGED <<wal, obj, manifest, evicted, acked>>
  BY DEF TakeUpload
<1>4. UNCHANGED <<pw, nextOffset, active, pending, walBase, walLinked>>
  BY DEF TakeUpload
<1>5. Work = uploads /\ Work' = uploads /\ Busy'
  BY <1>1, <1>2 DEF Work, Busy
<1>6. /\ FilesOK' /\ CoverOK' /\ AckedDurable'
      /\ Bases' = Bases /\ Manifested' = Manifested
  BY <1>3, StoreUnchanged
<1>7. WorkOK' /\ UploaderOK'
  BY <1>1, <1>2, <1>3, <1>4, <1>5, <1>6 DEF DurabilityInv, WorkOK, UploaderOK
<1>8. WriterOK' /\ DurableOK'
  BY <1>2, <1>3, <1>4, <1>5, <1>6 DEF DurabilityInv, WriterOK, DurableOK
<1>9. QED
  BY <1>6, <1>7, <1>8 DEF StoreInv

\* Writing the batch's object changes nothing the manifest names: the object
\* is new, or it already has these records.
LEMMA PutObjectKeeps ==
  ASSUME DurabilityInv, up = "segment",
         obj' \in {obj, [obj EXCEPT ![batch.base] = batch.recs]},
         up' \in {"segment", "manifest"},
         up' = "manifest" => obj' = [obj EXCEPT ![batch.base] = batch.recs],
         UNCHANGED <<wal, manifest, evicted, acked, pwVars, batch, evicting,
                     uploads, durable>>
  PROVE  StoreInv'
<1> USE DEF pwVars
<1>1. /\ obj \in [Offset -> SUBSET Rec] /\ batch.base \in Offset
      /\ \A e \in manifest : e.base \in Offset
      /\ \A e \in evicting : e.base \in Offset
  BY DEF DurabilityInv, TypeInv, TypeOK, Batch, Entry
<1>2. Work' = Work /\ Busy' /\ Busy /\ Bases' = Bases
  BY DEF Work, Busy, Bases
<1>3. batch \in Work
  BY <1>2 DEF Work
<1>4. wal[batch.base] = batch.recs
  BY <1>3 DEF DurabilityInv, WorkOK
<1>5. batch.base \in Bases => obj[batch.base] = batch.recs
  BY DEF DurabilityInv, UploaderOK
<1>6. \A e \in manifest : obj'[e.base] = obj[e.base]
  BY <1>1, <1>5 DEF Bases
<1>7. Manifested' = Manifested
  BY <1>6 DEF Manifested
<1>8. InWal' = InWal
  BY DEF InWal, Offset
<1>9. FilesOK' /\ CoverOK' /\ AckedDurable'
  BY <1>6, <1>7, <1>8 DEF DurabilityInv, FilesOK, CoverOK, AckedDurable
<1>10. WorkOK'
  BY <1>2 DEF DurabilityInv, WorkOK
<1>11. UploaderOK'
  <2>1. up' = "manifest" => obj'[batch.base] = batch.recs
    BY <1>1
  <2>2. batch.base \in Bases => obj'[batch.base] = batch.recs
    BY <1>1, <1>5
  <2>3. evicting = {}
    BY DEF DurabilityInv, UploaderOK
  <2>4. QED
    BY <1>2, <2>1, <2>2, <2>3 DEF DurabilityInv, UploaderOK
<1>12. WriterOK' /\ DurableOK'
  BY <1>2, <1>7 DEF DurabilityInv, WriterOK, DurableOK
<1>13. QED
  BY <1>9, <1>10, <1>11, <1>12 DEF StoreInv

\* The manifest may name the batch once its object is there.
LEMMA PutEntryKeeps ==
  ASSUME DurabilityInv, up = "manifest",
         manifest' \in {manifest, WithEntry(batch)},
         up' \in {"segment", "durable"},
         up' = "durable" => manifest' = WithEntry(batch),
         UNCHANGED <<wal, obj, evicted, acked, pwVars, batch, evicting,
                     uploads, durable>>
  PROVE  StoreInv'
<1> USE DEF pwVars
<1>1. /\ batch.base \in Offset /\ batch \in Batch
      /\ \A e \in manifest : e.base \in Offset
  BY DEF DurabilityInv, TypeInv, TypeOK, Batch, Entry
<1>2. Work' = Work /\ Busy' /\ Busy
  BY DEF Work, Busy
<1>3. batch \in Work /\ \A u \in uploads : u \in Work
  BY <1>2 DEF Work
<1>4. /\ wal[batch.base] = batch.recs /\ batch.recs # {}
      /\ batch.base <= batch.last
      /\ pw = "running" => batch.base # walBase
      /\ obj[batch.base] = batch.recs
      /\ \A u \in uploads : u.base # batch.base
  BY <1>2, <1>3 DEF DurabilityInv, WorkOK, UploaderOK
<1>5. /\ manifest \subseteq manifest'
      /\ \A e \in manifest' : e \in manifest \/ e = EntryOf(batch)
      /\ up' = "durable" => batch.base \in Bases \/ EntryOf(batch) \in manifest'
  BY DEF WithEntry
<1>6. EntryOf(batch).base = batch.base /\ EntryOf(batch).last = batch.last
  BY DEF EntryOf
<1>7. /\ Bases \subseteq Bases' /\ Bases' \subseteq Bases \cup {batch.base}
      /\ up' = "durable" => batch.base \in Bases'
  BY <1>5, <1>6 DEF Bases
<1>8. Manifested \subseteq Manifested'
  BY <1>5 DEF Manifested
<1>9. InWal' = InWal
  BY DEF InWal, Offset
<1>10. CoverOK'
  BY <1>4, <1>5, <1>6 DEF DurabilityInv, CoverOK
<1>11. FilesOK' /\ AckedDurable'
  BY <1>8, <1>9 DEF DurabilityInv, FilesOK, AckedDurable
<1>12. WorkOK'
  BY <1>2 DEF DurabilityInv, WorkOK
<1>13. UploaderOK'
  <2>1. evicting = {}
    BY DEF DurabilityInv, UploaderOK
  <2>2. \A u \in uploads : u.base \notin Bases'
    BY <1>4, <1>7 DEF DurabilityInv, UploaderOK
  <2>3. QED
    BY <1>4, <1>7, <2>1, <2>2 DEF UploaderOK
<1>14. DurableOK'
  BY <1>2, <1>8 DEF DurabilityInv, DurableOK
<1>15. WriterOK'
  <2>1. pw = "running" => walBase \notin Bases'
    BY <1>4, <1>7 DEF DurabilityInv, WriterOK
  <2>2. pw = "running" => batch.base < nextOffset
    BY <1>1, <1>4 DEF DurabilityInv, WriterOK
  <2>3. pw = "running" => \A e \in manifest' : e.base < nextOffset
    BY <1>5, <1>6, <2>2 DEF DurabilityInv, WriterOK
  <2>4. QED
    BY <2>1, <2>3 DEF DurabilityInv, WriterOK
<1>16. QED
  BY <1>10, <1>11, <1>12, <1>13, <1>14, <1>15 DEF StoreInv

\* The segment is reported only now that object and manifest have it.
LEMMA SendDurableKeeps ==
  ASSUME DurabilityInv, SendDurable
  PROVE  StoreInv'
<1> USE DEF storeVars, diskVars, pwVars
<1>1. /\ up = "durable" /\ up' = "retention"
      /\ durable' = durable \cup {batch.base}
      /\ UNCHANGED <<evicting, uploads>>
  BY DEF SendDurable
<1>2. UNCHANGED <<wal, obj, manifest, evicted, acked>>
  BY DEF SendDurable
<1>3. UNCHANGED <<pw, nextOffset, active, pending, walBase, walLinked>>
  BY DEF SendDurable
<1>4. /\ FilesOK' /\ CoverOK' /\ AckedDurable'
      /\ Bases' = Bases /\ Manifested' = Manifested
  BY <1>2, StoreUnchanged
<1>5. Busy /\ ~ Busy' /\ Work = uploads \cup {batch} /\ Work' = uploads
  BY <1>1 DEF Work, Busy
<1>6. /\ wal[batch.base] = batch.recs /\ batch.recs # {}
      /\ pw = "running" => batch.base # walBase
      /\ \A u \in uploads : u.base # batch.base
  BY <1>5 DEF DurabilityInv, WorkOK
<1>7. obj[batch.base] = batch.recs /\ batch.base \in Bases
  BY <1>1 DEF DurabilityInv, UploaderOK
<1>8. wal[batch.base] \subseteq Manifested
  BY <1>6, <1>7 DEF Bases, Manifested
<1>9. pw = "running" => batch.base < nextOffset
  BY <1>6 DEF DurabilityInv, WriterOK, TypeInv, TypeOK, Batch
<1>10. WorkOK'
  BY <1>2, <1>3, <1>5 DEF DurabilityInv, WorkOK
<1>11. UploaderOK'
  BY <1>1, <1>2, <1>4 DEF DurabilityInv, UploaderOK
<1>12. WriterOK'
  BY <1>2, <1>3, <1>4 DEF DurabilityInv, WriterOK
<1>13. DurableOK'
  BY <1>1, <1>2, <1>3, <1>4, <1>5, <1>6, <1>8, <1>9 DEF DurabilityInv, DurableOK
<1>14. QED
  BY <1>4, <1>10, <1>11, <1>12, <1>13 DEF StoreInv

\* Eviction moves the records of whole entries from the manifest to evicted,
\* and every entry with an evicted base goes.
LEMMA RewriteKeeps ==
  ASSUME DurabilityInv, RetentionRewrites
  PROVE  StoreInv'
<1> USE DEF diskVars, pwVars
<1>1. PICK s \in EvictablePrefixes :
        /\ manifest' = manifest \ s
        /\ evicted' = evicted \cup UNION {obj[e.base] : e \in s}
        /\ \/ up' = "delete" /\ evicting' = s
           \/ up' = "idle" /\ UNCHANGED evicting
  BY DEF RetentionRewrites
<1>2. /\ up = "retention"
      /\ UNCHANGED <<wal, obj, acked, batch, uploads, durable>>
  BY DEF RetentionRewrites
<1>3. UNCHANGED <<pw, nextOffset, active, pending, walBase, walLinked>>
  BY DEF RetentionRewrites
<1>4. s \subseteq manifest /\ \A e \in s, f \in manifest : f.base <= e.base => f \in s
  BY DEF EvictablePrefixes
<1>5. \A e \in manifest : e.base \in Int
  BY DEF DurabilityInv, TypeInv, TypeOK, Entry, Offset
<1>6. Bases' \subseteq Bases /\ \A e \in s : e.base \notin Bases'
  BY <1>1, <1>4, <1>5 DEF Bases
<1>7. Manifested \cup evicted \subseteq Manifested' \cup evicted'
  BY <1>1, <1>2 DEF Manifested
<1>8. Work' = Work /\ ~ Busy /\ ~ Busy' /\ InWal' = InWal
  BY <1>1, <1>2 DEF Work, Busy, InWal, Offset
<1>9. evicting = {}
  BY <1>2 DEF DurabilityInv, UploaderOK
<1>10. FilesOK' /\ CoverOK' /\ AckedDurable'
  BY <1>1, <1>2, <1>7, <1>8 DEF DurabilityInv, FilesOK, CoverOK, AckedDurable
<1>11. WorkOK' /\ DurableOK'
  BY <1>2, <1>3, <1>7, <1>8 DEF DurabilityInv, WorkOK, DurableOK
<1>12. UploaderOK'
  BY <1>1, <1>2, <1>6, <1>9 DEF DurabilityInv, UploaderOK
<1>13. WriterOK'
  BY <1>1, <1>2, <1>3, <1>6 DEF DurabilityInv, WriterOK
<1>14. QED
  BY <1>10, <1>11, <1>12, <1>13 DEF StoreInv

LEMMA DeletesKeeps ==
  ASSUME DurabilityInv, RetentionDeletes
  PROVE  StoreInv'
<1> USE DEF diskVars, pwVars
<1>1. PICK e \in evicting :
        /\ obj' \in {obj, [obj EXCEPT ![e.base] = {}]}
        /\ evicting' = evicting \ {e}
        /\ up' = IF evicting = {e} THEN "idle" ELSE "delete"
  BY DEF RetentionDeletes
<1>2. /\ up = "delete"
      /\ UNCHANGED <<wal, manifest, evicted, acked, batch, uploads, durable>>
  BY DEF RetentionDeletes
<1>3. UNCHANGED <<pw, nextOffset, active, pending, walBase, walLinked>>
  BY DEF RetentionDeletes
<1>4. /\ obj \in [Offset -> SUBSET Rec] /\ \A f \in manifest : f.base \in Offset
      /\ e.base \notin Bases
  BY <1>1 DEF DurabilityInv, TypeInv, TypeOK, Entry, UploaderOK
<1>5. \A f \in manifest : obj'[f.base] = obj[f.base]
  BY <1>1, <1>4 DEF Bases
<1>6. Bases' = Bases /\ Manifested' = Manifested /\ InWal' = InWal
  BY <1>2, <1>5 DEF Bases, Manifested, InWal, Offset
<1>7. Work' = Work /\ ~ Busy /\ ~ Busy'
  BY <1>1, <1>2 DEF Work, Busy
<1>8. FilesOK' /\ CoverOK' /\ AckedDurable'
  BY <1>2, <1>5, <1>6 DEF DurabilityInv, FilesOK, CoverOK, AckedDurable
<1>9. WorkOK' /\ DurableOK'
  BY <1>2, <1>3, <1>6, <1>7 DEF DurabilityInv, WorkOK, DurableOK
<1>10. UploaderOK'
  BY <1>1, <1>2, <1>6 DEF DurabilityInv, UploaderOK
<1>11. WriterOK'
  BY <1>2, <1>3, <1>6 DEF DurabilityInv, WriterOK
<1>12. QED
  BY <1>8, <1>9, <1>10, <1>11 DEF StoreInv

\* Steps between two positions at which the Uploader holds no batch.
LEMMA IdleKeeps ==
  ASSUME DurabilityInv, up \in {"idle", "retention"},
         up' \in {"idle", "retention", "stopped"},
         UNCHANGED <<wal, obj, manifest, evicted, acked, batch, evicting, uploads,
                     durable, pw, nextOffset, active, pending, walBase, walLinked>>
  PROVE  StoreInv'
<1>1. /\ FilesOK' /\ CoverOK' /\ AckedDurable'
      /\ Bases' = Bases /\ Manifested' = Manifested
  BY StoreUnchanged
<1>2. Work' = Work /\ ~ Busy /\ ~ Busy'
  BY DEF Work, Busy
<1>3. WorkOK' /\ DurableOK' /\ UploaderOK' /\ WriterOK'
  BY <1>1, <1>2 DEF DurabilityInv, WorkOK, DurableOK, UploaderOK, WriterOK
<1>4. QED
  BY <1>1, <1>3 DEF StoreInv

-----------------------------------------------------------------------------
(* Crash and recovery *)

LEMMA CrashKeeps ==
  ASSUME DurabilityInv, Crash
  PROVE  StoreInv'
<1> USE DEF storeVars, diskVars
<1>1. /\ pw' = "down" /\ uploads' = {} /\ durable' = {}
      /\ up' = "down" /\ evicting' = {}
  BY DEF Crash
<1>2. UNCHANGED <<wal, obj, manifest, evicted, acked>>
  BY DEF Crash
<1>3. FilesOK' /\ CoverOK' /\ AckedDurable'
  BY <1>2, StoreUnchanged
<1>4. Work' = {} /\ ~ Busy'
  BY <1>1 DEF Work, Busy
<1>5. WorkOK' /\ DurableOK' /\ UploaderOK' /\ WriterOK'
  BY <1>1, <1>4 DEF WorkOK, DurableOK, UploaderOK, WriterOK
<1>6. QED
  BY <1>3, <1>5 DEF StoreInv

\* Recovery's test for an uploaded file is membership in the manifest.
LEMMA CoveredIsManifested ==
  ASSUME DurabilityInv, NEW b \in Offset
  PROVE  /\ Covered(b) <=> b \in Bases
         /\ b \in Bases => b <= LastUploaded
<1>1. manifest \subseteq Entry /\ \A e \in manifest : e.base <= e.last
  BY DEF DurabilityInv, TypeInv, TypeOK, CoverOK
<1>2. ASSUME b \in Bases PROVE b <= LastUploaded
  <2>1. PICK f \in manifest : f.base = b
    BY <1>2 DEF Bases
  <2>2. PICK e \in manifest : LastUploaded = e.last /\ \A g \in manifest : g.base <= e.base
    BY <1>1, <2>1, LastUploadedTail
  <2>3. e.base \in Int /\ e.last \in Int /\ b \in Int
    BY <1>1, OffsetFacts DEF Entry, Offset
  <2>4. b <= e.base /\ e.base <= e.last
    BY <1>1, <2>1, <2>2
  <2>5. b <= e.last
    BY <2>3, <2>4
  <2>6. QED
    BY <2>2, <2>5
<1>3. QED
  BY <1>2 DEF Covered

\* Recovery rebuilds the writer and the queue from the files alone.
LEMMA RecoverKeeps ==
  ASSUME DurabilityInv, Recover
  PROVE  StoreInv'
<1> USE DEF storeVars
<1> DEFINE left == UncoveredFiles
           next == RecoveredNext(left)
<1>1. PICK gone \in SUBSET {b \in Offset : Covered(b)} :
        wal' = [b \in Offset |-> IF b \in gone THEN {} ELSE wal[b]]
  BY DEF Recover
<1>2. /\ pw = "down" /\ pw' = "running"
      /\ nextOffset' = next
      /\ active' = IF left = {} THEN {} ELSE wal[Max(left)]
      /\ walBase' = IF left = {} THEN next ELSE Min(Offs(wal[Max(left)]))
      /\ walLinked'
      /\ uploads' = {[base |-> b, last |-> Max(Offs(wal[b])), recs |-> wal[b]] :
                       b \in {c \in left : c # Max(left)}}
      /\ up' = "idle"
  BY DEF Recover
<1>3. /\ UNCHANGED <<obj, manifest, evicted, acked>>
      /\ pending' = {} /\ durable' = {} /\ evicting' = {}
  BY DEF Recover, DurabilityInv, TypeInv, DownOK
<1>4. /\ \A b \in Offset : wal[b] \in SUBSET Rec
      /\ manifest \subseteq Entry /\ wal \in [Offset -> SUBSET Rec]
      /\ Offset \subseteq Int /\ MaxOffset \in Int
      /\ \A b \in Offset : b <= MaxOffset
  BY OffsetFacts DEF DurabilityInv, TypeInv, TypeOK, Offset
<1>5. left \subseteq Offset /\ \A b \in left : wal[b] # {} /\ b \notin Bases
  BY CoveredIsManifested DEF UncoveredFiles
<1>6. \A b \in Offset : wal[b] # {} => b \in left \/ b \in Bases
  BY CoveredIsManifested DEF UncoveredFiles
<1>7. \A b \in gone : b \in Offset /\ b \in Bases
  BY CoveredIsManifested
<1>8. /\ next \in Offset /\ next > LastUploaded
      /\ \A b \in left : \A r \in wal[b] : r.off < next
  BY <1>4, <1>5, RecoveredNextBounds
<1>9. LastUploaded \in Int
  BY <1>4, LastUploadedType
<1> HIDE DEF left, next
<1>10. \A b \in Bases : b \in Offset /\ b < next
  <2>1. \A b \in Bases : b \in Offset
    BY <1>4 DEF Bases, Entry
  <2>2. \A b \in Bases : b <= LastUploaded
    BY <2>1, CoveredIsManifested
  <2>3. next \in Int /\ \A b \in Bases : b \in Int
    BY <1>4, <1>8, <2>1
  <2> DEFINE L == LastUploaded
  <2>4. L \in Int /\ next > L /\ \A b \in Bases : b <= L
    BY <1>8, <1>9, <2>2
  <2> HIDE DEF L
  <2>5. QED
    BY <2>1, <2>3, <2>4
<1>11. \A b \in left : b < next
  BY <1>5, <1>8 DEF DurabilityInv, FilesOK
<1>12. \A b \in Offset : /\ wal'[b] \subseteq wal[b]
                         /\ b \notin Bases => wal'[b] = wal[b]
                         /\ wal'[b] # {} => wal'[b] = wal[b]
  BY <1>1, <1>7
<1>13. left # {} => Max(left) \in left
  BY <1>4, <1>5, MaxOfBounded
<1>14. \A b \in left : Min(Offs(wal[b])) = b /\ b <= Max(Offs(wal[b]))
  <2> SUFFICES ASSUME NEW b \in left
               PROVE  Min(Offs(wal[b])) = b /\ b <= Max(Offs(wal[b]))
    OBVIOUS
  <2>1. b \in Offset /\ wal[b] \in SUBSET Rec /\ wal[b] # {} /\ b \in Int
    BY <1>4, <1>5
  <2>2. b \in Offs(wal[b]) /\ \A o \in Offs(wal[b]) : b <= o
    BY <2>1 DEF DurabilityInv, FilesOK, Offs
  <2> DEFINE S == Offs(wal[b])
             m == Min(S)
  <2>3. m \in S /\ m <= b /\ b <= Max(S) /\ S \subseteq Int
    BY <2>1, <2>2, OffsBounds, OffsetFacts
  <2>4. b <= m /\ m \in Int
    BY <2>2, <2>3
  <2> HIDE DEF m
  <2>5. m = b
    BY <2>1, <2>3, <2>4
  <2>6. QED
    BY <2>3, <2>5 DEF m
<1>15. Bases' = Bases /\ Manifested' = Manifested
  BY <1>3 DEF Bases, Manifested
<1>16. ~ Busy' /\ Work' = uploads'
  BY <1>2 DEF Busy, Work
<1>17. \A u \in uploads' : \E b \in left :
         /\ b # Max(left) /\ u.base = b /\ u.last = Max(Offs(wal[b])) /\ u.recs = wal[b]
  BY <1>2
<1>18. left # {} => walBase' = Max(left) /\ active' = wal[Max(left)]
  BY <1>2, <1>13, <1>14
<1>19. FilesOK'
  BY <1>12 DEF DurabilityInv, FilesOK
<1>20. CoverOK'
  <2>1. \A e \in manifest : e.base \in Offset
    BY <1>4 DEF Entry
  <2>2. QED
    BY <1>3, <1>12, <2>1 DEF DurabilityInv, CoverOK
<1>21. WorkOK'
  <2>1. \A u \in Work' : u.recs # {} /\ u.base <= u.last /\ wal'[u.base] = u.recs
    BY <1>5, <1>12, <1>14, <1>16, <1>17
  <2>2. \A u \in Work' : u.base # walBase'
    BY <1>16, <1>17, <1>18
  <2>3. \A u, v \in Work' : u.base = v.base => u = v
    BY <1>2, <1>16
  <2>4. QED
    BY <1>16, <2>1, <2>2, <2>3 DEF WorkOK
<1>22. UploaderOK'
  BY <1>2, <1>3, <1>5, <1>15, <1>17 DEF UploaderOK
<1>23. DurableOK'
  BY <1>3 DEF DurableOK
<1>24. InWal \subseteq InWal' \cup Manifested
  <2>1. \A b \in Offset : wal[b] \subseteq wal'[b] \cup Manifested
    <3> SUFFICES ASSUME NEW b \in Offset, b \in Bases
                 PROVE  wal[b] \subseteq Manifested
      BY <1>12
    <3>1. PICK e \in manifest : e.base = b
      BY DEF Bases
    <3>2. wal[b] \subseteq obj[e.base]
      BY <3>1 DEF DurabilityInv, CoverOK
    <3>3. QED
      BY <3>1, <3>2 DEF Manifested
  <2>2. QED
    BY <2>1 DEF InWal, Offset
<1>25. AckedDurable'
  BY <1>3, <1>15, <1>24 DEF DurabilityInv, AckedDurable
<1>26. WriterOK'
  <2>1. \A b \in Offset : wal'[b] # {} => b < next
    BY <1>6, <1>10, <1>11, <1>12
  <2>2. \A e \in manifest' : e.base < next
    BY <1>3, <1>10 DEF Bases
  <2>3. CASE left = {}
    <3>1. active' = {} /\ walBase' = next /\ next \in Int
      BY <1>2, <1>4, <1>8, <2>3
    <3>2. wal'[next] = {}
      BY <1>8, <2>1, <3>1
    <3>3. next \notin Bases'
      BY <1>10, <1>15, <3>1
    <3>4. walLinked' /\ nextOffset' = next
      BY <1>2
    <3>5. walBase' <= nextOffset'
      BY <3>1, <3>4
    <3>6. QED
      BY <1>3, <2>1, <2>2, <3>1, <3>2, <3>3, <3>4, <3>5 DEF WriterOK
  <2>4. CASE left # {}
    <3>1. walBase' \in left /\ active' = wal[walBase'] /\ walBase' \in Offset
      BY <1>5, <1>13, <1>18, <2>4
    <3>2. wal'[walBase'] = active' /\ walBase' \notin Bases'
      BY <1>5, <1>12, <1>15, <3>1
    <3>3. active' # {} /\ \A r \in active' : walBase' <= r.off /\ r.off < next
      BY <1>5, <1>8, <3>1 DEF DurabilityInv, FilesOK
    <3>4. walBase' <= next
      BY <1>4, <1>8, <1>11, <3>1
    <3>5. QED
      BY <1>2, <1>3, <2>1, <2>2, <3>2, <3>3, <3>4 DEF WriterOK
  <2>5. QED
    BY <2>3, <2>4
<1>27. QED
  BY <1>19, <1>20, <1>21, <1>22, <1>23, <1>25, <1>26 DEF StoreInv

-----------------------------------------------------------------------------
(* Durability *)

LEMMA DurabilityInit == Init => DurabilityInv
<1> SUFFICES ASSUME Init PROVE DurabilityInv
  OBVIOUS
<1>1. TypeInv
  BY TypeInit
<1>2. /\ \A b \in Offset : wal[b] = {}
      /\ manifest = {} /\ uploads = {} /\ durable = {} /\ evicting = {}
      /\ active = {} /\ pending = {} /\ walBase = 0 /\ nextOffset = 0
      /\ walLinked /\ up = "idle" /\ acked = {} /\ walBase \in Offset
  BY ConstantsAssumption DEF Init, Offset
<1>3. Work = {} /\ ~ Busy /\ Bases = {}
  BY <1>2 DEF Work, Busy, Bases
<1>4. FilesOK /\ CoverOK /\ AckedDurable /\ DurableOK
  BY <1>2 DEF FilesOK, CoverOK, AckedDurable, DurableOK
<1>5. WorkOK /\ UploaderOK
  BY <1>2, <1>3 DEF WorkOK, UploaderOK
<1>6. WriterOK
  <2>1. wal[walBase] = active
    BY <1>2
  <2>2. walBase <= nextOffset /\ walBase \notin Bases
    BY <1>2, <1>3
  <2>3. active \cup pending = {} /\ manifest = {}
    BY <1>2
  <2>4. QED
    BY <1>2, <2>1, <2>2, <2>3 DEF WriterOK
<1>7. QED
  BY <1>1, <1>4, <1>5, <1>6 DEF DurabilityInv

LEMMA DurabilityStep ==
  ASSUME ~ OpenMayFail
  PROVE  DurabilityInv /\ [Next]_vars => DurabilityInv'
<1> SUFFICES ASSUME DurabilityInv, [Next]_vars PROVE StoreInv'
  BY TypeStep DEF DurabilityInv, StoreInv
<1> USE DEF storeVars, diskVars, pwVars, upVars
<1>1. ASSUME NEW n \in 1 .. MaxBatch, OnProduce(n) PROVE StoreInv'
  BY <1>1, ProduceKeeps
<1>2. CASE GroupCommitTimeout
  <2>1. /\ pending # {} /\ FlushCommit(pending, nextOffset)
        /\ nextOffset' = nextOffset /\ UNCHANGED <<storeVars, upVars, durable>>
        /\ pw = "running"
    BY <1>2 DEF GroupCommitTimeout
  <2>2. Committable(pending, nextOffset)
    BY <2>1, PendingCommittable
  <2>3. QED
    BY <2>1, <2>2, FlushKeeps
<1>3. CASE OnDurable
  BY <1>3, OnDurableKeeps
<1>4. CASE Shutdown
  BY <1>4, ShutdownKeeps
<1>5. CASE TakeUpload
  BY <1>5, TakeUploadKeeps
<1>6. CASE PutSegment
  BY <1>6, PutObjectKeeps DEF PutSegment
<1>7. CASE PutManifest
  BY <1>7, PutEntryKeeps DEF PutManifest
<1>8. CASE UploadFails
  <2>1. CASE up = "segment"
    BY <1>8, <2>1, PutObjectKeeps DEF UploadFails
  <2>2. CASE up = "manifest"
    BY <1>8, <2>2, PutEntryKeeps DEF UploadFails
  <2>3. QED
    BY <1>8, <2>1, <2>2 DEF UploadFails
<1>9. CASE SendDurable
  BY <1>9, SendDurableKeeps
<1>10. CASE RetentionKick \/ RetentionKeeps \/ UploaderShutdown
  BY <1>10, IdleKeeps DEF RetentionKick, RetentionKeeps, UploaderShutdown
<1>11. CASE RetentionRewrites
  BY <1>11, RewriteKeeps
<1>12. CASE RetentionDeletes
  BY <1>12, DeletesKeeps
<1>13. CASE Crash
  BY <1>13, CrashKeeps
<1>14. CASE Recover
  BY <1>14, RecoverKeeps
<1>15. CASE UpdateConfig \/ SendUploaderShutdown \/ UNCHANGED vars
  <2>1. UNCHANGED <<wal, obj, manifest, evicted, acked>>
    BY <1>15 DEF UpdateConfig, SendUploaderShutdown, vars
  <2>2. UNCHANGED <<up, batch, evicting, uploads, durable>>
    BY <1>15 DEF UpdateConfig, SendUploaderShutdown, vars
  <2>3. UNCHANGED <<pw, nextOffset, active, pending, walBase, walLinked>>
    BY <1>15 DEF UpdateConfig, SendUploaderShutdown, vars
  <2>4. /\ FilesOK' /\ CoverOK' /\ AckedDurable'
        /\ Bases' = Bases /\ Manifested' = Manifested
    BY <2>1, StoreUnchanged
  <2>5. Work' = Work /\ Busy' = Busy
    BY <2>2 DEF Work, Busy
  <2>6. WorkOK' /\ UploaderOK'
    BY <2>1, <2>2, <2>3, <2>4, <2>5 DEF DurabilityInv, WorkOK, UploaderOK
  <2>7. DurableOK' /\ WriterOK'
    BY <2>1, <2>2, <2>3, <2>4, <2>5 DEF DurabilityInv, DurableOK, WriterOK
  <2>8. QED
    BY <2>4, <2>6, <2>7 DEF StoreInv
<1>16. QED
  BY <1>1, <1>2, <1>3, <1>4, <1>5, <1>6, <1>7, <1>8, <1>9, <1>10, <1>11,
     <1>12, <1>13, <1>14, <1>15 DEF Next

\* No acked record is lost: as long as the next WAL file can be created,
\* whatever the configuration, the number of crashes, and the interleaving of
\* commits, failing fsyncs and store calls, WAL removals and retention, every
\* acked record is in a WAL file, in an object the manifest names, or was
\* evicted.
THEOREM NoAckedRecordLost ==
  ASSUME ~ OpenMayFail
  PROVE  Spec => []AckedDurable
<1>1. Init => DurabilityInv
  BY DurabilityInit
<1>2. DurabilityInv /\ [Next]_vars => DurabilityInv'
  BY DurabilityStep
<1>3. DurabilityInv => AckedDurable
  BY DEF DurabilityInv
<1>4. QED
  BY <1>1, <1>2, <1>3, PTL DEF Spec
=============================================================================
