----------------------- MODULE PartitionClientsProofs -----------------------
(***************************************************************************)
(* What the clients of a partition are told, for every value of the        *)
(* constants: the records a Fetch returns are durable, the offsets a       *)
(* Produce is told are acked, and the object store answers a Fetch without *)
(* a gap.                                                                  *)
(*                                                                         *)
(* The clients only watch the partition (ClientsOnlyWatch), so what is     *)
(* proved of PartitionLog holds beside them.  Each theorem adds to that    *)
(* the part of a request that outlives one step: the Produces that wait    *)
(* (WaitingInv), what any object may hold (ObjectsDurable) and the segment *)
(* a Fetch has picked (PickedInv).                                         *)
(***************************************************************************)
EXTENDS PartitionClients, PartitionOrderProofs

-----------------------------------------------------------------------------
(* The clients and the partition *)

\* A step of the fetch of one consumer.
FetchStep(c) ==
  \/ FetchStart(c) \/ Locate(c) \/ WriterGone(c) \/ Subscribe(c) \/ LongPollTimeout(c)
  \/ Relocate(c) \/ ReadActive(c) \/ GetManifest(c) \/ GetSegment(c) \/ GetFails(c)

\* A Fetch changes nothing but itself and its answer.
LEMMA FetchOnlyReads ==
  ASSUME NEW c \in Consumers, FetchStep(c)
  PROVE  UNCHANGED <<vars, waiting, told>>
  BY DEF FetchStep, FetchStart, Locate, WriterGone, Subscribe, LongPollTimeout, Relocate,
         ReadActive, GetManifest, GetSegment, GetFails, StoreReadFails, Reply, Continue

\* The steps of the whole.
LEMMA ClientsSteps ==
  ASSUME [ClientsNext]_allVars
  PROVE  \/ \E n \in 1 .. MaxBatch : Produce(n)
         \/ CommitByTimeout
         \/ CommitByShutdown
         \/ CrashWithClients
         \/ Background
         \/ \E c \in Consumers : FetchStep(c)
         \/ UNCHANGED allVars
  BY DEF ClientsNext, FetchStep

LEMMA ClientsStepIsStep == [ClientsNext]_allVars => [Next]_vars
<1> SUFFICES ASSUME [ClientsNext]_allVars PROVE [Next]_vars
  OBVIOUS
<1>1. ASSUME NEW n \in 1 .. MaxBatch, Produce(n) PROVE [Next]_vars
  BY <1>1 DEF Produce, Next
<1>2. CASE CommitByTimeout
  BY <1>2 DEF CommitByTimeout, Next
<1>3. CASE CommitByShutdown
  BY <1>3 DEF CommitByShutdown, Next
<1>4. CASE CrashWithClients
  BY <1>4 DEF CrashWithClients, Next
<1>5. CASE Background
  BY <1>5 DEF Background, Next
<1>6. ASSUME NEW c \in Consumers, FetchStep(c) PROVE [Next]_vars
  <2>1. vars' = vars
    BY <1>6, FetchOnlyReads
  <2> QED
    BY <2>1
<1>7. CASE UNCHANGED allVars
  BY <1>7 DEF allVars
<1> QED
  BY <1>1, <1>2, <1>3, <1>4, <1>5, <1>6, <1>7, ClientsSteps

\* The partition with its clients is the partition of PartitionLog: a client
\* makes no step of it possible that was not, so all that is proved of
\* PartitionLog holds here too.
THEOREM ClientsOnlyWatch == ClientsSpec => Spec
<1>1. ClientsInit => Init
  BY DEF ClientsInit
<1>2. QED
  BY <1>1, ClientsStepIsStep, PTL DEF ClientsSpec, Spec

-----------------------------------------------------------------------------
(* Produce *)

\* Each Produce that waits has its size in pending records at the end of the
\* log; nobody waits for a writer that is gone.
WaitingInv ==
  /\ \A q \in waiting :
       /\ q.n \in 1 .. MaxBatch
       /\ \A o \in nextOffset - q.n .. nextOffset - 1 : o \in Offs(pending)
  /\ pw # "running" => waiting = {}

ProducersInv == TypeInv /\ WaitingInv /\ ToldCommitted

\* A commit of recs with the new Produces among those that wait.
LEMMA AckedGroup ==
  ASSUME TypeInv, NEW new, NEW recs, Acks(new), nextOffset' \in Nat,
         \A q \in waiting \cup new :
           /\ q.n \in 1 .. MaxBatch
           /\ \A o \in nextOffset' - q.n .. nextOffset' - 1 : o \in Offs(recs),
         \/ acked' = acked \cup recs /\ pending' = {}
         \/ acked' = acked /\ pending' = {}
         \/ acked' = acked /\ pending' = recs /\ pw' = "running"
  PROVE  WaitingInv' /\ ToldCommitted'
<1>1. \A t \in told' : acked' = acked \cup recs
                       /\ \E q \in waiting \cup new : t = ProduceResponse(q, nextOffset' - 1)
  BY DEF Acks, Committed
<1>2. ToldCommitted'
  <2> SUFFICES ASSUME NEW t \in told', NEW o \in t.toldBase .. t.toldLast
               PROVE  o \in Offs(acked')
    BY DEF ToldCommitted
  <2>1. PICK q \in waiting \cup new : t = ProduceResponse(q, nextOffset' - 1)
    BY <1>1
  <2>2. q.n \in Int
    <3>1. q.n \in 1 .. MaxBatch
      OBVIOUS
    <3> QED
      BY <3>1, ConstantsAssumption
  <2>3. t.toldBase = nextOffset' - q.n /\ t.toldLast = nextOffset' - 1
    BY <2>1, <2>2 DEF ProduceResponse
  <2>4. o \in Offs(recs)
    BY <2>3
  <2> QED
    BY <1>1, <2>4 DEF Offs
<1>3. WaitingInv'
  <2>1. CASE pending' = {}
    BY <2>1 DEF Acks, WaitingInv
  <2>2. CASE pending' = recs /\ pw' = "running" /\ pending' # {}
    <3>1. waiting' = waiting \cup new
      BY <2>2 DEF Acks
    <3> QED
      BY <2>2, <3>1 DEF WaitingInv
  <2> QED
    BY <2>1, <2>2
<1> QED
  BY <1>2, <1>3

\* What a commit does to the acks and the pending records.
LEMMA FlushAcks ==
  ASSUME NEW recs, NEW next, FlushCommit(recs, next)
  PROVE  acked' \in {acked, acked \cup recs} /\ pending' = {}
  BY DEF FlushCommit, FlushPanics

LEMMA ProduceTold ==
  ASSUME ProducersInv, NEW n \in 1 .. MaxBatch, Produce(n)
  PROVE  WaitingInv' /\ ToldCommitted'
<1> DEFINE next == nextOffset + n
           recs == Group(n)
           new  == {[base |-> nextOffset, n |-> n]}
<1>1. OnProduce(n) /\ Acks(new)
  BY DEF Produce
<1>2. nextOffset \in Nat /\ n \in Nat
  BY ConstantsAssumption DEF ProducersInv, TypeInv, TypeOK, Offset
<1>3. /\ nextOffset' = next /\ pw = "running"
      /\ \/ FlushCommit(recs, next)
         \/ pending' = recs /\ acked' = acked /\ pw' = pw
  BY <1>1 DEF OnProduce, Group, Arrivals
<1>4. \A o \in nextOffset .. next - 1 : o \in Offs(recs)
  <2> SUFFICES ASSUME NEW o \in nextOffset .. next - 1 PROVE o \in Offs(recs)
    OBVIOUS
  <2>1. [off |-> o, boot |-> boots] \in recs
    BY DEF Group, Arrivals
  <2> QED
    BY <2>1 DEF Offs
<1>5. \A o \in Offs(pending) : o \in Offs(recs)
  BY DEF Offs, Group
<1>6. ASSUME NEW q \in waiting \cup new
      PROVE  /\ q.n \in 1 .. MaxBatch
             /\ \A o \in nextOffset' - q.n .. nextOffset' - 1 : o \in Offs(recs)
  <2>1. CASE q \in new
    <3>1. q.n = n
      BY <2>1
    <3> QED
      BY <1>2, <1>3, <1>4, <3>1
  <2>2. CASE q \in waiting
    <3>1. /\ q.n \in 1 .. MaxBatch /\ q.n \in Int
          /\ \A o \in nextOffset - q.n .. nextOffset - 1 : o \in Offs(pending)
      BY <2>2, ConstantsAssumption DEF ProducersInv, WaitingInv
    <3>2. ASSUME NEW o \in next - q.n .. next - 1 PROVE o \in Offs(recs)
      <4>1. \/ o \in nextOffset .. next - 1
            \/ o \in nextOffset - q.n .. nextOffset - 1
        BY <1>2, <3>1
      <4> QED
        BY <1>4, <1>5, <3>1, <4>1
    <3> QED
      BY <1>3, <3>1, <3>2
  <2> QED
    BY <2>1, <2>2
<1>7. nextOffset' \in Nat
  BY <1>2, <1>3
<1>8. \/ acked' = acked \cup recs /\ pending' = {}
      \/ acked' = acked /\ pending' = {}
      \/ acked' = acked /\ pending' = recs /\ pw' = "running"
  BY <1>3, FlushAcks
<1>9. TypeInv
  BY DEF ProducersInv
<1> HIDE DEF recs, new, next
<1> QED
  BY <1>1, <1>6, <1>7, <1>8, <1>9, AckedGroup

\* The timer and Shutdown commit the pending records.
LEMMA PendingTold ==
  ASSUME ProducersInv, Acks({}), nextOffset' = nextOffset, pending' = {},
         acked' \in {acked, acked \cup pending}
  PROVE  WaitingInv' /\ ToldCommitted'
<1>1. TypeInv /\ nextOffset' \in Nat
  BY ConstantsAssumption DEF ProducersInv, TypeInv, TypeOK, Offset
<1>2. \A q \in waiting \cup {} :
        /\ q.n \in 1 .. MaxBatch
        /\ \A o \in nextOffset' - q.n .. nextOffset' - 1 : o \in Offs(pending)
  BY DEF ProducersInv, WaitingInv
<1> QED
  BY <1>1, <1>2, AckedGroup

LEMMA ProducersStep == ProducersInv /\ [ClientsNext]_allVars => ProducersInv'
<1> SUFFICES ASSUME ProducersInv, [ClientsNext]_allVars
             PROVE  WaitingInv' /\ ToldCommitted'
  BY ClientsStepIsStep, TypeStep DEF ProducersInv
<1>1. ASSUME NEW n \in 1 .. MaxBatch, Produce(n) PROVE WaitingInv' /\ ToldCommitted'
  BY <1>1, ProduceTold
<1>2. CASE CommitByTimeout
  BY <1>2, FlushAcks, PendingTold DEF CommitByTimeout, GroupCommitTimeout
<1>3. CASE CommitByShutdown
  <2>1. Acks({}) /\ nextOffset' = nextOffset
    BY <1>3 DEF CommitByShutdown, Shutdown
  <2>2. pending' = {} /\ acked' \in {acked, acked \cup pending}
    BY <1>3 DEF CommitByShutdown, Shutdown, FlushPanics
  <2> QED
    BY <2>1, <2>2, PendingTold
<1>4. CASE CrashWithClients
  BY <1>4 DEF CrashWithClients, WaitingInv, ToldCommitted
<1>5. CASE Background
  <2>1. UNCHANGED <<waiting, told, pending, acked>>
    BY <1>5 DEF Background, clientVars, OnDurable, UpdateConfig, TakeUpload, PutSegment,
         PutManifest, UploadFails, SendDurable, RetentionKick, RetentionKeeps,
         RetentionRewrites, RetentionDeletes, SendUploaderShutdown,
         UploaderShutdown, Recover, pwVars
  <2>2. \/ UNCHANGED <<pw, nextOffset>>
        \/ Recover
    BY <1>5 DEF Background, OnDurable, UpdateConfig, TakeUpload, PutSegment,
         PutManifest, UploadFails, SendDurable, RetentionKick, RetentionKeeps,
         RetentionRewrites, RetentionDeletes, SendUploaderShutdown,
         UploaderShutdown, pwVars
  <2>3. Recover => waiting = {}
    BY DEF Recover, ProducersInv, WaitingInv
  <2> QED
    BY <2>1, <2>2, <2>3 DEF ProducersInv, WaitingInv, ToldCommitted, Offs
<1>6. ASSUME NEW c \in Consumers, FetchStep(c) PROVE WaitingInv' /\ ToldCommitted'
  <2>1. UNCHANGED <<waiting, told, pending, acked, nextOffset, pw>>
    BY <1>6, FetchOnlyReads DEF vars, pwVars
  <2> QED
    BY <2>1 DEF ProducersInv, WaitingInv, ToldCommitted, Offs
<1>7. CASE UNCHANGED allVars
  BY <1>7 DEF allVars, clientVars, vars, pwVars, ProducersInv, WaitingInv, ToldCommitted, Offs
<1> QED
  BY <1>1, <1>2, <1>3, <1>4, <1>5, <1>6, <1>7, ClientsSteps

\* A Produce that shares its group commit with others is told offsets at which
\* acked records are, although they need not be its own: flush_commit tells
\* everyone the high watermark, and a group is at least as long as each of the
\* requests in it.
THEOREM ToldOffsetsAcked == ClientsSpec => []ToldCommitted
<1>1. ClientsInit => ProducersInv
  BY TypeInit DEF ClientsInit, ProducersInv, WaitingInv, ToldCommitted
<1>2. ProducersInv => ToldCommitted
  BY DEF ProducersInv
<1>3. QED
  BY <1>1, <1>2, ProducersStep, PTL DEF ClientsSpec

-----------------------------------------------------------------------------
(* What a step does to a Fetch *)

Fetching ==
  [pc : {"idle", "locate", "subscribe", "wait", "relocate", "active", "manifest", "segment"},
   from : Offset, max : 0 .. MaxRecords, wait : BOOLEAN, lenient : BOOLEAN,
   seg : Entry, hwm : Int]

Answering ==
  [from : Offset, recs : SUBSET Rec, hwm : Int,
   err : {"none", "BrokerNotReady", "OffsetOutOfRange", "UnknownTopic"},
   tier : {"none", "memory", "store"}]

FetchTypes == fetch \in [Consumers -> Fetching] /\ answer \in [Consumers -> Answering]

LEMMA IdleTyped == Idle \in Fetching /\ NoAnswer \in Answering
  BY ConstantsAssumption, ClientsAssumption
     DEF Idle, NoEntry, Fetching, NoAnswer, Answering, Offset, Entry

\* The Fetch goes on, not with a segment.
GoesOn(c) ==
  \E f \in Fetching :
    /\ f.pc # "segment"
    /\ fetch' = [fetch EXCEPT ![c] = f]
    /\ answer' \in {answer, [answer EXCEPT ![c] = NoAnswer]}

\* It picks a segment of the manifest.
Picks(c) ==
  \E e \in SegmentForOffset(fetch[c].from) :
    /\ fetch' = [fetch EXCEPT ![c] = [fetch[c] EXCEPT !.pc = "segment", !.seg = e,
                                                      !.hwm = LastUploaded]]
    /\ answer' = answer

\* It is answered: without records, from memory, or with those of its segment.
Replies(c) ==
  \E a \in Answering :
    /\ a.from = fetch[c].from
    /\ \/ a.recs = {} /\ a.tier = "none"
       \/ a.recs \subseteq active /\ a.tier = "memory" /\ pw = "running"
       \/ /\ fetch[c].pc = "segment"
          /\ a.recs = FirstN(From(obj[fetch[c].seg.base], fetch[c].from), fetch[c].max)
          /\ a.tier = "store"
    /\ fetch' = [fetch EXCEPT ![c] = Idle]
    /\ answer' = [answer EXCEPT ![c] = a]

LEMMA EmptyReply ==
  ASSUME FetchTypes, NEW c \in Consumers, NEW hwm \in Int,
         NEW err \in {"none", "BrokerNotReady", "OffsetOutOfRange", "UnknownTopic"},
         Reply(c, {}, hwm, err, "none")
  PROVE  Replies(c)
<1> DEFINE a == [from |-> fetch[c].from, recs |-> {}, hwm |-> hwm, err |-> err,
                 tier |-> "none"]
<1>1. a \in Answering
  BY DEF Answering, FetchTypes, Fetching
<1> QED
  BY <1>1 DEF Reply, Replies

LEMMA StoreFailReplies ==
  ASSUME FetchTypes, NEW c \in Consumers,
         NEW err \in {"BrokerNotReady", "OffsetOutOfRange", "UnknownTopic"},
         StoreReadFails(c, err)
  PROVE  Replies(c)
  BY EmptyReply DEF StoreReadFails

LEMMA LocateMoves ==
  ASSUME TypeInv, FetchTypes, NEW c \in Consumers, Locate(c) \/ Relocate(c)
  PROVE  GoesOn(c) \/ Replies(c)
<1> DEFINE f == fetch[c]
<1>1. f \in Fetching
  BY DEF FetchTypes
<1>2. nextOffset - 1 \in Int
  BY ConstantsAssumption DEF TypeInv, TypeOK, Offset
<1>3. \/ Reply(c, {}, nextOffset - 1, "none", "none")
      \/ Continue(c, [f EXCEPT !.pc = "subscribe"])
      \/ Continue(c, [f EXCEPT !.pc = "active"])
      \/ Continue(c, [f EXCEPT !.pc = "manifest"])
      \/ \E b \in BOOLEAN : Continue(c, [f EXCEPT !.pc = "manifest", !.lenient = b])
  BY DEF Locate, Relocate
<1>4. /\ [f EXCEPT !.pc = "subscribe"] \in Fetching
      /\ [f EXCEPT !.pc = "active"] \in Fetching
      /\ [f EXCEPT !.pc = "manifest"] \in Fetching
      /\ \A b \in BOOLEAN : [f EXCEPT !.pc = "manifest", !.lenient = b] \in Fetching
  BY <1>1 DEF Fetching
<1>5. /\ [f EXCEPT !.pc = "subscribe"].pc = "subscribe"
      /\ [f EXCEPT !.pc = "active"].pc = "active"
      /\ [f EXCEPT !.pc = "manifest"].pc = "manifest"
      /\ \A b \in BOOLEAN : [f EXCEPT !.pc = "manifest", !.lenient = b].pc = "manifest"
  BY <1>1 DEF Fetching
<1>6. ASSUME NEW g \in Fetching, g.pc # "segment", Continue(c, g) PROVE GoesOn(c)
  BY <1>6 DEF Continue, GoesOn
<1> HIDE DEF f
<1> QED
  BY <1>2, <1>3, <1>4, <1>5, <1>6, EmptyReply

LEMMA FirstNSubset ==
  ASSUME NEW recs, NEW off, NEW n
  PROVE  FirstN(From(recs, off), n) \subseteq recs
  BY DEF FirstN, From

LEMMA ReadActiveMoves ==
  ASSUME TypeInv, FetchTypes, NEW c \in Consumers, ReadActive(c)
  PROVE  Replies(c)
<1> DEFINE recs == FirstN(From(active, fetch[c].from), fetch[c].max)
           hwm  == IF recs = {} THEN fetch[c].from - 1 ELSE Max(Offs(recs))
           a    == [from |-> fetch[c].from, recs |-> recs, hwm |-> hwm,
                    err |-> "none", tier |-> "memory"]
<1>1. recs \subseteq active /\ recs \in SUBSET Rec
  BY FirstNSubset DEF TypeInv, TypeOK
<1>2. fetch[c].from \in Offset /\ fetch[c].from \in Int
  BY ConstantsAssumption DEF FetchTypes, Fetching, Offset
<1>3. pw = "running" /\ Reply(c, recs, hwm, "none", "memory")
  BY DEF ReadActive
<1> HIDE DEF recs
<1>4. hwm \in Int
  <2>1. CASE recs = {}
    BY <1>2, <2>1
  <2>2. CASE recs # {}
    BY <1>1, <2>2, OffsBounds, OffsetFacts
  <2> QED
    BY <2>1, <2>2
<1> HIDE DEF hwm
<1>5. a \in Answering
  BY <1>1, <1>2, <1>4 DEF Answering
<1> QED
  BY <1>1, <1>3, <1>5 DEF Reply, Replies

LEMMA GetSegmentMoves ==
  ASSUME TypeInv, FetchTypes, NEW c \in Consumers, GetSegment(c)
  PROVE  Replies(c)
<1> DEFINE f    == fetch[c]
           recs == FirstN(From(obj[f.seg.base], f.from), f.max)
           a    == [from |-> fetch[c].from, recs |-> recs, hwm |-> f.hwm,
                    err |-> "none", tier |-> "store"]
<1>1. f \in Fetching /\ f.seg.base \in Offset
  BY DEF FetchTypes, Fetching, Entry
<1>2. recs \in SUBSET Rec
  BY <1>1, FirstNSubset DEF TypeInv, TypeOK
<1>3. CASE StoreReadFails(c, "BrokerNotReady")
  BY <1>3, StoreFailReplies
<1>4. CASE Reply(c, recs, f.hwm, "none", "store")
  <2>1. a \in Answering
    BY <1>1, <1>2 DEF Answering, Fetching
  <2>2. f.pc = "segment"
    BY DEF GetSegment
  <2> QED
    BY <1>4, <2>1, <2>2 DEF Reply, Replies
<1> QED
  BY <1>3, <1>4 DEF GetSegment

LEMMA FetchMoves ==
  ASSUME TypeInv, FetchTypes, NEW c \in Consumers, FetchStep(c)
  PROVE  GoesOn(c) \/ Picks(c) \/ Replies(c)
<1>1. CASE FetchStart(c)
  <2>1. PICK from \in Offset, max \in 1 .. MaxRecords, wait \in BOOLEAN :
          fetch' = [fetch EXCEPT ![c] = [Idle EXCEPT !.pc = "locate", !.from = from,
                                                     !.max = max, !.wait = wait]]
    BY <1>1 DEF FetchStart
  <2> DEFINE g == [Idle EXCEPT !.pc = "locate", !.from = from, !.max = max, !.wait = wait]
  <2>2. g \in Fetching /\ g.pc = "locate"
    <3>1. max \in 0 .. MaxRecords
      BY ClientsAssumption
    <3> QED
      BY <3>1, IdleTyped DEF Fetching
  <2>3. answer' = [answer EXCEPT ![c] = NoAnswer]
    BY <1>1 DEF FetchStart
  <2> HIDE DEF g
  <2> QED
    BY <2>1, <2>2, <2>3 DEF GoesOn, g
<1>2. CASE Locate(c) \/ Relocate(c)
  BY <1>2, LocateMoves
<1>3. CASE WriterGone(c)
  BY <1>3, EmptyReply DEF WriterGone
<1>4. CASE Subscribe(c) \/ LongPollTimeout(c)
  <2>1. \E p \in {"wait", "relocate"} : Continue(c, [fetch[c] EXCEPT !.pc = p])
    BY <1>4 DEF Subscribe, LongPollTimeout
  <2>2. \A p \in {"wait", "relocate"} :
          [fetch[c] EXCEPT !.pc = p] \in Fetching /\ [fetch[c] EXCEPT !.pc = p].pc = p
    BY DEF FetchTypes, Fetching
  <2> QED
    BY <2>1, <2>2 DEF Continue, GoesOn
<1>5. CASE ReadActive(c)
  BY <1>5, ReadActiveMoves
<1>6. CASE GetManifest(c)
  <2>1. CASE StoreReadFails(c, "OffsetOutOfRange")
    BY <2>1, StoreFailReplies
  <2>2. CASE ~ StoreReadFails(c, "OffsetOutOfRange")
    BY <1>6, <2>2 DEF GetManifest, Continue, Picks
  <2> QED
    BY <2>1, <2>2
<1>7. CASE GetSegment(c)
  BY <1>7, GetSegmentMoves
<1>8. CASE GetFails(c)
  BY <1>8, StoreFailReplies DEF GetFails
<1> QED
  BY <1>1, <1>2, <1>3, <1>4, <1>5, <1>6, <1>7, <1>8 DEF FetchStep

\* What the steps of the partition do to the Fetches: they wake some of those
\* that wait, or end them all.
Wakes ==
  /\ answer' = answer
  /\ fetch' \in [Consumers -> Fetching]
  /\ \A c \in Consumers : fetch'[c].pc = "segment" => fetch'[c] = fetch[c]

LEMMA BroadcastWakes ==
  ASSUME FetchTypes, Broadcast, answer' = answer
  PROVE  Wakes
<1>1. ASSUME NEW c \in Consumers
      PROVE  \/ fetch'[c] = fetch[c]
             \/ fetch'[c] = [fetch[c] EXCEPT !.pc = "relocate"]
  BY DEF Broadcast
<1>2. \A c \in Consumers : /\ [fetch[c] EXCEPT !.pc = "relocate"] \in Fetching
                           /\ [fetch[c] EXCEPT !.pc = "relocate"].pc = "relocate"
                           /\ fetch[c] \in Fetching
  BY DEF FetchTypes, Fetching
<1>3. fetch' = [c \in Consumers |-> fetch'[c]]
  BY DEF Broadcast
<1>4. \A c \in Consumers : fetch'[c] \in Fetching
  BY <1>1, <1>2
<1>5. fetch' \in [Consumers -> Fetching]
  BY <1>3, <1>4
<1> QED
  BY <1>1, <1>2, <1>5 DEF Wakes

LEMMA PartitionMoves ==
  ASSUME FetchTypes, [ClientsNext]_allVars, \A c \in Consumers : ~ FetchStep(c)
  PROVE  /\ Wakes
         /\ Crash => \A c \in Consumers : fetch'[c] = Idle
<1>1. ASSUME Broadcast, answer' = answer, pw' # "down"
      PROVE  Wakes /\ ~ Crash
  BY <1>1, BroadcastWakes DEF Crash
<1>2. ASSUME NEW n \in 1 .. MaxBatch, Produce(n) PROVE Wakes /\ ~ Crash
  <2>1. pw' # "down"
    BY <1>2 DEF Produce, OnProduce, FlushCommit, FlushPanics
  <2> QED
    BY <1>1, <1>2, <2>1 DEF Produce
<1>3. CASE CommitByTimeout
  <2>1. pw' # "down"
    BY <1>3 DEF CommitByTimeout, GroupCommitTimeout, FlushCommit, FlushPanics
  <2> QED
    BY <1>1, <1>3, <2>1 DEF CommitByTimeout
<1>4. CASE CommitByShutdown
  <2>1. pw' # "down"
    BY <1>4 DEF CommitByShutdown, Shutdown, FlushPanics
  <2> QED
    BY <1>1, <1>4, <2>1 DEF CommitByShutdown
<1>5. CASE CrashWithClients
  <2>1. answer' = answer /\ fetch' = [c \in Consumers |-> Idle]
    BY <1>5 DEF CrashWithClients
  <2>2. Idle.pc = "idle"
    BY DEF Idle
  <2> HIDE DEF Idle
  <2> QED
    BY <2>1, <2>2, IdleTyped DEF Wakes
<1>6. CASE Background \/ UNCHANGED allVars
  <2>1. UNCHANGED <<fetch, answer>>
    BY <1>6 DEF Background, clientVars, allVars
  <2>2. Crash => pw' = "down" /\ pw # "down"
    BY DEF Crash
  <2>3. pw' = pw \/ pw' = "running"
    BY <1>6 DEF Background, OnDurable, UpdateConfig, TakeUpload, PutSegment,
         PutManifest, UploadFails, SendDurable, RetentionKick, RetentionKeeps,
         RetentionRewrites, RetentionDeletes, SendUploaderShutdown,
         UploaderShutdown, Recover, pwVars,
         allVars, vars
  <2> QED
    BY <2>1, <2>2, <2>3 DEF Wakes, FetchTypes
<1> QED
  BY <1>2, <1>3, <1>4, <1>5, <1>6, ClientsSteps

LEMMA FetchTypesStep ==
  ASSUME TypeInv, FetchTypes, [ClientsNext]_allVars
  PROVE  FetchTypes'
<1>1. ASSUME NEW c \in Consumers, FetchStep(c) PROVE FetchTypes'
  <2>1. CASE GoesOn(c)
    BY <2>1, IdleTyped DEF GoesOn, FetchTypes
  <2>2. CASE Picks(c)
    <3>1. PICK e \in SegmentForOffset(fetch[c].from) :
            /\ fetch' = [fetch EXCEPT ![c] = [fetch[c] EXCEPT !.pc = "segment", !.seg = e,
                                                              !.hwm = LastUploaded]]
            /\ answer' = answer
      BY <2>2 DEF Picks
    <3>2. e \in Entry /\ LastUploaded \in Int
      BY LastUploadedType DEF SegmentForOffset, TypeInv, TypeOK
    <3>3. [fetch[c] EXCEPT !.pc = "segment", !.seg = e, !.hwm = LastUploaded] \in Fetching
      BY <3>2 DEF FetchTypes, Fetching
    <3> QED
      BY <3>1, <3>3 DEF FetchTypes
  <2>3. CASE Replies(c)
    BY <2>3, IdleTyped DEF Replies, FetchTypes
  <2> QED
    BY <1>1, <2>1, <2>2, <2>3, FetchMoves
<1>2. CASE \A c \in Consumers : ~ FetchStep(c)
  BY <1>2, PartitionMoves DEF Wakes, FetchTypes
<1> QED
  BY <1>1, <1>2

-----------------------------------------------------------------------------
(* Fetched records are durable *)

\* What a crash or retention cannot take away.
Durable == InWal \cup Manifested \cup evicted

\* No move takes a record out of the files and the store but by eviction.
LEMMA DurableGrows ==
  ASSUME DurabilityInv, Move
  PROVE  Durable \subseteq Durable'
<1> SUFFICES ASSUME NEW r \in Durable PROVE r \in Durable'
  OBVIOUS
<1> USE DEF Durable, InWal, Manifested
<1>1. CASE Quiet
  BY <1>1 DEF Quiet
<1>2. CASE Forgets
  <2>1. PICK b \in Offset :
          /\ wal[b] \subseteq Manifested \cup evicted
          /\ wal' = [wal EXCEPT ![b] = {}]
          /\ UNCHANGED <<obj, manifest, evicted>>
    BY <1>2 DEF Forgets
  <2>2. \A d \in Offset : d # b => wal'[d] = wal[d]
    BY <2>1 DEF DurabilityInv, TypeInv, TypeOK
  <2> QED
    BY <2>1, <2>2
<1>3. CASE Holds
  BY <1>3 DEF Holds
<1>4. CASE Commits
  <2>1. PICK n \in 0 .. MaxBatch : \E w \in SUBSET Group(n) : CommitsGroup(n, w)
    BY <1>4 DEF Commits
  <2>2. PICK w \in SUBSET Group(n) : CommitsGroup(n, w)
    BY <2>1
  <2>3. wal' = WalAppend(w) /\ UNCHANGED <<obj, manifest, evicted>>
    BY <2>2 DEF CommitsGroup
  <2>4. \A d \in Offset : wal[d] \subseteq wal'[d]
    BY <2>3 DEF WalAppend, DurabilityInv, TypeInv, TypeOK
  <2> QED
    BY <2>3, <2>4
<1>5. CASE Names
  BY <1>5 DEF Names
<1>6. CASE Evicts
  BY <1>6 DEF Evicts
<1>7. CASE Dies
  BY <1>7 DEF Dies
<1>8. CASE Restarts
  <2>1. /\ UNCHANGED <<obj, manifest, evicted>>
        /\ \A b \in Offset : wal'[b] = wal[b] \/ b \in Bases
    BY <1>8 DEF Restarts
  <2>2. \A b \in Bases : wal[b] \subseteq Manifested
    BY DEF DurabilityInv, CoverOK, Bases
  <2> QED
    BY <2>1, <2>2
<1> QED
  BY <1>1, <1>2, <1>3, <1>4, <1>5, <1>6, <1>7, <1>8 DEF Move

\* Also an object that no manifest names yet, or none names any more, has
\* durable records only.
ObjectsDurable == \A b \in Offset : obj[b] \subseteq Durable

\* The Uploader puts a segment whose WAL file is still there.
LEMMA ObjectsChange ==
  ASSUME DurabilityInv, [Next]_vars
  PROVE  \A b \in Offset : obj'[b] \subseteq obj[b] \cup InWal
<1>1. CASE up = "segment" /\ obj' = [obj EXCEPT ![batch.base] = batch.recs]
  <2>1. batch \in Work
    BY <1>1 DEF Work, Busy
  <2>2. batch.base \in Offset /\ wal[batch.base] = batch.recs
    BY <2>1 DEF DurabilityInv, WorkOK, TypeInv, TypeOK, Batch
  <2>3. batch.recs \subseteq InWal
    BY <2>2 DEF InWal
  <2> QED
    BY <1>1, <2>2, <2>3 DEF DurabilityInv, TypeInv, TypeOK
<1>2. CASE \E e \in evicting : obj' \in {obj, [obj EXCEPT ![e.base] = {}]}
  BY <1>2 DEF DurabilityInv, TypeInv, TypeOK
<1>3. CASE obj' = obj
  BY <1>3
<1>4. \/ up = "segment" /\ obj' = [obj EXCEPT ![batch.base] = batch.recs]
      \/ \E e \in evicting : obj' \in {obj, [obj EXCEPT ![e.base] = {}]}
      \/ obj' = obj
  BY DEF Next, vars, storeVars, OnProduce, GroupCommitTimeout, OnDurable, UpdateConfig,
         Shutdown, TakeUpload, PutSegment, PutManifest, UploadFails, SendDurable,
         RetentionKick, RetentionKeeps, RetentionRewrites, RetentionDeletes,
         SendUploaderShutdown, UploaderShutdown, Crash, Recover
<1> QED
  BY <1>1, <1>2, <1>3, <1>4

ConsumersInv == DurabilityInv /\ FetchTypes /\ ObjectsDurable /\ DeliveredDurable

LEMMA ConsumersStep ==
  ASSUME ~ OpenMayFail
  PROVE  ConsumersInv /\ [ClientsNext]_allVars => ConsumersInv'
<1> SUFFICES ASSUME ConsumersInv, [ClientsNext]_allVars PROVE ConsumersInv'
  OBVIOUS
<1>1. [Next]_vars /\ DurabilityInv' /\ FetchTypes'
  BY ClientsStepIsStep, DurabilityStep, FetchTypesStep DEF ConsumersInv, DurabilityInv
<1>2. Durable \subseteq Durable'
  BY <1>1, StepMoves, DurableGrows DEF ConsumersInv
<1>3. ObjectsDurable'
  <2>1. \A b \in Offset : obj'[b] \subseteq obj[b] \cup InWal
    BY <1>1, ObjectsChange DEF ConsumersInv
  <2>2. InWal \subseteq Durable
    BY DEF Durable
  <2> QED
    BY <1>2, <2>1, <2>2 DEF ConsumersInv, ObjectsDurable
<1>4. DeliveredDurable'
  <2> SUFFICES ASSUME NEW d \in Consumers PROVE answer'[d].recs \subseteq Durable'
    BY DEF DeliveredDurable, Durable
  <2>1. answer[d].recs \subseteq Durable
    BY DEF ConsumersInv, DeliveredDurable, Durable
  <2>2. ASSUME NEW c \in Consumers, FetchStep(c)
        PROVE  answer'[d].recs \subseteq Durable'
    <3>1. CASE answer'[d] = answer[d]
      BY <1>2, <2>1, <3>1
    <3>2. CASE answer'[d] = NoAnswer
      BY <3>2 DEF NoAnswer
    <3>3. ASSUME c = d, Replies(c) PROVE answer'[d].recs \subseteq Durable'
      <4>1. PICK a \in Answering :
              /\ \/ a.recs = {}
                 \/ a.recs \subseteq active /\ pw = "running"
                 \/ a.recs = FirstN(From(obj[fetch[c].seg.base], fetch[c].from), fetch[c].max)
              /\ answer' = [answer EXCEPT ![c] = a]
        BY <3>3 DEF Replies
      <4>2. answer'[d] = a
        BY <3>3, <4>1 DEF ConsumersInv, FetchTypes
      <4>3. CASE a.recs = {}
        BY <4>2, <4>3
      <4>4. CASE a.recs \subseteq active /\ pw = "running"
        <5>1. wal[walBase] = active /\ walBase \in Offset
          BY <4>4 DEF ConsumersInv, DurabilityInv, WriterOK, TypeInv, TypeOK
        <5>2. active \subseteq Durable
          BY <5>1 DEF Durable, InWal
        <5> QED
          BY <1>2, <4>2, <4>4, <5>2
      <4>5. CASE a.recs = FirstN(From(obj[fetch[c].seg.base], fetch[c].from), fetch[c].max)
        <5>1. fetch[c].seg.base \in Offset
          BY DEF ConsumersInv, FetchTypes, Fetching, Entry
        <5>2. a.recs \subseteq obj[fetch[c].seg.base]
          BY <4>5, FirstNSubset
        <5>3. obj[fetch[c].seg.base] \subseteq Durable
          BY <5>1 DEF ConsumersInv, ObjectsDurable
        <5> QED
          BY <1>2, <4>2, <5>2, <5>3
      <4> QED
        BY <4>1, <4>3, <4>4, <4>5
    <3>4. GoesOn(c) \/ Picks(c) \/ Replies(c)
      BY <2>2, FetchMoves DEF ConsumersInv, DurabilityInv
    <3>5. \/ answer'[d] = answer[d] \/ answer'[d] = NoAnswer
          \/ c = d /\ Replies(c)
      BY <3>4 DEF GoesOn, Picks, Replies, ConsumersInv, FetchTypes
    <3> QED
      BY <3>1, <3>2, <3>3, <3>5
  <2>3. CASE \A c \in Consumers : ~ FetchStep(c)
    BY <1>2, <2>1, <2>3, PartitionMoves DEF Wakes, ConsumersInv
  <2> QED
    BY <2>2, <2>3
<1> QED
  BY <1>1, <1>3, <1>4 DEF ConsumersInv

LEMMA ConsumersInit == ClientsInit => ConsumersInv
<1> SUFFICES ASSUME ClientsInit PROVE ConsumersInv
  OBVIOUS
<1>1. DurabilityInv
  BY DurabilityInit DEF ClientsInit
<1>2. FetchTypes
  BY IdleTyped DEF ClientsInit, FetchTypes
<1>3. ObjectsDurable
  BY DEF ClientsInit, Init, ObjectsDurable
<1>4. DeliveredDurable
  BY DEF ClientsInit, DeliveredDurable, NoAnswer
<1> QED
  BY <1>1, <1>2, <1>3, <1>4 DEF ConsumersInv

\* No uncommitted reads: every record a consumer was ever given is in a WAL
\* file, in an object the manifest names, or was evicted by retention; so a
\* crash of the broker takes back nothing a consumer has seen.
THEOREM NoUncommittedRead ==
  ASSUME ~ OpenMayFail
  PROVE  ClientsSpec => []DeliveredDurable
<1>1. ConsumersInv => DeliveredDurable
  BY DEF ConsumersInv
<1>2. QED
  BY <1>1, ConsumersInit, ConsumersStep, PTL DEF ClientsSpec

-----------------------------------------------------------------------------
(* The answers of the object store *)

\* The segment a Fetch has picked stays in the manifest and has its offset.
PickedInv ==
  \A c \in Consumers :
    fetch[c].pc = "segment" =>
      /\ fetch[c].seg \in manifest
      /\ fetch[c].from \in fetch[c].seg.base .. fetch[c].seg.last
      /\ fetch[c].max \in Nat

\* Of records with the offsets first .. last, those from an offset on and at
\* most n of them have that offset, the next and so on.
LEMMA FirstNExact ==
  ASSUME NEW recs \in SUBSET Rec, NEW first \in Nat, NEW last \in Nat, NEW n \in Nat,
         Offs(recs) = first .. last, \A r, s \in recs : r.off = s.off => r = s,
         NEW from \in first .. last
  PROVE  LET S == FirstN(From(recs, from), n)
         IN  Offs(S) = from .. from + Cardinality(S) - 1
<1> DEFINE R == From(recs, from)
           S == FirstN(R, n)
           k == IF last - from + 1 < n THEN last - from + 1 ELSE n
<1>1. from \in Nat /\ k \in Nat /\ from + k <= last + 1
  OBVIOUS
<1>2. \A r \in recs : r.off \in Nat /\ r.off \in first .. last
  <2>1. \A r \in recs : r.off \in Offs(recs)
    BY DEF Offs
  <2> QED
    BY <2>1
<1>3. \A o \in first .. last : \E r \in recs : r.off = o
  <2>1. \A o \in Offs(recs) : \E r \in recs : r.off = o
    BY DEF Offs
  <2> QED
    BY <2>1
<1>4. \A r \in R : r \in recs /\ from <= r.off
  BY <1>1, <1>2 DEF From
<1>5. \A r \in recs : from <= r.off => r \in R
  BY <1>1, <1>2 DEF From
<1>6. ASSUME NEW r \in R
      PROVE  Cardinality({s \in R : s.off < r.off}) = r.off - from
  <2> DEFINE B == {s \in R : s.off < r.off}
  <2>1. \A s, t \in B : s.off = t.off => s = t
    BY <1>4
  <2>2. r.off \in Nat /\ from <= r.off /\ r.off \in first .. last
    BY <1>2, <1>4
  <2>3. Offs(B) = from .. r.off - 1
    <3>1. ASSUME NEW s \in B PROVE s.off \in from .. r.off - 1
      BY <1>1, <1>2, <1>4, <2>2
    <3>2. ASSUME NEW o \in from .. r.off - 1 PROVE \E s \in B : s.off = o
      <4>1. o \in first .. last /\ from <= o /\ o < r.off
        BY <1>1, <2>2
      <4>2. PICK s \in recs : s.off = o
        BY <1>3, <4>1
      <4> QED
        BY <1>5, <4>1, <4>2
    <3> QED
      BY <3>1, <3>2 DEF Offs
  <2> HIDE DEF B
  <2>4. Cardinality(B) = r.off - from
    BY <1>1, <2>1, <2>2, <2>3, CardinalityOfOffsets
  <2> QED
    BY <2>4 DEF B
<1>7. \A r \in R : r \in S <=> r.off - from < n
  BY <1>6 DEF FirstN
<1>8. S \subseteq R
  BY DEF FirstN
<1> HIDE DEF R, S
<1>9. Offs(S) = from .. (from + k) - 1
  <2>1. ASSUME NEW r \in S PROVE r.off \in from .. (from + k) - 1
    BY <1>1, <1>2, <1>4, <1>7, <1>8
  <2>2. ASSUME NEW o \in from .. (from + k) - 1 PROVE \E r \in S : r.off = o
    <3>1. o \in first .. last /\ from <= o /\ o - from < n
      BY <1>1
    <3>2. PICK r \in recs : r.off = o
      BY <1>3, <3>1
    <3> QED
      BY <1>5, <1>7, <3>1, <3>2
  <2> QED
    BY <2>1, <2>2 DEF Offs
<1>10. \A r, s \in S : r.off = s.off => r = s
  BY <1>4, <1>8
<1> HIDE DEF k
<1>11. Cardinality(S) = k
  <2>1. Cardinality(S) = (from + k) - from
    BY <1>1, <1>9, <1>10, CardinalityOfOffsets
  <2> QED
    BY <1>1, <2>1
<1>12. Offs(S) = from .. from + Cardinality(S) - 1
  <2>1. from + (k - 1) = (from + k) - 1
    BY <1>1
  <2> QED
    BY <1>9, <1>11, <2>1
<1> QED
  BY <1>12 DEF S, R

ExactInv == LogInv /\ FetchTypes /\ PickedInv /\ StoreAnswerExact

\* Without retention an entry is there for good.
LEMMA ManifestGrows ==
  ASSUME ~ RetentionEnabled, Move
  PROVE  manifest \subseteq manifest'
  BY DEF Move, Quiet, Forgets, Holds, Commits, CommitsGroup, Names, Evicts, Dies, Restarts

LEMMA PickedStep ==
  ASSUME ExactInv, [ClientsNext]_allVars, manifest \subseteq manifest'
  PROVE  PickedInv'
<1> SUFFICES ASSUME NEW d \in Consumers, fetch'[d].pc = "segment"
             PROVE  /\ fetch'[d].seg \in manifest'
                    /\ fetch'[d].from \in fetch'[d].seg.base .. fetch'[d].seg.last
                    /\ fetch'[d].max \in Nat
  BY DEF PickedInv
<1>1. fetch'[d] = fetch[d] \/ \E c \in Consumers : c = d /\ FetchStep(c) /\ Picks(c)
  <2>1. ASSUME NEW c \in Consumers, FetchStep(c)
        PROVE  fetch'[d] = fetch[d] \/ (c = d /\ Picks(c))
    <3>1. GoesOn(c) \/ Picks(c) \/ Replies(c)
      BY <2>1, FetchMoves DEF ExactInv, LogInv, SegmentInv, DurabilityInv
    <3>2. Idle.pc # "segment"
      BY DEF Idle
    <3> QED
      BY <3>1, <3>2 DEF GoesOn, Picks, Replies, ExactInv, FetchTypes
  <2>2. CASE \A c \in Consumers : ~ FetchStep(c)
    BY <2>2, PartitionMoves DEF Wakes, ExactInv
  <2> QED
    BY <2>1, <2>2
<1>2. CASE fetch'[d] = fetch[d]
  BY <1>2 DEF ExactInv, PickedInv
<1>3. CASE Picks(d)
  <2>1. PICK e \in SegmentForOffset(fetch[d].from) :
          fetch' = [fetch EXCEPT ![d] = [fetch[d] EXCEPT !.pc = "segment", !.seg = e,
                                                         !.hwm = LastUploaded]]
    BY <1>3 DEF Picks
  <2>2. fetch[d] \in Fetching
    BY DEF ExactInv, FetchTypes
  <2>3. fetch'[d].seg = e /\ fetch'[d].from = fetch[d].from /\ fetch'[d].max = fetch[d].max
    BY <2>1, <2>2 DEF ExactInv, FetchTypes, Fetching
  <2>4. fetch[d].max \in Nat
    BY <2>2, ClientsAssumption DEF Fetching
  <2>5. e \in manifest /\ fetch[d].from \in e.base .. e.last
    BY DEF SegmentForOffset
  <2> QED
    BY <2>3, <2>4, <2>5
<1> QED
  BY <1>1, <1>2, <1>3

LEMMA ExactStep ==
  ASSUME ~ OpenMayFail, ~ RetentionEnabled
  PROVE  ExactInv /\ [ClientsNext]_allVars => ExactInv'
<1> SUFFICES ASSUME ExactInv, [ClientsNext]_allVars PROVE ExactInv'
  OBVIOUS
<1>1. LogInv /\ DurabilityInv /\ TypeInv /\ FetchTypes
  BY DEF ExactInv, LogInv, SegmentInv, DurabilityInv
<1>2. [Next]_vars /\ LogInv' /\ FetchTypes'
  BY <1>1, ClientsStepIsStep, LogStep, FetchTypesStep
<1>3. PickedInv'
  BY <1>1, <1>2, StepMoves, ManifestGrows, PickedStep
<1>4. StoreAnswerExact'
  <2> DEFINE Exact(a) ==
        a.tier = "store" => Offs(a.recs) = a.from .. a.from + Cardinality(a.recs) - 1
  <2> SUFFICES ASSUME NEW d \in Consumers PROVE Exact(answer'[d])
    BY DEF StoreAnswerExact
  <2>1. CASE answer'[d] = answer[d]
    BY <2>1 DEF ExactInv, StoreAnswerExact
  <2>2. CASE answer'[d] = NoAnswer
    BY <2>2 DEF NoAnswer
  <2>3. ASSUME Replies(d) PROVE Exact(answer'[d])
    <3> DEFINE f == fetch[d]
               b == f.seg.base
    <3>1. PICK a \in Answering :
            /\ a.from = f.from
            /\ \/ a.tier # "store"
               \/ f.pc = "segment" /\ a.recs = FirstN(From(obj[b], f.from), f.max)
            /\ answer' = [answer EXCEPT ![d] = a]
      BY <2>3 DEF Replies
    <3>2. answer'[d] = a
      BY <1>1, <3>1 DEF FetchTypes
    <3>3. CASE a.tier # "store"
      BY <3>2, <3>3
    <3>4. CASE f.pc = "segment" /\ a.recs = FirstN(From(obj[b], f.from), f.max)
      <4>1. /\ f.seg \in manifest /\ f.from \in b .. f.seg.last /\ f.max \in Nat
            /\ b \in Nat /\ f.seg.last \in Nat /\ b \in Offset
        BY <1>1, <3>4, ConstantsAssumption
           DEF ExactInv, PickedInv, TypeInv, TypeOK, Entry, Offset
      <4>2. Offs(obj[b]) = b .. f.seg.last
        BY <1>1, <4>1, ManifestTiled DEF ManifestTiles
      <4>3. \A r, s \in obj[b] : r.off = s.off => r = s
        <5>1. obj[b] \subseteq Stored
          BY <4>1 DEF Stored, Manifested
        <5> QED
          BY <1>1, <5>1 DEF LogInv, OrderInv, OneRecordEach
      <4>4. obj[b] \in SUBSET Rec
        BY <1>1, <4>1 DEF TypeInv, TypeOK
      <4> HIDE DEF b, f
      <4>5. Offs(a.recs) = f.from .. f.from + Cardinality(a.recs) - 1
        BY <3>4, <4>1, <4>2, <4>3, <4>4, FirstNExact
      <4> QED
        BY <3>1, <3>2, <4>5
    <3> QED
      BY <3>1, <3>3, <3>4
  <2>4. ASSUME NEW c \in Consumers, FetchStep(c)
        PROVE  answer'[d] = answer[d] \/ answer'[d] = NoAnswer \/ Replies(d)
    <3>1. GoesOn(c) \/ Picks(c) \/ Replies(c)
      BY <1>1, <2>4, FetchMoves
    <3>2. CASE Replies(c)
      BY <1>1, <3>2 DEF Replies, FetchTypes
    <3>3. CASE GoesOn(c) \/ Picks(c)
      BY <1>1, <3>3 DEF GoesOn, Picks, FetchTypes
    <3> QED
      BY <3>1, <3>2, <3>3
  <2>5. ASSUME \A c \in Consumers : ~ FetchStep(c) PROVE answer'[d] = answer[d]
    BY <1>1, <2>5, PartitionMoves DEF Wakes
  <2> HIDE DEF Exact
  <2> QED
    BY <2>1, <2>2, <2>3, <2>4, <2>5
<1> QED
  BY <1>2, <1>3, <1>4 DEF ExactInv

\* Without retention a Fetch that is answered from the object store gets the
\* records from the offset it asked for without a gap, whatever was uploaded,
\* uploaded again or recovered between its GET of the manifest and its GET of
\* the segment.
THEOREM StoreAnswersExactly ==
  ASSUME ~ OpenMayFail, ~ RetentionEnabled
  PROVE  ClientsSpec => []StoreAnswerExact
<1>1. ClientsInit => ExactInv
  <2> SUFFICES ASSUME ClientsInit PROVE ExactInv
    OBVIOUS
  <2>1. LogInv
    BY LogInit DEF ClientsInit
  <2>2. FetchTypes
    BY IdleTyped DEF ClientsInit, FetchTypes
  <2>3. PickedInv /\ StoreAnswerExact
    BY DEF ClientsInit, PickedInv, StoreAnswerExact, Idle, NoAnswer
  <2> QED
    BY <2>1, <2>2, <2>3 DEF ExactInv
<1>2. ExactInv => StoreAnswerExact
  BY DEF ExactInv
<1>3. QED
  BY <1>1, <1>2, ExactStep, PTL DEF ClientsSpec
=============================================================================
