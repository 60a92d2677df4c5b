-------------------------- MODULE PartitionClients --------------------------
(***************************************************************************)
(* The clients of one partition: Produce requests waiting for their group  *)
(* commit, and Fetch requests resolved against the writer's memory and the *)
(* object store while the partition of PartitionLog goes on working.       *)
(*                                                                         *)
(* A Fetch is a task of its own: each message to the PartitionWriter and   *)
(* each GET of the store is one step, and anything may happen in between.  *)
(* A request is a message the writer handles atomically, so it takes       *)
(* effect when it is handled.  Size limits, payload slicing and metrics    *)
(* are left out; a request names a live partition and an offset that is    *)
(* not negative.                                                           *)
(***************************************************************************)
EXTENDS PartitionLog

CONSTANTS Consumers,  \* clients with one Fetch in flight each
          MaxRecords  \* bound: the max_records of a Fetch

ASSUME ClientsAssumption == MaxRecords \in Nat \ {0}

VARIABLES
  waiting,   \* Produces in pending_acks: their first offset and their size
  told,      \* the answers the last commit sent to its producers
  fetch,     \* each consumer's Fetch
  answer     \* its answer, until the consumer's next Fetch

clientVars == <<waiting, told, fetch, answer>>
allVars    == <<vars, clientVars>>

NoEntry  == [base |-> 0, last |-> 0]
Idle     == [pc |-> "idle", from |-> 0, max |-> 0, wait |-> FALSE,
             lenient |-> FALSE, seg |-> NoEntry, hwm |-> -1]
NoAnswer == [from |-> 0, recs |-> {}, hwm |-> -1, err |-> "none", tier |-> "none"]

-----------------------------------------------------------------------------
(* Produce *)

\* Mutant: the ack carries the next offset instead of the last one.
ProduceResponse_OffByOne(q, hwm) ==
  [base |-> q.base, n |-> q.n, toldBase |-> hwm - q.n + 2, toldLast |-> hwm + 1]

\* Every Produce of the group is told the high watermark of the commit, and
\* works its own offsets out from that.
ProduceResponse(q, hwm) ==
  [base |-> q.base, n |-> q.n, toldBase |-> hwm - q.n + 1, toldLast |-> hwm]

Committed == acked' # acked

\* Mutant: the request that fills the group is answered alone.
Acks_OnlyNewest(new) ==
  /\ waiting' = IF Committed /\ new # {} THEN waiting
                ELSE IF pending' = {} THEN {} ELSE waiting \cup new
  /\ told' = IF Committed
             THEN {ProduceResponse(q, nextOffset' - 1) : q \in new}
             ELSE {}

\* A writer step answers everyone waiting if it commits, drops them if it
\* panics, and otherwise lets them wait.
Acks(new) ==
  /\ waiting' = IF pending' = {} THEN {} ELSE waiting \cup new
  /\ told' = IF Committed
             THEN {ProduceResponse(q, nextOffset' - 1) : q \in waiting \cup new}
             ELSE {}

\* Each commit goes out on the tail broadcast and wakes the long polls.
Broadcast ==
  fetch' = [c \in Consumers |->
              IF Committed /\ fetch[c].pc = "wait" /\ nextOffset' - 1 >= fetch[c].from
              THEN [fetch[c] EXCEPT !.pc = "relocate"]
              ELSE fetch[c]]

Produce(n) ==
  /\ OnProduce(n)
  /\ Acks({[base |-> nextOffset, n |-> n]})
  /\ Broadcast
  /\ UNCHANGED answer

CommitByTimeout ==
  /\ GroupCommitTimeout
  /\ Acks({})
  /\ Broadcast
  /\ UNCHANGED answer

CommitByShutdown ==
  /\ Shutdown
  /\ Acks({})
  /\ Broadcast
  /\ UNCHANGED answer

-----------------------------------------------------------------------------
(* Fetch *)

\* The first n records in offset order.
FirstN(recs, n) ==
  {r \in recs : Cardinality({s \in recs : s.off < r.off}) < n}

From(recs, off) == {r \in recs : r.off >= off}

Reply(c, recs, hwm, err, tier) ==
  /\ answer' = [answer EXCEPT ![c] =
                  [from |-> fetch[c].from, recs |-> recs, hwm |-> hwm,
                   err |-> err, tier |-> tier]]
  /\ fetch' = [fetch EXCEPT ![c] = Idle]
  /\ UNCHANGED <<vars, waiting, told>>

Continue(c, f) ==
  /\ fetch' = [fetch EXCEPT ![c] = f]
  /\ UNCHANGED <<vars, waiting, told, answer>>

\* An offset, a record limit, and whether max_wait_ms is above 0.
FetchStart(c) ==
  /\ fetch[c].pc = "idle"
  /\ pw = "running"
  /\ \E from \in Offset, max \in 1 .. MaxRecords, wait \in BOOLEAN :
       fetch' = [fetch EXCEPT ![c] =
                   [Idle EXCEPT !.pc = "locate", !.from = from, !.max = max,
                                !.wait = wait]]
  /\ answer' = [answer EXCEPT ![c] = NoAnswer]
  /\ UNCHANGED <<vars, waiting, told>>

\* Which tier has an offset, by the writer's memory.  Its high watermark
\* counts the pending records.
LocateResult(from) ==
  CASE from > nextOffset - 1 -> "Hwm"
    [] from <= nextOffset - 1 /\ active # {} /\ from >= Min(Offs(active))
         -> "InActiveBatch"
    [] OTHER -> IF inFlight # {} /\ from >= Min(inFlight)
                THEN "InFlight" ELSE "BelowInFlight"

\* A writer that is gone answers nothing: BrokerNotReady.
WriterGone(c) ==
  /\ fetch[c].pc \in {"locate", "relocate", "active"}
  /\ pw \in {"panicked", "stopped"}
  /\ Reply(c, {}, -1, "BrokerNotReady", "none")

\* The first answer of locate.  Only here does InFlight forgive errors.
Locate(c) ==
  /\ fetch[c].pc = "locate"
  /\ pw = "running"
  /\ LET f   == fetch[c]
         res == LocateResult(f.from)
     IN  \/ /\ res = "Hwm" /\ ~ f.wait
            /\ Reply(c, {}, nextOffset - 1, "none", "none")
         \/ /\ res = "Hwm" /\ f.wait
            /\ Continue(c, [f EXCEPT !.pc = "subscribe"])
         \/ /\ res = "InActiveBatch"
            /\ Continue(c, [f EXCEPT !.pc = "active"])
         \/ /\ res \in {"InFlight", "BelowInFlight"}
            /\ Continue(c, [f EXCEPT !.pc = "manifest", !.lenient = res = "InFlight"])

\* The subscription sees only the commits after it.
Subscribe(c) ==
  /\ fetch[c].pc = "subscribe"
  /\ Continue(c, [fetch[c] EXCEPT !.pc = "wait"])

\* Mutant: a timeout starts the next wait.
LongPollTimeout_WaitsOn(c) ==
  /\ fetch[c].pc = "wait"
  /\ Continue(c, [fetch[c] EXCEPT !.pc = "subscribe"])

LongPollTimeout(c) ==
  /\ fetch[c].pc = "wait"
  /\ Continue(c, [fetch[c] EXCEPT !.pc = "relocate"])

\* Woken or timed out: resolve once more.
Relocate(c) ==
  /\ fetch[c].pc = "relocate"
  /\ pw = "running"
  /\ LET f   == fetch[c]
         res == LocateResult(f.from)
     IN  \/ /\ res = "Hwm"
            /\ Reply(c, {}, nextOffset - 1, "none", "none")
         \/ /\ res = "InActiveBatch"
            /\ Continue(c, [f EXCEPT !.pc = "active"])
         \/ /\ res \in {"InFlight", "BelowInFlight"}
            /\ Continue(c, [f EXCEPT !.pc = "manifest"])

\* Mutant: the pending records are served too.
ReadActive_Uncommitted(c) ==
  /\ fetch[c].pc = "active"
  /\ pw = "running"
  /\ LET recs == FirstN(From(active \cup pending, fetch[c].from), fetch[c].max)
     IN  Reply(c, recs, IF recs = {} THEN fetch[c].from - 1 ELSE Max(Offs(recs)),
               "none", "memory")

\* The second message: whatever the active segment now has.
ReadActive(c) ==
  /\ fetch[c].pc = "active"
  /\ pw = "running"
  /\ LET recs == FirstN(From(active, fetch[c].from), fetch[c].max)
     IN  Reply(c, recs, IF recs = {} THEN fetch[c].from - 1 ELSE Max(Offs(recs)),
               "none", "memory")

\* read_object_store failed: an error, or nothing with watermark -1.
StoreReadFails(c, err) ==
  IF fetch[c].lenient
  THEN Reply(c, {}, -1, "none", "none")
  ELSE Reply(c, {}, -1, err, "none")

\* Mutant: the first segment that starts at or above the offset.
SegmentForOffset_ByBase(from) ==
  {e \in manifest : /\ e.base >= from
                    /\ \A f \in manifest : f.base >= from => e.base <= f.base}

\* segment_for_offset: of the entries that end at or above the offset the
\* first one, if it starts at or below it.
SegmentForOffset(from) ==
  {e \in manifest :
     /\ \A f \in manifest : f.last >= from => e.base <= f.base
     /\ from \in e.base .. e.last}

GetManifest(c) ==
  /\ fetch[c].pc = "manifest"
  /\ pw # "down"
  /\ \/ \E e \in SegmentForOffset(fetch[c].from) :
          Continue(c, [fetch[c] EXCEPT !.pc = "segment", !.seg = e,
                                       !.hwm = LastUploaded])
     \/ /\ SegmentForOffset(fetch[c].from) = {}
        /\ StoreReadFails(c, "OffsetOutOfRange")

\* The object may be gone, if retention came in between.
GetSegment(c) ==
  /\ fetch[c].pc = "segment"
  /\ pw # "down"
  /\ LET f == fetch[c]
     IN  IF obj[f.seg.base] = {}
         THEN StoreReadFails(c, "BrokerNotReady")
         ELSE Reply(c, FirstN(From(obj[f.seg.base], f.from), f.max), f.hwm,
                    "none", "store")

\* The GET itself fails.
GetFails(c) ==
  /\ fetch[c].pc \in {"manifest", "segment"}
  /\ pw # "down"
  /\ StoreReadFails(c, IF fetch[c].pc = "manifest" THEN "UnknownTopic"
                                                   ELSE "BrokerNotReady")

-----------------------------------------------------------------------------
\* A crash cuts every client off.
CrashWithClients ==
  /\ Crash
  /\ waiting' = {} /\ told' = {}
  /\ fetch' = [c \in Consumers |-> Idle]
  /\ UNCHANGED answer

\* The steps of the partition that no client sees.
Background ==
  /\ \/ OnDurable \/ UpdateConfig \/ TakeUpload \/ PutSegment \/ PutManifest
     \/ UploadFails \/ SendDurable \/ RetentionKick \/ RetentionKeeps
     \/ RetentionRewrites \/ RetentionDeletes \/ SendUploaderShutdown
     \/ UploaderShutdown \/ Recover
  /\ UNCHANGED clientVars

ClientsInit ==
  /\ Init
  /\ waiting = {} /\ told = {}
  /\ fetch = [c \in Consumers |-> Idle]
  /\ answer = [c \in Consumers |-> NoAnswer]

ClientsNext ==
  \/ \E n \in 1 .. MaxBatch : Produce(n)
  \/ CommitByTimeout
  \/ CommitByShutdown
  \/ CrashWithClients
  \/ Background
  \/ \E c \in Consumers : FetchStart(c)
  \/ \E c \in Consumers : Locate(c)
  \/ \E c \in Consumers : WriterGone(c)
  \/ \E c \in Consumers : Subscribe(c)
  \/ \E c \in Consumers : LongPollTimeout(c)
  \/ \E c \in Consumers : Relocate(c)
  \/ \E c \in Consumers : ReadActive(c)
  \/ \E c \in Consumers : GetManifest(c)
  \/ \E c \in Consumers : GetSegment(c)
  \/ \E c \in Consumers : GetFails(c)

ClientsSpec == ClientsInit /\ [][ClientsNext]_allVars

\* The fetch tasks, the long-poll timer and the group-commit timer run.  The
\* writer owes a Fetch no answer (Locate, Relocate, ReadActive): it may be
\* blocked in a send to the Uploader.  The partition's background owes the
\* clients nothing.
ClientsFairSpec ==
  /\ ClientsSpec
  /\ WF_allVars(CommitByTimeout)
  /\ \A c \in Consumers :
       WF_allVars(\/ WriterGone(c) \/ Subscribe(c) \/ LongPollTimeout(c)
                  \/ GetManifest(c) \/ GetSegment(c) \/ GetFails(c))

-----------------------------------------------------------------------------
(* Properties *)

\* The storage design: "There are no uncommitted reads".  A record that a
\* consumer was given survives every crash: it is in a WAL file, in an object
\* the manifest names, or was evicted.
DeliveredDurable ==
  \A c \in Consumers : answer[c].recs \subseteq InWal \cup Manifested \cup evicted

\* What the object store answers is what was asked for: without a gap from
\* the requested offset on, however many uploads, re-uploads and restarts
\* happened between the GET of the manifest and the GET of the segment.  With
\* retention the segments may overlap (ManifestNonOverlapping), and then not.
StoreAnswerExact ==
  \A c \in Consumers :
    LET a == answer[c]
    IN  a.tier = "store" =>
          Offs(a.recs) = a.from .. a.from + Cardinality(a.recs) - 1

\* Whatever offsets a producer is told, records with these offsets are acked
\* and in the log when the answer goes out.
ToldCommitted ==
  \A t \in told : t.toldBase .. t.toldLast \subseteq Offs(acked)

\* A Fetch is answered or cut off by a crash, if the writer answers the two
\* untimed messages it may send to it (RequestsAnswered of PartitionChannels
\* says when that is): the long poll ends by its timer, it resolves no third
\* time, and it comes to an end whatever the store answers.
FetchAnswered ==
  \A c \in Consumers :
    []<>(fetch[c].pc \notin {"locate", "relocate", "active"}) =>
      ((fetch[c].pc # "idle") ~> (fetch[c].pc = "idle"))

\* A Produce that joined the pending batch is acked, or dropped by a panic or
\* a crash: the group-commit timer sees to it.
ProduceAnswered == (waiting # {}) ~> (waiting = {})

\* wire protocol: base_offset is the "offset assigned to records[0]".
AcksTellAssigned == \A t \in told : t.toldBase = t.base

\* An answer that has records starts with the one asked for: a consumer that
\* goes on after the last record it got misses none.
FetchNeverSkips ==
  \A c \in Consumers :
    answer[c].recs # {} => answer[c].from \in Offs(answer[c].recs)
=============================================================================
