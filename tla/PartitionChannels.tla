-------------------------- MODULE PartitionChannels --------------------------
(***************************************************************************)
(* The bounded channels of one partition and the tasks that wait on them:  *)
(* request tasks and DeleteTopic send to the PartitionWriter, which sends  *)
(* sealed batches to the Uploader, which sends SegmentDurable to a         *)
(* forwarder, which sends them to the PartitionWriter.  Every task but the *)
(* retention sweeper waits when the channel it sends to is full.           *)
(*                                                                         *)
(* Abstractions.                                                           *)
(*  - A channel is one sequence.  Its first capacity entries are in the    *)
(*    channel; those behind belong to senders that wait, in the order in   *)
(*    which tokio's fair semaphore will admit them.                        *)
(*  - A channel whose receiver was dropped takes no message: every send    *)
(*    to it returns an error at once, which all senders here ignore.       *)
(*  - A segment is a number.  Whether a Produce reaches a threshold of the *)
(*    group commit, and a commit that of the segment, is a choice.         *)
(*  - An upload takes any time: the Uploader's retries, and what it does   *)
(*    to the store, are in PartitionLog.  Its retention pass is here only  *)
(*    for the manifest entries it takes from segments whose file is there. *)
(***************************************************************************)
EXTENDS Integers, Sequences, FiniteSets, SequencesExt

CONSTANTS PwCap, UploadCap, DurableCap, \* capacities: 256, 64 and 64
          MaxRequests,  \* bound: requests that reach the partition
          MaxBoots,     \* bound: restarts after a crash
          Environments  \* what a behaviour's environment may do: the number of
                        \* requests, their kinds and the other events

ASSUME CapsAssumption ==
  /\ PwCap \in Nat \ {0} /\ UploadCap \in Nat \ {0} /\ DurableCap \in Nat \ {0}
  /\ MaxRequests \in Nat /\ MaxBoots \in Nat
  /\ Environments \subseteq [requests : 0 .. MaxRequests,
                             kinds : SUBSET {"produce", "read"},
                             events : SUBSET {"alter", "delete", "kick", "crash", "evict"}]

VARIABLES
  \* the channels
  pwq,      \* to the PartitionWriter
  uq,       \* to the Uploader
  dq,       \* from the Uploader to the forwarder
  \* spawn_partition
  startup,  \* queueing the orphan it holds, or done
  orphans,  \* the orphan segments still to queue
  handle,   \* the partition's handle is in the map
  \* the tasks
  writer,   \* absent, idle, sealing (in its send), stopping or gone
  pending,  \* the Produces that wait for the group commit
  seg,      \* the active segment
  active,   \* it has records
  uploader, \* idle, uploading, reporting (in its send) or gone
  batch,    \* the segment it works on
  fwd,      \* absent, idle, sending or gone
  \* requests and administration
  reqs,     \* reqs[r]: new, sent, pending, answered or refused
  alter,    \* none, pw or up (in its send), done
  delete,   \* none, pw or up (in its send, or waiting for the ack), done, aborted
  late,     \* an ack of DeleteTopic timed out
  leaked,   \* DeleteTopic ended before its first message was in the channel
  \* disk and store
  wal,      \* the segments whose WAL file has records
  uploaded, \* those of them that have been uploaded
  evicted,  \* those of these whose entry the manifest has lost again
  \* the environment
  env,      \* what it may do in this behaviour
  boots     \* restarts so far

chanVars  == <<pwq, uq, dq>>
startVars == <<startup, orphans, handle>>
taskVars  == <<writer, pending, seg, active, uploader, batch, fwd>>
adminVars == <<alter, delete, late, leaked>>
storeVars == <<uploaded, evicted>>
diskVars  == <<wal, storeVars>>
vars      == <<chanVars, startVars, taskVars, reqs, adminVars, diskVars, env, boots>>

Requests == 1 .. MaxRequests
Segments == 1 .. MaxRequests + 1

-----------------------------------------------------------------------------
(* Channels *)

Msg(type, n) == [t |-> type, n |-> n]

\* The sender of m waits for a place.
Waits(q, cap, m) == \E i \in DOMAIN q : i > cap /\ q[i] = m

\* It gives up, and its message is taken back.
TakenBack(q, cap, m) == RemoveAt(q, CHOOSE i \in DOMAIN q : i > cap /\ q[i] = m)

\* The PartitionWriter's receiver exists before the task that polls it.
ToWriter(m) == pwq' = IF writer = "gone" THEN pwq ELSE Append(pwq, m)

ToUploader(m) == uq' = IF uploader = "gone" THEN uq ELSE Append(uq, m)

Numbers(q, type) == {q[i].n : i \in {j \in DOMAIN q : q[j].t = type}}

-----------------------------------------------------------------------------
(* Requests: Produce, and the Locate and ReadActive of Fetch *)

\* A request that resolved the handle sends its message.  It may have taken
\* its copy before DeleteTopic removed the handle from the map.
Submit(r, kind) ==
  /\ startup = "done" /\ reqs[r] = "new" /\ r <= env.requests /\ kind \in env.kinds
  /\ \A s \in Requests : s < r => reqs[s] # "new"
  /\ ToWriter(Msg(kind, r))
  /\ reqs' = [reqs EXCEPT ![r] = IF writer = "gone" THEN "refused" ELSE "sent"]
  /\ UNCHANGED <<uq, dq, startVars, taskVars, adminVars, diskVars, env, boots>>

\* A request that finds no handle is refused.
SubmitUnknown(r) ==
  /\ startup = "done" /\ reqs[r] = "new" /\ r <= env.requests /\ ~handle
  /\ \A s \in Requests : s < r => reqs[s] # "new"
  /\ reqs' = [reqs EXCEPT ![r] = "refused"]
  /\ UNCHANGED <<chanVars, startVars, taskVars, adminVars, diskVars, env, boots>>

Answered(rs) == [r \in Requests |-> IF r \in rs THEN "answered" ELSE reqs[r]]
Refused(rs)  == [r \in Requests |-> IF r \in rs THEN "refused" ELSE reqs[r]]

-----------------------------------------------------------------------------
(* PartitionWriter *)

WriterTakes(type) == writer = "idle" /\ pwq # <<>> /\ Head(pwq).t = type

\* flush_commit, the seal left out: fsync, then the acks.
Commit(rs) ==
  /\ reqs' = Answered(rs)
  /\ pending' = {}
  /\ wal' = wal \cup {seg}

\* seal_and_handoff up to its send; the file for the next segment follows.
SealAndHandoff(next) ==
  /\ active' = FALSE
  /\ seg' = seg + 1
  /\ ToUploader(Msg("upload", seg))
  /\ writer' = next

\* The rest of a commit of some records: the segment may be full.
MaySeal ==
  \/ /\ active' = TRUE
     /\ UNCHANGED <<writer, seg, uq>>
  \/ SealAndHandoff("sealing")

\* The Produce joins the pending ones, and reaches a threshold or does not.
OnProduce ==
  /\ WriterTakes("produce")
  /\ pwq' = Tail(pwq)
  /\ LET rs == pending \cup {Head(pwq).n}
     IN \/ /\ pending' = rs
           /\ reqs' = [reqs EXCEPT ![Head(pwq).n] = "pending"]
           /\ UNCHANGED <<wal, active, writer, seg, uq>>
        \/ Commit(rs) /\ MaySeal
  /\ UNCHANGED <<dq, startVars, uploader, batch, fwd, adminVars, storeVars, env, boots>>

\* Mutant: the timer is armed by the second Produce.
FlushTimer_SecondArrival ==
  /\ writer = "idle" /\ Cardinality(pending) > 1
  /\ Commit(pending) /\ MaySeal
  /\ UNCHANGED <<pwq, dq, startVars, uploader, batch, fwd, adminVars, storeVars, env, boots>>

\* The group commit's timer fires.
FlushTimer ==
  /\ writer = "idle" /\ pending # {}
  /\ Commit(pending) /\ MaySeal
  /\ UNCHANGED <<pwq, dq, startVars, uploader, batch, fwd, adminVars, storeVars, env, boots>>

\* The send of seal_and_handoff returns.
WriterResumes ==
  /\ writer = "sealing"
  /\ ~Waits(uq, UploadCap, Msg("upload", seg - 1))
  /\ writer' = "idle"
  /\ UNCHANGED <<chanVars, startVars, pending, seg, active, uploader, batch, fwd,
                 reqs, adminVars, diskVars, env, boots>>

\* Locate and ReadActive are answered from memory.
OnRead ==
  /\ WriterTakes("read")
  /\ pwq' = Tail(pwq)
  /\ reqs' = Answered({Head(pwq).n})
  /\ UNCHANGED <<uq, dq, startVars, taskVars, adminVars, diskVars, env, boots>>

\* on_durable: the segment's file is deleted.
OnDurable ==
  /\ WriterTakes("durable")
  /\ pwq' = Tail(pwq)
  /\ wal' = wal \ {Head(pwq).n}
  /\ uploaded' = uploaded \ {Head(pwq).n}
  /\ evicted' = evicted \ {Head(pwq).n}
  /\ UNCHANGED <<uq, dq, startVars, taskVars, reqs, adminVars, env, boots>>

OnUpdateConfig ==
  /\ WriterTakes("config")
  /\ pwq' = Tail(pwq)
  /\ UNCHANGED <<uq, dq, startVars, taskVars, reqs, adminVars, diskVars, env, boots>>

\* Shutdown: commit what is pending, seal what is active.
OnShutdown ==
  /\ WriterTakes("shutdown")
  /\ pwq' = Tail(pwq)
  /\ IF pending = {} THEN UNCHANGED <<reqs, pending, wal>> ELSE Commit(pending)
  /\ IF pending # {} \/ active
     THEN SealAndHandoff("stopping")
     ELSE writer' = "stopping" /\ UNCHANGED <<active, seg, uq>>
  /\ UNCHANGED <<dq, startVars, uploader, batch, fwd, adminVars, storeVars, env, boots>>

\* The send is done: ack and return.  The receiver goes with the task: the
\* messages in the channel and the senders that wait get an error.
WriterStops ==
  /\ writer = "stopping"
  /\ ~Waits(uq, UploadCap, Msg("upload", seg - 1))
  /\ writer' = "gone"
  /\ reqs' = Refused(Numbers(pwq, "produce") \cup Numbers(pwq, "read"))
  /\ pwq' = <<>>
  /\ UNCHANGED <<uq, dq, startVars, pending, seg, active, uploader, batch, fwd,
                 adminVars, diskVars, env, boots>>

-----------------------------------------------------------------------------
(* Uploader, forwarder and sweeper *)

\* Mutant: the Uploader is started after the orphans are queued.
UploaderTakes_AfterStart ==
  /\ uploader = "idle" /\ uq # <<>> /\ Head(uq).t = "upload"
  /\ startup = "done"
  /\ uq' = Tail(uq)
  /\ uploader' = "uploading"
  /\ batch' = Head(uq).n
  /\ UNCHANGED <<pwq, dq, startVars, writer, pending, seg, active, fwd, reqs,
                 adminVars, diskVars, env, boots>>

UploaderTakes ==
  /\ uploader = "idle" /\ uq # <<>> /\ Head(uq).t = "upload"
  /\ uq' = Tail(uq)
  /\ uploader' = "uploading"
  /\ batch' = Head(uq).n
  /\ UNCHANGED <<pwq, dq, startVars, writer, pending, seg, active, fwd, reqs,
                 adminVars, diskVars, env, boots>>

\* retention_pass takes the oldest entries from the manifest, if it takes any,
\* and never the newest: that is the last segment uploaded, or since a restart
\* maybe one that has no file.
RetentionPass ==
  \E old \in SUBSET uploaded :
    /\ \A s \in old, t \in uploaded : t < s => t \in old
    /\ old # {} => "evict" \in env.events
    /\ boots = 0 => batch \notin old
    /\ evicted' = evicted \cup old

\* A retention kick and a new configuration keep no one waiting.
UploaderSkips ==
  /\ uploader = "idle" /\ uq # <<>> /\ Head(uq).t \in {"kick", "config"}
  /\ uq' = Tail(uq)
  /\ IF Head(uq).t = "kick" THEN RetentionPass ELSE UNCHANGED evicted
  /\ UNCHANGED <<pwq, dq, startVars, taskVars, reqs, adminVars, wal, uploaded, env, boots>>

\* The segment and the manifest are in the store; SegmentDurable is sent.
UploadDone ==
  /\ uploader = "uploading"
  /\ uploaded' = uploaded \cup {batch}
  /\ dq' = Append(dq, Msg("durable", batch))
  /\ uploader' = "reporting"
  /\ UNCHANGED <<pwq, uq, startVars, writer, pending, seg, active, batch, fwd,
                 reqs, adminVars, wal, evicted, env, boots>>

\* The send returns; the retention pass follows.
UploaderResumes ==
  /\ uploader = "reporting"
  /\ ~Waits(dq, DurableCap, Msg("durable", batch))
  /\ uploader' = "idle"
  /\ RetentionPass
  /\ UNCHANGED <<chanVars, startVars, writer, pending, seg, active, batch, fwd,
                 reqs, adminVars, wal, uploaded, env, boots>>

\* Someone holds a sender of the Uploader's channel.
UploaderReachable ==
  \/ handle \/ writer # "gone" \/ delete \in {"pw", "up"} \/ alter \in {"pw", "up"}

\* Mutant: the Uploader ends on Shutdown only.
UploaderStops_OnShutdown ==
  /\ uploader = "idle"
  /\ uq # <<>> /\ Head(uq).t = "shutdown"
  /\ uploader' = "gone"
  /\ uq' = <<>>
  /\ UNCHANGED <<pwq, dq, startVars, writer, pending, seg, active, batch, fwd,
                 reqs, adminVars, diskVars, env, boots>>

\* Shutdown is acked, or the last sender is gone: the task ends.
UploaderStops ==
  /\ uploader = "idle"
  /\ \/ uq # <<>> /\ Head(uq).t = "shutdown"
     \/ uq = <<>> /\ ~UploaderReachable
  /\ uploader' = "gone"
  /\ uq' = <<>>
  /\ UNCHANGED <<pwq, dq, startVars, writer, pending, seg, active, batch, fwd,
                 reqs, adminVars, diskVars, env, boots>>

Forwards ==
  /\ fwd = "idle" /\ dq # <<>>
  /\ dq' = Tail(dq)
  /\ ToWriter(Head(dq))
  /\ fwd' = "sending"
  /\ batch' = batch
  /\ UNCHANGED <<uq, startVars, writer, pending, seg, active, uploader, reqs,
                 adminVars, diskVars, env, boots>>

\* The forwarder has at most one message in the part of pwq that waits.
ForwarderWaits == \E b \in Segments : Waits(pwq, PwCap, Msg("durable", b))

ForwarderResumes ==
  /\ fwd = "sending" /\ ~ForwarderWaits
  /\ fwd' = "idle"
  /\ UNCHANGED <<chanVars, startVars, writer, pending, seg, active, uploader,
                 batch, reqs, adminVars, diskVars, env, boots>>

ForwarderStops ==
  /\ fwd = "idle" /\ dq = <<>> /\ uploader = "gone"
  /\ fwd' = "gone"
  /\ UNCHANGED <<chanVars, startVars, writer, pending, seg, active, uploader,
                 batch, reqs, adminVars, diskVars, env, boots>>

\* Mutant: the sweeper waits for a place instead of dropping the kick.
SweeperKicks_Waits ==
  /\ "kick" \in env.events /\ handle /\ uploader # "gone"
  /\ uq' = Append(uq, Msg("kick", 0))
  /\ UNCHANGED <<pwq, dq, startVars, taskVars, reqs, adminVars, diskVars, env, boots>>

\* try_send: a full channel drops the kick.
SweeperKicks ==
  /\ "kick" \in env.events /\ handle /\ uploader # "gone" /\ Len(uq) < UploadCap
  /\ uq' = Append(uq, Msg("kick", 0))
  /\ UNCHANGED <<pwq, dq, startVars, taskVars, reqs, adminVars, diskVars, env, boots>>

-----------------------------------------------------------------------------
(* Start of the partition, and the crash before it *)

Increasing(s) == \A i, j \in DOMAIN s : i < j => s[i] < s[j]

\* Mutant: the segment that becomes the active one is queued too.
OrphansOf_Active(files) ==
  {s \in [1 .. Cardinality(files) -> files] : Increasing(s) /\ ToSet(s) = files}

\* The segments to upload again, sorted: all but the newest, which is the
\* active one.  The set has one element.
OrphansOf(files) ==
  LET sealed == {f \in files : \E g \in files : f < g}
  IN  {s \in [1 .. Cardinality(sealed) -> sealed] : Increasing(s) /\ ToSet(s) = sealed}

\* spawn_partition queues one orphan.
QueueOrphan ==
  /\ startup = "queueing" /\ orphans # <<>>
  /\ \A b \in Segments : ~Waits(uq, UploadCap, Msg("upload", b))
  /\ ToUploader(Msg("upload", Head(orphans)))
  /\ orphans' = Tail(orphans)
  /\ UNCHANGED <<pwq, dq, startup, handle, taskVars, reqs, adminVars, diskVars, env, boots>>

\* It starts the forwarder and the writer and publishes the handle.
StartTasks ==
  /\ startup = "queueing" /\ orphans = <<>>
  /\ \A b \in Segments : ~Waits(uq, UploadCap, Msg("upload", b))
  /\ startup' = "done"
  /\ handle' = TRUE
  /\ writer' = "idle"
  /\ fwd' = "idle"
  /\ UNCHANGED <<chanVars, orphans, pending, seg, active, uploader, batch, reqs,
                 adminVars, diskVars, env, boots>>

\* recover_partition deletes the files the manifest lists.  A file whose entry
\* was evicted counts as never uploaded.
FilesToRecover == wal \ (uploaded \ evicted)

\* The broker goes down and up again.  DeleteTopic takes the partition off the
\* registry before anything here, so after it there is nothing to recover.
CrashAndRecover ==
  /\ "crash" \in env.events /\ boots < MaxBoots /\ delete = "none"
  /\ boots' = boots + 1
  /\ LET files == FilesToRecover
     IN /\ wal' = files
        /\ uploaded' = {} /\ evicted' = {}
        /\ orphans' \in OrphansOf(files)
        /\ active' = (files # {})
        /\ seg' = IF files = {} THEN seg ELSE CHOOSE s \in files : \A f \in files : f <= s
  /\ startup' = "queueing" /\ handle' = FALSE
  /\ pwq' = <<>> /\ uq' = <<>> /\ dq' = <<>>
  /\ writer' = "absent" /\ fwd' = "absent" /\ uploader' = "idle"
  /\ pending' = {} /\ batch' = 0
  /\ reqs' = Refused({r \in Requests : reqs[r] \in {"sent", "pending"}})
  /\ alter' = IF alter = "none" THEN "none" ELSE "done"
  /\ UNCHANGED <<delete, late, leaked, env>>

-----------------------------------------------------------------------------
(* AlterTopicConfig and DeleteTopic *)

\* UpdateConfig goes to the writer, and to the Uploader once the first is sent.
AlterBegins ==
  /\ "alter" \in env.events /\ alter = "none" /\ handle
  /\ ToWriter(Msg("config", 0))
  /\ alter' = "pw"
  /\ UNCHANGED <<uq, dq, startVars, taskVars, reqs, delete, late, leaked, diskVars, env, boots>>

AlterProceeds ==
  /\ \/ /\ alter = "pw" /\ ~Waits(pwq, PwCap, Msg("config", 0))
        /\ ToUploader(Msg("config", 0))
        /\ alter' = "up"
     \/ /\ alter = "up" /\ ~Waits(uq, UploadCap, Msg("config", 0))
        /\ alter' = "done"
        /\ UNCHANGED uq
  /\ UNCHANGED <<pwq, dq, startVars, taskVars, reqs, delete, late, leaked, diskVars, env, boots>>

\* The handle leaves the map and the writer is sent Shutdown.
DeleteBegins ==
  /\ "delete" \in env.events /\ delete = "none" /\ handle
  /\ handle' = FALSE
  /\ ToWriter(Msg("shutdown", 0))
  /\ delete' = "pw"
  /\ UNCHANGED <<uq, dq, startup, orphans, taskVars, reqs, alter, late, leaked, diskVars, env, boots>>

\* Mutant: the Uploader is sent Shutdown without waiting for the writer's ack.
DeletePw_NoWait ==
  /\ delete = "pw"
  /\ ~Waits(pwq, PwCap, Msg("shutdown", 0))
  /\ late' = late
  /\ ToUploader(Msg("shutdown", 0))
  /\ delete' = "up"
  /\ UNCHANGED <<pwq, dq, startVars, taskVars, reqs, alter, leaked, diskVars, env, boots>>

\* The writer's ack, or ten seconds without it: the Uploader is sent Shutdown.
\* The timeout covers the ack, not the send.
DeletePw ==
  /\ delete = "pw"
  /\ \/ writer = "gone" /\ late' = late
     \/ writer # "gone" /\ ~Waits(pwq, PwCap, Msg("shutdown", 0)) /\ late' = TRUE
  /\ ToUploader(Msg("shutdown", 0))
  /\ delete' = "up"
  /\ UNCHANGED <<pwq, dq, startVars, taskVars, reqs, alter, leaked, diskVars, env, boots>>

\* The Uploader's ack, or ten seconds without it.
DeleteUp ==
  /\ delete = "up"
  /\ \/ uploader = "gone" /\ late' = late
     \/ uploader # "gone" /\ ~Waits(uq, UploadCap, Msg("shutdown", 0)) /\ late' = TRUE
  /\ delete' = "done"
  /\ UNCHANGED <<chanVars, startVars, taskVars, reqs, alter, leaked, diskVars, env, boots>>

\* The connection that asked ends and its tasks are aborted: a send that still
\* waits is taken back.
DeleteAborted ==
  /\ delete \in {"pw", "up"}
  /\ leaked' = (delete = "pw" /\ Waits(pwq, PwCap, Msg("shutdown", 0)))
  /\ pwq' = IF leaked' THEN TakenBack(pwq, PwCap, Msg("shutdown", 0)) ELSE pwq
  /\ uq' = IF Waits(uq, UploadCap, Msg("shutdown", 0))
           THEN TakenBack(uq, UploadCap, Msg("shutdown", 0)) ELSE uq
  /\ delete' = "aborted"
  /\ UNCHANGED <<dq, startVars, taskVars, reqs, alter, late, diskVars, env, boots>>

-----------------------------------------------------------------------------
Init ==
  /\ pwq = <<>> /\ uq = <<>> /\ dq = <<>>
  /\ startup = "queueing" /\ orphans = <<>> /\ handle = FALSE
  /\ writer = "absent" /\ pending = {} /\ seg = 1 /\ active = FALSE
  /\ uploader = "idle" /\ batch = 0 /\ fwd = "absent"
  /\ reqs = [r \in Requests |-> "new"]
  /\ alter = "none" /\ delete = "none" /\ late = FALSE /\ leaked = FALSE
  /\ wal = {} /\ uploaded = {} /\ evicted = {} /\ boots = 0
  /\ env \in Environments

WriterNext ==
  \/ OnProduce \/ FlushTimer \/ WriterResumes \/ OnRead \/ OnDurable
  \/ OnUpdateConfig \/ OnShutdown \/ WriterStops

UploaderNext ==
  UploaderTakes \/ UploaderSkips \/ UploadDone \/ UploaderResumes \/ UploaderStops

ForwarderNext == Forwards \/ ForwarderResumes \/ ForwarderStops

StartupNext == QueueOrphan \/ StartTasks

\* The handler's own steps, its timeouts included.
AdminNext == AlterProceeds \/ DeletePw \/ DeleteUp

Next ==
  \/ \E r \in Requests, k \in {"produce", "read"} : Submit(r, k)
  \/ \E r \in Requests : SubmitUnknown(r)
  \/ WriterNext \/ UploaderNext \/ ForwarderNext \/ StartupNext \/ AdminNext
  \/ SweeperKicks
  \/ AlterBegins \/ DeleteBegins \/ DeleteAborted
  \/ CrashAndRecover

Spec == Init /\ [][Next]_vars

\* The runtime polls every task that can go on, a timer fires, and the store
\* does not fail an upload for ever.  Requests, kicks, administration, aborts
\* and crashes need never happen.
Fairness ==
  /\ WF_vars(WriterNext) /\ WF_vars(FlushTimer)
  /\ WF_vars(UploaderNext) /\ WF_vars(ForwarderNext)
  /\ WF_vars(StartupNext) /\ WF_vars(AdminNext)

FairSpec == Spec /\ Fairness

-----------------------------------------------------------------------------
(* Properties *)

Message == [t : {"produce", "read", "durable", "config", "shutdown", "upload", "kick"},
            n : 0 .. MaxRequests + 1]

\* Every variable has its type; in particular each queue is as long as its
\* capacity and the senders that can wait on it allow.
TypeOK ==
  /\ pwq \in Seq(Message) /\ uq \in Seq(Message) /\ dq \in Seq(Message)
  /\ Len(dq) <= DurableCap + 1
  /\ Len(uq) <= UploadCap + 3
  /\ startup \in {"queueing", "done"} /\ handle \in BOOLEAN
  /\ orphans \in Seq(Segments)
  /\ writer \in {"absent", "idle", "sealing", "stopping", "gone"}
  /\ pending \subseteq Requests /\ active \in BOOLEAN
  /\ seg \in Segments
  /\ uploader \in {"idle", "uploading", "reporting", "gone"}
  /\ batch \in 0 .. MaxRequests + 1
  /\ fwd \in {"absent", "idle", "sending", "gone"}
  /\ reqs \in [Requests -> {"new", "sent", "pending", "answered", "refused"}]
  /\ alter \in {"none", "pw", "up", "done"}
  /\ delete \in {"none", "pw", "up", "done", "aborted"}
  /\ late \in BOOLEAN /\ leaked \in BOOLEAN
  /\ wal \subseteq Segments /\ uploaded \subseteq wal /\ evicted \subseteq uploaded
  /\ env \in Environments /\ boots \in 0 .. MaxBoots

InOrder(q, type) ==
  \A i, j \in DOMAIN q : i < j /\ q[i].t = type /\ q[j].t = type => q[i].n < q[j].n

\* The segments on their way round by how far they are, the ones nearest to
\* their end first: reported to the writer, reported by the Uploader, with the
\* Uploader, queued for it, and not queued yet.
Ring ==
  <<Numbers(pwq, "durable"), Numbers(dq, "durable"),
    IF uploader = "uploading" THEN {batch} ELSE {},
    Numbers(uq, "upload"), ToSet(orphans)>>

\* The sealed segments whose file is on disk are on their way round, each once
\* and in the order of sealing, and none is missing as long as the writer and
\* the Uploader run: full channels, waiting senders, a crash, the second
\* queueing of the orphans and a DeleteTopic that is aborted or late lose none
\* before a task ends, double none and let none overtake another.
RingOrdered ==
  /\ InOrder(pwq, "durable") /\ InOrder(dq, "durable") /\ InOrder(uq, "upload")
  /\ Increasing(orphans)
  /\ \A i, j \in 1 .. 5 : i < j => \A x \in Ring[i], y \in Ring[j] : x < y
  /\ LET sealed == wal \ (IF active THEN {seg} ELSE {})
         ring   == UNION {Ring[i] : i \in 1 .. 5}
     IN  ring \subseteq sealed /\ (writer # "gone" /\ uploader # "gone" => ring = sealed)

\* What the comments on DeleteTopic and on the Uploader's Shutdown promise:
\* when both acks came in time, the tasks are gone and every record that was
\* committed is in a segment that was uploaded.
DeleteQuiesces ==
  delete = "done" /\ ~late =>
    writer = "gone" /\ uploader = "gone" /\ wal = uploaded

\* The circular wait: the writer waits for the Uploader, the Uploader for the
\* forwarder and the forwarder for the writer.
RingStuck ==
  /\ writer \in {"sealing", "stopping"} /\ Waits(uq, UploadCap, Msg("upload", seg - 1))
  /\ uploader = "reporting" /\ Waits(dq, DurableCap, Msg("durable", batch))
  /\ fwd = "sending" /\ ForwarderWaits

\* A request whose message was sent gets its answer, or an error when the
\* writer ends; the one thing that prevents it is the circular wait.
RequestsAnswered ==
  \A r \in Requests :
    (reqs[r] = "sent") ~> (reqs[r] \in {"answered", "refused"} \/ RingStuck)

\* The orphans fit into the Uploader's channel, the Uploader's hands and the
\* channel of its reports.
OrphansFit ==
  Len(orphans) + Len(uq) + Len(dq) + (IF uploader = "uploading" THEN 1 ELSE 0)
    <= UploadCap + DurableCap + 1

\* A partition comes up, although its orphans are queued before anyone takes
\* what the Uploader reports: without retention a crash cannot leave more of
\* them than the channels and the Uploader take in.  With retention it can: a
\* file whose entry was evicted before its SegmentDurable came round is an
\* orphan again, and the partition comes up if they fit.
StartupCompletes ==
  (startup = "queueing" /\ ("evict" \notin env.events \/ OrphansFit)) ~> (startup = "done")

\* After DeleteTopic all three tasks end, also when an ack timed out or the
\* request was aborted on the way; not when the abort came before Shutdown was
\* in the writer's channel (then the tasks keep each other's channels open),
\* nor in the circular wait.
DeletedTasksEnd ==
  (delete # "none") ~>
    (leaked \/ RingStuck \/ (writer = "gone" /\ uploader = "gone" /\ fwd = "gone"))

\* What the documents say without exception: a Produce that was submitted to
\* the partition writer completes.
SubmittedCompletes ==
  \A r \in Requests : (reqs[r] = "sent") ~> (reqs[r] \in {"answered", "refused"})
==============================================================================
