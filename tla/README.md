# kafkrs: a TLA+ model of the broker

kafkrs is a single-node, Kafka-like broker written in Rust on tokio. This
directory models the parts of it that carry its promises - a record whose
producer was acknowledged is never lost, offsets are assigned once, consumers
read only durable records - checks them with TLC on small instances, and proves
the safety properties with TLAPS for every instance.

Paths below are relative to `src/kafkrs-server/src/` unless they start with
`models/` (`src/kafkrs-models/src/`) or `python/` (`src/kafkrs-python/kafkrs/`).

## 1. Inventory

| part | state it keeps | operations | talks to |
|---|---|---|---|
| PartitionWriter (`partition_writer.rs`) | next offset, pending batch and its acks, active segment, in-flight segments, open WAL file, topic config | Produce, group-commit timer, SegmentDurable, UpdateConfig, Shutdown, Locate, ReadActive | Uploader (sealed batches), tail broadcast, WAL |
| WAL (`wal_writer.rs`, `models/wal.rs`) | one file `<base>.wal` per unsealed or not yet durable segment | append + fsync, remove, scan | disk |
| Uploader (`uploader.rs`, `segment.rs`) | its queue, the batch at work | segment PUT, manifest GET/PUT, retry, SegmentDurable, retention pass, Shutdown | object store, forwarder to the writer |
| Manifest (`models/manifest.rs`) | ordered segment entries | insert, last uploaded offset, segment for offset | object store |
| Retention (`retention.rs`, `retention_sweeper.rs`) | clock | kick every partition, decide which segments go | Uploader |
| Recovery and start (`recovery.rs`, `startup.rs`) | none of its own | rebuild writer and uploader from disk and manifest, spawn the tasks once | disk, object store, partition map |
| Produce path (`wire/dispatch/produce.rs`) | none | auto-create the topic, split by partition, wait for the ack | registry, writer |
| Fetch path (`fetcher.rs`, `wire/dispatch/fetch.rs`) | one task per request | locate, long poll, read memory or store | writer, tail broadcast, object store |
| Topic registry (`topic_registry.rs`) | topics, `topics.json` | create, ensure, delete, alter, snapshot - one actor, one message at a time | disk, object store (first manifests) |
| Topic administration (`wire/dispatch/topic_admin.rs`, `mod.rs`) | partition map, uploader map, spawn locks, pending-delete set | CreateTopic, DeleteTopic, AlterTopicConfig, Describe, List | registry, writers, uploaders, sweep |
| Deferred deletion (`deletion.rs`, `pending_deletes.rs`) | `pending_deletes.json` | append, sweep, remove | object store, disk |
| Channels of a partition (`startup.rs`, `uploader.rs`, `partition_writer.rs`) | three bounded queues, 256, 64 and 64, and the senders that wait on them | blocking sends, the sweeper's `try_send`, the forwarder | writer, Uploader, request tasks |
| Connection (`wire/connection.rs`, `wire/frame.rs`) | reader, dispatcher, writer and request tasks, two bounded channels, abort handles by correlation id | handshake, dispatch, teardown | socket, all request handlers |
| Python client (`python/client.py`) | stream, lock, next correlation id | connect, one round trip per call, close; calls may be cancelled | one connection |
| Topic configuration (`models/topic.rs`, `models/config.rs`) | none | validate, merge, resolve | registry, request handlers |
| Process (`main.rs`, `broker_identity.rs`) | `broker_id` | resolve the identity, load the registry, start partitions, resume sweeps | everything |

How they interact. A client request runs as a task of its connection. A Produce
sends one message to the PartitionWriter of its partition and waits for the
oneshot ack. The writer assigns offsets, collects a group, appends it to the WAL,
fsyncs, acks, and moves the records to the active segment; a full segment is
sealed, sent to the Uploader and a new WAL file is opened. The Uploader PUTs the
segment, then the manifest that names it, then tells the writer (through a
forwarder task) that the segment is durable; only then is the WAL file removed.
Retention runs inside the Uploader: it rewrites the manifest, then deletes the
objects. A crash loses everything in memory; recovery reads the manifest and the
WAL files and rebuilds the partition.

What is hard. The order of WAL, ack, segment, manifest and WAL removal, with a
crash between any two; store calls that take effect and still fail; a failed
fsync with a surviving prefix; retention interleaving with re-uploads; Fetches
that ask the writer twice and the store twice while segments are sealed,
uploaded and evicted in between; several Produces sharing one commit; topics
that are created, deleted, altered and auto-created at the same time, with a
directory on disk that is named after the topic only; a crash in the middle of
any of these; bounded channels between tasks that send to each other. The full
list, each at its line, is under `hazards` in `PROJECT.json`.

What makes each part correct.

* writer, WAL, uploader, recovery: acked records survive; no offset is assigned
  twice; the manifest tiles the log and names only objects that exist; sealed
  segments reach the manifest; a deletion settles what was acked.
* clients: an answer contains only durable records, without a gap; what a
  producer is told is committed; everyone is answered.
* topics: a listed topic can be started again after any crash; one writer per
  partition; data of a deleted topic goes away in the end and takes nothing else
  with it; the configuration in force is one that the replies allow.
* channels: nobody waits for ever but in one known circle; no sealed segment is lost, doubled or
  overtaken on its way round; a deleted partition leaves no task behind.
* connections: the handshake comes first, a request is answered once, after a
  disconnect nothing goes on, a call returns its own answer.
* data directory: the broker keeps its identity and its configuration over any
  crash, starts on the files of every request it answered, and reads back what it
  wrote.

## 2. Modules and how they correspond to the code

| module | models | state and actions |
|---|---|---|
| `PartitionLog` | one partition: `partition_writer.rs`, `wal_writer.rs`, `uploader.rs`, `models/manifest.rs`, the retention pass, `recovery.rs` with the state `startup.rs` builds | WAL files, objects and manifest as sets of records; the writer's fields; the Uploader's queue, its batch and its position between two store calls. One action per message of the writer (`OnProduce`, `OnDurable`, `UpdateConfig`, `Shutdown`), one for the group-commit timer, one per store call of the Uploader, the two halves of its shutdown (`SendUploaderShutdown`, which may come early, and `UploaderShutdown`), `Crash` and `Recover` |
| `CommitLog` | nothing in the code: the abstract specification of a partition, an append-only log with acks | `Commit` |
| `PartitionClients` | `produce.rs` (`commit_records`), `fetcher.rs`, `wire/dispatch/fetch.rs`, `segment_for_offset` | extends `PartitionLog`: the Produces waiting in `pending_acks`, what they are told, and one Fetch per consumer with a step for every message and every GET |
| `TopicLifecycle` | `topic_registry.rs`, `wire/dispatch/topic_admin.rs`, the lock table of `startup.rs`, auto-creation in `produce.rs`, `deletion.rs`, `pending_deletes.rs`, the boot order of `main.rs`, the abort of requests in `wire/connection.rs` | `topics.json`, the WAL directory, `pending_deletes.json`, the store by incarnation, the registry's memory, the partition map, spawn locks, tasks, requests and sweeps; a step for every await |
| `PartitionChannels` | the channels `startup.rs` makes, with the senders in `produce.rs`, `fetcher.rs`, `partition_writer.rs`, `uploader.rs`, `retention_sweeper.rs`, `topic_admin.rs` | one sequence per channel: its first *capacity* entries are in the channel, those behind are senders that wait; one position per task. A blocking send is two actions: the message joins the queue, and the sender goes on once it has a place |
| `Connection` | `wire/connection.rs`, `wire/frame.rs`, `wire/errors.rs`, `lifecycle.rs` | one connection: socket, reader, request channel, dispatcher, request tasks and their abort handles, response channel, writer; the peer is any client |
| `WireClient` | `python/client.py` | extends `Connection`: calls of coroutines that share a Client, its lock, both reads of a round trip, cancellation and close |
| `RecordCodec` | slicing in `produce.rs` and `client.py`, `models/wal.rs` | operators: metas and payload of a list of records and back; the frame of a record, decoding, the scan of a file |
| `TopicConfig` | `models/topic.rs`, the profiles of `models/config.rs`, the merge in `topic_registry.rs` | operators: validation, merge, resolution of overrides |
| `BrokerFiles` | `broker_identity.rs`, the boot in `main.rs`, `TopicRegistry::load`, `create` and `alter`, `handle_create_topic` and `handle_alter_topic_config`, `recover_wal_file`, limits and slicing of a Produce | uses the two modules above: `broker_id`, `topics.json` and a WAL file, what of each is on disk, the first manifests, the running broker; a step for each write, sync and rename of the identity, for each stretch between two awaits of CreateTopic (`CreateSaves`, `CreatePuts`, `CreateFails`, `CreateStarts`) and AlterTopicConfig (`AlterSaves`, `AlterPushes`, `AlterAborted`), and crashes |
| `PartitionLogProofs`, `PartitionOrderProofs` | | theorems about `PartitionLog`: types and durability; order, offsets, manifest and the refinement of `CommitLog` |
| `PartitionClientsProofs`, `PartitionChannelsProofs`, `TopicLifecycleProofs`, `BrokerFilesProofs`, `WireClientProofs` | | theorems about the module of that name (and the ones it extends) |
| `NaturalFacts` | | lemmas the proofs share: smallest and largest elements, induction over a set of naturals |
| `MC...` | | instances for TLC |

`map` in `PROJECT.json` gives the lines of every definition. Definitions whose
name has the form `Action_What` are mutants: the action as a plausible bug would
have it. Each is used to see that a property notices the bug, and by nothing else.

What is abstracted.

* `PartitionLog`: a record is its offset and the boot that assigned it, and has
  size 1. Channels are unbounded (`PartitionChannels` has their bounds). The Uploader's GET and PUT of the manifest are
  one step, because it alone writes the manifest of a partition. Retention picks
  any prefix of the manifest without its tail, which is what
  `evaluate_eviction` may return for some clock and sizes. A failing WAL append
  leaves any prefix of its batch; a failing store call may have taken effect. The
  Uploader's Shutdown is sent at any time, as after a panic or ten seconds
  (`closing`); a batch sealed behind it is lost with the channel.
* `PartitionClients`: an answer is a set of records with its watermark; size
  limits and the layout of payloads are in `BrokerFiles` and `RecordCodec`.
* `TopicLifecycle`: one topic name with one partition - the code's loops do the
  same for each - and one more action for what other topics do to
  `topics.json`. A uuid is the number of an incarnation. A record is the
  incarnation that acked it. A configuration is the number of patches merged
  into it. Sealing and uploading are one step, as `PartitionLog` has them in
  detail. A step that waits for a writer or an Uploader may never come. A write
  of `pending_deletes.json` whose task was aborted goes on without the lock
  (`strays`) and lands between the others' writes or under their rename; a
  mixture of the bytes of two writes is left out.
* `PartitionChannels`: a segment is a number; whether a Produce commits its group
  and a commit seals is a choice, which thresholds in bytes and records allow. An
  upload takes any time. Retention takes any of the oldest uploaded segments off
  the manifest, never the newest. `Environments` says what the world of a
  behaviour may do (how many requests, of which kinds, and which of
  AlterTopicConfig, DeleteTopic, retention kicks, evictions and a crash), so that one run asks about several
  small worlds instead of one that is too large.
* `Connection`: a frame is a correlation id and a kind, a handler is a task that
  may end or not; the other modules have what it does. An aborted task may
  finish its current poll first, as tokio's may.
* `WireClient`: a call reads a length and then the rest; a call cancelled
  between the two leaves the stream inside a frame, and what is read from there
  is not modelled further (`synced`).
* `RecordCodec`: a byte string is a sequence. Only `key_len` loses something in
  its encoding, so it wraps at `KeyLenMod` (2^16 in the code, 2 in the run).
* `BrokerFiles`: one topic, one partition, one segment, one administrative request
  at a time (`TopicLifecycle` has their races). `told` is what the replies leave
  possible: an answered request leaves one outcome of it, one that was cut short
  or failed leaves two. A process that dies
  leaves what it wrote. A power loss may also undo a rename that the directory
  has not kept, and leaves any prefix of what was not synced, torn or whole.
* Nowhere modelled: a PUT of a crashed process that arrives after the restart,
  records of zero bytes.

## 3. Runs

Runs that pass:

| run | instance | what it shows |
|---|---|---|
| `log_safety` | 6 offsets, two configurations that change live, two restarts, no retention | offsets are never reused, the manifest tiles the uploaded log, a Shutdown that follows the writer's ack leaves nothing acked behind, and the partition implements `CommitLog` |
| `log_retention` | 5 offsets, two restarts, retention, fairness | no acked record is lost but to eviction; the manifest never names a missing object; its tail never moves back; a sealed segment reaches the manifest however often the store fails, as long as the Uploader can report what it uploaded and is not told to stop |
| `clients` | 3 offsets, one restart, retention, one consumer, fairness | consumers get durable records only; producers are told committed offsets; a Produce in the group is answered, and a Fetch is if the writer answers its messages |
| `store_reads` | 3 offsets, one restart, a segment per Produce, no retention, one consumer | a Fetch that reads the object store, in two GETs between uploads and re-uploads, gets the records from its offset on without a gap |
| `topics` | 2 requests at a time, 3 incarnations, one patch, two restarts, disconnects | registry and file agree, deletions are neither undone nor forgotten, sweeps spare the live incarnation and complete their own, no panic, abort or restart leaves a lock taken |
| `connection` | one connection, channels and socket of capacity 1; a peer that sends 3 frames of the 10 kinds, or a Python client with 3 calls and one cancellation; fairness | Connected goes out first, no id gets two answers or errors, teardown reaches all tasks, a call gets its own answer; the connection ends after its peer, and calls end when the handlers do |
| `channels` | capacities 1, of the writer's mailbox 2; six environments with up to 7 requests, evictions and one crash; fairness | segments go round once and in order; a start completes if its orphans fit, which they do without evictions; a DeleteTopic that was acked has settled everything and its tasks end; requests are answered but in the circular wait |
| `files` | 3 boots with any of 3 `config.toml`, batches of one and two records, four overrides, two of them invalid, CreateTopic and AlterTopicConfig cut short at every await, crashes and power losses | the identity is kept; what is stored and runs is a configuration the replies allow; the broker starts on its own files, but for those of a CreateTopic that was not answered with success; acked records come back byte for byte; nothing is made up |

Runs that show where the code and its own documents disagree (quotes in
`findings`):

| run | what happens |
|---|---|
| `produce_offsets` | two Produces in one group commit are both told the offsets of the last |
| `fetch_skips` | a seal between the two messages of a Fetch makes it answer with later records and skip acked ones |
| `topics_boot` | a crash in the middle of CreateTopic leaves an entry that ends every later start |
| `channels_ring` | writer, Uploader and forwarder each wait for a place in the next one's channel, and the partition answers no one any more |

Known differences that the modules have and no run shows. Each is why a property
above is stated with a condition.

* Retention evicts a segment whose WAL file is not removed yet; after a crash
  the file is taken for the active segment and grows into an entry that overlaps
  its successors (TLC shows it with `ManifestNonOverlapping` on 6 offsets, one
  restart and retention; so `ManifestTiles`, `OffsetsUnique` and `StoreAnswerExact`
  are claimed without it). `models/manifest.rs:34` calls the list
  "offset-sorted, non-overlapping".
* The next WAL file cannot be opened after a seal; the writer goes on in the
  sealed file, which is removed when that segment is durable (`AckedDurable`
  with `OpenMayFail`; the runs and the proof are without).
* DeleteTopic sends the Uploader its Shutdown also when the writer panicked or did
  not ack within ten seconds; batches the writer seals behind it are dropped with
  the channel, although `topic_admin.rs:237` takes the final batch for enqueued
  (`ShutdownDrained` excepts it: `closing = "late"`). The deletion wipes the data
  anyway, unless it detaches.
* A DeleteTopic whose client disconnects in the rewrite of `pending_deletes.json`
  releases `FILE_LOCK` while a blocking thread still writes or renames. That write
  may replace a later one, and the entry of another deletion that was answered is
  gone (`lost`, excepted in `DeletionNotForgotten`). TLC shows it with one client
  and three starts; two starts, which `topics` has, are one too few.
* With retention a segment whose entry was evicted before its SegmentDurable came
  round has a WAL file that no entry covers, and recovery takes it for an orphan;
  so does a file whose removal failed. More orphans than the Uploader's channel,
  the Uploader and the channel of its reports take in block the start of the
  partition, because the forwarder starts after them (`OrphansFit`; TLC shows it
  with six Produces and capacities 2, 1 and 1).
* Until CreateTopic has PUT the manifest, a crash or an error leaves the entry in
  `topics.json`, and every later boot panics (`topics_boot`; `BootsOnOwnFiles`
  allows that refusal as long as no CreateTopic was answered).
* An AlterTopicConfig that is cut short after the write of `topics.json` is in the
  registry and comes into force at the next restart; the running partition keeps
  the former configuration (`told` has both). The alter-topic-config design says so
  for a crash.
* A topic that is detached and created again starts with the records of its
  former incarnation, because the WAL directory is named by topic only
  (`IncarnationsDisjoint`; so `LiveTopicStored` speaks of the object store).
  `src/README.md:33` promises disjoint storage.
* AlterTopicConfig while a partition starts is answered with success and does
  not reach the writer (`ConfigServed`); the comment at `topic_admin.rs:395`
  says it starts correct.
* A key longer than 65535 bytes, which an override of `max_key_size_bytes`
  admits, is acked and read until the next start, whose scan stops there and
  cuts off every record behind it (`AckedComeBack` excepts it).
* A rename is not followed by a sync of its directory, so a power loss may undo
  a new identity, a new topic or an alteration that was answered (`undone`).
* Frames that a killed process had written and not synced are served after the
  restart before they are on disk.
* A call of the Python client that is cancelled in its round trip leaves its
  response in the stream, and the next call takes it for its own (`cut`); a
  request whose handler panics is never answered.
* The dispatcher that has left its loop waits for a reader that may be waiting
  for a place in the dispatcher's channel (`ReaderStuck`): 256 requests behind
  an error keep a connection open.
* A correlation id used twice at once loses the first abort handle, so teardown
  does not reach that task (`reused`).
* A DeleteTopic whose client disconnects while the writer's channel is full
  leaves writer, Uploader and forwarder running without a handle (`leaked`).
* `segment_seal_time_ms` is never read, so the records of an idle partition stay
  out of the object store although the storage design bounds their freshness.
* A Fetch of a sealed segment that is not uploaded yet gets no record:
  `in_flight_slice` is never called.
* A CreateTopic between the registry's part of a DeleteTopic and its removal of
  the handle starts nothing and leaves a listed topic without a partition until
  the next restart, as does one whose client disconnects before the start.
* A crash or a disconnect between the registry's part of a DeleteTopic and the
  entry in `pending_deletes.json` leaves data no sweep finds; a failed delete of
  the sweep's LIST phase is logged and skipped (`deletion.rs:100`).

Bounds, and why they are enough. In the configurations of the runs a segment
seals at 2 or 3 records and a Produce has at most 2, so 5 or 6 offsets give three
segments: one uploaded, one with the Uploader, one active, which is what
recovery, retention (it keeps the tail) and the overlap need. Two restarts allow
a crash during the work that a first recovery left. The invariants of
`log_retention` and its action property also held on 7 offsets (5.0 million
states), which is more than its liveness property can be checked on. 3 offsets are two segments
for a Fetch to meet, one sealed by size and one by Shutdown; sealed at
every Produce they are up to three segments of one or two records, between which
a Fetch of the store has to pick. In `TopicLifecycle`
two requests are what any lock or race in the code is about; three initial
states (an empty directory, a topic with unsealed records, a second incarnation
beside the pending deletion of the first) spare the run the requests that lead
there, and the third incarnation is the one a run creates beside both. With a
capacity of one a channel of `Connection` is full as soon as it has one message,
so three frames meet every combination of full channels. In `PartitionChannels`
the writer's mailbox holds two, so that SegmentDurables of evicted segments can
wait in it; seven is then the least number of sealing Produces for the circular
wait (one per place, one with each of the three tasks), five are enough for a
crash to leave as many orphans as it can without evictions, and six for more than
fit with them. In `files` a third boot follows a crash during or after the
second, three frames are a batch of two beside a record of an earlier boot, and
two administrative requests are a create and an alteration, or a create that
failed and another; the properties also held with three (8.4 million states).
The request tasks are
symmetric; no run with a temporal property uses symmetry. Deadlock is not
checked: a partition whose offsets are used up, and a broker that no one sends a
request, may stop.

Fairness. `PartitionLog!Fairness`: the tasks of a live broker run (weak fairness
of the timer, the messages and the recovery); a store call that is retried for
ever succeeds if it can succeed again and again (strong fairness of the PUTs,
which the `loop` in `uploader.rs` with its 500 ms sleep justifies); the queue of
the Uploader is first in first out, so a retention kick cannot overtake batches
for ever (strong fairness of `TakeUpload`). Producers, operators, crashes and
failures owe nothing. Nothing makes the
report of an upload find a place in its channel: `SealedReachesManifest` is claimed
for behaviours in which the Uploader does not stay in that send. `ClientsFairSpec`
needs less: the request tasks and the timers run, the background of the partition
owes them nothing, and the writer need not answer a Fetch: `FetchAnswered` is
claimed for behaviours in which a Fetch does not wait for it for ever. `PartitionChannels` and
`WireClient` have weak fairness of each task (tokio polls a task that can go on),
of timers and timeouts, and of the coroutines of a Python client; an upload ends
some time, as its retries do. `FlushTimer` has a condition of its own, since
messages and timer compete in one `select!` that picks at random. A handler
need not return, since it may wait for the writer of its partition without a
timeout: `CallsReturn` is claimed for behaviours in which all do. No peer has to
send, read or close. `TopicLifecycle` assumes no fairness: a request may stop at
any await, and `LocksReleased` says what it may not leave behind.

## 4. Proofs

Each theorem holds for every value of the constants that satisfies the module's
assumptions: any bounds, capacities, configurations and numbers of requests,
calls, boots and crashes. `theorems` in `PROJECT.json` lists them; together they
state 32 properties of the runs. None of the properties is inductive. The
inductive invariants below were checked by TLC on the instances of the runs
before they were proved, and are built in layers, so that the proof of one may
use those below it.

### One partition: `PartitionLogProofs`, `PartitionOrderProofs`

`TypeCorrect` proves `TypeOK`; its invariant `TypeInv` adds that a broker that is
down has nothing in memory and a restart left to it.

`NoAckedRecordLost` proves `AckedDurable` if `~OpenMayFail`. That a WAL file may be
removed depends on where its segment is between writer, Uploader and manifest.
`DurabilityInv` follows a segment along that way:

* `FilesOK`: a WAL file is named after its first record - recovery identifies
  files and entries by their base;
* `WriterOK`: the running writer has a linked file of its own, equal to its
  active segment, above everything stored - so an append cannot touch a segment
  that is sealed or stored;
* `WorkOK`: a segment in the queue or with the Uploader is exactly its WAL file,
  and no two share a base;
* `UploaderOK`: from the segment PUT on the object is the batch, the manifest
  names it before SegmentDurable is sent, and retention deletes only what the
  manifest no longer names;
* `CoverOK`: an object the manifest names has all its WAL file still has - so
  recovery may drop a covered file;
* `DurableOK`: a SegmentDurable message is about a segment that is stored or
  evicted - so the writer may remove its file.

`PartitionOrderProofs` reduces every step to one of eight moves (`StepMoves`) and
shows that each of four layers survives each move: `SpanInv` (segments and
entries tell their first and last offset right, a base has one entry), `DrainInv`
(what each WAL file is still there for, and that a stopped Uploader has left
nothing undone), `FreshInv` (the files above the manifest follow one another and
its tail) and `OrderInv` (uploads in order, one record per offset, no gap).

* With `~OpenMayFail`: `EntriesBacked` (`ManifestBacked`), `NothingLeftBehind`
  (`ShutdownDrained`) and the action property `TailNeverMovesBack`
  (`LastUploadedNeverRegresses`).
* With `~OpenMayFail` and `~RetentionEnabled`: `OffsetsNeverReused`
  (`OffsetsUnique`), `UploadedLogTiled` (`ManifestTiles`), and
  `PartitionIsCommitLog`: the initial states map to initial states of
  `CommitLog` and every move is a `Commit` or a stutter.

The two conditions are the two defects of section 3 that these properties meet,
the failing open and the overlap.
With `OpenMayFail` the conjunct `wal[walBase] = active` of `WriterOK` breaks. With
retention a file whose removal failed and whose entry was evicted is recovered as
the active segment; `FreshInv` leaves such a file out, which is why the first
three theorems hold with retention, and `OrderInv` cannot.

### Producers and consumers: `PartitionClientsProofs`

`ClientsOnlyWatch`: a step of the clients is a step of `PartitionLog` or leaves the
partition alone, so all of the above holds with clients, for any consumers. The
one further assumption is that `MaxRecords`, the bound of a Fetch, is positive.

* `ToldOffsetsAcked` (`ToldCommitted`): `WaitingInv`, that a Produce which waits for
  the group commit has at least its size in pending records at the end of the
  log, so that the commit acks the offsets it is told. They need not be its own,
  as `produce_offsets` shows.
* With `~OpenMayFail`: `NoUncommittedRead` (`DeliveredDurable`). `ObjectsDurable`
  says that also an object which no manifest names yet, or any more, has durable
  records only - a Fetch reads the object by the manifest it got earlier - and
  `DurableGrows` that no step takes a record out of what is durable.
* With `~OpenMayFail` and `~RetentionEnabled`: `StoreAnswersExactly`
  (`StoreAnswerExact`). `PickedInv`: the entry a Fetch picked is still in the
  manifest when its object is read, and spans the offset; `FirstNExact`: of
  records without a gap the first *n* from an offset on have no gap. With
  retention it is false, which the attempt to prove it showed: an entry that
  overlaps its successors spans offsets which its object does not have.

### Channels: `PartitionChannelsProofs`

All invariants of `PartitionChannels`, for any positive capacities and any
environment (`CapsAssumption`). `ChannelsInvariant` proves `ChannelsInv`, of eight parts:

* `ShapeInv`: the types, each channel with the messages it carries;
* `StageInv`: how far the start and the end of each task have come, and what it
  can therefore not be holding;
* `RequestInv`: a message of a request is the only one of a request that was sent;
* `CountInv`: a segment needs an answered request of its own, so the requests
  bound the segments;
* `UploadWaits`, `DurableWaits`: whoever waits for a place in a channel is in its
  send, one of each type. So three at most wait for the Uploader, whatever its
  capacity: the writer or the start of the partition, an AlterTopicConfig and a
  DeleteTopic;
* `RingInv`: `RingOrders`, the segments are in order along the whole way - with the
  writer, with the forwarder, with the Uploader, queued, not queued yet - and
  `RingPlaces`, a file is of one segment, which is on that way, uploaded or active;
* `DrainInv`: a Shutdown of the Uploader that follows the writer's ack in time is
  behind every batch, and nothing is left when the Uploader ends.

`ChannelsTyped` (`TypeOK`), `SegmentsGoRound` (`RingOrdered`) and `DeleteLeavesNothing`
(`DeleteQuiesces`) follow from it. A Shutdown that was sent after a timeout is
excepted (`late`), and so is a DeleteTopic that was aborted: the code goes on in
both cases without knowing what is left.

### Topics: `TopicLifecycleProofs`

All safety properties of `TopicLifecycle`, for any number of requests at a time. `MaxBoots` is assumed positive: a broker starts at least once.

* `LifecycleTypes` (`TypeOK`), with what each position of a request holds.
* `RegistryDurable` (`RegistryPersisted`): `PutOK`, that the file is ahead of the
  memory in the middle of a create and of one create only.
* `NoDeletionForgotten` (`DeletionNotForgotten`): `FileLockOK`, that what the
  holder of the file lock has read is still what the file says. What a stray write
  takes out of the file is kept in `lost`, and excepted.
* `LocksComeBack` (`LocksReleased`): `SpawnLocksOK` and `FileHeldOK`. A spawn lock
  is held by one request between taking and releasing it, and the lock on
  pending_deletes.json by a request or a sweep that is writing the file.
* `DeletedForGood` (`DeletedStaysDeleted`) and `LiveTopicKept` (`LiveTopicStored`):
  `RetiredInv`. An incarnation number never comes back; what is on record as
  deleted, in a request, in the file or with a sweep, is not the one the registry
  has; and only what is on record loses its manifest or objects.
* `SweepsFinish` (`SweepComplete`): `SettledInv`. A Shutdown that was acked leaves
  no handle, task or upload of that incarnation, and none starts again.

### Files: `BrokerFilesProofs`

All properties of `BrokerFiles`, for any batches of records, any byte strings and
any key length modulus: `FilesTypes`, `IdentityKept` (`IdentityStable`), `BootsAgain`
(`BootsOnOwnFiles`), `ConfigSurvives` (`ConfigKept`), `AckedRecordsComeBack`
(`AckedComeBack`), `NothingMadeUp` (`NothingInvented`). The invariant has a part per
file. `NamingInv`: whatever a power loss leaves of `broker_id` is nothing or a whole
id. `SettingsInv`: whatever it leaves of `topics.json` is valid and agrees with the
registry (`RegistryInv`); unless a rename was undone, what is stored and what runs
is among what the replies leave possible, and a topic somebody was told of has its
manifest (`RepliesInv`). `RecordsInv`: frame *i* has offset *i* - 1 and, unless torn, encodes a
record that was sent; what is served is what the frames say; the synced part
holds every acked record. It rests on lemmas about the operators: the slicing of
a payload by its metas gives back the records (`RoundTrip`), a frame decodes to
its record unless its key length wraps (`CodecRoundTrip`), the scan keeps the
longest prefix that decodes (`ScanKeeps`). Those are inductions over data. The
library's induction theorems take an operator, which the provers cannot
instantiate; `NaturalFacts!IntervalInduction` says the same of a set, through its
least counterexample, and that they can. Assumptions: overrides map fields to
numbers or `Unset`, which is neither a number nor a set of overrides
(`UnsetAssumption`), nor an entry of `topics.json`; keys and values are byte strings
(`FilesAssumption`).

### Connections: `WireClientProofs`

All safety properties of `Connection` and `WireClient`, for any capacities, peers
and numbers of frames and calls. What leaves the broker (`Outgoing`: written, being
written, queued) changes in three ways only: it stays, one response is put behind
it, or it is cut when the writer ends.

* `WireTypes` (`TypeOK`). The ids of the calls are counted, so that they stay
  within the ids of the connection.
* `GreetedFirst` (`ConnectedFirst`): `HandshakeInv`, that nothing has been sent
  before Connected unless the loop is about to end, and no task exists before.
* `NoSecondAnswer` (`AnsweredOnce`): `AnswerInv`. An id that was used once is held
  in one place only: by the dispatcher's reply, by the task at work on it, or by
  what was sent; so a response of any kind that goes out is the first with its id.
* `NoTaskEscapes` (`TeardownReachesTasks`): `HandleInv`, that a live task has its
  handle filed, is the one just spawned, or has been told to stop.
* `CallsGetTheirOwn` (`OwnAnswer`): `TripInv`. While no call was cancelled in its
  round trip, at most one request or response is anywhere on its way, at one of
  eight places from the socket and back, with the id of the call that holds the
  lock.

### Only model-checked

* Everything under fairness: `SealedReachesManifest`, `FetchAnswered`,
  `ProduceAnswered`, `ConnectionEnds`, `CallsReturn` and the temporal properties of
  `PartitionChannels`. TLAPS has no proof rules for it here.

## 5. Not modelled

* Metrics, logging and the health endpoint: no state of the broker depends on them.
* The object-store client: key formatting and calls to an external crate, which
  appear as steps that may fail in the modules that use them.
* Parquet, protobuf and the byte layout of frames: encodings by libraries.
* DescribeTopic, ListTopics and Metadata: they read the registry in one message
  and change nothing.
* The arithmetic of `evaluate_eviction`: `PartitionLog` lets retention take any
  prefix of the manifest that leaves its tail, which covers every outcome.
* Listeners and the parsing of `config.toml`.

## 6. Plan

Done, in this order: `PartitionLog` with `CommitLog`; `PartitionClients`;
`TopicLifecycle`; `PartitionChannels`; `Connection` and `WireClient`;
`RecordCodec`, `TopicConfig` and `BrokerFiles`; the proofs of section 4.

Every safety property that a passing run checks is a theorem. What is left:

1. Hazards without a property of a run; their `note` in `PROJECT.json` says why.
   Four are defects the modules have and a property is stated around (the failing
   open at `partition_writer.rs:299`, the WAL directory without a uuid at
   `recovery.rs:28`, the lost push at `topic_admin.rs:397`, the cancelled call at
   `client.py:271`). The others are things the
   code does not do (`partition_writer.rs:260`, `fetcher.rs:100`) or a state that is
   reached and breaks no promise of the code (`startup.rs:40`).
2. Liveness, should the prover get rules for fairness: `SealedReachesManifest` first.
