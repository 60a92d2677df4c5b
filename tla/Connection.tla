----------------------------- MODULE Connection -----------------------------
(***************************************************************************)
(* One accepted TCP connection of the broker (wire/connection.rs): the     *)
(* reader, dispatcher and writer tasks, the task of every request, the two *)
(* bounded channels between them, and the map of abort handles.            *)
(*                                                                         *)
(* Abstractions.                                                           *)
(*  - A frame is its correlation id and a kind: what the tasks do with it  *)
(*    depends on nothing else.  A handler is a task that runs for a while  *)
(*    and then answers; what it does is in the other modules.              *)
(*  - A task that is aborted stops at its next await; until then it may    *)
(*    go on, because another thread may be polling it.                     *)
(*  - The peer is any client: it sends what it likes, reads when it likes  *)
(*    and closes when it likes.  What it has sent when it closes may still *)
(*    be read by the broker, or not.                                       *)
(***************************************************************************)
EXTENDS Naturals, Sequences, SequencesExt

CONSTANTS Cids,      \* correlation ids a peer uses; 0 is the broker's own
          PeerFrames,\* frames a peer sends that is not the Python client
          MaxFrames, \* bound: frames a peer sends
          ReqCap,    \* CONNECTION_REQUEST_BUFFER
          RespCap,   \* CONNECTION_RESPONSE_BUFFER
          SockCap    \* responses the socket holds for a peer that does not read

\* Frames of a peer: Connect with the broker's version or another one; a
\* request, one whose response exceeds MAX_FRAME_SIZE, one whose handler
\* panics; a response variant sent as a request; no body; an Error body; a
\* frame that does not decode; one longer than the codec allows.
Kinds == {"connect", "badversion", "request", "bulky", "fatal", "response",
          "nobody", "error", "garbage", "overlong"}

ASSUME ConnectionAssumption ==
  /\ Cids \subseteq Nat \ {0} /\ Cids # {}
  /\ PeerFrames \subseteq [cid : Cids, kind : Kinds]
  /\ MaxFrames \in Nat
  /\ {ReqCap, RespCap, SockCap} \subseteq Nat \ {0}

Frame  == [cid : Cids \cup {0}, kind : Kinds]
Answer == [cid : Cids \cup {0}, kind : {"connected", "answer", "bulky", "error"}]

VARIABLES
  \* the socket
  peerOpen,  \* the peer has not closed it
  toBroker,  \* frames on their way to the broker
  nSent,     \* frames sent so far
  wrote,     \* responses written to the socket so far
  nRead,     \* how many of them the peer has read
  \* reader task
  reader, rframe,
  reqQ,      \* channel from the reader to the dispatcher
  \* dispatcher
  disp,      \* its position
  reply,     \* the response it is sending, and its position after that
  connected,
  \* the tasks of the requests, in the order they were spawned
  tasks,
  inflight,  \* abort handles: correlation id -> task
  respQ,     \* channel to the writer
  writer, wframe,
  \* history
  reused,    \* a correlation id was used again by a later task
  seen,      \* correlation ids of the frames the dispatcher has taken
  twice      \* those it has taken more than once

sockVars   == <<peerOpen, toBroker, nSent, wrote, nRead>>
readerVars == <<reader, rframe>>
seenVars   == <<seen, twice>>
dispVars   == <<disp, reply, connected, seenVars>>
taskVars   == <<tasks, inflight, reused>>
writerVars == <<writer, wframe>>
connVars   == <<sockVars, readerVars, reqQ, dispVars, taskVars, respQ, writerVars>>

-----------------------------------------------------------------------------
(* Frames, tasks and channels *)

Sentinel == [cid |-> 0, kind |-> "error"]
NoFrame  == [cid |-> 0, kind |-> "nobody"]
NoAnswer == [cid |-> 0, kind |-> "error"]

Response(cid, kind) == [cid |-> cid, kind |-> kind]

\* dispatch_one: the frame a handler returns.
DispatchOne(f) ==
  Response(f.cid, CASE f.kind = "bulky"    -> "bulky"
                    [] f.kind = "response" -> "error"
                    [] OTHER               -> "answer")

Live(t) == tasks[t].st \in {"running", "sending", "removing"}

\* Mutant: the dispatcher keeps its sender while it waits for the writer.
HasSender_Kept == disp # "closed" \/ \E t \in DOMAIN tasks : Live(t)

\* A sender of the response channel is alive.
HasSender == disp \notin {"join", "closed"} \/ \E t \in DOMAIN tasks : Live(t)

\* A send on the response channel returns: with room, or with an error that
\* every caller ignores once the writer has dropped the receiver.
CanSend == writer = "done" \/ Len(respQ) < RespCap

SendResponse(r) ==
  respQ' = IF writer = "done" THEN respQ ELSE Append(respQ, r)

-----------------------------------------------------------------------------
(* The peer *)

PeerSends(f) ==
  /\ peerOpen
  /\ nSent < MaxFrames
  /\ Len(toBroker) < SockCap
  /\ toBroker' = Append(toBroker, f)
  /\ nSent' = nSent + 1
  /\ UNCHANGED <<peerOpen, wrote, nRead, readerVars, reqQ, dispVars, taskVars,
                 respQ, writerVars>>

PeerReads ==
  /\ nRead < Len(wrote)
  /\ nRead' = nRead + 1
  /\ UNCHANGED <<peerOpen, toBroker, nSent, wrote, readerVars, reqQ, dispVars,
                 taskVars, respQ, writerVars>>

PeerCloses ==
  /\ peerOpen
  /\ peerOpen' = FALSE
  /\ UNCHANGED <<toBroker, nSent, wrote, nRead, readerVars, reqQ, dispVars,
                 taskVars, respQ, writerVars>>

-----------------------------------------------------------------------------
(* Reader task *)

\* The codec refuses a frame that is too long and the reader ends; one that
\* does not decode becomes the sentinel, after which it ends.
ReaderReads ==
  /\ reader = "reading"
  /\ toBroker # <<>>
  /\ toBroker' = Tail(toBroker)
  /\ LET f == Head(toBroker)
     IN  CASE f.kind = "overlong" -> reader' = "done" /\ rframe' = NoFrame
           [] f.kind = "garbage"  -> reader' = "ending" /\ rframe' = Sentinel
           [] OTHER               -> reader' = "sending" /\ rframe' = f
  /\ UNCHANGED <<peerOpen, nSent, wrote, nRead, reqQ, dispVars, taskVars, respQ,
                 writerVars>>

\* Mutant: the reader does not wait for room.
ReaderSends_Unbounded ==
  /\ reader \in {"sending", "ending"}
  /\ reqQ' = Append(reqQ, rframe)
  /\ rframe' = NoFrame
  /\ reader' = IF reader = "sending" THEN "reading" ELSE "done"
  /\ UNCHANGED <<sockVars, dispVars, taskVars, respQ, writerVars>>

\* req_tx.send: waits for room.  The receiver lives until the reader is done.
ReaderSends ==
  /\ reader \in {"sending", "ending"}
  /\ Len(reqQ) < ReqCap
  /\ reqQ' = Append(reqQ, rframe)
  /\ rframe' = NoFrame
  /\ reader' = IF reader = "sending" THEN "reading" ELSE "done"
  /\ UNCHANGED <<sockVars, dispVars, taskVars, respQ, writerVars>>

\* End of the stream, or a reset.
ReaderEof ==
  /\ reader = "reading"
  /\ ~peerOpen
  /\ reader' = "done"
  /\ UNCHANGED <<sockVars, rframe, reqQ, dispVars, taskVars, respQ, writerVars>>

-----------------------------------------------------------------------------
(* Dispatcher *)

Takes(f) ==
  /\ disp = "recv"
  /\ reqQ # <<>>
  /\ f = Head(reqQ)
  /\ reqQ' = Tail(reqQ)
  /\ seen' = seen \cup {f.cid}
  /\ twice' = twice \cup (seen \cap {f.cid})

Replies(r, next) ==
  /\ disp' = "reply"
  /\ reply' = [out |-> r, next |-> next]

\* An Error body - the reader's sentinel, or a peer's own - is passed on to
\* the writer and ends the loop.
DispForwardsError ==
  /\ \E f \in Frame :
       /\ Takes(f)
       /\ f.kind = "error"
       /\ Replies(Response(f.cid, "error"), "drain")
  /\ UNCHANGED <<sockVars, readerVars, connected, taskVars, respQ, writerVars>>

DispHandshakes ==
  /\ ~connected
  /\ \E f \in Frame :
       /\ Takes(f)
       /\ f.kind = "connect"
       /\ Replies(Response(f.cid, "connected"), "recv")
  /\ connected' = TRUE
  /\ UNCHANGED <<sockVars, readerVars, taskVars, respQ, writerVars>>

\* A wrong version, a first frame that is not Connect, a second Connect: an
\* error ends the loop.
DispRefuses ==
  /\ \E f \in Frame :
       /\ Takes(f)
       /\ f.kind # "error"
       /\ IF connected THEN f.kind \in {"connect", "badversion"}
                       ELSE f.kind # "connect"
       /\ Replies(Response(f.cid, "error"), "drain")
  /\ UNCHANGED <<sockVars, readerVars, connected, taskVars, respQ, writerVars>>

\* Mutant: after the error the command goes to a task all the same.
DispRejects_FallsThrough ==
  /\ connected
  /\ \E f \in Frame :
       /\ Takes(f)
       /\ f.kind = "nobody"
       /\ Replies(Response(f.cid, "error"), "register")
       /\ tasks' = Append(tasks, [frame |-> f, st |-> "running", doomed |-> FALSE])
       /\ reused' = (reused \/ \E t \in DOMAIN tasks : tasks[t].frame.cid = f.cid)
  /\ UNCHANGED <<sockVars, readerVars, connected, inflight, respQ, writerVars>>

\* A command without a body: an error, and the loop goes on.
DispRejects ==
  /\ connected
  /\ \E f \in Frame :
       /\ Takes(f)
       /\ f.kind = "nobody"
       /\ Replies(Response(f.cid, "error"), "recv")
  /\ UNCHANGED <<sockVars, readerVars, connected, taskVars, respQ, writerVars>>

\* Mutant: a request is taken before the handshake too.
DispSpawns_Early ==
  /\ \E f \in Frame :
       /\ Takes(f)
       /\ f.kind \in {"request", "bulky", "fatal", "response"}
       /\ tasks' = Append(tasks, [frame |-> f, st |-> "running", doomed |-> FALSE])
       /\ reused' = (reused \/ \E t \in DOMAIN tasks : tasks[t].frame.cid = f.cid)
  /\ disp' = "register"
  /\ UNCHANGED <<sockVars, readerVars, reply, connected, inflight, respQ, writerVars>>

\* Anything else gets a task of its own, which may finish before the
\* dispatcher's next step.
DispSpawns ==
  /\ connected
  /\ \E f \in Frame :
       /\ Takes(f)
       /\ f.kind \in {"request", "bulky", "fatal", "response"}
       /\ tasks' = Append(tasks, [frame |-> f, st |-> "running", doomed |-> FALSE])
       /\ reused' = (reused \/ \E t \in DOMAIN tasks : tasks[t].frame.cid = f.cid)
  /\ disp' = "register"
  /\ UNCHANGED <<sockVars, readerVars, reply, connected, inflight, respQ, writerVars>>

\* Mutant: the abort handle is not kept.
DispRegisters_Forgets ==
  /\ disp = "register"
  /\ disp' = "recv"
  /\ UNCHANGED <<sockVars, readerVars, reqQ, reply, connected, seenVars, taskVars,
                 respQ, writerVars>>

\* Then its abort handle is filed, over an earlier one with the same id.
DispRegisters ==
  /\ disp = "register"
  /\ LET cid == Last(tasks).frame.cid
     IN  inflight' = [c \in DOMAIN inflight \cup {cid} |->
                        IF c = cid THEN Len(tasks) ELSE inflight[c]]
  /\ disp' = "recv"
  /\ UNCHANGED <<sockVars, readerVars, reqQ, reply, connected, seenVars, tasks,
                 reused, respQ, writerVars>>

\* resp_tx.send of a response of the dispatcher's own.
DispReplies ==
  /\ disp = "reply"
  /\ CanSend
  /\ SendResponse(reply.out)
  /\ disp' = reply.next
  /\ reply' = [out |-> NoAnswer, next |-> "recv"]
  /\ UNCHANGED <<sockVars, readerVars, reqQ, connected, seenVars, taskVars,
                 writerVars>>

\* The reader has gone and its frames are used up.
DispEnds ==
  /\ disp = "recv"
  /\ reqQ = <<>>
  /\ reader = "done"
  /\ disp' = "drain"
  /\ UNCHANGED <<sockVars, readerVars, reqQ, reply, connected, seenVars, taskVars,
                 respQ, writerVars>>

\* Abort what is in the map, drop resp_tx.
DispDrains ==
  /\ disp = "drain"
  /\ tasks' = [t \in DOMAIN tasks |->
                 [tasks[t] EXCEPT !.doomed = @ \/ t \in Range(inflight)]]
  /\ inflight' = <<>>
  /\ disp' = "join"
  /\ UNCHANGED <<sockVars, readerVars, reqQ, reply, connected, seenVars, reused,
                 respQ, writerVars>>

\* reader.await, writer.await.
DispCloses ==
  /\ disp = "join"
  /\ reader = "done"
  /\ writer = "done"
  /\ disp' = "closed"
  /\ UNCHANGED <<sockVars, readerVars, reqQ, reply, connected, seenVars, taskVars,
                 respQ, writerVars>>

-----------------------------------------------------------------------------
(* The task of a request *)

TaskAnswers(t) ==
  /\ tasks[t].st = "running"
  /\ tasks[t].frame.kind # "fatal"
  /\ tasks' = [tasks EXCEPT ![t].st = "sending"]
  /\ UNCHANGED <<sockVars, readerVars, reqQ, dispVars, inflight, reused, respQ,
                 writerVars>>

\* The panic ends the task: no response, and its handle stays in the map.
TaskPanics(t) ==
  /\ tasks[t].st = "running"
  /\ tasks[t].frame.kind = "fatal"
  /\ tasks' = [tasks EXCEPT ![t].st = "panicked"]
  /\ UNCHANGED <<sockVars, readerVars, reqQ, dispVars, inflight, reused, respQ,
                 writerVars>>

TaskSends(t) ==
  /\ tasks[t].st = "sending"
  /\ CanSend
  /\ SendResponse(DispatchOne(tasks[t].frame))
  /\ tasks' = [tasks EXCEPT ![t].st = "removing"]
  /\ UNCHANGED <<sockVars, readerVars, reqQ, dispVars, inflight, reused, writerVars>>

\* inflight.remove(cid): whatever handle is filed under that id by now.
TaskRemoves(t) ==
  /\ tasks[t].st = "removing"
  /\ inflight' = [c \in DOMAIN inflight \ {tasks[t].frame.cid} |-> inflight[c]]
  /\ tasks' = [tasks EXCEPT ![t].st = "done"]
  /\ UNCHANGED <<sockVars, readerVars, reqQ, dispVars, reused, respQ, writerVars>>

TaskAborted(t) ==
  /\ tasks[t].doomed
  /\ tasks[t].st \in {"running", "sending"}
  /\ tasks' = [tasks EXCEPT ![t].st = "aborted"]
  /\ UNCHANGED <<sockVars, readerVars, reqQ, dispVars, inflight, reused, respQ,
                 writerVars>>

-----------------------------------------------------------------------------
(* Writer task *)

\* Mutant: a response that cannot be encoded is dropped and the task goes on.
WriterTakes_Drops ==
  /\ writer = "recv"
  /\ respQ # <<>>
  /\ respQ' = Tail(respQ)
  /\ IF Head(respQ).kind = "bulky"
     THEN UNCHANGED writerVars
     ELSE writer' = "writing" /\ wframe' = Head(respQ)
  /\ UNCHANGED <<sockVars, readerVars, reqQ, dispVars, taskVars>>

\* encode_frame refuses a frame above MAX_FRAME_SIZE, and that ends the task.
WriterTakes ==
  /\ writer = "recv"
  /\ respQ # <<>>
  /\ IF Head(respQ).kind = "bulky"
     THEN writer' = "done" /\ respQ' = <<>> /\ UNCHANGED wframe
     ELSE writer' = "writing" /\ respQ' = Tail(respQ) /\ wframe' = Head(respQ)
  /\ UNCHANGED <<sockVars, readerVars, reqQ, dispVars, taskVars>>

WriterWrites ==
  /\ writer = "writing"
  /\ Len(wrote) - nRead < SockCap
  /\ wrote' = Append(wrote, wframe)
  /\ writer' = "recv"
  /\ wframe' = NoAnswer
  /\ UNCHANGED <<peerOpen, toBroker, nSent, nRead, readerVars, reqQ, dispVars,
                 taskVars, respQ>>

\* Writing to a socket the peer has closed fails and ends the task.
WriterFails ==
  /\ writer = "writing"
  /\ ~peerOpen
  /\ writer' = "done"
  /\ wframe' = NoAnswer
  /\ respQ' = <<>>
  /\ UNCHANGED <<sockVars, readerVars, reqQ, dispVars, taskVars>>

\* Every sender is gone and nothing is left: shut the socket's write half.
WriterEnds ==
  /\ writer = "recv"
  /\ respQ = <<>>
  /\ ~HasSender
  /\ writer' = "done"
  /\ UNCHANGED <<sockVars, readerVars, reqQ, dispVars, taskVars, respQ, wframe>>

-----------------------------------------------------------------------------
ConnInit ==
  /\ peerOpen = TRUE /\ toBroker = <<>> /\ nSent = 0 /\ wrote = <<>> /\ nRead = 0
  /\ reader = "reading" /\ rframe = NoFrame /\ reqQ = <<>>
  /\ disp = "recv" /\ reply = [out |-> NoAnswer, next |-> "recv"]
  /\ connected = FALSE /\ seen = {} /\ twice = {}
  /\ tasks = <<>> /\ inflight = <<>> /\ reused = FALSE
  /\ respQ = <<>> /\ writer = "recv" /\ wframe = NoAnswer

ReaderNext == ReaderReads \/ ReaderSends \/ ReaderEof

DispNext ==
  \/ DispForwardsError \/ DispHandshakes \/ DispRefuses \/ DispRejects
  \/ DispSpawns \/ DispRegisters \/ DispReplies \/ DispEnds \/ DispDrains
  \/ DispCloses

TaskNext(t) ==
  TaskAnswers(t) \/ TaskPanics(t) \/ TaskSends(t) \/ TaskRemoves(t) \/ TaskAborted(t)

WriterNext == WriterTakes \/ WriterWrites \/ WriterFails \/ WriterEnds

BrokerNext ==
  ReaderNext \/ DispNext \/ (\E t \in DOMAIN tasks : TaskNext(t)) \/ WriterNext

PeerNext ==
  \/ \E f \in PeerFrames : PeerSends(f)
  \/ PeerReads
  \/ PeerCloses

=============================================================================
