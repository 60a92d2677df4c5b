----------------------------- MODULE WireClient -----------------------------
(***************************************************************************)
(* The Python client (kafkrs-python/kafkrs/client.py) on a connection of   *)
(* the broker: calls of several coroutines that share one Client, its lock *)
(* around every round trip, cancelled calls, and close().                  *)
(*                                                                         *)
(* The peer of the connection is either such a client or any other one; it *)
(* is chosen once.  Call 1 is connect(); the others are requests.  A call  *)
(* reads its response in two steps, the length and the rest, and may be    *)
(* cancelled before either: a cancelled read leaves the bytes it waited    *)
(* for in the stream.                                                      *)
(***************************************************************************)
EXTENDS Connection

CONSTANTS MaxCalls,   \* bound: calls of a Python client, connect() included
          CallKinds,  \* what the broker makes of its requests
          MaxCancels  \* bound: calls that are cancelled

ASSUME WireClientAssumption ==
  /\ MaxCalls \in Nat \ {0}
  /\ 1 .. MaxCalls \subseteq Cids
  /\ CallKinds \subseteq {"request", "bulky", "fatal"}
  /\ MaxCancels \in Nat

Calls == 1 .. MaxCalls

VARIABLES
  peer,     \* "python" or "other"
  call,     \* call[k]: its position, correlation id and response
  nextCid,  \* _next_correlation_id
  lock,     \* the call that holds _lock, 0 for none
  opened,   \* connect() has returned
  synced,   \* the stream stands at the start of a frame
  cut,      \* history: a call was cancelled between its write and its read
  nCancels

clientVars == <<peer, call, nextCid, lock, opened, synced, cut, nCancels>>
vars       == <<connVars, clientVars>>

brokerVars == <<readerVars, reqQ, dispVars, taskVars, respQ, writerVars>>

-----------------------------------------------------------------------------
(* Calls *)

InTrip(k) == call[k].st \in {"reading", "body"}

\* The lock is released when a round trip ends, however it ends.
Leaves(k, st) ==
  /\ call' = [call EXCEPT ![k].st = st]
  /\ lock' = IF lock = k THEN 0 ELSE lock

\* connect() closes the connection on every exception.
ClosesIf(p) == peerOpen' = (peerOpen /\ ~p)

CallStarts(k) ==
  /\ peer = "python"
  /\ call[k].st = "new"
  /\ k = 1 \/ opened
  /\ call' = [call EXCEPT ![k].st = "waiting", ![k].cid = nextCid]
  /\ nextCid' = nextCid + 1
  /\ UNCHANGED <<connVars, peer, lock, opened, synced, cut, nCancels>>

\* Mutant: the round trip does not take the lock.
CallWrites_Unlocked(k) ==
  /\ call[k].st = "waiting"
  /\ peerOpen
  /\ call' = [call EXCEPT ![k].st = "reading"]
  /\ \E kind \in IF k = 1 THEN {"connect"} ELSE CallKinds :
       toBroker' = Append(toBroker, [cid |-> call[k].cid, kind |-> kind])
  /\ nSent' = nSent + 1
  /\ UNCHANGED <<peerOpen, wrote, nRead, brokerVars, peer, nextCid, lock, opened,
                 synced, cut, nCancels>>

\* _roundtrip: take the lock and write the frame.
CallWrites(k) ==
  /\ call[k].st = "waiting"
  /\ lock = 0
  /\ peerOpen
  /\ lock' = k
  /\ call' = [call EXCEPT ![k].st = "reading"]
  /\ \E kind \in IF k = 1 THEN {"connect"} ELSE CallKinds :
       toBroker' = Append(toBroker, [cid |-> call[k].cid, kind |-> kind])
  /\ nSent' = nSent + 1
  /\ UNCHANGED <<peerOpen, wrote, nRead, brokerVars, peer, nextCid, opened, synced,
                 cut, nCancels>>

\* "Client is not connected".
CallNotConnected(k) ==
  /\ call[k].st = "waiting"
  /\ lock = 0
  /\ ~peerOpen
  /\ call' = [call EXCEPT ![k].st = "failed"]
  /\ UNCHANGED <<connVars, peer, nextCid, lock, opened, synced, cut, nCancels>>

CallReadsLength(k) ==
  /\ call[k].st = "reading"
  /\ synced
  /\ nRead < Len(wrote)
  /\ call' = [call EXCEPT ![k].st = "body"]
  /\ UNCHANGED <<connVars, peer, nextCid, lock, opened, synced, cut, nCancels>>

\* The rest of the frame: the call has its response, whatever its id.  For
\* connect() anything but Connected raises, and closes.
CallReturns(k) ==
  /\ call[k].st = "body"
  /\ nRead < Len(wrote)
  /\ nRead' = nRead + 1
  /\ LET r  == wrote[nRead + 1]
         ok == k # 1 \/ r.kind = "connected"
     IN  /\ call' = [call EXCEPT ![k].st = "returned", ![k].got = r]
         /\ opened' = (opened \/ (k = 1 /\ ok))
         /\ ClosesIf(~ok)
  /\ lock' = IF lock = k THEN 0 ELSE lock
  /\ UNCHANGED <<toBroker, nSent, wrote, brokerVars, peer, nextCid, synced, cut,
                 nCancels>>

\* readexactly meets the end of the stream, or the connection was closed.
CallEof(k) ==
  /\ InTrip(k)
  /\ ~peerOpen \/ (writer = "done" /\ nRead = Len(wrote))
  /\ Leaves(k, "failed")
  /\ ClosesIf(k = 1)
  /\ UNCHANGED <<toBroker, nSent, wrote, nRead, brokerVars, peer, nextCid, opened,
                 synced, cut, nCancels>>

\* Payload bytes taken for a length may fail to parse, or wait for ever.
CallGarbled(k) ==
  /\ call[k].st = "reading"
  /\ ~synced
  /\ Leaves(k, "failed")
  /\ UNCHANGED <<connVars, peer, nextCid, opened, synced, cut, nCancels>>

\* The task is cancelled, by a timeout of the caller for one.
CallCancelled(k) ==
  /\ nCancels < MaxCancels
  /\ call[k].st = "waiting" \/ InTrip(k)
  /\ nCancels' = nCancels + 1
  /\ cut' = (cut \/ InTrip(k))
  /\ synced' = (synced /\ call[k].st # "body")
  /\ Leaves(k, "cancelled")
  /\ ClosesIf(k = 1)
  /\ UNCHANGED <<toBroker, nSent, wrote, nRead, brokerVars, peer, nextCid, opened>>

ClientCloses ==
  /\ peer = "python"
  /\ PeerCloses
  /\ UNCHANGED clientVars

-----------------------------------------------------------------------------
Init ==
  /\ ConnInit
  /\ peer \in {"python", "other"}
  /\ call = [k \in Calls |-> [st |-> "new", cid |-> 0, got |-> NoAnswer]]
  /\ nextCid = 1 /\ lock = 0 /\ opened = FALSE
  /\ synced = TRUE /\ cut = FALSE /\ nCancels = 0

CallNext(k) ==
  \/ CallWrites(k) \/ CallNotConnected(k) \/ CallReadsLength(k) \/ CallReturns(k)
  \/ CallEof(k)

Next ==
  \/ BrokerNext /\ UNCHANGED clientVars
  \/ peer = "other" /\ PeerNext /\ UNCHANGED clientVars
  \/ \E k \in Calls :
       CallStarts(k) \/ CallNext(k) \/ CallGarbled(k) \/ CallCancelled(k)
  \/ ClientCloses

Spec == Init /\ [][Next]_vars

\* What a task does once its handler has returned, or it is aborted.
TaskEnds(t) == TaskSends(t) \/ TaskRemoves(t) \/ TaskAborted(t)

\* The broker's tasks and the coroutines of a Python client are scheduled.  A
\* handler need not come to an end: it waits for its partition's writer
\* without a timeout.  No peer has to send, read or close.
FairSpec ==
  /\ Spec
  /\ WF_vars(ReaderNext /\ UNCHANGED clientVars)
  /\ WF_vars(DispNext /\ UNCHANGED clientVars)
  /\ WF_vars(WriterNext /\ UNCHANGED clientVars)
  /\ \A t \in 1 .. MaxFrames :
       WF_vars(t \in DOMAIN tasks /\ TaskEnds(t) /\ UNCHANGED clientVars)
  /\ \A k \in Calls : WF_vars(CallNext(k))

-----------------------------------------------------------------------------
(* Properties *)

\* Every variable has its type, and the channels keep their bounds.
TypeOK ==
  /\ toBroker \in Seq(Frame) /\ wrote \in Seq(Answer)
  /\ nRead \in 0 .. Len(wrote)
  /\ reader \in {"reading", "sending", "ending", "done"}
  /\ reqQ \in Seq(Frame) /\ Len(reqQ) <= ReqCap
  /\ disp \in {"recv", "reply", "register", "drain", "join", "closed"}
  /\ \A t \in DOMAIN tasks :
       tasks[t].st \in {"running", "sending", "removing", "done", "aborted", "panicked"}
  /\ DOMAIN inflight \subseteq Cids
  /\ respQ \in Seq(Answer) /\ Len(respQ) <= RespCap
  /\ writer \in {"recv", "writing", "done"}
  /\ lock \in 0 .. MaxCalls

\* What leaves the broker, in order, as far as it is on its way.
Outgoing == wrote \o (IF writer = "writing" THEN <<wframe>> ELSE <<>>) \o respQ

\* The wire protocol: the first frame of a connection is Connect.  No peer is
\* given an answer to a request unless Connected went out before it, and
\* Connected goes out once, although every task sends on its own.
ConnectedFirst ==
  \A i \in DOMAIN Outgoing :
    Outgoing[i].kind \in {"answer", "connected"} =>
      \A j \in DOMAIN Outgoing : Outgoing[j].kind = "connected" <=> j = 1

\* A frame gets at most one response, of whatever kind: Connected, an error of
\* the dispatcher's own, or what its task sends, answer or error, although
\* dispatcher and tasks send on their own and tasks are aborted at any await.
\* A correlation id the peer sent once is on one response at most.
AnsweredOnce ==
  \A i, j \in DOMAIN Outgoing :
    (Outgoing[i].cid = Outgoing[j].cid /\ Outgoing[i].cid \notin twice) => i = j

\* "Abort any per-RPC tasks still running on disconnect": with correlation ids
\* that are used once, every task that is alive when the dispatcher has left
\* its loop has been told to stop, even one whose handle was filed late.
TeardownReachesTasks ==
  (disp \in {"join", "closed"} /\ ~reused) =>
    \A t \in DOMAIN tasks : Live(t) => tasks[t].doomed \/ tasks[t].st = "removing"

\* A call of the Python client returns the response to its own request, as
\* long as no earlier call was cancelled in the middle of its round trip: the
\* client compares no correlation ids and relies on its lock alone.
OwnAnswer ==
  \A k \in Calls : (call[k].st = "returned" /\ ~cut) => call[k].got.cid = call[k].cid

\* The dispatcher has left its loop with the request channel full and the
\* reader waiting to send: nobody will receive again.
ReaderStuck ==
  disp = "join" /\ reader \in {"sending", "ending"} /\ Len(reqQ) = ReqCap

\* After the peer has gone the connection ends, its tasks with it, however
\* many requests, responses and handlers that never return are under way -
\* unless the dispatcher has left the reader stuck, or a correlation id was
\* used again, so that a task may have lost its abort handle.
ConnectionEnds ==
  ~peerOpen ~> (ReaderStuck \/ reused
                \/ (disp = "closed" /\ \A t \in DOMAIN tasks : ~Live(t)))

\* No handler runs for ever.
HandlersReturn ==
  \A t \in 1 .. MaxFrames : []<>(t \notin DOMAIN tasks \/ tasks[t].st # "running")

\* When the handlers return, every call of the Python client comes to an end,
\* through two channels and four tasks of the broker - a response too long to
\* be encoded included, which closes the connection - unless a handler
\* panicked or a cancelled call left the stream in the middle of a frame.
CallsReturn ==
  HandlersReturn =>
    \A k \in Calls :
      (call[k].st \in {"waiting", "reading", "body"}) ~>
        \/ call[k].st \in {"returned", "failed", "cancelled"}
        \/ ~synced
        \/ \E t \in DOMAIN tasks : tasks[t].st = "panicked"
=============================================================================
