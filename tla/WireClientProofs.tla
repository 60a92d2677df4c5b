--------------------------- MODULE WireClientProofs ---------------------------
(***************************************************************************)
(* One connection of the broker and the Python client on it, for every     *)
(* value of the constants: types, the order and number of the responses,   *)
(* what the teardown reaches, and that a call gets its own answer.         *)
(***************************************************************************)
EXTENDS WireClient, FiniteSetTheorems, SequenceTheorems, TLAPS

-----------------------------------------------------------------------------
(* The invariants *)

\* A frame without an id of a peer's is one the dispatcher never spawns.
Inbound == {f \in Frame : f.cid = 0 => f.kind \in {"error", "nobody"}}

Task == [frame : [cid : Cids, kind : Kinds],
         st : {"running", "sending", "removing", "done", "aborted", "panicked"},
         doomed : BOOLEAN]

\* A response of the dispatcher's own is never an answer.
Own == [cid : Cids \cup {0}, kind : {"connected", "error"}]

Call == [st : {"new", "waiting", "reading", "body", "returned", "failed", "cancelled"},
         cid : 0 .. MaxCalls, got : Answer]

Started == {k \in Calls : call[k].st # "new"}

\* The types of the broker's side, by task.
SocketTypes ==
  /\ peerOpen \in BOOLEAN
  /\ toBroker \in Seq(Inbound)
  /\ wrote \in Seq(Answer)
  /\ nRead \in 0 .. Len(wrote)

ReaderTypes ==
  /\ reader \in {"reading", "sending", "ending", "done"}
  /\ rframe \in Inbound
  /\ reqQ \in Seq(Inbound)
  /\ Len(reqQ) <= ReqCap

DispTypes ==
  /\ disp \in {"recv", "reply", "register", "drain", "join", "closed"}
  /\ reply \in [out : Own, next : {"recv", "drain"}]
  /\ connected \in BOOLEAN

TaskTypes ==
  /\ tasks \in Seq(Task)
  /\ disp = "register" => tasks # <<>>
  /\ DOMAIN inflight \subseteq Cids
  /\ reused \in BOOLEAN

WriterTypes ==
  /\ respQ \in Seq(Answer)
  /\ Len(respQ) <= RespCap
  /\ writer \in {"recv", "writing", "done"}
  /\ wframe \in Answer

\* The client's side.  Correlation ids are drawn one after the other, one for
\* every call that has started, so there are enough of them.
ClientTypes ==
  /\ call \in [Calls -> Call]
  /\ nextCid = Cardinality(Started) + 1
  /\ \A k \in Started : call[k].cid # 0
  /\ lock \in 0 .. MaxCalls
  /\ opened \in BOOLEAN /\ synced \in BOOLEAN /\ cut \in BOOLEAN

TypeInv ==
  SocketTypes /\ ReaderTypes /\ DispTypes /\ TaskTypes /\ WriterTypes /\ ClientTypes

\* The dispatcher is about to send Connected.
Greets == disp = "reply" /\ reply.out.kind = "connected"

\* What has been sent starts with Connected and has no other, unless the
\* writer ended before it took anything.  Before the handshake there are no
\* tasks, and nothing was sent unless the loop is about to end.
HandshakeInv ==
  /\ writer = "done" => respQ = <<>>
  /\ reply.out.kind = "connected" => (disp = "reply" /\ connected)
  /\ (Greets \/ (disp \in {"recv", "register"} /\ ~connected)) => Outgoing = <<>>
  /\ (Greets \/ ~connected) => tasks = <<>>
  /\ (disp = "reply" /\ ~connected) => reply.next = "drain"
  /\ disp = "register" => connected
  /\ ~connected => \A i \in DOMAIN Outgoing : Outgoing[i].kind = "error"
  /\ (connected /\ ~Greets) =>
       \/ Outgoing # <<>> /\ Outgoing[1].kind = "connected"
       \/ Outgoing = <<>> /\ writer = "done"
  /\ \A i \in DOMAIN Outgoing : i # 1 => Outgoing[i].kind # "connected"

Working(t) == tasks[t].st \in {"running", "sending"}

\* With correlation ids that are used once no two tasks have one id.
ApartInv ==
  ~reused => \A t, u \in DOMAIN tasks : tasks[t].frame.cid = tasks[u].frame.cid => t = u

\* Where the response with id c is: the dispatcher holds it, a task works for
\* it, or it has been sent.
Held(c)   == disp = "reply" /\ reply.out.cid = c
AtWork(c) == \E t \in DOMAIN tasks : Working(t) /\ tasks[t].frame.cid = c
Sent(c)   == \E i \in DOMAIN Outgoing : Outgoing[i].cid = c

\* An id that was taken once is at one of these places at most, and there
\* once; one that was never taken is at none.
AnswerInv ==
  \A c \in Cids \cup {0} : c \notin twice =>
    /\ (Held(c) \/ AtWork(c) \/ Sent(c)) => c \in seen
    /\ Held(c) => ~AtWork(c) /\ ~Sent(c)
    /\ AtWork(c) => ~Sent(c)
    /\ \A t, u \in DOMAIN tasks :
         (Working(t) /\ Working(u) /\ tasks[t].frame.cid = c /\ tasks[u].frame.cid = c)
           => t = u
    /\ \A i, j \in DOMAIN Outgoing :
         (Outgoing[i].cid = c /\ Outgoing[j].cid = c) => i = j

\* A live task has its handle filed, except for the moment after its spawn; or
\* it has been told to stop.
HandleInv ==
  ~reused => \A t \in DOMAIN tasks : Live(t) =>
       IF disp \in {"join", "closed"}
       THEN tasks[t].doomed \/ tasks[t].st = "removing"
       ELSE \/ disp = "register" /\ t = Len(tasks)
            \/ \E c \in DOMAIN inflight : c = tasks[t].frame.cid /\ inflight[c] = t

\* A channel holds at most the one request, or its response, with id c: and
\* then that is at place n of its way.
Place(q, n, s, c) == q # <<>> => (s = n /\ Len(q) = 1 /\ q[1].cid = c)

TasksAt(s, c) ==
  /\ \A t \in DOMAIN tasks : Working(t) => (s = 5 /\ tasks[t].frame.cid = c)
  /\ \A t, u \in DOMAIN tasks : (Working(t) /\ Working(u)) => t = u

WroteAt(s, c) ==
  nRead # Len(wrote) =>
    (s = 8 /\ Len(wrote) = nRead + 1 /\ wrote[nRead + 1].cid = c)

\* A connection that is used by one call at a time has one request on its way
\* at most: it is at place s of its way there and back (0: at none), and has
\* the id c.
At(s, c) ==
  /\ Place(toBroker, 1, s, c)
  /\ reader \in {"sending", "ending"} => (s = 2 /\ rframe.cid = c)
  /\ Place(reqQ, 3, s, c)
  /\ disp = "reply" => (s = 4 /\ reply.out.cid = c)
  /\ TasksAt(s, c)
  /\ Place(respQ, 6, s, c)
  /\ writer = "writing" => (s = 7 /\ wframe.cid = c)
  /\ WroteAt(s, c)

\* No response will ever be read again.
Silent == writer = "done" /\ nRead = Len(wrote)

\* The calls of a Python client take turns: the one in its round trip holds
\* the lock.
LockInv == \A k \in Calls : InTrip(k) <=> lock = k

\* As long as no call was cancelled on its way, only the response of the call
\* that holds the lock can come, and none while nobody holds it.
TripInv ==
  \/ lock # 0 /\ \E s \in 0 .. 8 : At(s, call[lock].cid)
  \/ lock = 0 /\ At(0, 0)
  \/ lock = 0 /\ ~peerOpen
  \/ Silent

OwnInv ==
  /\ peer # "python" => \A k \in Calls : call[k].st = "new"
  /\ LockInv
  /\ peer = "python" =>
       \A i \in DOMAIN toBroker : toBroker[i].kind \in {"connect"} \cup CallKinds
  /\ ~cut => synced
  /\ (peer = "python" /\ ~cut) => TripInv
  /\ OwnAnswer

-----------------------------------------------------------------------------
(* Types *)

\* The frames of the model have the types of the proofs.
LEMMA FrameFacts ==
  /\ NoFrame \in Inbound /\ Sentinel \in Inbound
  /\ NoAnswer \in Answer /\ NoAnswer \in Own
  /\ Own \subseteq Answer
  /\ PeerFrames \subseteq Inbound
  /\ Inbound \subseteq Frame
  /\ 0 \notin Cids
BY ConnectionAssumption
   DEF NoFrame, Sentinel, NoAnswer, Inbound, Own, Answer, Frame, Kinds

\* What a handler answers is an answer of the wire protocol.
LEMMA HandlerAnswers ==
  ASSUME NEW f \in [cid : Cids, kind : Kinds]
  PROVE  /\ DispatchOne(f) \in Answer
         /\ DispatchOne(f).cid = f.cid
         /\ DispatchOne(f).kind \in {"answer", "bulky", "error"}
BY DEF DispatchOne, Response, Answer

\* Taking from a queue and putting into it.
LEMMA QueueFacts ==
  ASSUME NEW S, NEW q \in Seq(S), NEW x \in S
  PROVE  /\ Append(q, x) \in Seq(S) /\ Len(Append(q, x)) = Len(q) + 1
         /\ Append(q, x)[Len(q) + 1] = x
         /\ \A i \in 1 .. Len(q) : Append(q, x)[i] = q[i]
         /\ Len(q) \in Nat
BY AppendProperties, LenProperties

LEMMA HeadFacts ==
  ASSUME NEW S, NEW q \in Seq(S), q # <<>>
  PROVE  /\ Head(q) \in S /\ Head(q) = q[1]
         /\ Tail(q) \in Seq(S) /\ Len(Tail(q)) = Len(q) - 1
         /\ \A i \in 1 .. Len(Tail(q)) : Tail(q)[i] = q[i + 1]
         /\ Len(q) \in Nat \ {0}
BY HeadTailProperties, EmptySeq

LEMMA EmptyDomain == DOMAIN <<>> = {}
<1>1. <<>> \in Seq({}) /\ Len(<<>>) = 0
  BY EmptySeq
<1>2. DOMAIN <<>> = 1 .. 0
  BY <1>1, LenProperties
<1> QED
  BY <1>2

\* The channels have room for one frame at least.
LEMMA CapFacts ==
  /\ ReqCap \in Nat \ {0} /\ RespCap \in Nat \ {0}
  /\ <<>> \in Seq(Answer) /\ Len(<<>>) = 0
  /\ Len(<<>>) <= RespCap
<1>1. ReqCap \in Nat \ {0} /\ RespCap \in Nat \ {0}
  BY ConnectionAssumption
<1>2. <<>> \in Seq(Answer) /\ Len(<<>>) = 0
  BY EmptySeq
<1> QED
  BY <1>1, <1>2

\* An element of the task table is a task.
LEMMA TaskType ==
  ASSUME tasks \in Seq(Task), NEW t \in DOMAIN tasks
  PROVE  /\ tasks[t] \in Task
         /\ tasks[t].frame \in [cid : Cids, kind : Kinds]
         /\ tasks[t].frame.cid \in Cids
<1>1. t \in 1 .. Len(tasks)
  BY LenProperties
<1>2. tasks[t] \in Task
  BY <1>1, ElementOfSeq
<1> QED
  BY <1>2 DEF Task

LEMMA TypesInitially == Init => TypeInv
<1> SUFFICES ASSUME Init PROVE TypeInv
  OBVIOUS
<1> USE DEF Init, ConnInit
<1>1. SocketTypes
  BY DEF SocketTypes
<1>2. ReaderTypes
  BY FrameFacts, ConnectionAssumption DEF ReaderTypes
<1>3. DispTypes
  BY FrameFacts DEF DispTypes
<1>4. TaskTypes
  <2>1. tasks \in Seq(Task) /\ disp # "register"
    OBVIOUS
  <2>2. DOMAIN inflight = {}
    BY EmptyDomain
  <2>3. reused \in BOOLEAN
    OBVIOUS
  <2> QED
    BY <2>1, <2>2, <2>3 DEF TaskTypes
<1>5. WriterTypes
  BY FrameFacts, ConnectionAssumption DEF WriterTypes
<1>6. ClientTypes
  <2>1. Started = {}
    BY DEF Started
  <2>2. Cardinality(Started) = 0
    BY <2>1, FS_EmptySet
  <2>3. call \in [Calls -> Call]
    BY WireClientAssumption, FrameFacts DEF Call
  <2>4. nextCid = 0 + 1 /\ lock \in 0 .. MaxCalls
    BY WireClientAssumption
  <2>5. opened \in BOOLEAN /\ synced \in BOOLEAN /\ cut \in BOOLEAN
    OBVIOUS
  <2> QED
    BY <2>1, <2>2, <2>3, <2>4, <2>5 DEF ClientTypes
<1> QED
  BY <1>1, <1>2, <1>3, <1>4, <1>5, <1>6 DEF TypeInv

\* The variables of one task decide its types.
LEMMA TypesFrames ==
  /\ (SocketTypes /\ UNCHANGED sockVars) => SocketTypes'
  /\ (ReaderTypes /\ UNCHANGED <<readerVars, reqQ>>) => ReaderTypes'
  /\ (DispTypes /\ UNCHANGED dispVars) => DispTypes'
  /\ (TaskTypes /\ UNCHANGED <<taskVars>> /\ disp' # "register") => TaskTypes'
  /\ (TaskTypes /\ UNCHANGED <<taskVars, disp>>) => TaskTypes'
  /\ (WriterTypes /\ UNCHANGED <<respQ, writerVars>>) => WriterTypes'
  /\ (ClientTypes /\ UNCHANGED clientVars) => ClientTypes'
BY DEF SocketTypes, ReaderTypes, DispTypes, TaskTypes, WriterTypes, ClientTypes,
       Started, sockVars, readerVars, dispVars, taskVars, writerVars, clientVars

LEMMA TypesReader ==
  ASSUME TypeInv, ReaderNext, UNCHANGED clientVars
  PROVE  TypeInv'
<1> USE DEF TypeInv
<1> USE FrameFacts, TypesFrames
<1>1. CASE ReaderReads
  <2>1. Head(toBroker) \in Inbound /\ Tail(toBroker) \in Seq(Inbound)
    BY <1>1, HeadFacts DEF ReaderReads, SocketTypes
  <2>2. SocketTypes'
    BY <1>1, <2>1 DEF ReaderReads, SocketTypes
  <2>3. ReaderTypes'
    BY <1>1, <2>1 DEF ReaderReads, ReaderTypes
  <2> QED
    BY <1>1, <2>2, <2>3 DEF ReaderReads, dispVars
<1>2. CASE ReaderSends
  <2>1. /\ Append(reqQ, rframe) \in Seq(Inbound)
        /\ Len(Append(reqQ, rframe)) = Len(reqQ) + 1
        /\ Len(reqQ) \in Nat
    BY QueueFacts DEF ReaderTypes
  <2>2. ReaderTypes'
    BY <1>2, <2>1, ConnectionAssumption DEF ReaderSends, ReaderTypes
  <2> QED
    BY <1>2, <2>2 DEF ReaderSends, dispVars
<1>3. CASE ReaderEof
  <2>1. ReaderTypes'
    BY <1>3 DEF ReaderEof, ReaderTypes
  <2> QED
    BY <1>3, <2>1 DEF ReaderEof, dispVars
<1> QED
  BY <1>1, <1>2, <1>3 DEF ReaderNext

\* What the dispatcher takes is an inbound frame.
LEMMA TakesFacts ==
  ASSUME ReaderTypes, NEW f \in Frame, Takes(f), UNCHANGED readerVars
  PROVE  f \in Inbound /\ ReaderTypes'
<1>1. Head(reqQ) \in Inbound /\ Tail(reqQ) \in Seq(Inbound) /\ Len(Tail(reqQ)) = Len(reqQ) - 1
      /\ Len(reqQ) \in Nat
  BY HeadFacts DEF Takes, ReaderTypes
<1> QED
  BY <1>1, ConnectionAssumption DEF Takes, ReaderTypes, readerVars

\* The dispatcher begins a reply of its own.
LEMMA RepliesFacts ==
  ASSUME DispTypes, NEW f \in Frame, NEW kind \in {"connected", "error"},
         NEW next \in {"recv", "drain"}, Replies(Response(f.cid, kind), next),
         connected' \in BOOLEAN
  PROVE  DispTypes'
BY DEF Replies, DispTypes, Response, Own, Frame

LEMMA TypesDispTakes ==
  ASSUME TypeInv, UNCHANGED clientVars,
         DispForwardsError \/ DispHandshakes \/ DispRefuses \/ DispRejects
  PROVE  TypeInv'
<1> USE DEF TypeInv
<1>1. PICK f \in Frame : Takes(f)
  BY DEF DispForwardsError, DispHandshakes, DispRefuses, DispRejects
<1>2. UNCHANGED <<sockVars, readerVars, taskVars, respQ, writerVars>>
  BY DEF DispForwardsError, DispHandshakes, DispRefuses, DispRejects
<1>3. ReaderTypes'
  BY <1>1, <1>2, TakesFacts
<1>4. connected' \in BOOLEAN
  BY DEF DispForwardsError, DispHandshakes, DispRefuses, DispRejects, DispTypes
<1>5. DispTypes' /\ disp' = "reply"
  <2>1. PICK g \in Frame, kind \in {"connected", "error"}, next \in {"recv", "drain"} :
          Replies(Response(g.cid, kind), next)
    BY DEF DispForwardsError, DispHandshakes, DispRefuses, DispRejects
  <2> QED
    BY <1>4, <2>1, RepliesFacts DEF Replies
<1> QED
  BY <1>2, <1>3, <1>5, TypesFrames

LEMMA TypesDispRest ==
  ASSUME TypeInv, UNCHANGED clientVars,
         DispSpawns \/ DispRegisters \/ DispReplies \/ DispEnds \/ DispDrains \/ DispCloses
  PROVE  TypeInv'
<1> USE DEF TypeInv
<1> USE FrameFacts, TypesFrames
<1>1. CASE DispSpawns
  <2>1. PICK f \in Frame :
          /\ Takes(f)
          /\ f.kind \in {"request", "bulky", "fatal", "response"}
          /\ tasks' = Append(tasks, [frame |-> f, st |-> "running", doomed |-> FALSE])
    BY <1>1 DEF DispSpawns
  <2>2. f \in Inbound /\ ReaderTypes'
    BY <1>1, <2>1, TakesFacts DEF DispSpawns
  <2>3. f \in [cid : Cids, kind : Kinds]
    BY <2>1, <2>2 DEF Inbound, Frame
  <2>4. [frame |-> f, st |-> "running", doomed |-> FALSE] \in Task
    BY <2>3 DEF Task
  <2>5. tasks' \in Seq(Task) /\ tasks' # <<>>
    <3> DEFINE new == [frame |-> f, st |-> "running", doomed |-> FALSE]
    <3>1. new \in Task /\ tasks' = Append(tasks, new)
      BY <2>1, <2>4
    <3> HIDE DEF new
    <3>2. tasks \in Seq(Task)
      BY DEF TaskTypes
    <3> QED
      BY <3>1, <3>2, AppendProperties
  <2>6. TaskTypes'
    BY <1>1, <2>5 DEF DispSpawns, TaskTypes
  <2>7. DispTypes'
    BY <1>1 DEF DispSpawns, DispTypes
  <2> QED
    BY <1>1, <2>2, <2>6, <2>7 DEF DispSpawns
<1>2. CASE DispRegisters
  <2>1. Last(tasks) \in Task
    <3>1. tasks \in Seq(Task) /\ tasks # <<>>
      BY <1>2 DEF DispRegisters, TaskTypes
    <3>2. Len(tasks) \in 1 .. Len(tasks)
      BY <3>1, EmptySeq
    <3> QED
      BY <3>1, <3>2, ElementOfSeq DEF Last
  <2>2. DOMAIN inflight' = {Last(tasks).frame.cid} \cup DOMAIN inflight
    BY <1>2 DEF DispRegisters
  <2>3. TaskTypes'
    BY <1>2, <2>1, <2>2 DEF DispRegisters, TaskTypes, Task
  <2>4. DispTypes'
    BY <1>2 DEF DispRegisters, DispTypes
  <2> QED
    BY <1>2, <2>3, <2>4 DEF DispRegisters
<1>3. CASE DispReplies
  <2>1. DispTypes' /\ disp' # "register"
    BY <1>3 DEF DispReplies, DispTypes
  <2>2. reply.out \in Answer
    BY DEF DispTypes
  <2>3. WriterTypes'
    BY <1>3, <2>2, QueueFacts, ConnectionAssumption
       DEF DispReplies, CanSend, SendResponse, WriterTypes, writerVars
  <2> QED
    BY <1>3, <2>1, <2>3 DEF DispReplies
<1>4. CASE DispEnds \/ DispCloses
  <2>1. DispTypes' /\ disp' # "register"
    BY <1>4 DEF DispEnds, DispCloses, DispTypes
  <2> QED
    BY <1>4, <2>1 DEF DispEnds, DispCloses
<1>5. CASE DispDrains
  <2>1. tasks \in Seq(Task)
    BY DEF TaskTypes
  <2>2. tasks' \in Seq(Task)
    <3>1. tasks' = [t \in 1 .. Len(tasks) |->
             [tasks[t] EXCEPT !.doomed = @ \/ t \in Range(inflight)]]
      BY <1>5, <2>1 DEF DispDrains
    <3>2. \A t \in 1 .. Len(tasks) :
            [tasks[t] EXCEPT !.doomed = @ \/ t \in Range(inflight)] \in Task
      <4> SUFFICES ASSUME NEW t \in 1 .. Len(tasks)
                   PROVE [tasks[t] EXCEPT !.doomed = @ \/ t \in Range(inflight)] \in Task
        OBVIOUS
      <4>1. tasks[t] \in Task
        BY <2>1
      <4>2. (tasks[t].doomed \/ t \in Range(inflight)) \in BOOLEAN
        OBVIOUS
      <4> QED
        BY <4>1, <4>2 DEF Task
    <3> QED
      BY <2>1, <3>1, <3>2, IsASeq, LenProperties
  <2>3. DOMAIN inflight' = {}
    BY <1>5, EmptyDomain DEF DispDrains
  <2>4. TaskTypes'
    BY <1>5, <2>2, <2>3 DEF DispDrains, TaskTypes
  <2>5. DispTypes'
    BY <1>5 DEF DispDrains, DispTypes
  <2> QED
    BY <1>5, <2>4, <2>5 DEF DispDrains
<1> QED
  BY <1>1, <1>2, <1>3, <1>4, <1>5

\* A task moves to another position: all else about it stays.
LEMMA TaskMoves ==
  ASSUME tasks \in Seq(Task), NEW t \in DOMAIN tasks,
         NEW st \in {"running", "sending", "removing", "done", "aborted", "panicked"},
         tasks' = [tasks EXCEPT ![t].st = st]
  PROVE  /\ tasks' \in Seq(Task)
         /\ Len(tasks') = Len(tasks)
         /\ DOMAIN tasks' = DOMAIN tasks
         /\ tasks' # <<>>
         /\ \A u \in DOMAIN tasks :
              /\ tasks'[u].frame = tasks[u].frame
              /\ tasks'[u].doomed = tasks[u].doomed
              /\ tasks'[u].st = IF u = t THEN st ELSE tasks[u].st
<1>1. \A u \in 1 .. Len(tasks) : tasks[u] \in Task
  BY ElementOfSeq
<1>2. DOMAIN tasks = 1 .. Len(tasks) /\ Len(tasks) \in Nat
  BY LenProperties
<1>3. tasks' = [u \in 1 .. Len(tasks) |->
                  IF u = t THEN [tasks[t] EXCEPT !.st = st] ELSE tasks[u]]
  BY <1>2
<1>4. [tasks[t] EXCEPT !.st = st] \in Task
  BY <1>1, <1>2 DEF Task
<1>5. tasks' \in [1 .. Len(tasks) -> Task]
  BY <1>1, <1>3, <1>4
<1>6. tasks' \in Seq(Task) /\ Len(tasks') = Len(tasks)
  <2>1. tasks' \in Seq(Task)
    BY <1>2, <1>5, SeqDef
  <2> QED
    BY <1>2, <1>5, <2>1, LenProperties
<1>7. \A u \in DOMAIN tasks :
              /\ tasks'[u].frame = tasks[u].frame
              /\ tasks'[u].doomed = tasks[u].doomed
              /\ tasks'[u].st = IF u = t THEN st ELSE tasks[u].st
  BY <1>1, <1>2, <1>3 DEF Task
<1>8. tasks' # <<>>
  BY <1>2, <1>5, EmptyDomain
<1> QED
  BY <1>2, <1>5, <1>6, <1>7, <1>8

LEMMA TypesTask ==
  ASSUME TypeInv, UNCHANGED clientVars, NEW t \in DOMAIN tasks, TaskNext(t)
  PROVE  TypeInv'
<1> USE DEF TypeInv
<1> USE TypesFrames
<1>1. tasks \in Seq(Task)
  BY DEF TaskTypes
<1>2. CASE TaskAnswers(t) \/ TaskPanics(t) \/ TaskAborted(t)
  <2>1. PICK st \in {"sending", "panicked", "aborted"} :
          tasks' = [tasks EXCEPT ![t].st = st]
    BY <1>2 DEF TaskAnswers, TaskPanics, TaskAborted
  <2>2. tasks' \in Seq(Task) /\ tasks' # <<>>
    BY <1>1, <2>1, TaskMoves
  <2>3. UNCHANGED <<sockVars, readerVars, reqQ, dispVars, inflight, reused, respQ,
                    writerVars>>
    BY <1>2 DEF TaskAnswers, TaskPanics, TaskAborted
  <2>4. TaskTypes'
    BY <2>2, <2>3 DEF TaskTypes
  <2> QED
    BY <2>3, <2>4
<1>3. CASE TaskSends(t)
  <2>1. tasks' \in Seq(Task) /\ tasks' # <<>>
    BY <1>1, <1>3, TaskMoves DEF TaskSends
  <2>2. tasks[t].frame \in [cid : Cids, kind : Kinds]
    BY <1>1, TaskType
  <2>3. DispatchOne(tasks[t].frame) \in Answer
    BY <2>2, HandlerAnswers
  <2>4. WriterTypes'
    <3> DEFINE r == DispatchOne(tasks[t].frame)
    <3>1. r \in Answer /\ CanSend /\ SendResponse(r)
      BY <1>3, <2>3 DEF TaskSends
    <3> HIDE DEF r
    <3>2. /\ Append(respQ, r) \in Seq(Answer)
          /\ Len(Append(respQ, r)) = Len(respQ) + 1
          /\ Len(respQ) \in Nat
      BY <3>1, QueueFacts DEF WriterTypes
    <3> QED
      BY <1>3, <3>1, <3>2, ConnectionAssumption
         DEF TaskSends, CanSend, SendResponse, WriterTypes, writerVars
  <2>5. TaskTypes'
    BY <1>3, <2>1 DEF TaskSends, TaskTypes
  <2> QED
    BY <1>3, <2>4, <2>5 DEF TaskSends
<1>4. CASE TaskRemoves(t)
  <2>1. tasks' \in Seq(Task) /\ tasks' # <<>>
    BY <1>1, <1>4, TaskMoves DEF TaskRemoves
  <2>2. DOMAIN inflight' \subseteq DOMAIN inflight
    BY <1>4 DEF TaskRemoves
  <2>3. TaskTypes'
    BY <1>4, <2>1, <2>2 DEF TaskRemoves, TaskTypes
  <2> QED
    BY <1>4, <2>3 DEF TaskRemoves
<1> QED
  BY <1>2, <1>3, <1>4 DEF TaskNext

LEMMA TypesWriter ==
  ASSUME TypeInv, UNCHANGED clientVars, WriterNext
  PROVE  TypeInv'
<1> USE DEF TypeInv
<1> USE FrameFacts, TypesFrames, ConnectionAssumption
<1>1. CASE WriterTakes
  <2>1. /\ Head(respQ) \in Answer /\ Tail(respQ) \in Seq(Answer)
        /\ Len(Tail(respQ)) = Len(respQ) - 1 /\ Len(respQ) \in Nat
    BY <1>1, HeadFacts DEF WriterTakes, WriterTypes
  <2>2. WriterTypes'
    <3>1. writer' \in {"recv", "writing", "done"} /\ wframe' \in Answer
      BY <1>1, <2>1 DEF WriterTakes, WriterTypes
    <3>2. respQ' = <<>> \/ respQ' = Tail(respQ)
      BY <1>1 DEF WriterTakes
    <3>3. respQ' \in Seq(Answer) /\ Len(respQ') <= RespCap
      <4>1. CASE respQ' = <<>>
        BY <4>1, CapFacts
      <4>2. CASE respQ' = Tail(respQ)
        <5>1. Len(respQ) <= RespCap
          BY DEF WriterTypes
        <5>2. Len(Tail(respQ)) <= RespCap
          <6>1. RespCap \in Nat
            BY CapFacts
          <6> HIDE ConnectionAssumption, TypesFrames, FrameFacts
          <6> QED
            BY <2>1, <5>1, <6>1
        <5> QED
          BY <2>1, <4>2, <5>2
      <4> QED
        BY <3>2, <4>1, <4>2
    <3> QED
      BY <3>1, <3>3 DEF WriterTypes
  <2> QED
    BY <1>1, <2>2 DEF WriterTakes, dispVars
<1>2. CASE WriterWrites
  <2>1. /\ Append(wrote, wframe) \in Seq(Answer)
        /\ Len(Append(wrote, wframe)) = Len(wrote) + 1
        /\ Len(wrote) \in Nat
    BY QueueFacts DEF SocketTypes, WriterTypes
  <2>2. SocketTypes'
    BY <1>2, <2>1 DEF WriterWrites, SocketTypes
  <2>3. WriterTypes'
    BY <1>2 DEF WriterWrites, WriterTypes
  <2> QED
    BY <1>2, <2>2, <2>3 DEF WriterWrites, dispVars
<1>3. CASE WriterFails \/ WriterEnds
  <2>1. WriterTypes'
    <3>1. writer' \in {"recv", "writing", "done"} /\ wframe' \in Answer
      BY <1>3 DEF WriterFails, WriterEnds, WriterTypes
    <3>2. respQ' = <<>>
      BY <1>3 DEF WriterFails, WriterEnds
    <3> QED
      BY <3>1, <3>2, CapFacts DEF WriterTypes
  <2> QED
    BY <1>3, <2>1 DEF WriterFails, WriterEnds, dispVars
<1> QED
  BY <1>1, <1>2, <1>3 DEF WriterNext

\* A peer touches the socket only.
LEMMA TypesPeer ==
  ASSUME TypeInv, UNCHANGED clientVars, PeerNext
  PROVE  TypeInv'
<1> USE DEF TypeInv
<1>1. SocketTypes'
  <2>1. ASSUME NEW f \in PeerFrames, PeerSends(f)
        PROVE  SocketTypes'
    <3>1. Append(toBroker, f) \in Seq(Inbound)
      BY FrameFacts, AppendProperties DEF SocketTypes
    <3> QED
      BY <2>1, <3>1 DEF PeerSends, SocketTypes
  <2>2. CASE PeerReads
    BY <2>2, LenProperties DEF PeerReads, SocketTypes
  <2>3. CASE PeerCloses
    BY <2>3 DEF PeerCloses, SocketTypes
  <2> QED
    BY <2>1, <2>2, <2>3 DEF PeerNext
<1>2. UNCHANGED <<readerVars, reqQ, dispVars, taskVars, respQ, writerVars, disp>>
  BY DEF PeerNext, PeerSends, PeerReads, PeerCloses, dispVars
<1> QED
  BY <1>1, <1>2, TypesFrames

\* A call that has started goes on: its id stays, and nobody else moves.
LEMMA CallMoves ==
  ASSUME ClientTypes, NEW k \in Calls, call[k].st # "new", NEW st, NEW got \in Answer,
         st \in {"waiting", "reading", "body", "returned", "failed", "cancelled"},
         \/ call' = [call EXCEPT ![k].st = st]
         \/ call' = [call EXCEPT ![k].st = st, ![k].got = got]
  PROVE  /\ call' \in [Calls -> Call]
         /\ Started' = Started
         /\ \A j \in Calls : call'[j].cid = call[j].cid
         /\ \A j \in Calls \ {k} : call'[j] = call[j]
         /\ call'[k].st = st
<1>1. call[k] \in Call /\ call \in [Calls -> Call]
  BY DEF ClientTypes
<1>2. call' \in [Calls -> Call]
  BY <1>1 DEF Call
<1>3. \A j \in Calls : call'[j].cid = call[j].cid
  BY <1>1 DEF Call
<1>4. \A j \in Calls \ {k} : call'[j] = call[j]
  BY <1>1
<1>5. call'[k].st = st
  BY <1>1 DEF Call
<1>6. Started' = Started
  BY <1>4, <1>5 DEF Started
<1> QED
  BY <1>2, <1>3, <1>4, <1>5, <1>6

\* The ids are drawn before there are too many of them.
LEMMA CidDrawn ==
  ASSUME ClientTypes, NEW k \in Calls, CallStarts(k)
  PROVE  ClientTypes'
<1>1. Started \subseteq Calls /\ IsFiniteSet(Calls) /\ Cardinality(Calls) = MaxCalls
  BY WireClientAssumption, FS_Interval DEF Started, Calls
<1>2. IsFiniteSet(Started) /\ k \notin Started
  BY <1>1, FS_Subset DEF Started, CallStarts
<1>3. Started \cup {k} \subseteq Calls
  BY <1>1
<1>4. /\ Cardinality(Started \cup {k}) = Cardinality(Started) + 1
      /\ Cardinality(Started \cup {k}) <= MaxCalls
  BY <1>1, <1>2, <1>3, FS_AddElement, FS_Subset
<1>5. Cardinality(Started) \in Nat
  BY <1>2, FS_CardinalityType
<1>6. nextCid \in 1 .. MaxCalls
  BY <1>4, <1>5, WireClientAssumption DEF ClientTypes
<1>7. call \in [Calls -> Call] /\ call[k] \in Call
  BY DEF ClientTypes
<1>8. /\ call' \in [Calls -> Call]
      /\ call'[k].st = "waiting" /\ call'[k].cid = nextCid
      /\ \A j \in Calls \ {k} : call'[j] = call[j]
  <2>1. call' = [call EXCEPT ![k] = [call[k] EXCEPT !.st = "waiting", !.cid = nextCid]]
    <3>1. call' = [call EXCEPT ![k].st = "waiting", ![k].cid = nextCid]
      BY DEF CallStarts
    <3> QED
      BY <1>7, <3>1, Zenon
  <2>2. [call[k] EXCEPT !.st = "waiting", !.cid = nextCid] \in Call
    <3>1. nextCid \in 0 .. MaxCalls
      BY <1>6, WireClientAssumption
    <3> QED
      BY <1>7, <3>1 DEF Call
  <2>3. /\ [call[k] EXCEPT !.st = "waiting", !.cid = nextCid].st = "waiting"
        /\ [call[k] EXCEPT !.st = "waiting", !.cid = nextCid].cid = nextCid
    BY <1>7 DEF Call
  <2> QED
    BY <1>7, <2>1, <2>2, <2>3
<1>9. Started' = Started \cup {k}
  BY <1>8 DEF Started
<1>10. nextCid' = Cardinality(Started') + 1
  BY <1>4, <1>5, <1>9 DEF CallStarts, ClientTypes
<1>11. \A j \in Started' : call'[j].cid # 0
  <2> SUFFICES ASSUME NEW j \in Started' PROVE call'[j].cid # 0
    OBVIOUS
  <2>1. CASE j = k
    BY <1>6, <1>8, <2>1
  <2>2. CASE j # k
    BY <1>3, <1>8, <1>9, <2>2 DEF ClientTypes
  <2> QED
    BY <2>1, <2>2
<1>12. UNCHANGED <<lock, opened, synced, cut>>
  BY DEF CallStarts
<1> QED
  BY <1>8, <1>10, <1>11, <1>12 DEF ClientTypes

\* The lock goes to a call or to nobody, and booleans stay booleans.
LEMMA CallTypes ==
  ASSUME ClientTypes, NEW k \in Calls, call[k].st # "new", NEW st, NEW got \in Answer,
         st \in {"waiting", "reading", "body", "returned", "failed", "cancelled"},
         \/ call' = [call EXCEPT ![k].st = st]
         \/ call' = [call EXCEPT ![k].st = st, ![k].got = got],
         lock' \in {lock, 0, k}, nextCid' = nextCid,
         opened' \in BOOLEAN, synced' \in BOOLEAN, cut' \in BOOLEAN
  PROVE  ClientTypes'
<1>1. call' \in [Calls -> Call] /\ Started' = Started
  BY CallMoves
<1>2. \A j \in Started' : call'[j].cid # 0
  <2>1. \A j \in Calls : call'[j].cid = call[j].cid
    BY CallMoves
  <2> QED
    BY <1>1, <2>1 DEF ClientTypes, Started
<1>3. lock' \in 0 .. MaxCalls
  BY WireClientAssumption DEF ClientTypes, Calls
<1>4. nextCid' = Cardinality(Started') + 1
  BY <1>1 DEF ClientTypes
<1> QED
  BY <1>1, <1>2, <1>3, <1>4 DEF ClientTypes

\* A step of a call, as the broker sees it: it writes a request, reads a
\* response, or closes.
LEMMA CallSocket ==
  ASSUME SocketTypes, ClientTypes, NEW k \in Calls,
         CallStarts(k) \/ CallNext(k) \/ CallGarbled(k) \/ CallCancelled(k)
  PROVE  /\ SocketTypes'
         /\ UNCHANGED <<brokerVars, wrote>>
         /\ peerOpen' = peerOpen \/ ~peerOpen'
<1>1. UNCHANGED <<brokerVars, wrote>>
  BY DEF CallStarts, CallNext, CallWrites, CallNotConnected, CallReadsLength,
         CallReturns, CallEof, CallGarbled, CallCancelled, connVars, brokerVars, sockVars
<1>2. peerOpen' \in BOOLEAN /\ (peerOpen' = peerOpen \/ ~peerOpen')
  BY DEF CallStarts, CallNext, CallWrites, CallNotConnected, CallReadsLength,
         CallReturns, CallEof, CallGarbled, CallCancelled, connVars, sockVars,
         SocketTypes, ClosesIf
<1>3. toBroker' \in Seq(Inbound)
  <2>1. CASE CallWrites(k)
    <3>1. k \in Started /\ call[k] \in Call
      BY <2>1 DEF CallWrites, Started, ClientTypes
    <3>2. call[k].cid \in Cids
      BY <3>1, WireClientAssumption DEF ClientTypes, Call
    <3>3. PICK kind \in {"connect"} \cup CallKinds :
            toBroker' = Append(toBroker, [cid |-> call[k].cid, kind |-> kind])
      BY <2>1 DEF CallWrites
    <3> DEFINE f == [cid |-> call[k].cid, kind |-> kind]
    <3>4. f \in Inbound
      BY <3>2, FrameFacts, WireClientAssumption DEF Inbound, Frame, Kinds
    <3>5. toBroker' = Append(toBroker, f)
      BY <3>3
    <3> HIDE DEF f
    <3> QED
      BY <3>4, <3>5, AppendProperties DEF SocketTypes
  <2>2. CASE ~CallWrites(k)
    <3>1. toBroker' = toBroker
      BY <2>2 DEF CallStarts, CallNext, CallNotConnected, CallReadsLength,
             CallReturns, CallEof, CallGarbled, CallCancelled, connVars, sockVars
    <3> QED
      BY <3>1 DEF SocketTypes
  <2> QED
    BY <2>1, <2>2
<1>4. nRead' \in 0 .. Len(wrote)
  <2>1. Len(wrote) \in Nat
    BY LenProperties DEF SocketTypes
  <2>2. nRead' = nRead \/ (nRead' = nRead + 1 /\ nRead < Len(wrote))
    BY DEF CallStarts, CallNext, CallWrites, CallNotConnected, CallReadsLength,
           CallReturns, CallEof, CallGarbled, CallCancelled, connVars, sockVars
  <2> QED
    BY <2>1, <2>2 DEF SocketTypes
<1> QED
  BY <1>1, <1>2, <1>3, <1>4 DEF SocketTypes

LEMMA TypesCall ==
  ASSUME TypeInv, NEW k \in Calls,
         CallStarts(k) \/ CallNext(k) \/ CallGarbled(k) \/ CallCancelled(k)
  PROVE  TypeInv'
<1> USE DEF TypeInv
<1>1. SocketTypes' /\ UNCHANGED brokerVars
  BY CallSocket
<1>2. ClientTypes'
  <2>1. CASE CallStarts(k)
    BY <2>1, CidDrawn
  <2>2. CASE ~CallStarts(k)
    <3>1. call[k].st # "new"
      BY <2>2 DEF CallNext, CallWrites, CallNotConnected, CallReadsLength, CallReturns,
                  CallEof, CallGarbled, CallCancelled, InTrip
    <3>2. /\ lock' \in {lock, 0, k} /\ nextCid' = nextCid
          /\ opened' \in BOOLEAN /\ synced' \in BOOLEAN /\ cut' \in BOOLEAN
      BY <2>2 DEF CallNext, CallWrites, CallNotConnected, CallReadsLength, CallReturns,
                  CallEof, CallGarbled, CallCancelled, Leaves, ClientTypes
    <3>3. CASE CallReturns(k)
      <4>1. wrote[nRead + 1] \in Answer
        BY <3>3, LenProperties, ElementOfSeq DEF CallReturns, SocketTypes
      <4>2. call' = [call EXCEPT ![k].st = "returned", ![k].got = wrote[nRead + 1]]
        BY <3>3 DEF CallReturns
      <4> QED
        BY <3>1, <3>2, <4>1, <4>2, CallTypes
    <3>4. CASE ~CallReturns(k)
      <4>1. PICK st \in {"reading", "body", "failed", "cancelled"} :
              call' = [call EXCEPT ![k].st = st]
        BY <2>2, <3>4 DEF CallNext, CallWrites, CallNotConnected, CallReadsLength,
                          CallEof, CallGarbled, CallCancelled, Leaves
      <4> QED
        BY <3>1, <3>2, <4>1, FrameFacts, CallTypes
    <3> QED
      BY <3>3, <3>4
  <2> QED
    BY <2>1, <2>2
<1> QED
  BY <1>1, <1>2, TypesFrames DEF brokerVars, dispVars

LEMMA TypesPreserved ==
  ASSUME TypeInv, [Next]_vars
  PROVE  TypeInv'
<1>1. CASE UNCHANGED vars
  <2>1. UNCHANGED <<connVars, clientVars>>
    BY <1>1 DEF vars
  <2>2. UNCHANGED <<sockVars, readerVars, reqQ, dispVars, taskVars, respQ, writerVars, disp>>
    BY <2>1 DEF connVars, dispVars
  <2> QED
    BY <2>1, <2>2, TypesFrames DEF TypeInv
<1>2. CASE BrokerNext /\ UNCHANGED clientVars
  BY <1>2, TypesReader, TypesDispTakes, TypesDispRest, TypesTask, TypesWriter
     DEF BrokerNext, DispNext
<1>3. CASE PeerNext /\ UNCHANGED clientVars
  BY <1>3, TypesPeer
<1>4. CASE ClientCloses
  BY <1>4, TypesPeer DEF ClientCloses, PeerNext
<1>5. ASSUME NEW k \in Calls,
             CallStarts(k) \/ CallNext(k) \/ CallGarbled(k) \/ CallCancelled(k)
      PROVE  TypeInv'
  BY <1>5, TypesCall
<1> QED
  BY <1>1, <1>2, <1>3, <1>4, <1>5 DEF Next

\* Every variable keeps its type and the two channels keep their capacity,
\* whatever a peer sends and however the tasks of the connection interleave.
THEOREM WireTypes == Spec => []TypeOK
<1>1. TypeInv => TypeOK
  <2> SUFFICES ASSUME TypeInv PROVE TypeOK
    OBVIOUS
  <2>1. toBroker \in Seq(Frame) /\ reqQ \in Seq(Frame)
    <3>1. \A q \in Seq(Inbound) : q \in Seq(Frame)
      BY FrameFacts, SeqDef, ElementOfSeq, LenProperties
    <3> QED
      BY <3>1 DEF TypeInv, SocketTypes, ReaderTypes
  <2>2. \A t \in DOMAIN tasks :
          tasks[t].st \in {"running", "sending", "removing", "done", "aborted", "panicked"}
    BY TaskType DEF TypeInv, TaskTypes, Task
  <2> QED
    BY <2>1, <2>2 DEF TypeInv, SocketTypes, ReaderTypes, DispTypes, TaskTypes, WriterTypes,
                      ClientTypes, TypeOK
<1> QED
  BY <1>1, TypesInitially, TypesPreserved, PTL DEF Spec

-----------------------------------------------------------------------------
(* What is on its way to the peer *)

LEMMA OneElement ==
  ASSUME NEW S, NEW x \in S
  PROVE  <<x>> \in Seq(S) /\ Len(<<x>>) = 1 /\ <<x>>[1] = x
OBVIOUS

\* Putting a response behind what is on its way.
LEMMA ConcatAppend ==
  ASSUME NEW S, NEW p \in Seq(S), NEW q \in Seq(S), NEW x \in S
  PROVE  p \o Append(q, x) = Append(p \o q, x)
<1>1. /\ p \o q \in Seq(S) /\ Len(p \o q) = Len(p) + Len(q)
      /\ \A i \in 1 .. Len(p) + Len(q) :
           (p \o q)[i] = IF i <= Len(p) THEN p[i] ELSE q[i - Len(p)]
  BY ConcatProperties
<1>2. /\ Append(q, x) \in Seq(S) /\ Len(Append(q, x)) = Len(q) + 1
      /\ Append(q, x)[Len(q) + 1] = x
      /\ \A i \in 1 .. Len(q) : Append(q, x)[i] = q[i]
      /\ Len(q) \in Nat /\ Len(p) \in Nat
  BY QueueFacts, LenProperties
<1> DEFINE l == p \o Append(q, x)
           r == Append(p \o q, x)
           ap == Append(q, x)
<1>3. /\ l \in Seq(S) /\ Len(l) = Len(p) + Len(ap)
      /\ \A i \in 1 .. Len(p) + Len(ap) :
           l[i] = IF i <= Len(p) THEN p[i] ELSE ap[i - Len(p)]
  BY <1>2, ConcatProperties
<1>4. /\ r \in Seq(S) /\ Len(r) = Len(p \o q) + 1
      /\ r[Len(p \o q) + 1] = x
      /\ \A i \in 1 .. Len(p \o q) : r[i] = (p \o q)[i]
  BY <1>1, QueueFacts
<1>5. /\ ap \in Seq(S) /\ Len(ap) = Len(q) + 1 /\ ap[Len(q) + 1] = x
      /\ \A i \in 1 .. Len(q) : ap[i] = q[i]
  BY <1>2
<1> HIDE DEF l, r, ap
<1>6. Len(l) = Len(r)
  BY <1>1, <1>2, <1>3, <1>4, <1>5
<1>7. \A i \in 1 .. Len(l) : l[i] = r[i]
  <2> SUFFICES ASSUME NEW i \in 1 .. Len(l) PROVE l[i] = r[i]
    OBVIOUS
  <2>1. CASE i <= Len(p)
    <3>1. i \in 1 .. Len(p) + Len(q) /\ i \in 1 .. Len(p \o q) /\ i \in 1 .. Len(p) + Len(ap)
      BY <1>1, <1>2, <1>3, <1>5, <2>1
    <3>2. l[i] = p[i] /\ r[i] = (p \o q)[i] /\ (p \o q)[i] = p[i]
      BY <1>1, <1>3, <1>4, <2>1, <3>1
    <3> QED
      BY <3>2
  <2>2. CASE i > Len(p) /\ i <= Len(p) + Len(q)
    <3>1. /\ i \in 1 .. Len(p) + Len(q) /\ i \in 1 .. Len(p \o q) /\ i \in 1 .. Len(p) + Len(ap)
          /\ i - Len(p) \in 1 .. Len(q) /\ ~(i <= Len(p))
      BY <1>1, <1>2, <1>3, <1>5, <2>2
    <3>2. l[i] = ap[i - Len(p)] /\ r[i] = (p \o q)[i] /\ (p \o q)[i] = q[i - Len(p)]
      BY <1>1, <1>3, <1>4, <3>1
    <3> QED
      BY <1>5, <3>1, <3>2
  <2>3. CASE i > Len(p) + Len(q)
    <3>1. /\ i = Len(p \o q) + 1 /\ i \in 1 .. Len(p) + Len(ap)
          /\ i - Len(p) = Len(q) + 1 /\ ~(i <= Len(p))
      BY <1>1, <1>2, <1>3, <1>5, <2>3
    <3>2. l[i] = ap[i - Len(p)] /\ r[i] = x
      BY <1>3, <1>4, <3>1
    <3> QED
      BY <1>5, <3>1, <3>2
  <2> QED
    BY <1>2, <1>3, <1>5, <2>1, <2>2, <2>3
<1> QED
  BY <1>3, <1>4, <1>6, <1>7, SeqEqual DEF l, r

\* The writer takes the head of the channel: nothing changes place.
LEMMA HeadConcat ==
  ASSUME NEW S, NEW q \in Seq(S), q # <<>>
  PROVE  q = <<Head(q)>> \o Tail(q)
<1> DEFINE h == <<Head(q)>>
           l == h \o Tail(q)
<1>1. h \in Seq(S) /\ Len(h) = 1 /\ h[1] = q[1]
  BY HeadFacts, OneElement
<1>2. /\ Tail(q) \in Seq(S) /\ Len(Tail(q)) = Len(q) - 1 /\ Len(q) \in Nat \ {0}
      /\ \A i \in 1 .. Len(Tail(q)) : Tail(q)[i] = q[i + 1]
  BY HeadFacts
<1>3. /\ l \in Seq(S) /\ Len(l) = Len(h) + Len(Tail(q))
      /\ \A i \in 1 .. Len(h) + Len(Tail(q)) :
           l[i] = IF i <= Len(h) THEN h[i] ELSE Tail(q)[i - Len(h)]
  BY <1>1, <1>2, ConcatProperties
<1> HIDE DEF h, l
<1>4. Len(l) = Len(q)
  BY <1>1, <1>2, <1>3
<1>5. \A i \in 1 .. Len(q) : l[i] = q[i]
  <2> SUFFICES ASSUME NEW i \in 1 .. Len(q) PROVE l[i] = q[i]
    OBVIOUS
  <2>1. CASE i = 1
    BY <1>1, <1>2, <1>3, <2>1
  <2>2. CASE i # 1
    <3>1. i - 1 \in 1 .. Len(Tail(q)) /\ i \in 1 .. Len(h) + Len(Tail(q)) /\ ~(i <= Len(h))
      BY <1>1, <1>2, <2>2
    <3>2. l[i] = Tail(q)[i - 1]
      BY <1>1, <1>3, <3>1
    <3>3. (i - 1) + 1 = i
      BY <3>1
    <3> QED
      BY <1>2, <3>1, <3>2, <3>3
  <2> QED
    BY <2>1, <2>2
<1> QED
  BY <1>3, <1>4, <1>5, SeqEqual DEF h, l

\* The parts of what is on its way.
LEMMA OutgoingParts ==
  ASSUME TypeInv
  PROVE  /\ Outgoing \in Seq(Answer)
         /\ writer # "writing" => Outgoing = wrote \o respQ
         /\ writer = "writing" => Outgoing = (wrote \o <<wframe>>) \o respQ
<1>1. wrote \in Seq(Answer) /\ respQ \in Seq(Answer) /\ wframe \in Answer
  BY DEF TypeInv, SocketTypes, WriterTypes
<1>2. wrote \o <<>> = wrote
  BY <1>1, ConcatEmptySeq
<1>3. CASE writer # "writing"
  <2>1. Outgoing = wrote \o respQ
    BY <1>2, <1>3 DEF Outgoing
  <2> QED
    BY <1>1, <1>3, <2>1, ConcatProperties
<1>4. CASE writer = "writing"
  <2>1. Outgoing = (wrote \o <<wframe>>) \o respQ
    BY <1>4 DEF Outgoing
  <2> DEFINE one == <<wframe>>
  <2>2. one \in Seq(Answer)
    BY <1>1, OneElement
  <2>3. Outgoing = (wrote \o one) \o respQ
    BY <2>1
  <2> HIDE DEF one
  <2>4. Outgoing \in Seq(Answer)
    BY <1>1, <2>2, <2>3, ConcatProperties
  <2> QED
    BY <1>4, <2>1, <2>4
<1> QED
  BY <1>3, <1>4

LEMMA OutgoingKept ==
  ASSUME UNCHANGED <<wrote, respQ, writerVars>>
  PROVE  Outgoing' = Outgoing /\ writer' = writer
BY DEF Outgoing, writerVars

\* A send: the response is put behind the others, or dropped once the writer
\* has ended.
LEMMA OutgoingSent ==
  ASSUME TypeInv, TypeInv', NEW r \in Answer, SendResponse(r),
         UNCHANGED <<wrote, writerVars>>
  PROVE  /\ writer' = writer
         /\ writer = "done" => (Outgoing' = Outgoing /\ respQ' = respQ)
         /\ writer # "done" => Outgoing' = Append(Outgoing, r)
<1>1. writer' = writer /\ wframe' = wframe /\ wrote' = wrote
  BY DEF writerVars
<1>2. CASE writer = "done"
  BY <1>1, <1>2 DEF SendResponse, Outgoing
<1>3. CASE writer # "done"
  <2> DEFINE front == wrote \o (IF writer = "writing" THEN <<wframe>> ELSE <<>>)
  <2>1. front \in Seq(Answer)
    <3>1. wrote \in Seq(Answer) /\ wframe \in Answer
      BY DEF TypeInv, SocketTypes, WriterTypes
    <3>2. (IF writer = "writing" THEN <<wframe>> ELSE <<>>) \in Seq(Answer)
      BY <3>1, OneElement, EmptySeq
    <3> QED
      BY <3>1, <3>2, ConcatProperties
  <2>2. Outgoing = front \o respQ /\ Outgoing' = front \o Append(respQ, r)
    BY <1>1, <1>3 DEF Outgoing, SendResponse
  <2>3. respQ \in Seq(Answer)
    BY DEF TypeInv, WriterTypes
  <2> HIDE DEF front
  <2>4. front \o Append(respQ, r) = Append(front \o respQ, r)
    BY <2>1, <2>3, ConcatAppend
  <2> QED
    BY <1>1, <1>3, <2>2, <2>4
<1> QED
  BY <1>2, <1>3

\* The writer moves responses along; when it ends, what it had not written is
\* gone.
Cut(new, old) ==
  /\ Len(new) <= Len(old)
  /\ \A i \in 1 .. Len(new) : new[i] = old[i]

LEMMA OutgoingWritten ==
  ASSUME TypeInv, TypeInv', writer = "done" => respQ = <<>>, WriterNext
  PROVE  /\ writer' = "done" => respQ' = <<>>
         /\ \/ Outgoing' = Outgoing
            \/ writer' = "done" /\ Cut(Outgoing', Outgoing)
<1>1. wrote \in Seq(Answer) /\ respQ \in Seq(Answer) /\ wframe \in Answer
  BY DEF TypeInv, SocketTypes, WriterTypes
<1>2. wrote \o <<>> = wrote
  BY <1>1, ConcatEmptySeq
<1>3. \A q \in Seq(Answer) : Cut(wrote, wrote \o q)
  BY <1>1, ConcatProperties, LenProperties DEF Cut
<1>4. CASE WriterTakes /\ Head(respQ).kind = "bulky"
  <2>1. Outgoing' = wrote /\ Outgoing = wrote \o respQ /\ writer' = "done" /\ respQ' = <<>>
    <3>1. /\ writer = "recv" /\ writer' = "done" /\ respQ' = <<>> /\ wrote' = wrote
      BY <1>4 DEF WriterTakes, sockVars
    <3>2. Outgoing' = wrote
      BY <1>2, <3>1 DEF Outgoing
    <3> QED
      BY <3>1, <3>2, OutgoingParts
  <2> QED
    BY <1>1, <1>3, <2>1
<1>5. CASE WriterTakes /\ Head(respQ).kind # "bulky"
  <2>1. /\ writer' = "writing" /\ wrote' = wrote /\ respQ' = Tail(respQ)
        /\ wframe' = Head(respQ) /\ writer = "recv" /\ respQ # <<>>
    BY <1>5 DEF WriterTakes, sockVars
  <2>2. Outgoing' = (wrote \o <<Head(respQ)>>) \o Tail(respQ)
    BY <2>1 DEF Outgoing
  <2>3. Outgoing = wrote \o respQ
    BY <2>1, OutgoingParts
  <2> DEFINE h == <<Head(respQ)>>
  <2>4. h \in Seq(Answer) /\ Tail(respQ) \in Seq(Answer)
    BY <1>1, <2>1, HeadFacts, OneElement
  <2>5. respQ = h \o Tail(respQ)
    BY <1>1, <2>1, HeadConcat
  <2>6. Outgoing' = (wrote \o h) \o Tail(respQ)
    BY <2>2
  <2> HIDE DEF h
  <2>7. (wrote \o h) \o Tail(respQ) = wrote \o (h \o Tail(respQ))
    BY <1>1, <2>4, ConcatAssociative
  <2> QED
    BY <2>1, <2>3, <2>5, <2>6, <2>7
<1>6. CASE WriterWrites
  <2>1. /\ writer = "writing" /\ writer' = "recv" /\ respQ' = respQ
        /\ wrote' = Append(wrote, wframe)
    BY <1>6 DEF WriterWrites
  <2>2. Outgoing = (wrote \o <<wframe>>) \o respQ
    BY <2>1, OutgoingParts
  <2>3. wrote' \in Seq(Answer) /\ wrote' \o <<>> = wrote'
    BY ConcatEmptySeq DEF TypeInv, SocketTypes
  <2>4. Outgoing' = wrote' \o respQ
    BY <2>1, <2>3 DEF Outgoing
  <2>5. wrote' = wrote \o <<wframe>>
    BY <1>1, <2>1, AppendIsConcat
  <2> QED
    BY <2>1, <2>2, <2>4, <2>5
<1>7. CASE WriterFails
  <2>1. writer = "writing" /\ writer' = "done" /\ respQ' = <<>> /\ wrote' = wrote
    BY <1>7 DEF WriterFails, sockVars
  <2>2. Outgoing' = wrote
    BY <1>2, <2>1 DEF Outgoing
  <2> DEFINE one == <<wframe>>
  <2>3. one \in Seq(Answer)
    BY <1>1, OneElement
  <2>4. Outgoing = (wrote \o one) \o respQ
    BY <2>1, OutgoingParts
  <2> HIDE DEF one
  <2>5. Outgoing = wrote \o (one \o respQ) /\ one \o respQ \in Seq(Answer)
    BY <1>1, <2>3, <2>4, ConcatAssociative, ConcatProperties
  <2> QED
    BY <1>3, <2>1, <2>2, <2>5
<1>8. CASE WriterEnds
  <2>1. writer = "recv" /\ writer' = "done" /\ UNCHANGED <<wrote, respQ>> /\ respQ = <<>>
    BY <1>8 DEF WriterEnds, sockVars
  <2> QED
    BY <2>1 DEF Outgoing
<1> QED
  BY <1>4, <1>5, <1>6, <1>7, <1>8 DEF WriterNext

LEMMA OutgoingTyped ==
  /\ TypeInv  => Outgoing \in Seq(Answer)
  /\ TypeInv' => Outgoing' \in Seq(Answer)
<1>1. \A w, q \in Seq(Answer), x \in Answer :
        (w \o <<x>>) \o q \in Seq(Answer) /\ (w \o <<>>) \o q \in Seq(Answer)
  <2> SUFFICES ASSUME NEW w \in Seq(Answer), NEW q \in Seq(Answer), NEW x \in Answer
               PROVE  (w \o <<x>>) \o q \in Seq(Answer) /\ (w \o <<>>) \o q \in Seq(Answer)
    OBVIOUS
  <2> DEFINE one == <<x>>
  <2>1. one \in Seq(Answer)
    BY OneElement
  <2> HIDE DEF one
  <2>2. (w \o one) \o q \in Seq(Answer)
    BY <2>1, ConcatProperties
  <2>3. (w \o <<>>) \o q \in Seq(Answer)
    BY ConcatEmptySeq, ConcatProperties
  <2> QED
    BY <2>2, <2>3 DEF one
<1>2. TypeInv => Outgoing \in Seq(Answer)
  BY <1>1 DEF TypeInv, SocketTypes, WriterTypes, Outgoing
<1>3. TypeInv' => Outgoing' \in Seq(Answer)
  BY <1>1 DEF TypeInv, SocketTypes, WriterTypes, Outgoing
<1> QED
  BY <1>2, <1>3

-----------------------------------------------------------------------------
(* Connected goes out first, and once *)

LEMMA EmptyOutgoing == ASSUME Init PROVE Outgoing = <<>>
<1>1. wrote = <<>> /\ respQ = <<>> /\ writer = "recv"
  BY DEF Init, ConnInit
<1> QED
  BY <1>1 DEF Outgoing

LEMMA HandshakeInitially == Init => HandshakeInv
<1> SUFFICES ASSUME Init PROVE HandshakeInv
  OBVIOUS
<1>1. Outgoing = <<>>
  BY EmptyOutgoing
<1>2. \A i \in DOMAIN Outgoing : FALSE
  BY <1>1, EmptyDomain
<1>3. /\ respQ = <<>> /\ writer = "recv" /\ disp = "recv" /\ tasks = <<>>
      /\ reply.out.kind = "error" /\ ~connected
  BY DEF Init, ConnInit, NoAnswer
<1> QED
  BY <1>1, <1>2, <1>3 DEF HandshakeInv, Greets

\* A task that exists: the handshake is over.
LEMMA TasksAfterGreeting ==
  ASSUME HandshakeInv, NEW t \in DOMAIN tasks
  PROVE  connected /\ ~Greets
BY EmptyDomain DEF HandshakeInv

\* What is on its way after a cut.
LEMMA CutFacts ==
  ASSUME NEW new \in Seq(Answer), NEW old \in Seq(Answer), Cut(new, old)
  PROVE  /\ \A i \in DOMAIN new : i \in DOMAIN old /\ new[i] = old[i]
         /\ new # <<>> => (old # <<>> /\ new[1] = old[1])
         /\ old = <<>> => new = <<>>
<1>1. /\ DOMAIN new = 1 .. Len(new) /\ DOMAIN old = 1 .. Len(old)
      /\ Len(new) \in Nat /\ Len(old) \in Nat
  BY LenProperties
<1>2. \A i \in DOMAIN new : i \in DOMAIN old /\ new[i] = old[i]
  BY <1>1 DEF Cut
<1>3. ASSUME new # <<>> PROVE old # <<>> /\ new[1] = old[1]
  <2>1. Len(new) \in Nat \ {0}
    BY <1>3, EmptySeq
  <2>2. 1 \in DOMAIN new
    BY <1>1, <2>1
  <2>3. 1 \in DOMAIN old /\ new[1] = old[1]
    BY <1>2, <2>2
  <2> QED
    BY <2>3, EmptyDomain
<1> QED
  BY <1>2, <1>3

\* The dispatcher stands still, and what is on its way stays or is cut.
LEMMA HandshakeFrame ==
  ASSUME TypeInv, TypeInv', HandshakeInv, UNCHANGED <<disp, reply, connected, tasks>>,
         writer' = "done" => respQ' = <<>>,
         writer = "done" => writer' = "done",
         \/ Outgoing' = Outgoing
         \/ writer' = "done" /\ Cut(Outgoing', Outgoing)
  PROVE  HandshakeInv'
<1>1. Outgoing \in Seq(Answer) /\ Outgoing' \in Seq(Answer)
  BY OutgoingTyped
<1>2. Greets' = Greets
  BY DEF Greets
<1>3. \A i \in DOMAIN Outgoing' : i \in DOMAIN Outgoing /\ Outgoing'[i] = Outgoing[i]
  BY <1>1, CutFacts
<1>4. Outgoing' # <<>> => (Outgoing # <<>> /\ Outgoing'[1] = Outgoing[1])
  BY <1>1, CutFacts
<1>5. Outgoing' = Outgoing \/ writer' = "done"
  OBVIOUS
<1> QED
  BY <1>2, <1>3, <1>4, <1>5 DEF HandshakeInv

\* A step of the dispatcher, or of a task, that sends nothing.
LEMMA HandshakeSteps ==
  ASSUME TypeInv, TypeInv', HandshakeInv, UNCHANGED <<wrote, respQ, writerVars>>,
         \/ UNCHANGED <<disp, reply, connected, tasks>>
         \/ DispForwardsError \/ DispHandshakes \/ DispRefuses \/ DispRejects
         \/ DispSpawns \/ DispRegisters \/ DispEnds \/ DispDrains \/ DispCloses
         \/ \E t \in DOMAIN tasks : UNCHANGED dispVars
  PROVE  HandshakeInv'
<1>1. Outgoing' = Outgoing /\ writer' = writer /\ respQ' = respQ
  BY OutgoingKept
<1>2. CASE UNCHANGED <<disp, reply, connected, tasks>>
  BY <1>1, <1>2, HandshakeFrame DEF HandshakeInv
<1>3. CASE DispForwardsError \/ DispRefuses
  <2>1. /\ disp = "recv" /\ disp' = "reply" /\ reply'.out.kind = "error"
        /\ reply'.next = "drain" /\ UNCHANGED <<connected, tasks>>
    BY <1>3 DEF DispForwardsError, DispRefuses, Takes, Replies, Response, taskVars
  <2> QED
    BY <1>1, <2>1 DEF HandshakeInv, Greets
<1>4. CASE DispHandshakes
  <2>1. /\ disp = "recv" /\ disp' = "reply" /\ reply'.out.kind = "connected"
        /\ ~connected /\ connected' /\ tasks' = tasks
    BY <1>4 DEF DispHandshakes, Takes, Replies, Response, taskVars
  <2> QED
    BY <1>1, <2>1 DEF HandshakeInv, Greets
<1>5. CASE DispRejects
  <2>1. /\ disp = "recv" /\ disp' = "reply" /\ reply'.out.kind = "error"
        /\ connected /\ UNCHANGED <<connected, tasks>>
    BY <1>5 DEF DispRejects, Takes, Replies, Response, taskVars
  <2> QED
    BY <1>1, <2>1 DEF HandshakeInv, Greets
<1>6. CASE DispSpawns
  <2>1. /\ disp = "recv" /\ disp' = "register" /\ connected /\ UNCHANGED <<reply, connected>>
    BY <1>6 DEF DispSpawns, Takes
  <2> QED
    BY <1>1, <2>1 DEF HandshakeInv, Greets
<1>7. CASE DispRegisters
  <2>1. /\ disp = "register" /\ disp' = "recv" /\ UNCHANGED <<reply, connected, tasks>>
    BY <1>7 DEF DispRegisters
  <2> QED
    BY <1>1, <2>1 DEF HandshakeInv, Greets
<1>8. CASE DispEnds \/ DispCloses
  <2>1. /\ disp # "reply" /\ disp' \in {"drain", "closed"}
        /\ UNCHANGED <<reply, connected, tasks>>
    BY <1>8 DEF DispEnds, DispCloses, taskVars
  <2> QED
    BY <1>1, <2>1 DEF HandshakeInv, Greets
<1>9. CASE DispDrains
  <2>1. disp = "drain" /\ disp' = "join" /\ UNCHANGED <<reply, connected>>
    BY <1>9 DEF DispDrains
  <2>2. tasks = <<>> => tasks' = <<>>
    <3> SUFFICES ASSUME tasks = <<>> PROVE tasks' = <<>>
      OBVIOUS
    <3>1. DOMAIN tasks' = {}
      BY <1>9, EmptyDomain DEF DispDrains
    <3>2. tasks' \in Seq(Task)
      BY DEF TypeInv, TaskTypes
    <3>3. ASSUME tasks' # <<>> PROVE FALSE
      <4>1. Len(tasks') \in Nat \ {0} /\ DOMAIN tasks' = 1 .. Len(tasks')
        BY <3>2, <3>3, EmptySeq, LenProperties
      <4> QED
        BY <3>1, <4>1
    <3> QED
      BY <3>3
  <2> QED
    BY <1>1, <2>1, <2>2 DEF HandshakeInv, Greets
<1>10. ASSUME NEW t \in DOMAIN tasks, UNCHANGED dispVars PROVE HandshakeInv'
  <2>1. connected /\ ~Greets /\ UNCHANGED <<disp, reply, connected>>
    BY <1>10, TasksAfterGreeting DEF dispVars
  <2> QED
    BY <1>1, <2>1 DEF HandshakeInv, Greets
<1> QED
  BY <1>2, <1>3, <1>4, <1>5, <1>6, <1>7, <1>8, <1>9, <1>10

\* Behind what is on its way there is one response more.
LEMMA AppendFacts ==
  ASSUME NEW old \in Seq(Answer), NEW r \in Answer
  PROVE  /\ Append(old, r) # <<>>
         /\ DOMAIN Append(old, r) = DOMAIN old \cup {Len(old) + 1}
         /\ Append(old, r)[Len(old) + 1] = r
         /\ \A i \in DOMAIN old : Append(old, r)[i] = old[i] /\ i # Len(old) + 1
         /\ old = <<>> => Append(old, r)[1] = r
         /\ old # <<>> => (Append(old, r)[1] = old[1] /\ Len(old) + 1 # 1)
         /\ Len(old) + 1 = 1 => old = <<>>
<1> DEFINE new == Append(old, r)
<1>1. /\ new \in Seq(Answer) /\ Len(new) = Len(old) + 1 /\ new[Len(old) + 1] = r
      /\ \A i \in 1 .. Len(old) : new[i] = old[i]
      /\ Len(old) \in Nat
  BY QueueFacts
<1> HIDE DEF new
<1>2. DOMAIN new = 1 .. Len(old) + 1 /\ DOMAIN old = 1 .. Len(old)
  BY <1>1, LenProperties
<1>3. new # <<>>
  BY <1>1, <1>2, EmptyDomain
<1>4. old = <<>> => Len(old) = 0
  BY EmptySeq
<1>5. old # <<>> => Len(old) \in Nat \ {0}
  BY EmptySeq
<1>6. DOMAIN new = DOMAIN old \cup {Len(old) + 1}
  BY <1>1, <1>2
<1>7. \A i \in DOMAIN old : new[i] = old[i] /\ i # Len(old) + 1
  BY <1>1, <1>2
<1>8. /\ old = <<>> => new[1] = r
      /\ old # <<>> => (new[1] = old[1] /\ Len(old) + 1 # 1)
      /\ Len(old) + 1 = 1 => old = <<>>
  BY <1>1, <1>4, <1>5
<1> QED
  BY <1>1, <1>3, <1>6, <1>7, <1>8 DEF new

LEMMA HandshakeReplies ==
  ASSUME TypeInv, TypeInv', HandshakeInv, DispReplies
  PROVE  HandshakeInv'
<1>1. reply.out \in Answer /\ reply.out.kind \in {"connected", "error"}
  BY FrameFacts DEF TypeInv, DispTypes, Own
<1>2. /\ writer' = writer
      /\ writer = "done" => (Outgoing' = Outgoing /\ respQ' = respQ)
      /\ writer # "done" => Outgoing' = Append(Outgoing, reply.out)
  BY <1>1, OutgoingSent DEF DispReplies, sockVars
<1>3. /\ disp = "reply" /\ disp' = reply.next /\ disp' # "reply" /\ disp' # "register"
      /\ UNCHANGED <<connected, tasks>> /\ reply'.out.kind = "error"
  BY DEF DispReplies, taskVars, NoAnswer, TypeInv, DispTypes
<1>4. ~Greets'
  BY <1>3 DEF Greets
<1>5. CASE writer = "done"
  <2>1. Outgoing' = Outgoing /\ writer' = writer /\ respQ' = respQ
    BY <1>2, <1>5
  <2> QED
    BY <1>3, <1>4, <1>5, <2>1 DEF HandshakeInv, Greets
<1>6. CASE writer # "done"
  <2> DEFINE r == reply.out
             n == Len(Outgoing) + 1
  <2>1. Outgoing \in Seq(Answer) /\ Outgoing' = Append(Outgoing, r) /\ r \in Answer
    BY <1>1, <1>2, <1>6, OutgoingTyped
  <2>2. Greets <=> r.kind = "connected"
    BY <1>3 DEF Greets
  <2>3. Greets => connected
    BY <2>2 DEF HandshakeInv
  <2> HIDE DEF r
  <2>4. /\ Outgoing' # <<>>
        /\ DOMAIN Outgoing' = DOMAIN Outgoing \cup {n}
        /\ Outgoing'[n] = r
        /\ \A i \in DOMAIN Outgoing : Outgoing'[i] = Outgoing[i] /\ i # n
        /\ Outgoing = <<>> => Outgoing'[1] = r
        /\ Outgoing # <<>> => (Outgoing'[1] = Outgoing[1] /\ n # 1)
        /\ n = 1 => Outgoing = <<>>
    BY <2>1, AppendFacts
  <2>5. Outgoing = <<>> => n = 1
    BY EmptySeq
  <2> HIDE DEF n
  <2>6. Greets => Outgoing = <<>>
    BY DEF HandshakeInv
  <2>7. r.kind = "error" \/ Greets
    BY <1>1, <2>2 DEF r
  <2>8. (disp' = "recv" /\ ~connected) => FALSE
    BY <1>3 DEF HandshakeInv
  <2>9. connected => (Outgoing'[1].kind = "connected")
    <3>1. CASE Greets
      BY <2>2, <2>4, <2>6, <3>1
    <3>2. CASE ~Greets /\ connected
      BY <1>6, <2>4, <3>2 DEF HandshakeInv
    <3> QED
      BY <2>3, <3>1, <3>2
  <2>10. \A i \in DOMAIN Outgoing' : i # 1 => Outgoing'[i].kind # "connected"
    <3> SUFFICES ASSUME NEW i \in DOMAIN Outgoing', i # 1
                 PROVE  Outgoing'[i].kind # "connected"
      OBVIOUS
    <3>1. CASE i = n
      <4>1. ~Greets
        BY <2>5, <2>6, <3>1
      <4> QED
        BY <2>2, <2>4, <3>1, <4>1
    <3>2. CASE i \in DOMAIN Outgoing
      BY <2>4, <3>2 DEF HandshakeInv
    <3> QED
      BY <2>4, <3>1, <3>2
  <2>11. ~connected => \A i \in DOMAIN Outgoing' : Outgoing'[i].kind = "error"
    <3> SUFFICES ASSUME ~connected, NEW i \in DOMAIN Outgoing'
                 PROVE  Outgoing'[i].kind = "error"
      OBVIOUS
    <3>1. CASE i = n
      BY <2>3, <2>4, <2>7, <3>1
    <3>2. CASE i \in DOMAIN Outgoing
      BY <2>4, <3>2 DEF HandshakeInv
    <3> QED
      BY <2>4, <3>1, <3>2
  <2>12. writer' # "done"
    BY <1>2, <1>6
  <2>13. ~connected => tasks = <<>>
    BY DEF HandshakeInv
  <2> QED
    BY <1>3, <1>4, <2>4, <2>8, <2>9, <2>10, <2>11, <2>12, <2>13 DEF HandshakeInv
<1> QED
  BY <1>5, <1>6

LEMMA HandshakeTaskSends ==
  ASSUME TypeInv, TypeInv', HandshakeInv, NEW t \in DOMAIN tasks, TaskSends(t)
  PROVE  HandshakeInv'
<1> DEFINE r == DispatchOne(tasks[t].frame)
           n == Len(Outgoing) + 1
<1>1. r \in Answer /\ r.kind # "connected"
  BY TaskType, HandlerAnswers DEF TypeInv, TaskTypes
<1>2. SendResponse(r) /\ UNCHANGED <<wrote, writerVars>>
  BY DEF TaskSends, sockVars
<1>3. connected /\ ~Greets /\ UNCHANGED <<disp, reply, connected>>
  BY TasksAfterGreeting DEF TaskSends, dispVars
<1> HIDE DEF r
<1>4. /\ writer' = writer
      /\ writer = "done" => (Outgoing' = Outgoing /\ respQ' = respQ)
      /\ writer # "done" => Outgoing' = Append(Outgoing, r)
  BY <1>1, <1>2, OutgoingSent
<1>5. CASE writer = "done"
  <2>1. Outgoing' = Outgoing /\ writer' = writer /\ respQ' = respQ
    BY <1>4, <1>5
  <2> QED
    BY <1>3, <2>1 DEF HandshakeInv, Greets
<1>6. CASE writer # "done"
  <2>1. Outgoing \in Seq(Answer) /\ Outgoing' = Append(Outgoing, r)
    BY <1>4, <1>6, OutgoingTyped
  <2>2. /\ Outgoing' # <<>>
        /\ DOMAIN Outgoing' = DOMAIN Outgoing \cup {n}
        /\ Outgoing'[n] = r
        /\ \A i \in DOMAIN Outgoing : Outgoing'[i] = Outgoing[i] /\ i # n
        /\ Outgoing # <<>> => Outgoing'[1] = Outgoing[1]
    BY <1>1, <2>1, AppendFacts
  <2> HIDE DEF n
  <2>3. Outgoing # <<>> /\ Outgoing[1].kind = "connected"
    BY <1>3, <1>6 DEF HandshakeInv
  <2>4. \A i \in DOMAIN Outgoing' : i # 1 => Outgoing'[i].kind # "connected"
    BY <1>1, <2>2 DEF HandshakeInv
  <2>5. writer' # "done" /\ ~Greets'
    BY <1>3, <1>4, <1>6 DEF Greets
  <2> QED
    BY <1>3, <2>2, <2>3, <2>4, <2>5 DEF HandshakeInv
<1> QED
  BY <1>5, <1>6

\* Who moves what: all steps but those of the dispatcher and of the tasks
\* leave both alone, all but sends and the writer's leave the way out alone.
LEMMA StepKinds ==
  ASSUME TypeInv, [Next]_vars
  PROVE  \/ /\ UNCHANGED <<wrote, respQ, writerVars>>
            /\ \/ UNCHANGED <<dispVars, taskVars>>
               \/ DispForwardsError \/ DispHandshakes \/ DispRefuses \/ DispRejects
               \/ DispSpawns \/ DispRegisters \/ DispEnds \/ DispDrains \/ DispCloses
               \/ \E t \in DOMAIN tasks :
                    TaskAnswers(t) \/ TaskPanics(t) \/ TaskRemoves(t) \/ TaskAborted(t)
         \/ DispReplies
         \/ \E t \in DOMAIN tasks : TaskSends(t)
         \/ WriterNext /\ UNCHANGED <<dispVars, taskVars>>
<1>1. CASE UNCHANGED vars
  BY <1>1 DEF vars, connVars, sockVars
<1>2. CASE ReaderNext
  BY <1>2 DEF ReaderNext, ReaderReads, ReaderSends, ReaderEof, sockVars
<1>3. CASE DispNext
  BY <1>3 DEF DispNext, DispForwardsError, DispHandshakes, DispRefuses, DispRejects,
              DispSpawns, DispRegisters, DispEnds, DispDrains, DispCloses, sockVars
<1>4. ASSUME NEW t \in DOMAIN tasks, TaskNext(t), ~TaskSends(t)
      PROVE  /\ UNCHANGED <<wrote, respQ, writerVars>>
             /\ TaskAnswers(t) \/ TaskPanics(t) \/ TaskRemoves(t) \/ TaskAborted(t)
  BY <1>4 DEF TaskNext, TaskAnswers, TaskPanics, TaskRemoves, TaskAborted, sockVars
<1>5. CASE WriterNext
  BY <1>5 DEF WriterNext, WriterTakes, WriterWrites, WriterFails, WriterEnds
<1>6. CASE PeerNext
  BY <1>6 DEF PeerNext, PeerSends, PeerReads, PeerCloses
<1>7. CASE ClientCloses
  BY <1>7 DEF ClientCloses, PeerCloses
<1>8. ASSUME NEW k \in Calls,
             CallStarts(k) \/ CallNext(k) \/ CallGarbled(k) \/ CallCancelled(k)
      PROVE  UNCHANGED <<wrote, respQ, writerVars, dispVars, taskVars>>
  BY <1>8, CallSocket DEF TypeInv, brokerVars
<1> QED
  BY <1>1, <1>2, <1>3, <1>4, <1>5, <1>6, <1>7, <1>8 DEF Next, BrokerNext, TaskNext

LEMMA HandshakePreserved ==
  ASSUME TypeInv, TypeInv', HandshakeInv, [Next]_vars
  PROVE  HandshakeInv'
<1>1. CASE DispReplies
  BY <1>1, HandshakeReplies
<1>2. ASSUME NEW t \in DOMAIN tasks, TaskSends(t) PROVE HandshakeInv'
  BY <1>2, HandshakeTaskSends
<1>3. CASE WriterNext /\ UNCHANGED <<dispVars, taskVars>>
  <2>1. writer # "done"
    BY <1>3 DEF WriterNext, WriterTakes, WriterWrites, WriterFails, WriterEnds
  <2>2. writer = "done" => respQ = <<>>
    BY DEF HandshakeInv
  <2>3. /\ writer' = "done" => respQ' = <<>>
        /\ \/ Outgoing' = Outgoing
           \/ writer' = "done" /\ Cut(Outgoing', Outgoing)
    BY <1>3, <2>2, OutgoingWritten
  <2>4. UNCHANGED <<disp, reply, connected, tasks>>
    BY <1>3 DEF dispVars, taskVars
  <2> QED
    BY <2>1, <2>3, <2>4, HandshakeFrame
<1>4. CASE UNCHANGED <<wrote, respQ, writerVars>> /\ UNCHANGED <<dispVars, taskVars>>
  BY <1>4, HandshakeSteps DEF dispVars, taskVars
<1>5. CASE /\ UNCHANGED <<wrote, respQ, writerVars>>
           /\ \/ DispForwardsError \/ DispHandshakes \/ DispRefuses \/ DispRejects
              \/ DispSpawns \/ DispRegisters \/ DispEnds \/ DispDrains \/ DispCloses
  BY <1>5, HandshakeSteps
<1>6. ASSUME UNCHANGED <<wrote, respQ, writerVars>>, NEW t \in DOMAIN tasks,
             TaskAnswers(t) \/ TaskPanics(t) \/ TaskRemoves(t) \/ TaskAborted(t)
      PROVE  HandshakeInv'
  <2>1. UNCHANGED dispVars
    BY <1>6 DEF TaskAnswers, TaskPanics, TaskRemoves, TaskAborted
  <2> QED
    BY <1>6, <2>1, HandshakeSteps
<1> QED
  BY <1>1, <1>2, <1>3, <1>4, <1>5, <1>6, StepKinds

\* No peer is given an answer unless Connected went out before it, and
\* Connected goes out once, although every task of a request sends on its own
\* and the dispatcher sends between them.
THEOREM GreetedFirst == Spec => []ConnectedFirst
<1>1. ASSUME TypeInv, HandshakeInv PROVE ConnectedFirst
  <2> SUFFICES ASSUME NEW i \in DOMAIN Outgoing,
                      Outgoing[i].kind \in {"answer", "connected"},
                      NEW j \in DOMAIN Outgoing
               PROVE  Outgoing[j].kind = "connected" <=> j = 1
    BY DEF ConnectedFirst
  <2>1. Outgoing # <<>>
    BY EmptyDomain
  <2>2. connected /\ ~Greets
    BY <1>1, <2>1 DEF HandshakeInv
  <2>3. Outgoing[1].kind = "connected"
    BY <1>1, <2>1, <2>2 DEF HandshakeInv
  <2> QED
    BY <1>1, <2>3 DEF HandshakeInv
<1> QED
  BY <1>1, TypesInitially, TypesPreserved, HandshakeInitially, HandshakePreserved, PTL DEF Spec

-----------------------------------------------------------------------------
(* A request is answered once *)

\* The task table as the answers see it: tasks keep their request and never
\* go back to work.
SameTasks ==
  /\ DOMAIN tasks' = DOMAIN tasks
  /\ Len(tasks') = Len(tasks)
  /\ \A u \in DOMAIN tasks :
       /\ tasks'[u].frame = tasks[u].frame
       /\ Working(u)' => Working(u)
  /\ reused' = reused

\* Or it has one more, the last.
NewTask(f) ==
  /\ Len(tasks') = Len(tasks) + 1
  /\ DOMAIN tasks' = DOMAIN tasks \cup {Len(tasks) + 1}
  /\ Len(tasks) + 1 \notin DOMAIN tasks
  /\ \A u \in DOMAIN tasks : tasks'[u] = tasks[u]
  /\ tasks'[Len(tasks) + 1] = [frame |-> f, st |-> "running", doomed |-> FALSE]
  /\ reused' = (reused \/ \E t \in DOMAIN tasks : tasks[t].frame.cid = f.cid)

\* A task's own steps.
LEMMA OwnTaskSteps ==
  ASSUME TypeInv, NEW t \in DOMAIN tasks, TaskNext(t)
  PROVE  /\ SameTasks
         /\ \A u \in DOMAIN tasks :
              /\ tasks'[u].frame = tasks[u].frame
              /\ tasks'[u].doomed = tasks[u].doomed
              /\ u # t => tasks'[u].st = tasks[u].st
<1>1. tasks \in Seq(Task)
  BY DEF TypeInv, TaskTypes
<1>2. PICK st \in {"sending", "removing", "done", "aborted", "panicked"} :
        tasks' = [tasks EXCEPT ![t].st = st]
  BY DEF TaskNext, TaskAnswers, TaskPanics, TaskSends, TaskRemoves, TaskAborted
<1>3. /\ Len(tasks') = Len(tasks)
      /\ DOMAIN tasks' = DOMAIN tasks
      /\ \A u \in DOMAIN tasks :
           /\ tasks'[u].frame = tasks[u].frame
           /\ tasks'[u].doomed = tasks[u].doomed
           /\ tasks'[u].st = IF u = t THEN st ELSE tasks[u].st
  BY <1>1, <1>2, TaskMoves
<1>4. tasks'[t].st = "sending" => Working(t)
  <2>1. CASE TaskAnswers(t)
    BY <2>1 DEF TaskAnswers, Working
  <2>2. CASE ~TaskAnswers(t)
    <3>2. PICK s \in {"removing", "done", "aborted", "panicked"} :
            tasks' = [tasks EXCEPT ![t].st = s]
      <4>1. CASE TaskPanics(t)
        BY <4>1 DEF TaskPanics
      <4>2. CASE TaskSends(t)
        BY <4>2 DEF TaskSends
      <4>3. CASE TaskRemoves(t)
        BY <4>3 DEF TaskRemoves
      <4>4. CASE TaskAborted(t)
        BY <4>4 DEF TaskAborted
      <4> QED
        BY <2>2, <4>1, <4>2, <4>3, <4>4 DEF TaskNext
    <3>3. \A u \in DOMAIN tasks : tasks'[u].st = IF u = t THEN s ELSE tasks[u].st
      BY <1>1, <3>2, TaskMoves
    <3> QED
      BY <3>3
  <2> QED
    BY <2>1, <2>2
<1>5. reused' = reused
  BY DEF TaskNext, TaskAnswers, TaskPanics, TaskSends, TaskRemoves, TaskAborted
<1>6. \A u \in DOMAIN tasks : Working(u)' => Working(u)
  BY <1>3, <1>4 DEF Working
<1> QED
  BY <1>3, <1>5, <1>6 DEF SameTasks

LEMMA SpawnedTask ==
  ASSUME TypeInv, DispSpawns
  PROVE  /\ \E f \in [cid : Cids, kind : Kinds] : NewTask(f) /\ f = Head(reqQ)
         /\ disp = "recv" /\ disp' = "register"
         /\ UNCHANGED <<inflight, wrote, respQ, writerVars>>
<1>1. PICK f \in Frame :
        /\ Takes(f)
        /\ f.kind \in {"request", "bulky", "fatal", "response"}
        /\ tasks' = Append(tasks, [frame |-> f, st |-> "running", doomed |-> FALSE])
        /\ reused' = (reused \/ \E t \in DOMAIN tasks : tasks[t].frame.cid = f.cid)
  BY DEF DispSpawns
<1>2. f \in Inbound
  BY <1>1, TakesFacts DEF DispSpawns, TypeInv
<1>3. f \in [cid : Cids, kind : Kinds]
  BY <1>1, <1>2 DEF Inbound, Frame
<1> DEFINE new == [frame |-> f, st |-> "running", doomed |-> FALSE]
<1>4. new \in Task /\ tasks' = Append(tasks, new)
  BY <1>1, <1>3 DEF Task
<1>5. tasks \in Seq(Task)
  BY DEF TypeInv, TaskTypes
<1>6. reused' = (reused \/ \E t \in DOMAIN tasks : tasks[t].frame.cid = f.cid)
  BY <1>1
<1>7. NewTask(f)
  <2> HIDE DEF new
  <2>1. /\ tasks' \in Seq(Task) /\ Len(tasks') = Len(tasks) + 1
        /\ tasks'[Len(tasks) + 1] = new
        /\ \A i \in 1 .. Len(tasks) : tasks'[i] = tasks[i]
        /\ Len(tasks) \in Nat
    BY <1>4, <1>5, QueueFacts
  <2>2. DOMAIN tasks' = 1 .. Len(tasks) + 1 /\ DOMAIN tasks = 1 .. Len(tasks)
    BY <1>5, <2>1, LenProperties
  <2>3. DOMAIN tasks' = DOMAIN tasks \cup {Len(tasks) + 1} /\ Len(tasks) + 1 \notin DOMAIN tasks
    BY <2>1, <2>2
  <2> QED
    BY <1>6, <2>1, <2>2, <2>3 DEF NewTask, new
<1>8. disp = "recv" /\ disp' = "register" /\ UNCHANGED <<inflight, wrote, respQ, writerVars>>
  BY <1>1 DEF DispSpawns, Takes, sockVars
<1>9. f = Head(reqQ)
  BY <1>1 DEF Takes
<1> QED
  BY <1>3, <1>7, <1>8, <1>9

\* The teardown marks tasks and changes nothing else about them.
LEMMA DrainedTasks ==
  ASSUME TypeInv, TypeInv', DispDrains
  PROVE  /\ SameTasks
         /\ \A u \in DOMAIN tasks :
              /\ tasks'[u].st = tasks[u].st
              /\ tasks'[u].doomed = (tasks[u].doomed \/ u \in Range(inflight))
<1>1. tasks \in Seq(Task) /\ tasks' \in Seq(Task)
  BY DEF TypeInv, TaskTypes
<1>2. DOMAIN tasks' = DOMAIN tasks
  BY DEF DispDrains
<1>3. Len(tasks') = Len(tasks)
  <2>1. /\ DOMAIN tasks = 1 .. Len(tasks) /\ DOMAIN tasks' = 1 .. Len(tasks')
        /\ Len(tasks) \in Nat /\ Len(tasks') \in Nat
    BY <1>1, LenProperties
  <2> QED
    BY <1>2, <2>1
<1>4. ASSUME NEW u \in DOMAIN tasks
      PROVE  /\ tasks'[u].frame = tasks[u].frame
             /\ tasks'[u].st = tasks[u].st
             /\ tasks'[u].doomed = (tasks[u].doomed \/ u \in Range(inflight))
  <2>1. tasks[u] \in Task
    BY <1>1, TaskType
  <2>2. tasks'[u] = [tasks[u] EXCEPT !.doomed = tasks[u].doomed \/ u \in Range(inflight)]
    BY DEF DispDrains
  <2> QED
    BY <2>1, <2>2 DEF Task
<1>5. reused' = reused
  BY DEF DispDrains
<1> QED
  BY <1>2, <1>3, <1>4, <1>5 DEF SameTasks, Working

LEMMA TasksStep ==
  ASSUME TypeInv, TypeInv', [Next]_vars
  PROVE  SameTasks \/ \E f \in [cid : Cids, kind : Kinds] : NewTask(f)
<1>1. CASE DispSpawns
  BY <1>1, SpawnedTask
<1>2. CASE DispDrains
  BY <1>2, DrainedTasks
<1>3. ASSUME NEW t \in DOMAIN tasks, TaskNext(t) PROVE SameTasks
  BY <1>3, OwnTaskSteps
<1>4. ASSUME UNCHANGED <<tasks, reused>> PROVE SameTasks
  BY <1>4 DEF SameTasks, Working
<1>5. CASE \/ DispForwardsError \/ DispHandshakes \/ DispRefuses \/ DispRejects
           \/ DispRegisters \/ DispReplies \/ DispEnds \/ DispCloses
  <2>1. UNCHANGED <<tasks, reused>>
    BY <1>5 DEF DispForwardsError, DispHandshakes, DispRefuses, DispRejects,
                DispRegisters, DispReplies, DispEnds, DispCloses, taskVars
  <2> QED
    BY <1>4, <2>1
<1>6. CASE UNCHANGED <<dispVars, taskVars>>
  BY <1>4, <1>6 DEF taskVars
<1> QED
  BY <1>1, <1>2, <1>3, <1>5, <1>6, StepKinds DEF TaskNext

LEMMA AnswersInitially == Init => ApartInv /\ AnswerInv
<1> SUFFICES ASSUME Init PROVE ApartInv /\ AnswerInv
  OBVIOUS
<1>1. Outgoing = <<>> /\ tasks = <<>> /\ disp = "recv"
  BY EmptyOutgoing DEF Init, ConnInit
<1> QED
  BY <1>1, EmptyDomain DEF ApartInv, AnswerInv, Held, AtWork, Sent

\* The tasks keep apart.
LEMMA ApartPreserved ==
  ASSUME TypeInv, TypeInv', ApartInv, [Next]_vars
  PROVE  ApartInv'
<1> SUFFICES ASSUME ~reused'
             PROVE  \A t, u \in DOMAIN tasks' : tasks'[t].frame.cid = tasks'[u].frame.cid => t = u
  BY DEF ApartInv
<1>1. CASE SameTasks
  BY <1>1 DEF SameTasks, ApartInv
<1>2. ASSUME NEW f \in [cid : Cids, kind : Kinds], NewTask(f)
      PROVE  \A t, u \in DOMAIN tasks' : tasks'[t].frame.cid = tasks'[u].frame.cid => t = u
  <2>1. ~reused /\ \A t \in DOMAIN tasks : tasks[t].frame.cid # f.cid
    BY <1>2 DEF NewTask
  <2>2. tasks'[Len(tasks) + 1].frame = f
    BY <1>2 DEF NewTask
  <2> SUFFICES ASSUME NEW t \in DOMAIN tasks', NEW u \in DOMAIN tasks',
                      tasks'[t].frame.cid = tasks'[u].frame.cid
               PROVE  t = u
    OBVIOUS
  <2>3. CASE t \in DOMAIN tasks /\ u \in DOMAIN tasks
    BY <1>2, <2>1, <2>3 DEF NewTask, ApartInv
  <2>4. CASE t \in DOMAIN tasks /\ u = Len(tasks) + 1
    BY <1>2, <2>1, <2>2, <2>4 DEF NewTask
  <2>5. CASE t = Len(tasks) + 1 /\ u \in DOMAIN tasks
    BY <1>2, <2>1, <2>2, <2>5 DEF NewTask
  <2> QED
    BY <1>2, <2>3, <2>4, <2>5 DEF NewTask
<1> QED
  BY <1>1, <1>2, TasksStep

\* The dispatcher takes the frame with id c.
TakesId(c) ==
  /\ seen' = seen \cup {c}
  /\ twice' = twice \cup (seen \cap {c})

\* It takes it and holds a reply of its own to it.
LEMMA TakenToReply ==
  ASSUME TypeInv, DispForwardsError \/ DispHandshakes \/ DispRefuses \/ DispRejects
  PROVE  /\ \E c \in Cids \cup {0} : TakesId(c) /\ reply'.out.cid = c
         /\ disp # "reply"
         /\ UNCHANGED <<tasks, reused>>
<1>1. UNCHANGED <<tasks, reused>>
  BY DEF DispForwardsError, DispHandshakes, DispRefuses, DispRejects, taskVars
<1>2. PICK f \in Frame : Takes(f) /\ \E k, n : Replies(Response(f.cid, k), n)
  BY DEF DispForwardsError, DispHandshakes, DispRefuses, DispRejects
<1>3. f.cid \in Cids \cup {0}
  BY DEF Frame
<1>4. TakesId(f.cid) /\ reply'.out.cid = f.cid /\ disp # "reply"
  BY <1>2 DEF Takes, TakesId, Replies, Response
<1> QED
  BY <1>1, <1>3, <1>4

\* What a step does to the places a response can be at.
LEMMA AnswersStep ==
  ASSUME TypeInv, TypeInv', HandshakeInv, [Next]_vars
  PROVE  \/ /\ UNCHANGED seenVars /\ SameTasks
            /\ \A c : Held(c)' => Held(c)
            /\ Outgoing' = Outgoing \/ Cut(Outgoing', Outgoing)
         \/ /\ UNCHANGED seenVars /\ SameTasks
            /\ disp = "reply" /\ disp' # "reply"
            /\ Outgoing' = Append(Outgoing, reply.out)
         \/ /\ UNCHANGED seenVars
            /\ \E t \in DOMAIN tasks :
                 TaskSends(t) /\ Outgoing' = Append(Outgoing, DispatchOne(tasks[t].frame))
            /\ \A c : Held(c)' => Held(c)
         \/ /\ \E c \in Cids \cup {0} : TakesId(c) /\ reply'.out.cid = c
            /\ disp # "reply"
            /\ SameTasks /\ Outgoing' = Outgoing
         \/ /\ \E f \in [cid : Cids, kind : Kinds] : NewTask(f) /\ TakesId(f.cid)
            /\ disp' # "reply"
            /\ Outgoing' = Outgoing
<1>1. CASE DispReplies
  <2>1. reply.out \in Answer /\ reply.next # "reply"
    BY FrameFacts DEF TypeInv, DispTypes
  <2>2. /\ writer = "done" => Outgoing' = Outgoing
        /\ writer # "done" => Outgoing' = Append(Outgoing, reply.out)
    BY <1>1, <2>1, OutgoingSent DEF DispReplies, sockVars
  <2>3. UNCHANGED seenVars /\ SameTasks
    BY <1>1 DEF DispReplies, taskVars, SameTasks, Working
  <2>4. disp = "reply" /\ disp' # "reply"
    BY <1>1, <2>1 DEF DispReplies
  <2>5. \A c : ~Held(c)'
    BY <2>4 DEF Held
  <2> QED
    BY <2>2, <2>3, <2>4, <2>5
<1>2. ASSUME NEW t \in DOMAIN tasks, TaskNext(t)
      PROVE  UNCHANGED seenVars /\ SameTasks /\ \A c : Held(c)' => Held(c)
  <2>1. UNCHANGED dispVars
    BY <1>2 DEF TaskNext, TaskAnswers, TaskPanics, TaskSends, TaskRemoves, TaskAborted
  <2> QED
    BY <1>2, <2>1, OwnTaskSteps DEF dispVars, Held
<1>3. ASSUME NEW t \in DOMAIN tasks, TaskSends(t)
      PROVE  \/ Outgoing' = Outgoing
             \/ Outgoing' = Append(Outgoing, DispatchOne(tasks[t].frame))
  <2>1. DispatchOne(tasks[t].frame) \in Answer
    BY TaskType, HandlerAnswers DEF TypeInv, TaskTypes
  <2> QED
    BY <1>3, <2>1, OutgoingSent DEF TaskSends, sockVars
<1>4. ASSUME UNCHANGED <<dispVars, taskVars>>
      PROVE  UNCHANGED seenVars /\ SameTasks /\ \A c : Held(c)' => Held(c)
  BY <1>4 DEF dispVars, taskVars, SameTasks, Working, Held
<1>5. CASE WriterNext /\ UNCHANGED <<dispVars, taskVars>>
  BY <1>4, <1>5, OutgoingWritten DEF HandshakeInv
<1>6. ASSUME UNCHANGED <<wrote, respQ, writerVars>> PROVE Outgoing' = Outgoing
  BY <1>6, OutgoingKept
<1>7. CASE DispForwardsError \/ DispHandshakes \/ DispRefuses \/ DispRejects
  <2>1. UNCHANGED <<wrote, respQ, writerVars>>
    BY <1>7 DEF DispForwardsError, DispHandshakes, DispRefuses, DispRejects, sockVars
  <2>2. UNCHANGED <<tasks, reused>>
    BY <1>7, TakenToReply
  <2>3. SameTasks
    BY <2>2 DEF SameTasks, Working
  <2> QED
    BY <1>6, <1>7, <2>1, <2>3, TakenToReply
<1>8. CASE DispSpawns
  <2>1. PICK f \in [cid : Cids, kind : Kinds] : NewTask(f) /\ f = Head(reqQ)
    BY <1>8, SpawnedTask
  <2>2. disp' # "reply" /\ UNCHANGED <<wrote, respQ, writerVars>>
    BY <1>8, SpawnedTask
  <2>3. TakesId(f.cid)
    BY <1>8, <2>1 DEF DispSpawns, Takes, TakesId
  <2> QED
    BY <1>6, <2>1, <2>2, <2>3
<1>9. CASE DispRegisters \/ DispEnds \/ DispDrains \/ DispCloses
  <2>1. UNCHANGED <<wrote, respQ, writerVars>> /\ UNCHANGED seenVars
    BY <1>9 DEF DispRegisters, DispEnds, DispDrains, DispCloses, sockVars
  <2>2. \A c : ~Held(c)'
    BY <1>9 DEF DispRegisters, DispEnds, DispDrains, DispCloses, Held
  <2>3. SameTasks
    <3>1. CASE DispDrains
      BY <3>1, DrainedTasks
    <3>2. CASE ~DispDrains
      <4>1. UNCHANGED <<tasks, reused>>
        BY <1>9, <3>2 DEF DispRegisters, DispEnds, DispCloses, taskVars
      <4> QED
        BY <4>1 DEF SameTasks, Working
    <3> QED
      BY <3>1, <3>2
  <2> QED
    BY <1>6, <2>1, <2>2, <2>3
<1>10. ASSUME NEW t \in DOMAIN tasks,
              TaskAnswers(t) \/ TaskPanics(t) \/ TaskRemoves(t) \/ TaskAborted(t),
              UNCHANGED <<wrote, respQ, writerVars>>
       PROVE  /\ UNCHANGED seenVars /\ SameTasks /\ Outgoing' = Outgoing
              /\ \A c : Held(c)' => Held(c)
  BY <1>2, <1>6, <1>10 DEF TaskNext
<1>11. ASSUME NEW t \in DOMAIN tasks, TaskSends(t)
       PROVE  /\ UNCHANGED seenVars /\ SameTasks
              /\ \A c : Held(c)' => Held(c)
              /\ \/ Outgoing' = Outgoing
                 \/ Outgoing' = Append(Outgoing, DispatchOne(tasks[t].frame))
  BY <1>2, <1>3, <1>11 DEF TaskNext
<1> QED
  BY <1>1, <1>4, <1>5, <1>6, <1>7, <1>8, <1>9, <1>10, <1>11, StepKinds

\* Tasks that keep their request and do not go back to work.
LEMMA WorkersKept ==
  ASSUME SameTasks
  PROVE  /\ \A c : AtWork(c)' => AtWork(c)
         /\ \A c, t, u : (t \in DOMAIN tasks' /\ u \in DOMAIN tasks' /\ Working(t)' /\ Working(u)'
                /\ tasks'[t].frame.cid = c /\ tasks'[u].frame.cid = c) =>
              (t \in DOMAIN tasks /\ u \in DOMAIN tasks /\ Working(t) /\ Working(u)
                 /\ tasks[t].frame.cid = c /\ tasks[u].frame.cid = c)
BY DEF SameTasks, AtWork

\* What is on its way stays, or loses its end.
LEMMA SentKept ==
  ASSUME TypeInv, TypeInv', Outgoing' = Outgoing \/ Cut(Outgoing', Outgoing)
  PROVE  /\ \A c : Sent(c)' => Sent(c)
         /\ \A i \in DOMAIN Outgoing' : i \in DOMAIN Outgoing /\ Outgoing'[i] = Outgoing[i]
<1>1. Outgoing \in Seq(Answer) /\ Outgoing' \in Seq(Answer)
  BY OutgoingTyped
<1>2. \A i \in DOMAIN Outgoing' : i \in DOMAIN Outgoing /\ Outgoing'[i] = Outgoing[i]
  BY <1>1, CutFacts
<1> QED
  BY <1>2 DEF Sent

\* One more response is on its way.
LEMMA SentOneMore ==
  ASSUME TypeInv, NEW r \in Answer, Outgoing' = Append(Outgoing, r)
  PROVE  /\ \A c : Sent(c)' <=> (Sent(c) \/ r.cid = c)
         /\ \A c : (~Sent(c) \/ r.cid # c) =>
              ((\A i, j \in DOMAIN Outgoing :
                  (Outgoing[i].cid = c /\ Outgoing[j].cid = c) => i = j) =>
                (\A i, j \in DOMAIN Outgoing' :
                  (Outgoing'[i].cid = c /\ Outgoing'[j].cid = c) => i = j))
<1>1. Outgoing \in Seq(Answer)
  BY OutgoingTyped
<1> DEFINE n == Len(Outgoing) + 1
<1>2. /\ DOMAIN Outgoing' = DOMAIN Outgoing \cup {n}
      /\ Outgoing'[n] = r
      /\ \A i \in DOMAIN Outgoing : Outgoing'[i] = Outgoing[i] /\ i # n
  BY <1>1, AppendFacts
<1> HIDE DEF n
<1> QED
  BY <1>2 DEF Sent

LEMMA AnswersPreserved ==
  ASSUME TypeInv, TypeInv', HandshakeInv, AnswerInv, [Next]_vars
  PROVE  AnswerInv'
<1> DEFINE Good(c) ==
             /\ (Held(c) \/ AtWork(c) \/ Sent(c)) => c \in seen
             /\ Held(c) => ~AtWork(c) /\ ~Sent(c)
             /\ AtWork(c) => ~Sent(c)
             /\ \A t, u \in DOMAIN tasks :
                  (Working(t) /\ Working(u) /\ tasks[t].frame.cid = c /\ tasks[u].frame.cid = c)
                    => t = u
             /\ \A i, j \in DOMAIN Outgoing :
                  (Outgoing[i].cid = c /\ Outgoing[j].cid = c) => i = j
<1> SUFFICES ASSUME NEW c \in Cids \cup {0}, c \notin twice' PROVE Good(c)'
  BY DEF AnswerInv
<1>1. c \notin twice => Good(c)
  BY DEF AnswerInv
<1>2. CASE /\ UNCHANGED seenVars /\ SameTasks
           /\ \A d : Held(d)' => Held(d)
           /\ Outgoing' = Outgoing \/ Cut(Outgoing', Outgoing)
  <2>1. Good(c) /\ seen' = seen
    BY <1>1, <1>2 DEF seenVars
  <2> QED
    BY <1>2, <2>1, WorkersKept, SentKept
<1>3. CASE /\ UNCHANGED seenVars /\ SameTasks
           /\ disp = "reply" /\ disp' # "reply"
           /\ Outgoing' = Append(Outgoing, reply.out)
  <2>1. Good(c) /\ seen' = seen
    BY <1>1, <1>3 DEF seenVars
  <2>2. reply.out \in Answer
    BY FrameFacts DEF TypeInv, DispTypes
  <2>3. ~Held(c)' /\ (reply.out.cid = c <=> Held(c))
    BY <1>3 DEF Held
  <2> QED
    BY <1>3, <2>1, <2>2, <2>3, WorkersKept, SentOneMore
<1>4. ASSUME UNCHANGED seenVars, NEW t \in DOMAIN tasks, TaskSends(t),
             Outgoing' = Append(Outgoing, DispatchOne(tasks[t].frame)),
             \A d : Held(d)' => Held(d)
      PROVE  Good(c)'
  <2> DEFINE r == DispatchOne(tasks[t].frame)
  <2>1. Good(c) /\ seen' = seen
    BY <1>1, <1>4 DEF seenVars
  <2>2. r \in Answer /\ r.cid = tasks[t].frame.cid
    BY TaskType, HandlerAnswers DEF TypeInv, TaskTypes
  <2>3. SameTasks
    BY <1>4, OwnTaskSteps DEF TaskNext
  <2>4. Working(t) /\ ~Working(t)'
    <3>1. tasks \in Seq(Task)
      BY DEF TypeInv, TaskTypes
    <3>2. tasks' = [tasks EXCEPT ![t].st = "removing"] /\ tasks[t].st = "sending"
      BY <1>4 DEF TaskSends
    <3>3. \A u \in DOMAIN tasks : tasks'[u].st = IF u = t THEN "removing" ELSE tasks[u].st
      BY <3>1, <3>2, TaskMoves
    <3>4. tasks'[t].st = "removing" /\ tasks[t].st = "sending"
      BY <3>2, <3>3
    <3> QED
      BY <3>4 DEF Working
  <2>5. ASSUME r.cid = c PROVE AtWork(c) /\ ~AtWork(c)'
    <3>1. AtWork(c)
      BY <2>2, <2>4, <2>5 DEF AtWork
    <3>2. \A u \in DOMAIN tasks : Working(u) /\ tasks[u].frame.cid = c => u = t
      BY <2>1, <2>2, <2>4, <2>5
    <3> QED
      BY <2>3, <2>4, <3>1, <3>2 DEF AtWork, SameTasks
  <2> HIDE DEF r
  <2>6. Outgoing' = Append(Outgoing, r)
    BY <1>4 DEF r
  <2> QED
    BY <1>4, <2>1, <2>2, <2>3, <2>5, <2>6, WorkersKept, SentOneMore
<1>5. ASSUME NEW d \in Cids \cup {0}, TakesId(d), reply'.out.cid = d, disp # "reply",
             SameTasks, Outgoing' = Outgoing
      PROVE  Good(c)'
  <2>1. Good(c) /\ (c = d => c \notin seen) /\ (c \in seen' <=> (c \in seen \/ c = d))
    BY <1>1, <1>5 DEF TakesId
  <2>2. Held(c)' => c = d
    BY <1>5 DEF Held
  <2> QED
    BY <1>5, <2>1, <2>2, WorkersKept, SentKept
<1>6. ASSUME NEW f \in [cid : Cids, kind : Kinds], NewTask(f), TakesId(f.cid),
             disp' # "reply", Outgoing' = Outgoing
      PROVE  Good(c)'
  <2>1. /\ Good(c) /\ (c = f.cid => c \notin seen)
        /\ c \in seen' <=> (c \in seen \/ c = f.cid)
    BY <1>1, <1>6 DEF TakesId
  <2>2. ~Held(c)'
    BY <1>6 DEF Held
  <2>3. AtWork(c)' => (AtWork(c) \/ c = f.cid)
    BY <1>6 DEF NewTask, AtWork, Working
  <2>4. c = f.cid => ~AtWork(c) /\ ~Sent(c)
    BY <2>1
  <2>5. \A t, u \in DOMAIN tasks' :
          (Working(t)' /\ Working(u)' /\ tasks'[t].frame.cid = c /\ tasks'[u].frame.cid = c)
             => t = u
    <3> SUFFICES ASSUME NEW t \in DOMAIN tasks', NEW u \in DOMAIN tasks',
                        Working(t)', Working(u)', tasks'[t].frame.cid = c,
                        tasks'[u].frame.cid = c
                 PROVE  t = u
      OBVIOUS
    <3>1. tasks'[Len(tasks) + 1].frame = f
      BY <1>6 DEF NewTask
    <3>2. CASE c = f.cid
      <4>1. \A v \in DOMAIN tasks : Working(v)' => tasks'[v].frame.cid # c
        BY <1>6, <2>4, <3>2 DEF AtWork, NewTask, Working
      <4> QED
        BY <1>6, <4>1 DEF NewTask
    <3>3. CASE c # f.cid
      <4>1. t \in DOMAIN tasks /\ u \in DOMAIN tasks
        BY <1>6, <3>1, <3>3 DEF NewTask
      <4>2. Working(t) /\ Working(u) /\ tasks[t].frame.cid = c /\ tasks[u].frame.cid = c
        BY <1>6, <4>1 DEF NewTask, Working
      <4> QED
        BY <2>1, <4>1, <4>2
    <3> QED
      BY <3>2, <3>3
  <2> QED
    BY <1>6, <2>1, <2>2, <2>3, <2>4, <2>5, SentKept
<1> HIDE DEF Good
<1> QED
  BY <1>2, <1>3, <1>4, <1>5, <1>6, AnswersStep

\* A correlation id the peer sent once is on one response at most, of whatever
\* kind: dispatcher and tasks send on their own, but a frame is with one of
\* them, and its response is sent once.
THEOREM NoSecondAnswer == Spec => []AnsweredOnce
<1>1. ASSUME TypeInv, AnswerInv PROVE AnsweredOnce
  <2> SUFFICES ASSUME NEW i \in DOMAIN Outgoing, NEW j \in DOMAIN Outgoing,
                      Outgoing[i].cid = Outgoing[j].cid, Outgoing[i].cid \notin twice
               PROVE  i = j
    BY DEF AnsweredOnce
  <2>1. Outgoing \in Seq(Answer)
    BY <1>1, OutgoingTyped
  <2>2. Outgoing[i] \in Answer
    BY <2>1, LenProperties, ElementOfSeq
  <2>3. Outgoing[i].cid \in Cids \cup {0}
    BY <2>2 DEF Answer
  <2> QED
    BY <1>1, <2>3 DEF AnswerInv
<1> QED
  BY <1>1, TypesInitially, TypesPreserved, HandshakeInitially, HandshakePreserved,
     AnswersInitially, AnswersPreserved, PTL DEF Spec

-----------------------------------------------------------------------------
(* The teardown reaches every task *)

LEMMA HandlesInitially == Init => HandleInv
BY EmptyDomain DEF Init, ConnInit, HandleInv

\* The dispatcher moves within its loop, or after it.
LEMMA HandlesFrame ==
  ASSUME HandleInv, UNCHANGED taskVars,
         \/ disp' = disp
         \/ {disp, disp'} \subseteq {"recv", "reply", "drain"}
         \/ {disp, disp'} \subseteq {"join", "closed"}
  PROVE  HandleInv'
BY DEF HandleInv, Live, taskVars

LEMMA HandlesDispatcher ==
  ASSUME TypeInv, TypeInv', HandleInv, ApartInv, DispNext
  PROVE  HandleInv'
<1>1. CASE DispForwardsError \/ DispHandshakes \/ DispRefuses \/ DispRejects
  <2>1. disp = "recv" /\ disp' = "reply" /\ UNCHANGED taskVars
    BY <1>1 DEF DispForwardsError, DispHandshakes, DispRefuses, DispRejects, Takes, Replies
  <2> QED
    BY <2>1, HandlesFrame
<1>2. CASE DispReplies
  <2>1. disp = "reply" /\ disp' \in {"recv", "drain"} /\ UNCHANGED taskVars
    BY <1>2 DEF DispReplies, TypeInv, DispTypes
  <2> QED
    BY <2>1, HandlesFrame
<1>3. CASE DispEnds \/ DispCloses
  <2>1. /\ \/ disp = "recv" /\ disp' = "drain"
           \/ disp = "join" /\ disp' = "closed"
        /\ UNCHANGED taskVars
    BY <1>3 DEF DispEnds, DispCloses
  <2> QED
    BY <2>1, HandlesFrame
<1>4. CASE DispSpawns
  <2>1. PICK f \in [cid : Cids, kind : Kinds] : NewTask(f)
    BY <1>4, SpawnedTask
  <2>2. disp = "recv" /\ disp' = "register" /\ inflight' = inflight
    BY <1>4, SpawnedTask
  <2> QED
    <3> SUFFICES ASSUME ~reused', NEW t \in DOMAIN tasks', Live(t)'
                 PROVE  \/ t = Len(tasks')
                        \/ \E c \in DOMAIN inflight' :
                             c = tasks'[t].frame.cid /\ inflight'[c] = t
      BY <2>2 DEF HandleInv
    <3>1. CASE t = Len(tasks) + 1
      BY <2>1, <3>1 DEF NewTask
    <3>2. CASE t \in DOMAIN tasks
      <4>1. ~reused /\ tasks'[t] = tasks[t]
        BY <2>1, <3>2 DEF NewTask
      <4>2. Live(t)
        BY <4>1 DEF Live
      <4>3. \E c \in DOMAIN inflight : c = tasks[t].frame.cid /\ inflight[c] = t
        BY <2>2, <3>2, <4>1, <4>2 DEF HandleInv
      <4> QED
        BY <2>2, <4>1, <4>3
    <3> QED
      BY <2>1, <3>1, <3>2 DEF NewTask
<1>5. CASE DispRegisters
  <2> DEFINE n == Len(tasks)
             cid == tasks[n].frame.cid
  <2>1. /\ disp = "register" /\ disp' = "recv" /\ UNCHANGED <<tasks, reused>>
        /\ inflight' = [c \in DOMAIN inflight \cup {cid} |->
                          IF c = cid THEN n ELSE inflight[c]]
    BY <1>5 DEF DispRegisters, Last
  <2>2. n \in DOMAIN tasks
    <3>1. tasks \in Seq(Task) /\ tasks # <<>>
      BY <2>1 DEF TypeInv, TaskTypes
    <3> QED
      BY <3>1, EmptySeq, LenProperties
  <2>3. DOMAIN inflight' = DOMAIN inflight \cup {cid}
    BY <2>1
  <2>4. ASSUME ~reused, NEW t \in DOMAIN tasks, Live(t)
        PROVE  \E c \in DOMAIN inflight' : c = tasks[t].frame.cid /\ inflight'[c] = t
    <3>1. CASE t = n
      <4>1. cid \in DOMAIN inflight' /\ inflight'[cid] = n
        BY <2>1
      <4> QED
        BY <3>1, <4>1
    <3>2. CASE t # n
      <4>1. tasks[t].frame.cid # cid
        BY <2>2, <2>4, <3>2 DEF ApartInv
      <4>2. PICK c \in DOMAIN inflight : c = tasks[t].frame.cid /\ inflight[c] = t
        BY <2>1, <2>4, <3>2 DEF HandleInv
      <4>3. c \in DOMAIN inflight' /\ inflight'[c] = t
        BY <2>1, <4>1, <4>2
      <4> QED
        BY <4>2, <4>3
    <3> QED
      BY <3>1, <3>2
  <2> HIDE DEF n, cid
  <2> QED
    BY <2>1, <2>4 DEF HandleInv, Live
<1>6. CASE DispDrains
  <2>1. /\ SameTasks
        /\ \A u \in DOMAIN tasks :
             /\ tasks'[u].st = tasks[u].st
             /\ tasks'[u].doomed = (tasks[u].doomed \/ u \in Range(inflight))
    BY <1>6, DrainedTasks
  <2>2. disp = "drain" /\ disp' = "join"
    BY <1>6 DEF DispDrains
  <2>3. ASSUME ~reused', NEW t \in DOMAIN tasks', Live(t)'
        PROVE  tasks'[t].doomed
    <3>1. t \in DOMAIN tasks /\ Live(t) /\ ~reused
      BY <2>1, <2>3 DEF SameTasks, Live
    <3>2. \E c \in DOMAIN inflight : inflight[c] = t
      BY <2>2, <3>1 DEF HandleInv
    <3>3. t \in Range(inflight)
      BY <3>2 DEF Range
    <3>4. tasks'[t].doomed = (tasks[t].doomed \/ t \in Range(inflight))
      BY <2>1, <3>1
    <3> QED
      BY <3>3, <3>4
  <2> QED
    BY <2>2, <2>3 DEF HandleInv
<1> QED
  BY <1>1, <1>2, <1>3, <1>4, <1>5, <1>6 DEF DispNext

LEMMA HandlesTask ==
  ASSUME TypeInv, HandleInv, ApartInv, NEW t \in DOMAIN tasks, TaskNext(t)
  PROVE  HandleInv'
<1>1. /\ SameTasks
      /\ \A u \in DOMAIN tasks :
           /\ tasks'[u].frame = tasks[u].frame
           /\ tasks'[u].doomed = tasks[u].doomed
           /\ u # t => tasks'[u].st = tasks[u].st
  BY OwnTaskSteps
<1>2. disp' = disp
  BY DEF TaskNext, TaskAnswers, TaskPanics, TaskSends, TaskRemoves, TaskAborted, dispVars
<1>3. CASE TaskRemoves(t)
  <2>1. tasks'[t].st = "done"
    <3>1. tasks \in Seq(Task)
      BY DEF TypeInv, TaskTypes
    <3>2. tasks' = [tasks EXCEPT ![t].st = "done"]
      BY <1>3 DEF TaskRemoves
    <3>3. \A u \in DOMAIN tasks : tasks'[u].st = IF u = t THEN "done" ELSE tasks[u].st
      BY <3>1, <3>2, TaskMoves
    <3> QED
      BY <3>3
  <2>2. inflight' = [c \in DOMAIN inflight \ {tasks[t].frame.cid} |-> inflight[c]]
    BY <1>3 DEF TaskRemoves
  <2> SUFFICES ASSUME ~reused', NEW u \in DOMAIN tasks', Live(u)'
               PROVE  IF disp' \in {"join", "closed"}
                      THEN tasks'[u].doomed \/ tasks'[u].st = "removing"
                      ELSE \/ disp' = "register" /\ u = Len(tasks')
                           \/ \E c \in DOMAIN inflight' :
                                c = tasks'[u].frame.cid /\ inflight'[c] = u
    BY DEF HandleInv
  <2>3. u # t /\ u \in DOMAIN tasks /\ ~reused /\ Len(tasks') = Len(tasks)
    BY <1>1, <2>1 DEF SameTasks, Live
  <2>4. /\ Live(u) /\ tasks'[u].st = tasks[u].st /\ tasks'[u].doomed = tasks[u].doomed
        /\ tasks'[u].frame = tasks[u].frame
    BY <1>1, <2>3 DEF Live
  <2>5. tasks[u].frame.cid # tasks[t].frame.cid
    BY <2>3 DEF ApartInv
  <2>6. CASE \E c \in DOMAIN inflight : c = tasks[u].frame.cid /\ inflight[c] = u
    <3>1. PICK c \in DOMAIN inflight : c = tasks[u].frame.cid /\ inflight[c] = u
      BY <2>6
    <3>2. c \in DOMAIN inflight' /\ inflight'[c] = u /\ c = tasks'[u].frame.cid
      BY <2>2, <2>4, <2>5, <3>1
    <3>3. disp \in {"join", "closed"} => (tasks[u].doomed \/ tasks[u].st = "removing")
      BY <2>3, <2>4 DEF HandleInv
    <3> QED
      BY <1>2, <2>4, <3>2, <3>3
  <2>7. CASE ~\E c \in DOMAIN inflight : c = tasks[u].frame.cid /\ inflight[c] = u
    <3>1. IF disp \in {"join", "closed"}
          THEN tasks[u].doomed \/ tasks[u].st = "removing"
          ELSE disp = "register" /\ u = Len(tasks)
      BY <2>3, <2>4, <2>7 DEF HandleInv
    <3> QED
      BY <1>2, <2>3, <2>4, <3>1
  <2> QED
    BY <2>6, <2>7
<1>4. CASE ~TaskRemoves(t)
  <2>1. inflight' = inflight
    BY <1>4 DEF TaskNext, TaskAnswers, TaskPanics, TaskSends, TaskAborted
  <2>2. Working(t)
    BY <1>4 DEF TaskNext, TaskAnswers, TaskPanics, TaskSends, TaskAborted, Working
  <2> SUFFICES ASSUME ~reused', NEW u \in DOMAIN tasks', Live(u)'
               PROVE  IF disp' \in {"join", "closed"}
                      THEN tasks'[u].doomed \/ tasks'[u].st = "removing"
                      ELSE \/ disp' = "register" /\ u = Len(tasks')
                           \/ \E c \in DOMAIN inflight' :
                                c = tasks'[u].frame.cid /\ inflight'[c] = u
    BY DEF HandleInv
  <2>3. u \in DOMAIN tasks /\ ~reused /\ Len(tasks') = Len(tasks)
    BY <1>1 DEF SameTasks
  <2>4. Live(u)
    BY <1>1, <2>2, <2>3 DEF Live, Working
  <2>5. /\ tasks'[u].doomed = tasks[u].doomed /\ tasks'[u].frame = tasks[u].frame
        /\ (u # t \/ tasks[u].st # "removing")
        /\ u # t => tasks'[u].st = tasks[u].st
    BY <1>1, <2>2, <2>3 DEF Working
  <2>6. CASE disp \in {"join", "closed"}
    <3>1. tasks[u].doomed \/ tasks[u].st = "removing"
      BY <2>3, <2>4, <2>6 DEF HandleInv
    <3> QED
      BY <1>2, <2>5, <2>6, <3>1
  <2>7. CASE disp \notin {"join", "closed"}
    <3>1. \/ disp = "register" /\ u = Len(tasks)
          \/ \E c \in DOMAIN inflight : c = tasks[u].frame.cid /\ inflight[c] = u
      BY <2>3, <2>4, <2>7 DEF HandleInv
    <3> QED
      BY <1>2, <2>1, <2>3, <2>5, <2>7, <3>1
  <2> QED
    BY <2>6, <2>7
<1> QED
  BY <1>3, <1>4

LEMMA HandlesPreserved ==
  ASSUME TypeInv, TypeInv', ApartInv, HandleInv, [Next]_vars
  PROVE  HandleInv'
<1>1. CASE DispNext
  BY <1>1, HandlesDispatcher
<1>2. ASSUME NEW t \in DOMAIN tasks, TaskNext(t) PROVE HandleInv'
  BY <1>2, HandlesTask
<1>3. CASE UNCHANGED <<dispVars, taskVars>>
  BY <1>3, HandlesFrame DEF dispVars
<1> QED
  BY <1>1, <1>2, <1>3, StepKinds DEF DispNext, TaskNext

\* Once the dispatcher has left its loop, every task that is still alive has
\* been told to stop or has nothing left to do but to take its handle out of
\* the map: also one that was spawned last, and one that ran on while its
\* handle was being filed.
THEOREM NoTaskEscapes == Spec => []TeardownReachesTasks
<1>1. ASSUME HandleInv PROVE TeardownReachesTasks
  BY <1>1 DEF HandleInv, TeardownReachesTasks
<1> QED
  BY <1>1, TypesInitially, TypesPreserved, HandshakeInitially, HandshakePreserved,
     AnswersInitially, ApartPreserved, HandlesInitially, HandlesPreserved, PTL DEF Spec

-----------------------------------------------------------------------------
(* One request on its way *)

LEMMA PlaceHead ==
  ASSUME NEW S, NEW q \in Seq(S), q # <<>>, NEW n, NEW s, NEW c, Place(q, n, s, c)
  PROVE  s = n /\ Head(q).cid = c /\ Tail(q) = <<>>
<1>1. s = n /\ Len(q) = 1 /\ q[1].cid = c
  BY DEF Place
<1>2. Head(q) = q[1] /\ Tail(q) \in Seq(S) /\ Len(Tail(q)) = 0
  BY <1>1, HeadFacts
<1>3. Tail(q) = <<>>
  BY <1>2, EmptySeq
<1> QED
  BY <1>1, <1>2, <1>3

LEMMA PlaceAppend ==
  ASSUME NEW S, NEW x \in S, NEW n, NEW c, x.cid = c
  PROVE  Place(Append(<<>>, x), n, n, c)
BY DEF Place

\* Steps of the tasks of the table that start no work.
LEMMA TasksAtKept ==
  ASSUME NEW s, NEW c, TasksAt(s, c), SameTasks
  PROVE  /\ TasksAt(s, c)'
         /\ s # 5 => \A r : TasksAt(r, c)'
BY DEF TasksAt, SameTasks

LEMMA TasksAtSame ==
  ASSUME NEW s, NEW c, TasksAt(s, c), tasks' = tasks
  PROVE  /\ TasksAt(s, c)'
         /\ s # 5 => \A r : TasksAt(r, c)'
BY DEF TasksAt, Working

LEMMA WroteAtKept ==
  ASSUME NEW s, NEW c, WroteAt(s, c), UNCHANGED <<wrote, nRead>>
  PROVE  /\ WroteAt(s, c)'
         /\ s # 8 => \A r : WroteAt(r, c)'
BY DEF WroteAt

\* The reader passes the request on.
LEMMA AtReader ==
  ASSUME TypeInv, NEW s \in 0 .. 8, NEW c, At(s, c), ReaderNext,
         \A i \in DOMAIN toBroker : toBroker[i].kind \in {"connect"} \cup CallKinds
  PROVE  \E r \in 0 .. 8 : At(r, c)' /\ (s = 0 => r = 0)
<1>1. /\ Place(toBroker, 1, s, c)
      /\ reader \in {"sending", "ending"} => (s = 2 /\ rframe.cid = c)
      /\ Place(reqQ, 3, s, c)
      /\ disp = "reply" => (s = 4 /\ reply.out.cid = c)
      /\ TasksAt(s, c) /\ Place(respQ, 6, s, c)
      /\ writer = "writing" => (s = 7 /\ wframe.cid = c)
      /\ WroteAt(s, c)
  BY DEF At
<1>2. UNCHANGED <<wrote, nRead, tasks, disp, reply, respQ, writer, wframe>>
  BY DEF ReaderNext, ReaderReads, ReaderSends, ReaderEof, sockVars, dispVars, taskVars,
         writerVars
<1>3. /\ TasksAt(s, c)' /\ WroteAt(s, c)'
      /\ s # 5 => \A r : TasksAt(r, c)'
      /\ s # 8 => \A r : WroteAt(r, c)'
  BY <1>1, <1>2, TasksAtSame, WroteAtKept
<1>4. CASE ReaderReads
  <2>1. toBroker # <<>> /\ toBroker \in Seq(Inbound) /\ toBroker' = Tail(toBroker)
        /\ reader = "reading" /\ reqQ' = reqQ
    BY <1>4 DEF ReaderReads, TypeInv, SocketTypes
  <2>2. s = 1 /\ Head(toBroker).cid = c /\ toBroker' = <<>>
    BY <1>1, <2>1, PlaceHead
  <2>3. Head(toBroker).kind \in {"connect", "request", "bulky", "fatal"}
    <3>1. 1 \in DOMAIN toBroker /\ Head(toBroker) = toBroker[1]
      BY <2>1, HeadFacts, LenProperties
    <3> QED
      BY <3>1, WireClientAssumption
  <2>4. reader' = "sending" /\ rframe' = Head(toBroker)
    BY <1>4, <2>3 DEF ReaderReads
  <2>5. At(2, c)'
    BY <1>1, <1>2, <1>3, <2>1, <2>2, <2>4 DEF At, Place
  <2> QED
    BY <2>2, <2>5
<1>5. CASE ReaderSends
  <2>1. /\ reader \in {"sending", "ending"} /\ reqQ' = Append(reqQ, rframe)
        /\ reader' \in {"reading", "done"} /\ toBroker' = toBroker
    BY <1>5 DEF ReaderSends, sockVars
  <2>2. s = 2 /\ rframe.cid = c /\ reqQ = <<>> /\ rframe \in Inbound
    BY <1>1, <2>1 DEF Place, TypeInv, ReaderTypes
  <2>3. Place(reqQ, 3, 3, c)'
    BY <2>1, <2>2, PlaceAppend
  <2>4. toBroker = <<>> /\ respQ = <<>>
    BY <1>1, <2>2 DEF Place
  <2>5. At(3, c)'
    BY <1>1, <1>2, <1>3, <2>1, <2>2, <2>3, <2>4 DEF At, Place
  <2> QED
    BY <2>2, <2>5
<1>6. CASE ReaderEof
  <2>1. reader' = "done" /\ UNCHANGED <<toBroker, reqQ>>
    BY <1>6 DEF ReaderEof, sockVars
  <2>2. At(s, c)'
    BY <1>1, <1>2, <1>3, <2>1 DEF At
  <2> QED
    BY <2>2
<1> QED
  BY <1>4, <1>5, <1>6 DEF ReaderNext

\* The dispatcher answers it, or gives it to a task.
LEMMA AtDispTakes ==
  ASSUME TypeInv, NEW s \in 0 .. 8, NEW c, At(s, c),
         DispForwardsError \/ DispHandshakes \/ DispRefuses \/ DispRejects
  PROVE  s = 3 /\ At(4, c)'
<1>1. PICK f \in Frame, kind \in {"connected", "error"}, next \in {"recv", "drain"} :
        Takes(f) /\ Replies(Response(f.cid, kind), next)
  BY DEF DispForwardsError, DispHandshakes, DispRefuses, DispRejects
<1>2. UNCHANGED <<toBroker, wrote, nRead, reader, rframe, tasks, respQ, writer, wframe>>
  BY DEF DispForwardsError, DispHandshakes, DispRefuses, DispRejects, sockVars,
         readerVars, taskVars, writerVars
<1>3. reqQ \in Seq(Inbound) /\ reqQ # <<>> /\ f = Head(reqQ) /\ reqQ' = Tail(reqQ)
  BY <1>1 DEF Takes, TypeInv, ReaderTypes
<1>4. s = 3 /\ f.cid = c /\ reqQ' = <<>>
  BY <1>3, PlaceHead DEF At
<1>5. disp' = "reply" /\ reply'.out.cid = c
  BY <1>1, <1>4 DEF Replies, Response
<1>6. TasksAt(4, c)' /\ WroteAt(4, c)'
  BY <1>2, <1>4, TasksAtSame, WroteAtKept DEF At
<1>7. At(4, c)'
  BY <1>2, <1>4, <1>5, <1>6 DEF At, Place
<1> QED
  BY <1>4, <1>7

LEMMA AtDispSpawns ==
  ASSUME TypeInv, NEW s \in 0 .. 8, NEW c, At(s, c), DispSpawns
  PROVE  s = 3 /\ At(5, c)'
<1>1. PICK f \in [cid : Cids, kind : Kinds] : NewTask(f) /\ f = Head(reqQ)
  BY SpawnedTask
<1>2. /\ UNCHANGED <<toBroker, wrote, nRead, reader, rframe, respQ, writer, wframe>>
      /\ disp' = "register" /\ reqQ # <<>> /\ reqQ' = Tail(reqQ)
  BY DEF DispSpawns, Takes, sockVars, readerVars, writerVars
<1>3. s = 3 /\ f.cid = c /\ reqQ' = <<>>
  BY <1>1, <1>2, PlaceHead DEF At, TypeInv, ReaderTypes
<1>4. TasksAt(5, c)'
  <2>1. \A t \in DOMAIN tasks : ~Working(t)
    BY <1>3 DEF At, TasksAt
  <2>2. \A t \in DOMAIN tasks' : Working(t)' => t = Len(tasks) + 1
    BY <1>1, <2>1 DEF NewTask, Working
  <2>3. tasks'[Len(tasks) + 1].frame.cid = c
    BY <1>1, <1>3 DEF NewTask
  <2> QED
    BY <2>2, <2>3 DEF TasksAt
<1>5. WroteAt(5, c)'
  BY <1>2, <1>3, WroteAtKept DEF At
<1>6. At(5, c)'
  BY <1>2, <1>3, <1>4, <1>5 DEF At, Place
<1> QED
  BY <1>3, <1>6

LEMMA AtDispRest ==
  ASSUME TypeInv, TypeInv', NEW s \in 0 .. 8, NEW c, At(s, c),
         DispRegisters \/ DispEnds \/ DispDrains \/ DispCloses
  PROVE  At(s, c)'
<1>1. /\ UNCHANGED <<toBroker, wrote, nRead, reader, rframe, reqQ, respQ, writer, wframe>>
      /\ disp' # "reply"
  BY DEF DispRegisters, DispEnds, DispDrains, DispCloses, sockVars, readerVars, writerVars
<1>2. TasksAt(s, c)'
  <2>1. CASE DispDrains
    BY <2>1, DrainedTasks, TasksAtKept DEF At
  <2>2. CASE DispRegisters \/ DispEnds \/ DispCloses
    <3>1. tasks' = tasks
      BY <2>2 DEF DispRegisters, DispEnds, DispCloses, taskVars
    <3> QED
      BY <3>1, TasksAtSame DEF At
  <2> QED
    BY <2>1, <2>2
<1>3. WroteAt(s, c)'
  BY <1>1, WroteAtKept DEF At
<1> QED
  BY <1>1, <1>2, <1>3 DEF At

\* A response with the id c goes into the empty channel, or is dropped.
LEMMA AtSent ==
  ASSUME TypeInv, NEW s \in 0 .. 8, NEW c, At(s, c), s \in {4, 5}, NEW r \in Answer,
         r.cid = c, SendResponse(r), disp' # "reply" \/ s = 5,
         UNCHANGED <<toBroker, wrote, nRead, reader, rframe, reqQ, writer, wframe>>,
         disp' = disp \/ s = 4,
         \A q : TasksAt(q, c)'
  PROVE  \E q \in 0 .. 8 : At(q, c)'
<1>1. respQ = <<>> /\ toBroker = <<>> /\ reqQ = <<>> /\ disp' # "reply"
  BY DEF At, Place
<1>2. \A q : WroteAt(q, c)'
  BY WroteAtKept DEF At
<1>3. CASE writer = "done"
  <2>1. At(0, c)'
    BY <1>1, <1>2, <1>3 DEF At, Place, SendResponse
  <2> QED
    BY <2>1
<1>4. CASE writer # "done"
  <2>1. respQ' = Append(<<>>, r)
    BY <1>1, <1>4 DEF SendResponse
  <2>2. Place(respQ, 6, 6, c)'
    BY <2>1, PlaceAppend
  <2>3. At(6, c)'
    BY <1>1, <1>2, <2>2 DEF At, Place
  <2> QED
    BY <2>3
<1> QED
  BY <1>3, <1>4

LEMMA AtDispReplies ==
  ASSUME TypeInv, NEW s \in 0 .. 8, NEW c, At(s, c), DispReplies
  PROVE  s = 4 /\ \E q \in 0 .. 8 : At(q, c)'
<1>1. s = 4 /\ reply.out.cid = c /\ reply.out \in Answer
  BY FrameFacts DEF DispReplies, At, TypeInv, DispTypes
<1>2. /\ UNCHANGED <<toBroker, wrote, nRead, reader, rframe, reqQ, writer, wframe, tasks>>
      /\ SendResponse(reply.out) /\ disp' # "reply"
  BY DEF DispReplies, sockVars, readerVars, writerVars, taskVars, TypeInv, DispTypes
<1>3. \A q : TasksAt(q, c)'
  BY <1>1, <1>2, TasksAtSame DEF At
<1> QED
  BY <1>1, <1>2, <1>3, AtSent

LEMMA AtTask ==
  ASSUME TypeInv, NEW s \in 0 .. 8, NEW c, At(s, c), NEW t \in DOMAIN tasks, TaskNext(t)
  PROVE  \E q \in 0 .. 8 : At(q, c)' /\ (s = 0 => q = 0)
<1>1. SameTasks
  BY OwnTaskSteps
<1>2. TasksAt(s, c)'
  BY <1>1, TasksAtKept DEF At
<1>3. UNCHANGED <<toBroker, wrote, nRead, reader, rframe, reqQ, disp, reply, writer, wframe>>
  BY DEF TaskNext, TaskAnswers, TaskPanics, TaskSends, TaskRemoves, TaskAborted, sockVars,
         readerVars, dispVars, writerVars
<1>4. CASE ~TaskSends(t)
  <2>1. respQ' = respQ
    BY <1>4 DEF TaskNext, TaskAnswers, TaskPanics, TaskRemoves, TaskAborted
  <2>2. WroteAt(s, c)'
    BY <1>3, WroteAtKept DEF At
  <2>3. At(s, c)'
    BY <1>2, <1>3, <2>1, <2>2 DEF At
  <2> QED
    BY <2>3
<1>5. CASE TaskSends(t)
  <2>1. Working(t)
    BY <1>5 DEF TaskSends, Working
  <2>2. s = 5 /\ tasks[t].frame.cid = c
    BY <2>1 DEF At, TasksAt
  <2> DEFINE r == DispatchOne(tasks[t].frame)
  <2>3. r \in Answer /\ r.cid = c
    BY <2>2, TaskType, HandlerAnswers DEF TypeInv, TaskTypes
  <2>4. SendResponse(r)
    BY <1>5 DEF TaskSends
  <2>5. \A q : TasksAt(q, c)'
    <3>1. tasks \in Seq(Task) /\ tasks' = [tasks EXCEPT ![t].st = "removing"]
      BY <1>5 DEF TaskSends, TypeInv, TaskTypes
    <3>2. /\ DOMAIN tasks' = DOMAIN tasks
          /\ \A u \in DOMAIN tasks :
               tasks'[u].st = IF u = t THEN "removing" ELSE tasks[u].st
      BY <3>1, TaskMoves
    <3>3. \A u \in DOMAIN tasks : Working(u) => u = t
      BY <2>1 DEF At, TasksAt
    <3>4. \A u \in DOMAIN tasks' : ~Working(u)'
      BY <3>2, <3>3 DEF Working
    <3> QED
      BY <3>4 DEF TasksAt
  <2> HIDE DEF r
  <2>6. disp' # "reply" \/ s = 5
    BY <2>2
  <2> QED
    BY <1>3, <2>2, <2>3, <2>4, <2>5, <2>6, AtSent
<1> QED
  BY <1>4, <1>5

LEMMA AtWriter ==
  ASSUME TypeInv, NEW s \in 0 .. 8, NEW c, At(s, c), WriterNext
  PROVE  \E q \in 0 .. 8 : At(q, c)' /\ (s = 0 => q = 0)
<1>1. UNCHANGED <<toBroker, nRead, reader, rframe, reqQ, disp, reply, tasks>>
  BY DEF WriterNext, WriterTakes, WriterWrites, WriterFails, WriterEnds, sockVars,
         readerVars, dispVars, taskVars
<1>2. TasksAt(s, c)' /\ (s # 5 => \A q : TasksAt(q, c)')
  BY <1>1, TasksAtSame DEF At
<1>3. CASE WriterTakes
  <2>1. respQ # <<>> /\ respQ \in Seq(Answer) /\ wrote' = wrote
    BY <1>3 DEF WriterTakes, sockVars, TypeInv, WriterTypes
  <2>2. s = 6 /\ Head(respQ).cid = c /\ Tail(respQ) = <<>>
    BY <2>1, PlaceHead DEF At
  <2>3. \A q : WroteAt(q, c)'
    BY <1>1, <2>1, <2>2, WroteAtKept DEF At
  <2>4. respQ' = <<>> /\ (writer' = "done" \/ (writer' = "writing" /\ wframe' = Head(respQ)))
    BY <1>3, <2>2 DEF WriterTakes
  <2>5. At(7, c)'
    BY <1>1, <1>2, <2>2, <2>3, <2>4 DEF At, Place
  <2> QED
    BY <2>2, <2>5
<1>4. CASE WriterWrites
  <2>1. /\ writer = "writing" /\ writer' = "recv" /\ wrote' = Append(wrote, wframe)
        /\ respQ' = respQ
    BY <1>4 DEF WriterWrites
  <2>2. s = 7 /\ wframe.cid = c /\ nRead = Len(wrote)
    BY <2>1 DEF At, WroteAt
  <2>3. /\ Len(wrote') = Len(wrote) + 1 /\ wrote'[Len(wrote) + 1] = wframe
        /\ Len(wrote) \in Nat
    BY <2>1, QueueFacts DEF TypeInv, SocketTypes, WriterTypes
  <2>4. WroteAt(8, c)'
    BY <1>1, <2>2, <2>3 DEF WroteAt
  <2>5. At(8, c)'
    BY <1>1, <1>2, <2>1, <2>2, <2>4 DEF At, Place
  <2> QED
    BY <2>2, <2>5
<1>5. CASE WriterFails \/ WriterEnds
  <2>1. writer' = "done" /\ respQ' = <<>> /\ wrote' = wrote
    BY <1>5 DEF WriterFails, WriterEnds, sockVars
  <2>2. WroteAt(s, c)'
    BY <1>1, <2>1, WroteAtKept DEF At
  <2>3. At(s, c)'
    BY <1>1, <1>2, <2>1, <2>2 DEF At, Place
  <2> QED
    BY <2>3
<1> QED
  BY <1>3, <1>4, <1>5 DEF WriterNext

\* Whatever the broker does, the request stays alone on its way.
LEMMA AtBroker ==
  ASSUME TypeInv, TypeInv', NEW s \in 0 .. 8, NEW c, At(s, c), BrokerNext,
         \A i \in DOMAIN toBroker : toBroker[i].kind \in {"connect"} \cup CallKinds
  PROVE  \E q \in 0 .. 8 : At(q, c)' /\ (s = 0 => q = 0)
<1>1. CASE ReaderNext
  BY <1>1, AtReader
<1>2. CASE DispForwardsError \/ DispHandshakes \/ DispRefuses \/ DispRejects
  <2>1. s = 3 /\ At(4, c)'
    BY <1>2, AtDispTakes
  <2> QED
    BY <2>1
<1>3. CASE DispSpawns
  <2>1. s = 3 /\ At(5, c)'
    BY <1>3, AtDispSpawns
  <2> QED
    BY <2>1
<1>4. CASE DispRegisters \/ DispEnds \/ DispDrains \/ DispCloses
  BY <1>4, AtDispRest
<1>5. CASE DispReplies
  BY <1>5, AtDispReplies
<1>6. ASSUME NEW t \in DOMAIN tasks, TaskNext(t)
      PROVE  \E q \in 0 .. 8 : At(q, c)' /\ (s = 0 => q = 0)
  BY <1>6, AtTask
<1>7. CASE WriterNext
  BY <1>7, AtWriter
<1> QED
  BY <1>1, <1>2, <1>3, <1>4, <1>5, <1>6, <1>7 DEF BrokerNext, DispNext

-----------------------------------------------------------------------------
(* A call gets its own answer *)

LEMMA OwnInitially == Init => OwnInv
<1> SUFFICES ASSUME Init PROVE OwnInv
  OBVIOUS
<1>1. \A k \in Calls : call[k].st = "new"
  BY DEF Init
<1>2. LockInv
  BY <1>1, WireClientAssumption DEF Init, LockInv, InTrip, Calls
<1>3. toBroker = <<>> /\ DOMAIN toBroker = {} /\ synced
  BY EmptyDomain DEF Init, ConnInit
<1>4. TripInv
  <2>1. /\ reqQ = <<>> /\ respQ = <<>> /\ tasks = <<>> /\ disp = "recv" /\ writer = "recv"
        /\ reader = "reading" /\ nRead = 0 /\ wrote = <<>> /\ lock = 0
    BY DEF Init, ConnInit
  <2>2. nRead = Len(wrote)
    BY <2>1
  <2>3. TasksAt(0, 0)
    BY <2>1, EmptyDomain DEF TasksAt
  <2>4. At(0, 0)
    BY <1>3, <2>1, <2>2, <2>3 DEF At, Place, WroteAt
  <2> QED
    BY <2>1, <2>4 DEF TripInv
<1> QED
  BY <1>1, <1>2, <1>3, <1>4 DEF OwnInv, OwnAnswer

\* Nothing of the client changes.
LEMMA ClientStill ==
  ASSUME UNCHANGED clientVars
  PROVE  /\ UNCHANGED <<peer, call, nextCid, lock, opened, synced, cut>>
         /\ LockInv => LockInv'
         /\ OwnAnswer => OwnAnswer'
BY DEF clientVars, LockInv, OwnAnswer, InTrip

LEMMA OwnBroker ==
  ASSUME TypeInv, TypeInv', OwnInv, BrokerNext, UNCHANGED clientVars
  PROVE  OwnInv'
<1>1. /\ UNCHANGED <<peer, call, nextCid, lock, opened, synced, cut>>
      /\ LockInv' /\ OwnAnswer'
  BY ClientStill DEF OwnInv
<1>2. UNCHANGED <<peerOpen, nRead>>
  BY DEF BrokerNext, ReaderNext, ReaderReads, ReaderSends, ReaderEof, DispNext,
         DispForwardsError, DispHandshakes, DispRefuses, DispRejects, DispSpawns,
         DispRegisters, DispReplies, DispEnds, DispDrains, DispCloses, TaskNext,
         TaskAnswers, TaskPanics, TaskSends, TaskRemoves, TaskAborted, WriterNext,
         WriterTakes, WriterWrites, WriterFails, WriterEnds, sockVars
<1>3. toBroker' = toBroker \/ (toBroker # <<>> /\ toBroker' = Tail(toBroker))
  BY DEF BrokerNext, ReaderNext, ReaderReads, ReaderSends, ReaderEof, DispNext,
         DispForwardsError, DispHandshakes, DispRefuses, DispRejects, DispSpawns,
         DispRegisters, DispReplies, DispEnds, DispDrains, DispCloses, TaskNext,
         TaskAnswers, TaskPanics, TaskSends, TaskRemoves, TaskAborted, WriterNext,
         WriterTakes, WriterWrites, WriterFails, WriterEnds, sockVars
<1>4. ASSUME peer = "python", NEW i \in DOMAIN toBroker'
      PROVE  toBroker'[i].kind \in {"connect"} \cup CallKinds
  <2>1. CASE toBroker' = toBroker
    BY <1>4, <2>1 DEF OwnInv
  <2>2. CASE toBroker # <<>> /\ toBroker' = Tail(toBroker)
    <3>1. toBroker \in Seq(Inbound) /\ toBroker' \in Seq(Inbound)
      BY DEF TypeInv, SocketTypes
    <3>2. /\ Len(toBroker') = Len(toBroker) - 1 /\ Len(toBroker) \in Nat
          /\ \A j \in 1 .. Len(toBroker') : toBroker'[j] = toBroker[j + 1]
      BY <2>2, <3>1, HeadFacts
    <3>3. DOMAIN toBroker' = 1 .. Len(toBroker') /\ DOMAIN toBroker = 1 .. Len(toBroker)
      BY <3>1, LenProperties
    <3>4. i + 1 \in DOMAIN toBroker /\ toBroker'[i] = toBroker[i + 1]
      BY <1>4, <3>2, <3>3
    <3> QED
      BY <1>4, <3>4 DEF OwnInv
  <2> QED
    BY <1>3, <2>1, <2>2
<1>5. ASSUME peer = "python", ~cut PROVE TripInv'
  <2>1. \A i \in DOMAIN toBroker : toBroker[i].kind \in {"connect"} \cup CallKinds
    BY <1>5 DEF OwnInv
  <2>2. CASE lock # 0 /\ \E s \in 0 .. 8 : At(s, call[lock].cid)
    <3>1. PICK c : c = call[lock].cid
      OBVIOUS
    <3>2. PICK s \in 0 .. 8 : At(s, c)
      BY <2>2, <3>1
    <3>3. PICK q \in 0 .. 8 : At(q, c)'
      BY <2>1, <3>2, AtBroker
    <3>4. c = call'[lock'].cid /\ lock' # 0
      BY <1>1, <2>2, <3>1
    <3>5. At(q, call[lock].cid)'
      BY <3>3, <3>4 DEF At, Place, TasksAt, WroteAt, Working
    <3> QED
      BY <3>3, <3>4, <3>5 DEF TripInv
  <2>3. CASE lock = 0 /\ At(0, 0)
    <3>1. At(0, 0)'
      BY <2>1, <2>3, AtBroker
    <3> QED
      BY <1>1, <2>3, <3>1 DEF TripInv
  <2>4. CASE lock = 0 /\ ~peerOpen
    BY <1>1, <1>2, <2>4 DEF TripInv
  <2>5. CASE Silent
    <3>1. writer' = "done" /\ wrote' = wrote
      <4>1. ~WriterNext
        BY <2>5 DEF Silent, WriterNext, WriterTakes, WriterWrites, WriterFails, WriterEnds
      <4>2. UNCHANGED <<wrote, writer>>
        BY <4>1 DEF BrokerNext, ReaderNext, ReaderReads, ReaderSends, ReaderEof, DispNext,
             DispForwardsError, DispHandshakes, DispRefuses, DispRejects, DispSpawns,
             DispRegisters, DispReplies, DispEnds, DispDrains, DispCloses, TaskNext,
             TaskAnswers, TaskPanics, TaskSends, TaskRemoves, TaskAborted, sockVars, writerVars
      <4> QED
        BY <2>5, <4>2 DEF Silent
    <3> QED
      BY <1>2, <2>5, <3>1 DEF Silent, TripInv
  <2> QED
    BY <1>5, <2>2, <2>3, <2>4, <2>5 DEF OwnInv, TripInv
<1> QED
  BY <1>1, <1>4, <1>5 DEF OwnInv

\* The place of the request of the call that holds the lock.
LEMMA AtOfLock ==
  ASSUME NEW s \in 0 .. 8, NEW c, At(s, c)', c = call'[lock'].cid, lock' # 0
  PROVE  TripInv'
<1>1. At(s, call[lock].cid)'
  BY DEF At, Place, TasksAt, WroteAt, Working
<1> QED
  BY <1>1 DEF TripInv

\* The connection stands still: so does the request.
LEMMA AtStill ==
  ASSUME NEW s, NEW c, At(s, c), UNCHANGED <<brokerVars, toBroker, wrote, nRead>>
  PROVE  At(s, c)'
BY DEF At, Place, TasksAt, WroteAt, Working, brokerVars, readerVars, dispVars, taskVars,
       writerVars

\* Nothing is on its way, and the lock, the ids and the socket stay as they
\* are or the socket is closed.
LEMMA TripStill ==
  ASSUME TripInv, lock' = lock, lock # 0 => call'[lock].cid = call[lock].cid,
         peerOpen' = peerOpen \/ ~peerOpen',
         UNCHANGED <<brokerVars, toBroker, wrote, nRead>>
  PROVE  TripInv'
<1>1. CASE lock # 0 /\ \E s \in 0 .. 8 : At(s, call[lock].cid)
  <2>1. PICK c : c = call[lock].cid
    OBVIOUS
  <2>2. PICK s \in 0 .. 8 : At(s, c)
    BY <1>1, <2>1
  <2>3. At(s, c)'
    BY <2>2, AtStill
  <2>4. c = call'[lock'].cid /\ lock' # 0
    BY <1>1, <2>1
  <2> QED
    BY <2>3, <2>4, AtOfLock
<1>2. CASE lock = 0 /\ At(0, 0)
  <2>1. At(0, 0)'
    BY <1>2, AtStill
  <2> QED
    BY <1>2, <2>1 DEF TripInv
<1>3. CASE lock = 0 /\ ~peerOpen
  BY <1>3 DEF TripInv
<1>4. CASE Silent
  BY <1>4 DEF Silent, TripInv, brokerVars, writerVars
<1> QED
  BY <1>1, <1>2, <1>3, <1>4 DEF TripInv

LEMMA OwnPeer ==
  ASSUME OwnInv, UNCHANGED clientVars, (peer = "other" /\ PeerNext) \/ ClientCloses
  PROVE  OwnInv'
<1>1. /\ UNCHANGED <<peer, call, nextCid, lock, opened, synced, cut>>
      /\ LockInv' /\ OwnAnswer'
  BY ClientStill DEF OwnInv
<1>2. CASE peer = "other"
  BY <1>1, <1>2 DEF OwnInv
<1>3. CASE ClientCloses
  <2>1. /\ UNCHANGED <<brokerVars, toBroker, wrote, nRead>>
        /\ ~peerOpen'
    BY <1>3 DEF ClientCloses, PeerCloses, brokerVars
  <2>2. TripInv => TripInv'
    BY <1>1, <2>1, TripStill
  <2> QED
    BY <1>1, <2>1, <2>2 DEF OwnInv
<1> QED
  BY <1>2, <1>3

\* A call moves without the lock: it starts, finds the connection closed, or is
\* cancelled while it waits.
LEMMA OwnAside ==
  ASSUME TypeInv, OwnInv, NEW k \in Calls, ~InTrip(k), ~InTrip(k)', peer' = "python",
         peer = "python", lock' = lock, lock # k, UNCHANGED <<synced, cut>>,
         call'[k].st # "returned", \A j \in Calls \ {k} : call'[j] = call[j],
         UNCHANGED <<brokerVars, toBroker, wrote, nRead>>,
         peerOpen' = peerOpen \/ ~peerOpen'
  PROVE  OwnInv'
<1>1. LockInv'
  BY DEF OwnInv, LockInv, InTrip
<1>2. OwnAnswer'
  BY DEF OwnInv, OwnAnswer
<1>3. lock # 0 => call'[lock].cid = call[lock].cid
  <2>1. lock # 0 => lock \in Calls \ {k}
    BY WireClientAssumption DEF TypeInv, ClientTypes, Calls
  <2> QED
    BY <2>1
<1>4. ~cut => TripInv'
  BY <1>3, TripStill DEF OwnInv
<1> QED
  BY <1>1, <1>2, <1>4 DEF OwnInv

\* The end of a round trip.
LEMMA LockLeft ==
  ASSUME OwnInv, NEW k \in Calls, InTrip(k), ~InTrip(k)', lock' = (IF lock = k THEN 0 ELSE lock),
         \A j \in Calls \ {k} : call'[j] = call[j]
  PROVE  lock = k /\ lock' = 0 /\ LockInv'
<1>1. lock = k /\ lock' = 0
  BY DEF OwnInv, LockInv
<1>2. \A j \in Calls : ~InTrip(j)'
  BY <1>1 DEF OwnInv, LockInv, InTrip
<1>3. 0 \notin Calls
  BY WireClientAssumption DEF Calls
<1> QED
  BY <1>1, <1>2, <1>3 DEF LockInv

LEMMA OwnCall ==
  ASSUME TypeInv, TypeInv', OwnInv, NEW k \in Calls,
         CallStarts(k) \/ CallNext(k) \/ CallGarbled(k) \/ CallCancelled(k)
  PROVE  OwnInv'
<1>1. /\ UNCHANGED <<brokerVars, wrote>>
      /\ peerOpen' = peerOpen \/ ~peerOpen'
  BY CallSocket DEF TypeInv
<1>2. peer = "python" /\ peer' = peer
  <2>1. peer' = peer
    BY DEF CallStarts, CallNext, CallWrites, CallNotConnected, CallReadsLength, CallReturns,
           CallEof, CallGarbled, CallCancelled
  <2>2. CallStarts(k) => peer = "python"
    BY DEF CallStarts
  <2>3. ~CallStarts(k) => call[k].st # "new"
    BY DEF CallNext, CallWrites, CallNotConnected, CallReadsLength, CallReturns,
           CallEof, CallGarbled, CallCancelled, InTrip
  <2> QED
    BY <2>1, <2>2, <2>3 DEF OwnInv
<1>3. call \in [Calls -> Call] /\ call[k] \in Call
  BY DEF TypeInv, ClientTypes
<1>4. ClientTypes
  BY DEF TypeInv
<1>5. CASE CallStarts(k)
  <2>1. call[k].st = "new" /\ lock' = lock /\ UNCHANGED <<synced, cut, toBroker, nRead>>
    BY <1>5 DEF CallStarts, connVars, sockVars
  <2>2. /\ call'[k].st = "waiting" /\ \A j \in Calls \ {k} : call'[j] = call[j]
    BY <1>3, <1>5 DEF CallStarts, Call
  <2>3. ~InTrip(k) /\ ~InTrip(k)' /\ lock # k
    BY <2>1, <2>2 DEF InTrip, OwnInv, LockInv
  <2> QED
    BY <1>1, <1>2, <2>1, <2>2, <2>3, OwnAside
<1>6. CASE CallNotConnected(k)
  <2>1. call[k].st = "waiting" /\ lock' = lock /\ UNCHANGED <<synced, cut, toBroker, nRead>>
    BY <1>6 DEF CallNotConnected, connVars, sockVars
  <2>2. call' = [call EXCEPT ![k].st = "failed"]
    BY <1>6 DEF CallNotConnected
  <2>3. /\ call'[k].st = "failed" /\ \A j \in Calls \ {k} : call'[j] = call[j]
    BY <1>3, <2>2 DEF Call
  <2>4. ~InTrip(k) /\ ~InTrip(k)' /\ lock # k
    BY <2>1, <2>3 DEF InTrip, OwnInv, LockInv
  <2> QED
    BY <1>1, <1>2, <2>1, <2>3, <2>4, OwnAside
<1>7. CASE CallWrites(k)
  <2>1. /\ call[k].st = "waiting" /\ lock = 0 /\ lock' = k /\ peerOpen
        /\ UNCHANGED <<synced, cut, nRead>> /\ call' = [call EXCEPT ![k].st = "reading"]
    BY <1>7 DEF CallWrites
  <2>2. /\ call'[k].st = "reading" /\ call'[k].cid = call[k].cid
        /\ \A j \in Calls \ {k} : call'[j] = call[j]
    BY <1>3, <2>1 DEF Call
  <2>3. \A j \in Calls : ~InTrip(j)
    BY <2>1, WireClientAssumption DEF OwnInv, LockInv, Calls
  <2>4. LockInv'
    BY <2>1, <2>2, <2>3 DEF LockInv, InTrip
  <2>5. OwnAnswer'
    BY <2>1, <2>2 DEF OwnInv, OwnAnswer
  <2>6. PICK kind \in {"connect"} \cup CallKinds :
          toBroker' = Append(toBroker, [cid |-> call[k].cid, kind |-> kind])
    BY <1>7 DEF CallWrites
  <2> DEFINE f == [cid |-> call[k].cid, kind |-> kind]
  <2>7. f.cid = call[k].cid /\ f.kind = kind /\ toBroker' = Append(toBroker, f)
    BY <2>6
  <2>8. f \in Inbound
    <3>1. k \in Started
      BY <2>1 DEF Started
    <3>2. call[k].cid \in Cids
      BY <1>3, <3>1, WireClientAssumption DEF TypeInv, ClientTypes, Call
    <3> QED
      BY <3>2, FrameFacts, WireClientAssumption DEF Inbound, Frame, Kinds
  <2> HIDE DEF f
  <2>9. \A i \in DOMAIN toBroker' : toBroker'[i].kind \in {"connect"} \cup CallKinds
    <3>1. /\ toBroker \in Seq(Inbound) /\ toBroker' \in Seq(Inbound)
      BY DEF TypeInv, SocketTypes
    <3>2. /\ Len(toBroker') = Len(toBroker) + 1 /\ toBroker'[Len(toBroker) + 1] = f
          /\ \A i \in 1 .. Len(toBroker) : toBroker'[i] = toBroker[i]
          /\ Len(toBroker) \in Nat
      BY <2>7, <2>8, <3>1, QueueFacts
    <3>3. DOMAIN toBroker' = 1 .. Len(toBroker') /\ DOMAIN toBroker = 1 .. Len(toBroker)
      BY <3>1, LenProperties
    <3>4. \A i \in DOMAIN toBroker : toBroker[i].kind \in {"connect"} \cup CallKinds
      BY <1>2 DEF OwnInv
    <3> QED
      BY <2>7, <3>2, <3>3, <3>4
  <2>10. ASSUME ~cut PROVE TripInv'
    <3>1. CASE Silent
      BY <1>1, <2>1, <3>1 DEF Silent, TripInv, brokerVars, writerVars
    <3>2. CASE At(0, 0)
      <4>1. toBroker' = Append(<<>>, f)
        <5>1. Place(toBroker, 1, 0, 0)
          BY <3>2 DEF At
        <5>2. toBroker = <<>>
          BY <5>1 DEF Place
        <5> QED
          BY <2>7, <5>2
      <4>2. PICK c : c = call[k].cid
        OBVIOUS
      <4>3. Place(toBroker, 1, 1, c)'
        <5>1. Place(Append(<<>>, f), 1, 1, c)
          BY <2>7, <2>8, <4>2, PlaceAppend
        <5> QED
          BY <4>1, <5>1 DEF Place
      <4>4. UNCHANGED <<reader, reqQ, disp, tasks, respQ, writer, wrote, nRead>>
        BY <1>1, <2>1 DEF brokerVars, readerVars, dispVars, taskVars, writerVars
      <4>5. TasksAt(1, c)' /\ WroteAt(1, c)'
        BY <3>2, <4>4 DEF At, TasksAt, WroteAt, Working
      <4>6. At(1, c)'
        BY <3>2, <4>3, <4>4, <4>5 DEF At, Place
      <4>7. c = call'[lock'].cid /\ lock' # 0
        BY <2>1, <2>2, <4>2, WireClientAssumption DEF Calls
      <4> QED
        BY <4>6, <4>7, AtOfLock
    <3> QED
      BY <1>2, <2>1, <2>10, <3>1, <3>2 DEF OwnInv, TripInv
  <2> QED
    BY <1>2, <2>1, <2>4, <2>5, <2>9, <2>10 DEF OwnInv
<1>8. CASE CallReadsLength(k)
  <2>1. /\ call[k].st = "reading" /\ call' = [call EXCEPT ![k].st = "body"]
        /\ UNCHANGED <<lock, synced, cut, toBroker, nRead>>
    BY <1>8 DEF CallReadsLength, connVars, sockVars
  <2>2. /\ call'[k].st = "body" /\ call'[k].cid = call[k].cid
        /\ \A j \in Calls \ {k} : call'[j] = call[j]
    BY <1>3, <2>1 DEF Call
  <2>3. LockInv'
    BY <2>1, <2>2 DEF OwnInv, LockInv, InTrip
  <2>4. OwnAnswer'
    BY <2>1, <2>2 DEF OwnInv, OwnAnswer
  <2>5. lock # 0 => call'[lock].cid = call[lock].cid
    <3>1. lock # 0 => lock \in Calls
      BY <1>4, WireClientAssumption DEF ClientTypes, Calls
    <3> QED
      BY <2>2, <3>1
  <2>6. ~cut => TripInv'
    BY <1>1, <1>2, <2>1, <2>5, TripStill DEF OwnInv
  <2> QED
    BY <1>2, <2>1, <2>3, <2>4, <2>6 DEF OwnInv
<1>9. CASE CallReturns(k)
  <2> DEFINE r == wrote[nRead + 1]
  <2>1. /\ call[k].st = "body" /\ nRead < Len(wrote) /\ nRead' = nRead + 1
        /\ UNCHANGED <<toBroker, synced, cut>> /\ lock' = (IF lock = k THEN 0 ELSE lock)
        /\ call' = [call EXCEPT ![k].st = "returned", ![k].got = r]
    BY <1>9 DEF CallReturns
  <2>2. /\ call'[k].st = "returned" /\ call'[k].got = r /\ call'[k].cid = call[k].cid
        /\ \A j \in Calls \ {k} : call'[j] = call[j]
    BY <1>3, <2>1 DEF Call
  <2>3. lock = k /\ lock' = 0 /\ LockInv'
    <3>1. InTrip(k) /\ ~InTrip(k)'
      BY <2>1, <2>2 DEF InTrip
    <3> QED
      BY <2>1, <2>2, <3>1, LockLeft
  <2>4. nRead \in Nat /\ Len(wrote) \in Nat
    BY LenProperties DEF TypeInv, SocketTypes
  <2>5. ASSUME ~cut PROVE r.cid = call[k].cid /\ TripInv'
    <3>1. TripInv /\ nRead # Len(wrote) /\ lock # 0
      BY <1>2, <2>1, <2>3, <2>4, <2>5, WireClientAssumption DEF OwnInv, Calls
    <3>2. PICK s \in 0 .. 8 : At(s, call[k].cid)
      BY <2>3, <3>1 DEF TripInv, Silent
    <3>3. s = 8 /\ Len(wrote) = nRead + 1 /\ r.cid = call[k].cid
      BY <3>1, <3>2 DEF At, WroteAt
    <3>4. nRead' = Len(wrote') /\ UNCHANGED <<reader, reqQ, disp, tasks, respQ, writer>>
      BY <1>1, <2>1, <3>3 DEF brokerVars, readerVars, dispVars, taskVars, writerVars
    <3>5. TasksAt(0, 0)' /\ WroteAt(0, 0)'
      BY <3>2, <3>3, <3>4 DEF At, TasksAt, WroteAt, Working
    <3>6. At(0, 0)'
      BY <2>1, <3>2, <3>3, <3>4, <3>5 DEF At, Place
    <3> QED
      BY <2>3, <3>3, <3>6 DEF TripInv
  <2>6. OwnAnswer'
    BY <2>1, <2>2, <2>5 DEF OwnInv, OwnAnswer
  <2> QED
    BY <1>2, <2>1, <2>3, <2>5, <2>6 DEF OwnInv
<1>10. CASE CallEof(k)
  <2>1. /\ InTrip(k) /\ (~peerOpen \/ (writer = "done" /\ nRead = Len(wrote)))
        /\ UNCHANGED <<toBroker, nRead, synced, cut>>
        /\ lock' = (IF lock = k THEN 0 ELSE lock) /\ call' = [call EXCEPT ![k].st = "failed"]
        /\ ~peerOpen => ~peerOpen'
    BY <1>10 DEF CallEof, Leaves, ClosesIf
  <2>2. call'[k].st = "failed" /\ \A j \in Calls \ {k} : call'[j] = call[j]
    BY <1>3, <2>1 DEF Call
  <2>3. lock' = 0 /\ LockInv'
    <3>1. ~InTrip(k)'
      BY <2>2 DEF InTrip
    <3> QED
      BY <2>1, <2>2, <3>1, LockLeft
  <2>4. OwnAnswer'
    BY <2>1, <2>2 DEF OwnInv, OwnAnswer
  <2>5. TripInv'
    BY <1>1, <2>1, <2>3 DEF TripInv, Silent, brokerVars, writerVars
  <2> QED
    BY <1>2, <2>1, <2>3, <2>4, <2>5 DEF OwnInv
<1>11. CASE CallGarbled(k)
  <2>1. /\ call[k].st = "reading" /\ ~synced /\ UNCHANGED <<toBroker, nRead, synced, cut>>
        /\ lock' = (IF lock = k THEN 0 ELSE lock) /\ call' = [call EXCEPT ![k].st = "failed"]
    BY <1>11 DEF CallGarbled, Leaves, connVars, sockVars
  <2>2. call'[k].st = "failed" /\ \A j \in Calls \ {k} : call'[j] = call[j]
    BY <1>3, <2>1 DEF Call
  <2>3. lock' = 0 /\ LockInv'
    <3>1. InTrip(k) /\ ~InTrip(k)'
      BY <2>1, <2>2 DEF InTrip
    <3> QED
      BY <2>1, <2>2, <3>1, LockLeft
  <2>4. cut
    BY <2>1 DEF OwnInv
  <2> QED
    BY <1>2, <2>1, <2>3, <2>4 DEF OwnInv, OwnAnswer
<1>12. CASE CallCancelled(k)
  <2>1. /\ UNCHANGED <<toBroker, nRead>> /\ cut' = (cut \/ InTrip(k))
        /\ synced' = (synced /\ call[k].st # "body")
        /\ lock' = (IF lock = k THEN 0 ELSE lock)
        /\ call' = [call EXCEPT ![k].st = "cancelled"]
        /\ call[k].st = "waiting" \/ InTrip(k)
    BY <1>12 DEF CallCancelled, Leaves
  <2>2. call'[k].st = "cancelled" /\ (\A j \in Calls \ {k} : call'[j] = call[j]) /\ ~InTrip(k)'
    BY <1>3, <2>1 DEF Call, InTrip
  <2>3. CASE InTrip(k)
    <3>1. lock' = 0 /\ LockInv'
      BY <2>1, <2>2, <2>3, LockLeft
    <3>2. cut'
      BY <2>1, <2>3
    <3> QED
      BY <1>2, <2>1, <3>1, <3>2 DEF OwnInv, OwnAnswer
  <2>4. CASE ~InTrip(k)
    <3>1. call[k].st = "waiting" /\ lock # k
      BY <2>1, <2>4 DEF OwnInv, LockInv
    <3>2. cut \in BOOLEAN /\ synced \in BOOLEAN
      BY <1>4 DEF ClientTypes
    <3>3. cut' = cut /\ synced' = synced
      BY <2>1, <2>4, <3>1, <3>2
    <3> QED
      BY <1>1, <1>2, <2>1, <2>2, <2>4, <3>1, <3>3, OwnAside
  <2> QED
    BY <2>3, <2>4
<1> QED
  BY <1>5, <1>6, <1>7, <1>8, <1>9, <1>10, <1>11, <1>12 DEF CallNext

LEMMA OwnPreserved ==
  ASSUME TypeInv, TypeInv', OwnInv, [Next]_vars
  PROVE  OwnInv'
<1>1. CASE UNCHANGED vars
  <2>1. UNCHANGED <<connVars, clientVars>>
    BY <1>1 DEF vars
  <2>2. UNCHANGED <<brokerVars, toBroker, wrote, nRead, peerOpen>>
    BY <2>1 DEF connVars, sockVars, brokerVars
  <2>3. /\ UNCHANGED <<peer, call, nextCid, lock, opened, synced, cut>>
        /\ LockInv' /\ OwnAnswer'
    BY <2>1, ClientStill DEF OwnInv
  <2>4. TripInv => TripInv'
    BY <2>2, <2>3, TripStill
  <2> QED
    BY <2>2, <2>3, <2>4 DEF OwnInv
<1>2. CASE BrokerNext /\ UNCHANGED clientVars
  BY <1>2, OwnBroker
<1>3. CASE peer = "other" /\ PeerNext /\ UNCHANGED clientVars
  BY <1>3, OwnPeer
<1>4. CASE ClientCloses
  BY <1>4, OwnPeer DEF ClientCloses
<1>5. ASSUME NEW k \in Calls,
             CallStarts(k) \/ CallNext(k) \/ CallGarbled(k) \/ CallCancelled(k)
      PROVE  OwnInv'
  BY <1>5, OwnCall
<1> QED
  BY <1>1, <1>2, <1>3, <1>4, <1>5 DEF Next

\* A call of the Python client gets the response to its own request, although
\* the client compares no correlation ids and the broker answers in any order:
\* the lock lets one request at a time onto the connection.  Cancelling a call
\* on its way is what breaks this, and nothing else does.
THEOREM CallsGetTheirOwn == Spec => []OwnAnswer
<1>1. OwnInv => OwnAnswer
  BY DEF OwnInv
<1> QED
  BY <1>1, TypesInitially, TypesPreserved, OwnInitially, OwnPreserved, PTL DEF Spec
==============================================================================
