---------------------- MODULE PartitionChannelsProofs -----------------------
(***************************************************************************)
(* The channels of a partition, for every capacity, every number of        *)
(* requests and restarts and every environment: the queues stay within     *)
(* their bounds, the segments go round in order and none is lost, and a    *)
(* DeleteTopic whose acks came in time leaves nothing behind.              *)
(*                                                                         *)
(* The invariants are layered.  ShapeInv, StageInv, RequestInv and         *)
(* CountInv say what the parts of the state are; UploadWaits and           *)
(* DurableWaits who waits for a place; RingInv where the segments are; and *)
(* DrainInv what has left the Uploader's queue when Shutdown is taken.     *)
(***************************************************************************)
EXTENDS PartitionChannels, NaturalFacts, FiniteSetTheorems, SequenceTheorems, TLAPS

-----------------------------------------------------------------------------
(* The invariants *)

Number == 0 .. MaxRequests + 1

ToPw == [t : {"produce", "read", "durable", "config", "shutdown"}, n : Number]
ToUp == [t : {"upload", "kick", "config", "shutdown"}, n : Number]
ToFw == [t : {"durable"}, n : Number]

\* The types, each channel with the messages it carries.
ShapeInv ==
  /\ pwq \in Seq(ToPw) /\ uq \in Seq(ToUp) /\ dq \in Seq(ToFw)
  /\ startup \in {"queueing", "done"} /\ handle \in BOOLEAN
  /\ orphans \in Seq(Segments)
  /\ writer \in {"absent", "idle", "sealing", "stopping", "gone"}
  /\ pending \subseteq Requests /\ active \in BOOLEAN
  /\ seg \in Nat \ {0}
  /\ uploader \in {"idle", "uploading", "reporting", "gone"}
  /\ batch \in Number
  /\ fwd \in {"absent", "idle", "sending", "gone"}
  /\ reqs \in [Requests -> {"new", "sent", "pending", "answered", "refused"}]
  /\ alter \in {"none", "pw", "up", "done"}
  /\ delete \in {"none", "pw", "up", "done", "aborted"}
  /\ late \in BOOLEAN /\ leaked \in BOOLEAN
  /\ env \in Environments /\ boots \in 0 .. MaxBoots
  /\ evicted \subseteq uploaded

\* How far the start and the end of the tasks have come.
StageInv ==
  /\ startup = "queueing" =>
       writer = "absent" /\ fwd = "absent" /\ ~handle /\ alter \in {"none", "done"}
       /\ delete = "none" /\ pwq = <<>>
  /\ startup = "done" => orphans = <<>> /\ writer # "absent"
  /\ writer = "gone" => pwq = <<>>
  /\ writer \in {"stopping", "gone"} => ~active /\ pending = {} /\ delete # "none"
  /\ uploader = "gone" => uq = <<>> /\ delete # "none"
  /\ delete = "none" => Numbers(pwq, "shutdown") = {} /\ Numbers(uq, "shutdown") = {}

IsRequest(m) == m.t \in {"produce", "read"}

\* A message of a request is the only one of a request that was sent.
RequestsIn(q, rs) ==
  /\ \A i \in DOMAIN q : IsRequest(q[i]) => q[i].n \in Requests /\ rs[q[i].n] = "sent"
  /\ \A i, j \in DOMAIN q :
       IsRequest(q[i]) /\ IsRequest(q[j]) /\ q[i].n = q[j].n => i = j

RequestInv == RequestsIn(pwq, reqs) /\ \A r \in pending : reqs[r] = "pending"

Done == {r \in Requests : reqs[r] = "answered"}

\* A segment needs a request of its own; the files are those up to the active
\* segment, with it if it has records.
CountInv ==
  /\ (seg - 1) + (IF active THEN 1 ELSE 0) <= Cardinality(Done)
  /\ \A s \in wal : s \in Nat /\ 1 <= s /\ s <= seg
  /\ seg \in wal <=> active

\* The messages that wait for a place in a channel, and the rule that there
\* is one of each type at most.
Waiting(q, cap) == {q[i] : i \in {j \in DOMAIN q : j > cap}}

OneOfEach(q, cap) ==
  \A i, j \in DOMAIN q : i > cap /\ j > cap /\ q[i].t = q[j].t => i = j

\* Whoever waits for a place in the Uploader's channel is in its send.
UploadWaits ==
  /\ \A m \in Waiting(uq, UploadCap) :
       \/ m.t = "upload" /\ startup = "queueing"
       \/ m = Msg("upload", seg - 1) /\ writer \in {"sealing", "stopping"}
       \/ m = Msg("config", 0) /\ alter = "up"
       \/ m = Msg("shutdown", 0) /\ delete = "up"
  /\ OneOfEach(uq, UploadCap)

\* Only the Uploader waits for one in the forwarder's.
DurableWaits ==
  /\ Len(dq) <= DurableCap + 1
  /\ Len(dq) = DurableCap + 1 =>
       uploader = "reporting" /\ dq[Len(dq)] = Msg("durable", batch)

Active   == IF active THEN {seg} ELSE {}
Working  == IF uploader = "uploading" THEN {batch} ELSE {}
Reported == Numbers(pwq, "durable") \cup Numbers(dq, "durable")
ToUpload == Working \cup Numbers(uq, "upload") \cup ToSet(orphans)

Below(S, T) == \A x \in S, y \in T : x < y

\* The segments on their way round are in order along the way.
RingOrders ==
  /\ InOrder(pwq, "durable") /\ InOrder(dq, "durable") /\ InOrder(uq, "upload")
  /\ Increasing(orphans)
  /\ Below(Numbers(pwq, "durable"), Numbers(dq, "durable"))
  /\ Below(Reported, ToUpload)
  /\ Below(Working, Numbers(uq, "upload") \cup ToSet(orphans))
  /\ Below(Numbers(uq, "upload"), ToSet(orphans))

\* A file is of one segment: on the way to the Uploader, uploaded, or active.
RingPlaces ==
  /\ uploaded \subseteq wal /\ Reported \subseteq uploaded
  /\ ToUpload \subseteq wal /\ ToUpload \cap (uploaded \cup Active) = {}
  /\ uploaded \cap Active = {}
  /\ writer # "gone" => uploaded = Reported
  /\ uploader # "gone" => wal \ uploaded = ToUpload \cup Active

RingInv == RingOrders /\ RingPlaces

\* Nothing is queued for upload behind a Shutdown.
Drained(q) ==
  \A i, j \in DOMAIN q : i < j /\ q[i].t = "shutdown" => q[j].t # "upload"

\* A Shutdown that is not late comes after all the writer had to queue, and
\* nothing is left when the Uploader ends.
DrainInv ==
  ~late =>
    /\ Numbers(uq, "shutdown") # {} => writer = "gone"
    /\ Drained(uq)
    /\ uploader = "gone" => writer = "gone" /\ wal = uploaded
    /\ delete = "done" => uploader = "gone"

ChannelsInv ==
  /\ ShapeInv /\ StageInv /\ RequestInv /\ CountInv /\ UploadWaits /\ DurableWaits
  /\ RingInv /\ DrainInv

-----------------------------------------------------------------------------
(* Channels *)

LEMMA EmptyChannel ==
  /\ \A S : <<>> \in Seq(S)
  /\ Len(<<>>) = 0
  /\ DOMAIN <<>> = {}
  /\ \A type : Numbers(<<>>, type) = {} /\ InOrder(<<>>, type)
  /\ ToSet(<<>>) = {} /\ Increasing(<<>>)
<1>1. <<>> \in Seq({}) /\ Len(<<>>) = 0 /\ \A S : <<>> \in Seq(S)
  BY EmptySeq
<1>2. DOMAIN <<>> = 1 .. 0
  BY <1>1, LenProperties
<1>3. DOMAIN <<>> = {}
  BY <1>2
<1> QED
  BY <1>1, <1>3 DEF Numbers, InOrder, ToSet, Increasing

\* A sender joins a channel at its end.
LEMMA Appended ==
  ASSUME NEW S, NEW q \in Seq(S), NEW m \in S
  PROVE  /\ Append(q, m) \in Seq(S)
         /\ Len(q) \in Nat /\ Len(Append(q, m)) = Len(q) + 1
         /\ DOMAIN q = 1 .. Len(q) /\ DOMAIN Append(q, m) = 1 .. Len(q) + 1
         /\ \A i \in DOMAIN q : Append(q, m)[i] = q[i]
         /\ Append(q, m)[Len(q) + 1] = m
         /\ \A i \in DOMAIN Append(q, m) : i \in DOMAIN q \/ i = Len(q) + 1
<1>1. Append(q, m) \in Seq(S) /\ Len(Append(q, m)) = Len(q) + 1
  BY AppendProperties
<1>2. Len(q) \in Nat /\ DOMAIN q = 1 .. Len(q) /\ DOMAIN Append(q, m) = 1 .. Len(q) + 1
  BY <1>1, LenProperties
<1>3. \A i \in DOMAIN q : Append(q, m)[i] = q[i]
  BY <1>2, AppendProperties
<1>4. Append(q, m)[Len(q) + 1] = m
  BY AppendProperties
<1> QED
  BY <1>1, <1>2, <1>3, <1>4

\* The receiver takes the first message.
LEMMA Taken ==
  ASSUME NEW S, NEW q \in Seq(S), q # <<>>
  PROVE  /\ Head(q) \in S /\ Tail(q) \in Seq(S)
         /\ Len(q) \in Nat \ {0} /\ Len(Tail(q)) = Len(q) - 1
         /\ DOMAIN q = 1 .. Len(q) /\ DOMAIN Tail(q) = 1 .. Len(q) - 1
         /\ Head(q) = q[1] /\ 1 \in DOMAIN q
         /\ \A i \in DOMAIN Tail(q) : i + 1 \in DOMAIN q /\ Tail(q)[i] = q[i + 1]
         /\ \A i \in DOMAIN q : i = 1 \/ (i - 1 \in DOMAIN Tail(q) /\ q[i] = Tail(q)[i - 1])
<1>1. Head(q) \in S /\ Tail(q) \in Seq(S) /\ Len(Tail(q)) = Len(q) - 1
  BY HeadTailProperties
<1>2. Len(q) \in Nat \ {0} /\ DOMAIN q = 1 .. Len(q)
  BY EmptySeq, LenProperties
<1>3. DOMAIN Tail(q) = 1 .. Len(q) - 1
  BY <1>1, LenProperties
<1>4. \A i \in DOMAIN Tail(q) : i + 1 \in DOMAIN q /\ Tail(q)[i] = q[i + 1]
  BY <1>1, <1>2, <1>3, HeadTailProperties
<1>5. \A i \in DOMAIN q : i = 1 \/ (i - 1 \in DOMAIN Tail(q) /\ (i - 1) + 1 = i)
  BY <1>2, <1>3
<1>6. \A i \in DOMAIN q : i = 1 \/ (i - 1 \in DOMAIN Tail(q) /\ q[i] = Tail(q)[i - 1])
  BY <1>4, <1>5
<1> QED
  BY <1>1, <1>2, <1>3, <1>4, <1>6

\* A sender that waits takes its message back.
LEMMA Removed ==
  ASSUME NEW S, NEW q \in Seq(S), NEW k \in DOMAIN q
  PROVE  /\ RemoveAt(q, k) \in Seq(S)
         /\ Len(q) \in Nat \ {0} /\ DOMAIN q = 1 .. Len(q)
         /\ DOMAIN RemoveAt(q, k) = 1 .. Len(q) - 1
         /\ \A i \in DOMAIN RemoveAt(q, k) :
              /\ i < k => i \in DOMAIN q /\ RemoveAt(q, k)[i] = q[i]
              /\ i >= k => i + 1 \in DOMAIN q /\ RemoveAt(q, k)[i] = q[i + 1]
         /\ \A i \in DOMAIN q :
              /\ i < k => i \in DOMAIN RemoveAt(q, k) /\ RemoveAt(q, k)[i] = q[i]
              /\ i > k => i - 1 \in DOMAIN RemoveAt(q, k) /\ RemoveAt(q, k)[i - 1] = q[i]
<1> DEFINE a == SubSeq(q, 1, k - 1)
           b == SubSeq(q, k + 1, Len(q))
<1>1. Len(q) \in Nat /\ DOMAIN q = 1 .. Len(q) /\ q \in [1 .. Len(q) -> S]
  BY LenProperties
<1>2. k \in 1 .. Len(q)
  BY <1>1
<1>3. Len(q) \in Nat \ {0} /\ k - 1 \in Int /\ k + 1 \in Int
  BY <1>1, <1>2
<1>4. \A i \in 1 .. k - 1 : q[i] \in S
  BY <1>1, <1>2
<1>5. \A i \in k + 1 .. Len(q) : q[i] \in S
  BY <1>1, <1>2
<1>6. /\ a \in Seq(S) /\ Len(a) = IF 1 <= k - 1 THEN (k - 1) - 1 + 1 ELSE 0
      /\ \A i \in 1 .. (k - 1) - 1 + 1 : a[i] = q[1 + i - 1]
  BY <1>3, <1>4, SubSeqProperties
<1>7. /\ b \in Seq(S) /\ Len(b) = IF k + 1 <= Len(q) THEN Len(q) - (k + 1) + 1 ELSE 0
      /\ \A i \in 1 .. Len(q) - (k + 1) + 1 : b[i] = q[k + 1 + i - 1]
  BY <1>1, <1>3, <1>5, SubSeqProperties
<1> HIDE DEF a, b
<1>8. Len(a) = k - 1 /\ \A i \in 1 .. k - 1 : a[i] = q[i]
  <2>1. (k - 1) - 1 + 1 = k - 1 /\ (1 <= k - 1 \/ k - 1 = 0)
    BY <1>2
  <2>2. \A i \in 1 .. k - 1 : 1 + i - 1 = i
    BY <1>2
  <2> QED
    BY <1>6, <2>1, <2>2
<1>9. Len(b) = Len(q) - k /\ \A i \in 1 .. Len(q) - k : b[i] = q[k + i]
  <2>1. Len(q) - (k + 1) + 1 = Len(q) - k /\ (k + 1 <= Len(q) \/ Len(q) - k = 0)
    BY <1>1, <1>2
  <2>2. \A i \in 1 .. Len(q) - k : k + 1 + i - 1 = k + i
    BY <1>1, <1>2
  <2> QED
    BY <1>7, <2>1, <2>2
<1>10. /\ a \o b \in Seq(S) /\ Len(a \o b) = Len(a) + Len(b)
       /\ \A i \in 1 .. Len(a) + Len(b) :
            (a \o b)[i] = IF i <= Len(a) THEN a[i] ELSE b[i - Len(a)]
  BY <1>6, <1>7, ConcatProperties
<1>11. RemoveAt(q, k) = a \o b
  BY DEF RemoveAt, a, b
<1>12. Len(a) + Len(b) = Len(q) - 1
  BY <1>2, <1>3, <1>8, <1>9
<1>13. RemoveAt(q, k) \in Seq(S) /\ DOMAIN RemoveAt(q, k) = 1 .. Len(q) - 1
  BY <1>10, <1>11, <1>12, LenProperties
<1>14. ASSUME NEW i \in 1 .. Len(q) - 1
       PROVE  /\ i < k => i \in DOMAIN q /\ RemoveAt(q, k)[i] = q[i]
              /\ i >= k => i + 1 \in DOMAIN q /\ RemoveAt(q, k)[i] = q[i + 1]
  <2>1. CASE i < k
    <3>1. i <= Len(a) /\ i \in 1 .. k - 1 /\ i \in 1 .. Len(a) + Len(b) /\ i \in DOMAIN q /\ ~(i >= k)
      BY <1>1, <1>2, <1>8, <1>12, <2>1
    <3> QED
      BY <1>8, <1>10, <1>11, <3>1
  <2>2. CASE i >= k
    <3>1. /\ ~(i <= Len(a)) /\ i - Len(a) \in 1 .. Len(q) - k /\ k + (i - Len(a)) = i + 1
          /\ i \in 1 .. Len(a) + Len(b) /\ i + 1 \in DOMAIN q /\ ~(i < k)
      BY <1>1, <1>2, <1>8, <1>12, <2>2
    <3> QED
      BY <1>9, <1>10, <1>11, <3>1
  <2> QED
    BY <1>2, <2>1, <2>2
<1>15. ASSUME NEW i \in DOMAIN q
       PROVE  /\ i < k => i \in DOMAIN RemoveAt(q, k) /\ RemoveAt(q, k)[i] = q[i]
              /\ i > k => i - 1 \in DOMAIN RemoveAt(q, k) /\ RemoveAt(q, k)[i - 1] = q[i]
  <2>1. i < k => i \in 1 .. Len(q) - 1
    BY <1>1, <1>2
  <2>2. i > k => i - 1 \in 1 .. Len(q) - 1 /\ i - 1 >= k /\ (i - 1) + 1 = i
    BY <1>1, <1>2
  <2>3. i < k => RemoveAt(q, k)[i] = q[i]
    BY <1>14, <2>1
  <2>4. i > k => RemoveAt(q, k)[i - 1] = q[i]
    <3> HAVE i > k
    <3>1. RemoveAt(q, k)[i - 1] = q[(i - 1) + 1]
      BY <1>14, <2>2
    <3> QED
      BY <2>2, <3>1
  <2> QED
    BY <1>13, <2>1, <2>2, <2>3, <2>4
<1> QED
  BY <1>1, <1>3, <1>13, <1>14, <1>15

\* The numbers of one type of message, and their order, when a message joins,
\* leaves or is taken back.  Typed messages are all that is needed of S.
LEMMA NumbersAppended ==
  ASSUME NEW S, NEW q \in Seq(S), NEW m \in S, NEW type
  PROVE  /\ m.t # type => /\ Numbers(Append(q, m), type) = Numbers(q, type)
                          /\ InOrder(q, type) => InOrder(Append(q, m), type)
         /\ m.t = type =>
              /\ Numbers(Append(q, m), type) = Numbers(q, type) \cup {m.n}
              /\ InOrder(q, type) /\ (\A x \in Numbers(q, type) : x < m.n)
                   => InOrder(Append(q, m), type)
<1> DEFINE r == Append(q, m)
           e == Len(q) + 1
<1>1. /\ DOMAIN q \subseteq DOMAIN r /\ e \in DOMAIN r /\ e \notin DOMAIN q /\ r[e] = m
      /\ \A i \in DOMAIN q : r[i] = q[i]
      /\ \A i \in DOMAIN r : i \in DOMAIN q \/ i = e
      /\ \A i \in DOMAIN q : ~(e < i)
      /\ ~(e < e)
  BY Appended
<1> HIDE DEF r, e
<1>2. m.t # type => Numbers(r, type) = Numbers(q, type)
  BY <1>1 DEF Numbers
<1>3. m.t = type => Numbers(r, type) = Numbers(q, type) \cup {m.n}
  BY <1>1 DEF Numbers
<1>4. ASSUME m.t # type, InOrder(q, type) PROVE InOrder(r, type)
  BY <1>1, <1>4 DEF InOrder
<1>5. ASSUME m.t = type, InOrder(q, type), \A x \in Numbers(q, type) : x < m.n
      PROVE  InOrder(r, type)
  <2>1. \A i \in DOMAIN q : q[i].t = type => q[i].n < m.n
    BY <1>5 DEF Numbers
  <2> QED
    BY <1>1, <1>5, <2>1 DEF InOrder
<1> QED
  BY <1>2, <1>3, <1>4, <1>5 DEF r

LEMMA NumbersTaken ==
  ASSUME NEW S, NEW q \in Seq(S), q # <<>>, NEW type
  PROVE  /\ InOrder(q, type) => InOrder(Tail(q), type)
         /\ Head(q).t # type => Numbers(Tail(q), type) = Numbers(q, type)
         /\ Head(q).t = type =>
              /\ Numbers(q, type) = Numbers(Tail(q), type) \cup {Head(q).n}
              /\ InOrder(q, type) => \A x \in Numbers(Tail(q), type) : Head(q).n < x
<1> DEFINE r == Tail(q)
<1>1. /\ Head(q) = q[1] /\ 1 \in DOMAIN q
      /\ \A i \in DOMAIN r : i + 1 \in DOMAIN q /\ r[i] = q[i + 1]
      /\ \A i \in DOMAIN q : i = 1 \/ (i - 1 \in DOMAIN r /\ q[i] = r[i - 1])
  BY Taken
<1>2. /\ \A i, j \in DOMAIN r : i < j => i + 1 < j + 1
      /\ \A i \in DOMAIN r : 1 < i + 1
  BY Taken
<1> HIDE DEF r
<1>3. InOrder(q, type) => InOrder(r, type)
  BY <1>1, <1>2 DEF InOrder
<1>4. Head(q).t # type => Numbers(r, type) = Numbers(q, type)
  BY <1>1 DEF Numbers
<1>5. Head(q).t = type => Numbers(q, type) = Numbers(r, type) \cup {Head(q).n}
  BY <1>1 DEF Numbers
<1>6. ASSUME Head(q).t = type, InOrder(q, type)
      PROVE  \A x \in Numbers(r, type) : Head(q).n < x
  BY <1>1, <1>2, <1>6 DEF Numbers, InOrder
<1> QED
  BY <1>3, <1>4, <1>5, <1>6 DEF r

LEMMA NumbersRemoved ==
  ASSUME NEW S, NEW q \in Seq(S), NEW k \in DOMAIN q, NEW type, q[k].t # type
  PROVE  /\ Numbers(RemoveAt(q, k), type) = Numbers(q, type)
         /\ InOrder(q, type) => InOrder(RemoveAt(q, k), type)
<1> DEFINE r == RemoveAt(q, k)
           up(i) == IF i < k THEN i ELSE i + 1
           down(i) == IF i < k THEN i ELSE i - 1
<1>1. \A i \in DOMAIN r : up(i) \in DOMAIN q /\ r[i] = q[up(i)]
  BY Removed
<1>2. \A i \in DOMAIN q : i # k => down(i) \in DOMAIN r /\ r[down(i)] = q[i]
  <2>1. k \in Int /\ \A i \in DOMAIN q : i \in Int
    BY Removed
  <2>2. \A i \in Int : i # k /\ ~(i < k) => i > k
    BY <2>1
  <2> QED
    BY <2>1, <2>2, Removed
<1>3. \A i, j \in DOMAIN r : i < j => up(i) < up(j)
  <2>1. \A i \in DOMAIN r : i \in Int
    BY Removed
  <2>2. k \in Int
    BY Removed
  <2>3. \A i, j \in Int : i < j => up(i) < up(j)
    BY <2>2
  <2> HIDE DEF r, up
  <2> QED
    BY <2>1, <2>3
<1> HIDE DEF r, up, down
<1>4. Numbers(r, type) = Numbers(q, type)
  BY <1>1, <1>2 DEF Numbers
<1>5. ASSUME InOrder(q, type) PROVE InOrder(r, type)
  <2> SUFFICES ASSUME NEW i \in DOMAIN r, NEW j \in DOMAIN r, i < j, r[i].t = type, r[j].t = type
               PROVE  r[i].n < r[j].n
    BY DEF InOrder
  <2> QED
    BY <1>1, <1>3, <1>5 DEF InOrder
<1> QED
  BY <1>4, <1>5 DEF r

\* The message that is taken back is one that waits.
LEMMA TakenBackIsRemoved ==
  ASSUME NEW S, NEW q \in Seq(S), NEW cap, NEW m, Waits(q, cap, m)
  PROVE  \E k \in DOMAIN q : k > cap /\ q[k] = m /\ TakenBack(q, cap, m) = RemoveAt(q, k)
  BY DEF Waits, TakenBack

\* The numbers of a sequence that is increasing, when the first one is taken.
LEMMA IncreasingTaken ==
  ASSUME NEW S, NEW s \in Seq(S), s # <<>>, Increasing(s)
  PROVE  /\ Increasing(Tail(s)) /\ ToSet(s) = ToSet(Tail(s)) \cup {Head(s)}
         /\ \A x \in ToSet(Tail(s)) : Head(s) < x
<1>1. /\ Head(s) = s[1] /\ 1 \in DOMAIN s
      /\ \A i \in DOMAIN Tail(s) : i + 1 \in DOMAIN s /\ Tail(s)[i] = s[i + 1]
      /\ \A i \in DOMAIN s : i = 1 \/ (i - 1 \in DOMAIN Tail(s) /\ s[i] = Tail(s)[i - 1])
  BY Taken
<1>2. /\ \A i, j \in DOMAIN Tail(s) : i < j => i + 1 < j + 1
      /\ \A i \in DOMAIN Tail(s) : 1 < i + 1
  BY Taken
<1>3. Increasing(Tail(s))
  BY <1>1, <1>2 DEF Increasing
<1>4. ToSet(s) = ToSet(Tail(s)) \cup {Head(s)}
  <2>1. \A x \in ToSet(s) : x \in ToSet(Tail(s)) \/ x = Head(s)
    BY <1>1 DEF ToSet
  <2>2. Head(s) \in ToSet(s)
    BY <1>1 DEF ToSet
  <2>3. \A x \in ToSet(Tail(s)) : x \in ToSet(s)
    BY <1>1 DEF ToSet
  <2> QED
    BY <2>1, <2>2, <2>3
<1>5. \A x \in ToSet(Tail(s)) : Head(s) < x
  <2>1. \A i \in DOMAIN Tail(s) : s[1] < s[i + 1]
    BY <1>1, <1>2 DEF Increasing
  <2> QED
    BY <1>1, <2>1 DEF ToSet
<1> QED
  BY <1>3, <1>4, <1>5

-----------------------------------------------------------------------------
(* Types and stages *)

\* The steps one by one.
LEMMA StepCases ==
  ASSUME [Next]_vars
  PROVE  \/ \E r \in Requests, k \in {"produce", "read"} : Submit(r, k)
         \/ \E r \in Requests : SubmitUnknown(r)
         \/ OnProduce \/ FlushTimer \/ WriterResumes \/ OnRead \/ OnDurable
         \/ OnUpdateConfig \/ OnShutdown \/ WriterStops
         \/ UploaderTakes \/ UploaderSkips \/ UploadDone \/ UploaderResumes
         \/ UploaderStops
         \/ Forwards \/ ForwarderResumes \/ ForwarderStops
         \/ QueueOrphan \/ StartTasks
         \/ AlterProceeds \/ DeletePw \/ DeleteUp
         \/ SweeperKicks
         \/ AlterBegins \/ DeleteBegins \/ DeleteAborted
         \/ CrashAndRecover
         \/ UNCHANGED vars
  BY DEF Next, WriterNext, UploaderNext, ForwarderNext, StartupNext, AdminNext

LEMMA DoneBound ==
  ASSUME ShapeInv
  PROVE  IsFiniteSet(Done) /\ Cardinality(Done) \in Nat /\ Cardinality(Done) <= MaxRequests
<1>1. MaxRequests \in Nat
  BY CapsAssumption
<1>2. IsFiniteSet(Requests) /\ Cardinality(Requests) = MaxRequests
  <2>1. IsFiniteSet(1 .. MaxRequests)
        /\ Cardinality(1 .. MaxRequests) = IF 1 > MaxRequests THEN 0 ELSE MaxRequests - 1 + 1
    BY <1>1, FS_Interval
  <2>2. MaxRequests - 1 + 1 = MaxRequests /\ (1 > MaxRequests => MaxRequests = 0)
    BY <1>1
  <2> QED
    BY <2>1, <2>2 DEF Requests
<1>3. Done \in SUBSET Requests
  BY DEF Done
<1>4. IsFiniteSet(Done) /\ Cardinality(Done) <= MaxRequests
  BY <1>2, <1>3, FS_Subset
<1> QED
  BY <1>4, FS_CardinalityType

\* A segment number fits a message.
LEMMA SegBound ==
  ASSUME ShapeInv, CountInv
  PROVE  /\ seg \in Segments /\ seg \in Number /\ seg - 1 \in Number
         /\ wal \subseteq Segments
<1>1. MaxRequests \in Nat /\ seg \in Nat \ {0} /\ active \in BOOLEAN
  BY CapsAssumption DEF ShapeInv
<1>2. seg - 1 <= MaxRequests
  <2> DEFINE c == Cardinality(Done)
  <2>1. c \in Nat /\ c <= MaxRequests
    BY DoneBound
  <2>2. (seg - 1) + (IF active THEN 1 ELSE 0) <= c
    BY DEF CountInv
  <2> HIDE DEF c
  <2> QED
    BY <1>1, <2>1, <2>2
<1>3. \A s \in wal : s \in Nat /\ 1 <= s /\ s <= seg
  BY DEF CountInv
<1>4. seg <= MaxRequests + 1
  BY <1>1, <1>2
<1> QED
  BY <1>1, <1>2, <1>3, <1>4 DEF Segments, Number

LEMMA MessageTypes ==
  /\ \A r \in Number : /\ Msg("produce", r) \in ToPw /\ Msg("read", r) \in ToPw
                       /\ Msg("durable", r) \in ToPw /\ Msg("durable", r) \in ToFw
                       /\ Msg("upload", r) \in ToUp
  /\ Msg("config", 0) \in ToPw /\ Msg("shutdown", 0) \in ToPw
  /\ Msg("config", 0) \in ToUp /\ Msg("shutdown", 0) \in ToUp /\ Msg("kick", 0) \in ToUp
  /\ ToFw \subseteq ToPw
  /\ \A r \in Requests : r \in Number
  /\ \A s \in Segments : s \in Number
<1>1. MaxRequests \in Nat
  BY CapsAssumption
<1>2. 0 \in Number /\ (\A r \in Requests : r \in Number) /\ (\A s \in Segments : s \in Number)
  BY <1>1 DEF Number, Requests, Segments
<1>3. \A r \in Number : /\ Msg("produce", r) \in ToPw /\ Msg("read", r) \in ToPw
                          /\ Msg("durable", r) \in ToPw
  BY DEF Msg, ToPw
<1>4. \A r \in Number : Msg("durable", r) \in ToFw /\ Msg("upload", r) \in ToUp
  BY DEF Msg, ToFw, ToUp
<1>5. Msg("config", 0) \in ToPw /\ Msg("shutdown", 0) \in ToPw
  BY <1>2 DEF Msg, ToPw
<1>6. Msg("config", 0) \in ToUp /\ Msg("shutdown", 0) \in ToUp /\ Msg("kick", 0) \in ToUp
  BY <1>2 DEF Msg, ToUp
<1>7. ToFw \subseteq ToPw
  BY DEF ToFw, ToPw
<1> QED
  BY <1>2, <1>3, <1>4, <1>5, <1>6, <1>7

\* One send each.
LEMMA SendTypes ==
  ASSUME ShapeInv
  PROVE  /\ \A m \in ToPw : ToWriter(m) => pwq' \in Seq(ToPw)
         /\ \A m \in ToUp : ToUploader(m) => uq' \in Seq(ToUp)
<1>1. pwq \in Seq(ToPw) /\ uq \in Seq(ToUp)
  BY DEF ShapeInv
<1>2. ASSUME NEW m \in ToPw, ToWriter(m) PROVE pwq' \in Seq(ToPw)
  <2>1. Append(pwq, m) \in Seq(ToPw)
    BY <1>1, AppendProperties
  <2> QED
    BY <1>1, <1>2, <2>1 DEF ToWriter
<1>3. ASSUME NEW m \in ToUp, ToUploader(m) PROVE uq' \in Seq(ToUp)
  <2>1. Append(uq, m) \in Seq(ToUp)
    BY <1>1, AppendProperties
  <2> QED
    BY <1>1, <1>3, <2>1 DEF ToUploader
<1> QED
  BY <1>2, <1>3

LEMMA SealTypes ==
  ASSUME ShapeInv, CountInv, NEW next, SealAndHandoff(next)
  PROVE  uq' \in Seq(ToUp) /\ seg' \in Nat \ {0} /\ active' = FALSE /\ writer' = next
<1>1. Msg("upload", seg) \in ToUp
  BY SegBound, MessageTypes
<1>2. uq' \in Seq(ToUp)
  BY <1>1, SendTypes DEF SealAndHandoff
<1>3. seg' \in Nat \ {0}
  BY DEF ShapeInv, SealAndHandoff
<1> QED
  BY <1>2, <1>3 DEF SealAndHandoff

LEMMA ReqTypes ==
  ASSUME ShapeInv, NEW rs
  PROVE  /\ Answered(rs) \in [Requests -> {"new", "sent", "pending", "answered", "refused"}]
         /\ Refused(rs) \in [Requests -> {"new", "sent", "pending", "answered", "refused"}]
  BY DEF ShapeInv, Answered, Refused

\* What a receiver gets.
LEMMA HeadTypes ==
  ASSUME ShapeInv
  PROVE  /\ pwq # <<>> => Head(pwq) \in ToPw /\ Head(pwq).n \in Number /\ Tail(pwq) \in Seq(ToPw)
         /\ uq # <<>> => Head(uq) \in ToUp /\ Head(uq).n \in Number /\ Tail(uq) \in Seq(ToUp)
         /\ dq # <<>> => /\ Head(dq) \in ToFw /\ Head(dq) \in ToPw /\ Head(dq).t = "durable"
                         /\ Head(dq).n \in Number /\ Tail(dq) \in Seq(ToFw)
<1>1. pwq \in Seq(ToPw) /\ uq \in Seq(ToUp) /\ dq \in Seq(ToFw)
  BY DEF ShapeInv
<1>2. ASSUME pwq # <<>> PROVE Head(pwq) \in ToPw /\ Tail(pwq) \in Seq(ToPw)
  BY <1>1, <1>2, Taken
<1>3. ASSUME uq # <<>> PROVE Head(uq) \in ToUp /\ Tail(uq) \in Seq(ToUp)
  BY <1>1, <1>3, Taken
<1>4. ASSUME dq # <<>> PROVE Head(dq) \in ToFw /\ Tail(dq) \in Seq(ToFw)
  BY <1>1, <1>4, Taken
<1>5. (\A m \in ToPw : m.n \in Number) /\ (\A m \in ToUp : m.n \in Number)
      /\ (\A m \in ToFw : m.n \in Number /\ m.t = "durable")
  BY DEF ToPw, ToUp, ToFw
<1> QED
  BY <1>2, <1>3, <1>4, <1>5, MessageTypes

\* A message of a request names it.
LEMMA RequestHead ==
  ASSUME ShapeInv, RequestInv, pwq # <<>>, IsRequest(Head(pwq))
  PROVE  Head(pwq).n \in Requests /\ reqs[Head(pwq).n] = "sent"
<1>1. 1 \in DOMAIN pwq /\ Head(pwq) = pwq[1]
  BY Taken DEF ShapeInv
<1> QED
  BY <1>1 DEF RequestInv, RequestsIn

\* Taking a message back leaves a channel of the same kind.
LEMMA AbortTypes ==
  ASSUME ShapeInv, DeleteAborted
  PROVE  pwq' \in Seq(ToPw) /\ uq' \in Seq(ToUp)
<1>1. pwq \in Seq(ToPw) /\ uq \in Seq(ToUp)
  BY DEF ShapeInv
<1>2. Waits(pwq, PwCap, Msg("shutdown", 0)) =>
        TakenBack(pwq, PwCap, Msg("shutdown", 0)) \in Seq(ToPw)
  BY <1>1, TakenBackIsRemoved, Removed
<1>3. Waits(uq, UploadCap, Msg("shutdown", 0)) =>
        TakenBack(uq, UploadCap, Msg("shutdown", 0)) \in Seq(ToUp)
  BY <1>1, TakenBackIsRemoved, Removed
<1> QED
  BY <1>1, <1>2, <1>3 DEF DeleteAborted

\* The files a restart finds are finitely many, and the orphans are a
\* sequence of all but the newest.
LEMMA OrphansFound ==
  ASSUME ShapeInv, CountInv, NEW files \in SUBSET wal, NEW s \in OrphansOf(files)
  PROVE  /\ s \in Seq(Segments) /\ Increasing(s)
         /\ ToSet(s) = {f \in files : \E g \in files : f < g}
<1> DEFINE sealed == {f \in files : \E g \in files : f < g}
<1>1. sealed \subseteq Segments
  BY SegBound
<1>2. MaxRequests + 1 \in Int
  BY CapsAssumption
<1>3. IsFiniteSet(Segments)
  BY <1>2, FS_Interval DEF Segments
<1>4. /\ s \in [1 .. Cardinality(sealed) -> sealed] /\ Increasing(s) /\ ToSet(s) = sealed
  BY DEF OrphansOf
<1> HIDE DEF sealed
<1>5. IsFiniteSet(sealed)
  BY <1>1, <1>3, FS_Subset
<1>6. Cardinality(sealed) \in Nat
  BY <1>5, FS_CardinalityType
<1>7. s \in [1 .. Cardinality(sealed) -> Segments]
  BY <1>1, <1>4
<1>8. s \in Seq(Segments)
  BY <1>6, <1>7, SeqDef
<1> QED
  BY <1>4, <1>8 DEF sealed

\* The largest file is the segment that becomes active.
LEMMA NewestFile ==
  ASSUME ShapeInv, CountInv, NEW files \in SUBSET wal, files # {}
  PROVE  LET s == CHOOSE x \in files : \A f \in files : f <= x
         IN  s \in files /\ (\A f \in files : f <= s) /\ s \in Nat \ {0} /\ s <= seg
<1>1. seg \in Nat /\ \A f \in files : f \in Nat /\ 1 <= f /\ f <= seg
  BY DEF ShapeInv, CountInv
<1>2. files \in SUBSET Int
  BY <1>1
<1>3. Max(files) \in files /\ \A f \in files : f <= Max(files)
  BY <1>1, <1>2, MaxOfBounded
<1>4. \E x \in files : \A f \in files : f <= x
  BY <1>3
<1> QED
  BY <1>1, <1>4

\* Every step keeps the types.
LEMMA ShapeStep ==
  ASSUME ShapeInv, StageInv, RequestInv, CountInv, [Next]_vars
  PROVE  ShapeInv'
<1> USE DEF ShapeInv, startVars, taskVars, adminVars, chanVars, diskVars, storeVars
<1>1. ASSUME NEW r \in Requests, NEW k \in {"produce", "read"}, Submit(r, k)
      PROVE  ShapeInv'
  <2>1. Msg(k, r) \in ToPw
    BY MessageTypes
  <2>2. pwq' \in Seq(ToPw)
    BY <1>1, <2>1, SendTypes DEF Submit
  <2>3. reqs' \in [Requests -> {"new", "sent", "pending", "answered", "refused"}]
    BY <1>1 DEF Submit
  <2> QED
    BY <1>1, <2>2, <2>3 DEF Submit
<1>2. ASSUME NEW r \in Requests, SubmitUnknown(r) PROVE ShapeInv'
  BY <1>2 DEF SubmitUnknown
<1>3. CASE OnProduce
  <2>1. pwq # <<>> /\ Head(pwq).n \in Requests /\ pwq' \in Seq(ToPw)
    BY <1>3, HeadTypes, RequestHead DEF OnProduce, WriterTakes, IsRequest
  <2> DEFINE rs == pending \cup {Head(pwq).n}
  <2>2. CASE /\ pending' = rs
             /\ reqs' = [reqs EXCEPT ![Head(pwq).n] = "pending"]
             /\ UNCHANGED <<wal, active, writer, seg, uq>>
    BY <1>3, <2>1, <2>2 DEF OnProduce
  <2>3. CASE Commit(rs) /\ MaySeal
    <3>1. reqs' \in [Requests -> {"new", "sent", "pending", "answered", "refused"}]
          /\ pending' \subseteq Requests
      BY <2>3, ReqTypes DEF Commit
    <3>2. uq' \in Seq(ToUp) /\ seg' \in Nat \ {0} /\ active' \in BOOLEAN
          /\ writer' \in {"absent", "idle", "sealing", "stopping", "gone"}
      BY <2>3, SealTypes DEF MaySeal
    <3> QED
      BY <1>3, <2>1, <3>1, <3>2 DEF OnProduce
  <2> QED
    BY <1>3, <2>2, <2>3 DEF OnProduce
<1>4. CASE FlushTimer
  <2>1. reqs' \in [Requests -> {"new", "sent", "pending", "answered", "refused"}]
        /\ pending' \subseteq Requests
    BY <1>4, ReqTypes DEF FlushTimer, Commit
  <2>2. uq' \in Seq(ToUp) /\ seg' \in Nat \ {0} /\ active' \in BOOLEAN
        /\ writer' \in {"absent", "idle", "sealing", "stopping", "gone"}
    BY <1>4, SealTypes DEF FlushTimer, MaySeal
  <2> QED
    BY <1>4, <2>1, <2>2 DEF FlushTimer
<1>5. CASE WriterResumes
  BY <1>5 DEF WriterResumes
<1>6. CASE OnRead
  BY <1>6, HeadTypes, ReqTypes DEF OnRead, WriterTakes
<1>7. CASE OnDurable
  BY <1>7, HeadTypes DEF OnDurable, WriterTakes
<1>8. CASE OnUpdateConfig
  BY <1>8, HeadTypes DEF OnUpdateConfig, WriterTakes
<1>9. CASE OnShutdown
  <2>1. pwq' \in Seq(ToPw)
    BY <1>9, HeadTypes DEF OnShutdown, WriterTakes
  <2>2. reqs' \in [Requests -> {"new", "sent", "pending", "answered", "refused"}]
        /\ pending' \subseteq Requests
    BY <1>9, ReqTypes DEF OnShutdown, Commit
  <2>3. uq' \in Seq(ToUp) /\ seg' \in Nat \ {0} /\ active' \in BOOLEAN
        /\ writer' \in {"absent", "idle", "sealing", "stopping", "gone"}
    <3>1. CASE pending # {} \/ active
      BY <1>9, <3>1, SealTypes DEF OnShutdown
    <3>2. CASE ~(pending # {} \/ active)
      BY <1>9, <3>2 DEF OnShutdown
    <3> QED
      BY <3>1, <3>2
  <2> QED
    BY <1>9, <2>1, <2>2, <2>3 DEF OnShutdown
<1>10. CASE WriterStops
  BY <1>10, EmptyChannel, ReqTypes DEF WriterStops
<1>11. CASE UploaderTakes
  BY <1>11, HeadTypes DEF UploaderTakes
<1>12. CASE UploaderSkips
  <2>1. evicted' \subseteq uploaded'
    BY <1>12 DEF UploaderSkips, RetentionPass
  <2> QED
    BY <1>12, <2>1, HeadTypes DEF UploaderSkips
<1>13. CASE UploadDone
  <2>1. Msg("durable", batch) \in ToFw
    BY MessageTypes
  <2>2. dq' \in Seq(ToFw)
    BY <1>13, <2>1, AppendProperties DEF UploadDone
  <2> QED
    BY <1>13, <2>2 DEF UploadDone
<1>14. CASE UploaderResumes
  <2>1. evicted' \subseteq uploaded'
    BY <1>14 DEF UploaderResumes, RetentionPass
  <2> QED
    BY <1>14, <2>1 DEF UploaderResumes
<1>15. CASE UploaderStops
  BY <1>15, EmptyChannel DEF UploaderStops
<1>16. CASE Forwards
  <2>1. pwq' \in Seq(ToPw) /\ dq' \in Seq(ToFw)
    BY <1>16, HeadTypes, SendTypes DEF Forwards
  <2> QED
    BY <1>16, <2>1 DEF Forwards
<1>17. CASE ForwarderResumes \/ ForwarderStops
  BY <1>17 DEF ForwarderResumes, ForwarderStops
<1>18. CASE QueueOrphan
  <2>1. Head(orphans) \in Segments /\ Tail(orphans) \in Seq(Segments)
    BY <1>18, Taken DEF QueueOrphan
  <2>2. uq' \in Seq(ToUp)
    BY <1>18, <2>1, MessageTypes, SendTypes DEF QueueOrphan
  <2> QED
    BY <1>18, <2>1, <2>2 DEF QueueOrphan
<1>19. CASE StartTasks
  BY <1>19 DEF StartTasks
<1>20. CASE AlterProceeds
  <2>1. uq' \in Seq(ToUp)
    BY <1>20, MessageTypes, SendTypes DEF AlterProceeds
  <2> QED
    BY <1>20, <2>1 DEF AlterProceeds
<1>21. CASE DeletePw
  <2>1. uq' \in Seq(ToUp)
    BY <1>21, MessageTypes, SendTypes DEF DeletePw
  <2>2. late' \in BOOLEAN
    BY <1>21 DEF DeletePw
  <2> QED
    BY <1>21, <2>1, <2>2 DEF DeletePw
<1>22. CASE DeleteUp
  <2>1. late' \in BOOLEAN
    BY <1>22 DEF DeleteUp
  <2> QED
    BY <1>22, <2>1 DEF DeleteUp
<1>23. CASE SweeperKicks
  <2>1. uq' \in Seq(ToUp)
    BY <1>23, MessageTypes, AppendProperties DEF SweeperKicks
  <2> QED
    BY <1>23, <2>1 DEF SweeperKicks
<1>24. CASE AlterBegins
  <2>1. pwq' \in Seq(ToPw)
    BY <1>24, MessageTypes, SendTypes DEF AlterBegins
  <2> QED
    BY <1>24, <2>1 DEF AlterBegins
<1>25. CASE DeleteBegins
  <2>1. pwq' \in Seq(ToPw)
    BY <1>25, MessageTypes, SendTypes DEF DeleteBegins
  <2>2. handle' \in BOOLEAN
    BY <1>25 DEF DeleteBegins
  <2> QED
    BY <1>25, <2>1, <2>2 DEF DeleteBegins
<1>26. CASE DeleteAborted
  BY <1>26, AbortTypes DEF DeleteAborted
<1>27. CASE CrashAndRecover
  <2>1. orphans' \in Seq(Segments)
    <3>1. FilesToRecover \in SUBSET wal /\ orphans' \in OrphansOf(FilesToRecover)
      BY <1>27 DEF CrashAndRecover, FilesToRecover
    <3> QED
      BY <3>1, OrphansFound
  <2>2. seg' \in Nat \ {0}
    <3>1. FilesToRecover \in SUBSET wal
      BY DEF FilesToRecover
    <3> QED
      BY <1>27, <3>1, NewestFile DEF CrashAndRecover
  <2>3. 0 \in Number
    BY CapsAssumption DEF Number
  <2>4. boots' \in 0 .. MaxBoots
    BY <1>27, CapsAssumption DEF CrashAndRecover
  <2>5. active' \in BOOLEAN
    BY <1>27 DEF CrashAndRecover
  <2>6. pwq' \in Seq(ToPw) /\ uq' \in Seq(ToUp) /\ dq' \in Seq(ToFw)
    BY <1>27, EmptyChannel DEF CrashAndRecover
  <2>7. reqs' \in [Requests -> {"new", "sent", "pending", "answered", "refused"}]
    BY <1>27, ReqTypes DEF CrashAndRecover
  <2> QED
    BY <1>27, <2>1, <2>2, <2>3, <2>4, <2>5, <2>6, <2>7 DEF CrashAndRecover
<1>28. CASE UNCHANGED vars
  BY <1>28 DEF vars
<1> QED
  BY <1>1, <1>2, <1>3, <1>4, <1>5, <1>6, <1>7, <1>8, <1>9, <1>10, <1>11, <1>12, <1>13,
     <1>14, <1>15, <1>16, <1>17, <1>18, <1>19, <1>20, <1>21, <1>22, <1>23, <1>24, <1>25,
     <1>26, <1>27, <1>28, StepCases

\* Who sends what: no other message is a Shutdown, a SegmentDurable or a batch.
LEMMA SendsOther ==
  ASSUME ShapeInv, NEW type, NEW m, m.t # type
  PROVE  /\ m \in ToPw /\ ToWriter(m) =>
              Numbers(pwq', type) = Numbers(pwq, type)
              /\ (InOrder(pwq, type) => InOrder(pwq', type))
         /\ m \in ToUp /\ ToUploader(m) =>
              Numbers(uq', type) = Numbers(uq, type)
              /\ (InOrder(uq, type) => InOrder(uq', type))
<1>1. pwq \in Seq(ToPw) /\ uq \in Seq(ToUp)
  BY DEF ShapeInv
<1>2. ASSUME m \in ToPw, ToWriter(m)
      PROVE  Numbers(pwq', type) = Numbers(pwq, type)
             /\ (InOrder(pwq, type) => InOrder(pwq', type))
  BY <1>1, <1>2, NumbersAppended DEF ToWriter
<1>3. ASSUME m \in ToUp, ToUploader(m)
      PROVE  Numbers(uq', type) = Numbers(uq, type)
             /\ (InOrder(uq, type) => InOrder(uq', type))
  BY <1>1, <1>3, NumbersAppended DEF ToUploader
<1> QED
  BY <1>2, <1>3

LEMMA SealSendsOther ==
  ASSUME ShapeInv, CountInv, NEW next, SealAndHandoff(next), NEW type, type # "upload"
  PROVE  Numbers(uq', type) = Numbers(uq, type)
<1>1. Msg("upload", seg) \in ToUp /\ Msg("upload", seg).t # type
  BY SegBound, MessageTypes DEF Msg
<1> QED
  BY <1>1, SendsOther DEF SealAndHandoff

\* What the receivers leave.
LEMMA TakesFewer ==
  ASSUME ShapeInv, NEW type
  PROVE  /\ pwq # <<>> => Numbers(Tail(pwq), type) \subseteq Numbers(pwq, type)
         /\ uq # <<>> => Numbers(Tail(uq), type) \subseteq Numbers(uq, type)
         /\ dq # <<>> => Numbers(Tail(dq), type) \subseteq Numbers(dq, type)
<1>1. pwq \in Seq(ToPw) /\ uq \in Seq(ToUp) /\ dq \in Seq(ToFw)
  BY DEF ShapeInv
<1>2. ASSUME NEW S, NEW q \in Seq(S), q # <<>>
      PROVE  Numbers(Tail(q), type) \subseteq Numbers(q, type)
  <2>1. CASE Head(q).t = type
    BY <1>2, <2>1, NumbersTaken
  <2>2. CASE Head(q).t # type
    BY <1>2, <2>2, NumbersTaken
  <2> QED
    BY <2>1, <2>2
<1> QED
  BY <1>1, <1>2

LEMMA HeadsNumber ==
  ASSUME ShapeInv
  PROVE  /\ pwq # <<>> => Head(pwq).n \in Numbers(pwq, Head(pwq).t)
         /\ uq # <<>> => Head(uq).n \in Numbers(uq, Head(uq).t)
         /\ dq # <<>> => Head(dq).n \in Numbers(dq, Head(dq).t)
<1>1. pwq \in Seq(ToPw) /\ uq \in Seq(ToUp) /\ dq \in Seq(ToFw)
  BY DEF ShapeInv
<1>2. ASSUME NEW S, NEW q \in Seq(S), q # <<>>
      PROVE  Head(q).n \in Numbers(q, Head(q).t)
  <2>1. 1 \in DOMAIN q /\ Head(q) = q[1]
    BY <1>2, Taken
  <2> QED
    BY <2>1 DEF Numbers
<1> QED
  BY <1>1, <1>2

\* Every step keeps the stages.
LEMMA StageStep ==
  ASSUME ShapeInv, StageInv, CountInv, [Next]_vars
  PROVE  StageInv'
<1> USE DEF StageInv, startVars, taskVars, adminVars, chanVars, diskVars, storeVars
<1>1. ASSUME NEW r \in Requests, NEW k \in {"produce", "read"}, Submit(r, k)
      PROVE  StageInv'
  <2>1. Msg(k, r) \in ToPw /\ Msg(k, r).t # "shutdown"
    BY MessageTypes DEF Msg
  <2>2. Numbers(pwq', "shutdown") = Numbers(pwq, "shutdown")
    BY <1>1, <2>1, SendsOther DEF Submit
  <2>3. writer = "gone" => pwq' = pwq
    BY <1>1 DEF Submit, ToWriter
  <2> QED
    BY <1>1, <2>2, <2>3 DEF Submit
<1>2. ASSUME NEW r \in Requests, SubmitUnknown(r) PROVE StageInv'
  BY <1>2 DEF SubmitUnknown
<1>3. CASE OnProduce
  <2>1. writer = "idle" /\ pwq # <<>> /\ pwq' = Tail(pwq)
    BY <1>3 DEF OnProduce, WriterTakes
  <2>2. Numbers(pwq', "shutdown") \subseteq Numbers(pwq, "shutdown")
    BY <2>1, TakesFewer
  <2>3. /\ writer' \in {"idle", "sealing"} /\ uploader' = uploader
        /\ uploader = "gone" => uq' = uq
        /\ Numbers(uq', "shutdown") = Numbers(uq, "shutdown")
    BY <1>3, <2>1, SealSendsOther DEF OnProduce, MaySeal, SealAndHandoff, ToUploader
  <2> QED
    BY <1>3, <2>1, <2>2, <2>3 DEF OnProduce
<1>4. CASE FlushTimer
  <2>1. /\ writer = "idle" /\ writer' \in {"idle", "sealing"} /\ uploader' = uploader
        /\ uploader = "gone" => uq' = uq
        /\ Numbers(uq', "shutdown") = Numbers(uq, "shutdown")
    BY <1>4, SealSendsOther DEF FlushTimer, MaySeal, SealAndHandoff, ToUploader
  <2> QED
    BY <1>4, <2>1 DEF FlushTimer
<1>5. CASE WriterResumes
  BY <1>5 DEF WriterResumes
<1>6. CASE OnRead \/ OnDurable \/ OnUpdateConfig
  <2>1. writer = "idle" /\ pwq # <<>> /\ pwq' = Tail(pwq)
    BY <1>6 DEF OnRead, OnDurable, OnUpdateConfig, WriterTakes
  <2>2. Numbers(pwq', "shutdown") \subseteq Numbers(pwq, "shutdown")
    BY <2>1, TakesFewer
  <2> QED
    BY <1>6, <2>1, <2>2 DEF OnRead, OnDurable, OnUpdateConfig
<1>7. CASE OnShutdown
  <2>1. /\ writer = "idle" /\ pwq # <<>> /\ pwq' = Tail(pwq)
        /\ Head(pwq).t = "shutdown"
    BY <1>7 DEF OnShutdown, WriterTakes
  <2>2. Numbers(pwq, "shutdown") # {}
    BY <2>1, HeadsNumber
  <2>3. /\ writer' = "stopping" /\ uploader' = uploader /\ pending' = {} /\ active' = FALSE
        /\ uploader = "gone" => uq' = uq
    <3>1. CASE pending # {} \/ active
      BY <1>7, <3>1 DEF OnShutdown, Commit, SealAndHandoff, ToUploader
    <3>2. CASE ~(pending # {} \/ active)
      <4>1. active' = FALSE
        BY <1>7, <3>2 DEF OnShutdown, ShapeInv
      <4> QED
        BY <1>7, <3>2, <4>1 DEF OnShutdown
    <3> QED
      BY <3>1, <3>2
  <2> QED
    BY <1>7, <2>1, <2>2, <2>3 DEF OnShutdown
<1>8. CASE WriterStops
  BY <1>8, EmptyChannel DEF WriterStops
<1>9. CASE UploaderTakes \/ UploaderSkips
  <2>1. uploader = "idle" /\ uq # <<>> /\ uq' = Tail(uq) /\ uploader' # "gone"
    BY <1>9 DEF UploaderTakes, UploaderSkips
  <2>2. Numbers(uq', "shutdown") \subseteq Numbers(uq, "shutdown")
    BY <2>1, TakesFewer
  <2> QED
    BY <1>9, <2>1, <2>2 DEF UploaderTakes, UploaderSkips
<1>10. CASE UploadDone \/ UploaderResumes
  BY <1>10 DEF UploadDone, UploaderResumes
<1>11. CASE UploaderStops
  <2>1. delete # "none"
    <3>1. CASE uq # <<>> /\ Head(uq).t = "shutdown"
      <4>1. Numbers(uq, "shutdown") # {}
        BY <3>1, HeadsNumber
      <4> QED
        BY <4>1
    <3>2. CASE ~UploaderReachable
      BY <3>2 DEF UploaderReachable
    <3> QED
      BY <1>11, <3>1, <3>2 DEF UploaderStops
  <2> QED
    BY <1>11, <2>1, EmptyChannel DEF UploaderStops
<1>12. CASE Forwards
  <2>1. Head(dq) \in ToPw /\ Head(dq).t # "shutdown"
    BY <1>12, HeadTypes DEF Forwards
  <2>2. Numbers(pwq', "shutdown") = Numbers(pwq, "shutdown")
    BY <1>12, <2>1, SendsOther DEF Forwards
  <2>3. writer = "gone" => pwq' = pwq
    BY <1>12 DEF Forwards, ToWriter
  <2> QED
    BY <1>12, <2>2, <2>3 DEF Forwards
<1>13. CASE ForwarderResumes \/ ForwarderStops
  BY <1>13 DEF ForwarderResumes, ForwarderStops
<1>14. CASE QueueOrphan
  <2>1. Head(orphans) \in Segments
    BY <1>14, Taken DEF QueueOrphan, ShapeInv
  <2>2. Msg("upload", Head(orphans)) \in ToUp /\ Msg("upload", Head(orphans)).t # "shutdown"
    BY <2>1, MessageTypes DEF Msg
  <2>3. Numbers(uq', "shutdown") = Numbers(uq, "shutdown")
    BY <1>14, <2>2, SendsOther DEF QueueOrphan
  <2> QED
    BY <1>14, <2>3 DEF QueueOrphan
<1>15. CASE StartTasks
  BY <1>15 DEF StartTasks
<1>16. CASE AlterProceeds
  <2>1. Msg("config", 0) \in ToUp /\ Msg("config", 0).t # "shutdown"
    BY MessageTypes DEF Msg
  <2>2. Numbers(uq', "shutdown") = Numbers(uq, "shutdown")
    BY <1>16, <2>1, SendsOther DEF AlterProceeds
  <2>3. uploader = "gone" => uq' = uq
    BY <1>16 DEF AlterProceeds, ToUploader
  <2> QED
    BY <1>16, <2>2, <2>3 DEF AlterProceeds
<1>17. CASE DeletePw
  BY <1>17 DEF DeletePw, ToUploader
<1>18. CASE DeleteUp
  BY <1>18 DEF DeleteUp
<1>19. CASE SweeperKicks
  <2>1. Msg("kick", 0) \in ToUp /\ Msg("kick", 0).t # "shutdown"
    BY MessageTypes DEF Msg
  <2>2. Numbers(uq', "shutdown") = Numbers(uq, "shutdown")
    BY <1>19, <2>1, NumbersAppended DEF SweeperKicks, ShapeInv
  <2> QED
    BY <1>19, <2>2 DEF SweeperKicks
<1>20. CASE AlterBegins
  <2>1. Msg("config", 0) \in ToPw /\ Msg("config", 0).t # "shutdown"
    BY MessageTypes DEF Msg
  <2>2. Numbers(pwq', "shutdown") = Numbers(pwq, "shutdown")
    BY <1>20, <2>1, SendsOther DEF AlterBegins
  <2>3. writer = "gone" => pwq' = pwq
    BY <1>20 DEF AlterBegins, ToWriter
  <2> QED
    BY <1>20, <2>2, <2>3 DEF AlterBegins
<1>21. CASE DeleteBegins
  BY <1>21 DEF DeleteBegins, ToWriter
<1>22. CASE DeleteAborted
  <2>1. (writer = "gone" => pwq' = pwq) /\ (uploader = "gone" => uq' = uq)
    <3>1. \A cap, m : ~Waits(<<>>, cap, m)
      BY EmptyChannel DEF Waits
    <3> QED
      BY <1>22, <3>1 DEF DeleteAborted
  <2> QED
    BY <1>22, <2>1 DEF DeleteAborted
<1>23. CASE CrashAndRecover
  BY <1>23, EmptyChannel DEF CrashAndRecover, ShapeInv
<1>24. CASE UNCHANGED vars
  BY <1>24 DEF vars
<1> QED
  BY <1>1, <1>2, <1>3, <1>4, <1>5, <1>6, <1>7, <1>8, <1>9, <1>10, <1>11, <1>12, <1>13,
     <1>14, <1>15, <1>16, <1>17, <1>18, <1>19, <1>20, <1>21, <1>22, <1>23, <1>24, StepCases

-----------------------------------------------------------------------------
(* The way of a segment *)

\* What the writer does to the segments in a step that may commit.
Keeps   == UNCHANGED <<wal, seg, active, uq>>
Commits == wal' = wal \cup {seg} /\ active' = TRUE /\ UNCHANGED <<seg, uq>>
Seals   == /\ wal' = wal \cup {seg} /\ active' = FALSE /\ seg' = seg + 1
           /\ ToUploader(Msg("upload", seg)) /\ writer' \in {"sealing", "stopping"}

LEMMA CommitSteps ==
  ASSUME ShapeInv, StageInv, CountInv, OnProduce \/ FlushTimer \/ OnShutdown
  PROVE  /\ writer = "idle" /\ writer' # "gone" /\ startup = "done"
         /\ UNCHANGED <<dq, startVars, uploader, batch, fwd, adminVars, storeVars, env, boots>>
         /\ \/ pwq' = pwq
            \/ /\ pwq # <<>> /\ pwq' = Tail(pwq)
               /\ Head(pwq).t \in {"produce", "shutdown"}
         /\ Keeps \/ Commits \/ Seals
<1> USE DEF startVars, taskVars, adminVars, chanVars, diskVars, storeVars
<1>0. ShapeInv /\ StageInv /\ writer = "idle"
  BY DEF OnProduce, FlushTimer, OnShutdown, WriterTakes
<1>1. startup = "done"
  BY <1>0 DEF ShapeInv, StageInv
<1>2. CASE OnProduce
  <2>1. Keeps \/ Commits \/ Seals
    BY <1>2 DEF OnProduce, Commit, MaySeal, SealAndHandoff, Keeps, Commits, Seals
  <2>2. writer' # "gone"
    BY <1>0, <1>2 DEF OnProduce, MaySeal, SealAndHandoff
  <2> QED
    BY <1>0, <1>1, <1>2, <2>1, <2>2 DEF OnProduce, WriterTakes
<1>3. CASE FlushTimer
  <2>1. Keeps \/ Commits \/ Seals
    BY <1>3 DEF FlushTimer, Commit, MaySeal, SealAndHandoff, Keeps, Commits, Seals
  <2>2. writer' # "gone"
    BY <1>0, <1>3 DEF FlushTimer, MaySeal, SealAndHandoff
  <2> QED
    BY <1>0, <1>1, <1>3, <2>1, <2>2 DEF FlushTimer
<1>4. CASE OnShutdown
  <2>1. CASE pending # {}
    <3>1. Seals /\ writer' = "stopping"
      BY <1>4, <2>1 DEF OnShutdown, Commit, SealAndHandoff, Seals
    <3> QED
      BY <1>0, <1>1, <1>4, <3>1 DEF OnShutdown, WriterTakes
  <2>2. CASE pending = {} /\ active
    <3>1. wal \cup {seg} = wal
      BY <2>2 DEF CountInv
    <3>2. Seals /\ writer' = "stopping"
      BY <1>4, <2>2, <3>1 DEF OnShutdown, SealAndHandoff, Seals
    <3> QED
      BY <1>0, <1>1, <1>4, <3>2 DEF OnShutdown, WriterTakes
  <2>3. CASE pending = {} /\ ~active
    <3>1. Keeps /\ writer' = "stopping"
      BY <1>4, <2>3 DEF OnShutdown, Keeps
    <3> QED
      BY <1>0, <1>1, <1>4, <3>1 DEF OnShutdown, WriterTakes
  <2> QED
    BY <2>1, <2>2, <2>3
<1> QED
  BY <1>2, <1>3, <1>4

\* A step that moves no segment.
LEMMA RingFrame ==
  ASSUME RingInv,
         Numbers(pwq', "durable") = Numbers(pwq, "durable"), InOrder(pwq', "durable"),
         Numbers(uq', "upload") = Numbers(uq, "upload"), InOrder(uq', "upload"),
         dq' = dq, orphans' = orphans, Working' = Working, Active' = Active,
         wal' = wal, uploaded' = uploaded,
         writer' # "gone" => writer # "gone", uploader' # "gone" => uploader # "gone"
  PROVE  RingInv'
<1>1. Reported' = Reported /\ ToUpload' = ToUpload
  BY DEF Reported, ToUpload
<1>2. RingOrders'
  BY <1>1 DEF RingInv, RingOrders, Below
<1>3. RingPlaces'
  BY <1>1 DEF RingInv, RingPlaces
<1> QED
  BY <1>2, <1>3 DEF RingInv

\* Nothing on its way is the segment that a commit writes to.
LEMMA SegIsLast ==
  ASSUME ShapeInv, CountInv, RingInv
  PROVE  /\ seg \notin uploaded /\ seg \notin ToUpload
         /\ \A x \in Reported \cup ToUpload : x < seg
<1>1. seg \notin uploaded /\ seg \notin ToUpload
  <2>1. CASE active
    BY <2>1 DEF RingInv, RingPlaces, Active
  <2>2. CASE ~active
    BY <2>2 DEF RingInv, RingPlaces, CountInv
  <2> QED
    BY <2>1, <2>2
<1>2. \A x \in Reported \cup ToUpload : x \in wal /\ x # seg
  BY <1>1 DEF RingInv, RingPlaces
<1>3. \A x \in wal : x \in Nat /\ x <= seg
  BY DEF CountInv
<1>4. seg \in Nat
  BY DEF ShapeInv
<1> QED
  BY <1>1, <1>2, <1>3, <1>4

\* A step that may commit: the sealed segment joins at the far end.
LEMMA RingCommit ==
  ASSUME ShapeInv, StageInv, CountInv, RingInv, OnProduce \/ FlushTimer \/ OnShutdown
  PROVE  RingInv'
<1>1. /\ writer # "gone" /\ startup = "done"
      /\ UNCHANGED <<dq, orphans, uploader, batch, uploaded>>
      /\ Keeps \/ Commits \/ Seals
  BY CommitSteps DEF startVars, storeVars
<1>2. Numbers(pwq', "durable") = Numbers(pwq, "durable") /\ InOrder(pwq', "durable")
  <2>1. InOrder(pwq, "durable") /\ pwq \in Seq(ToPw)
    BY DEF ShapeInv, RingInv, RingOrders
  <2>2. CASE pwq' = pwq
    BY <2>1, <2>2
  <2>3. CASE pwq # <<>> /\ pwq' = Tail(pwq) /\ Head(pwq).t \in {"produce", "shutdown"}
    BY <2>1, <2>3, NumbersTaken
  <2> QED
    BY <2>2, <2>3, CommitSteps
<1>3. Working' = Working
  BY <1>1 DEF Working
<1>4. ToSet(orphans) = {}
  BY <1>1, EmptyChannel DEF StageInv
<1>5. CASE Keeps
  <2>1. Active' = Active /\ uq' = uq /\ wal' = wal
    BY <1>5 DEF Keeps, Active
  <2> QED
    BY <1>1, <1>2, <1>3, <2>1, RingFrame DEF RingInv, RingOrders
<1>6. CASE Commits
  <2>1. Active' = {seg} /\ uq' = uq /\ wal' = wal \cup {seg}
    BY <1>6 DEF Commits, Active
  <2>2. Reported' = Reported /\ ToUpload' = ToUpload
    BY <1>1, <1>2, <1>3, <2>1 DEF Reported, ToUpload
  <2>3. RingOrders'
    BY <1>1, <1>2, <1>3, <2>1, <2>2 DEF RingInv, RingOrders, Below
  <2>4. seg \notin uploaded /\ seg \notin ToUpload
    BY SegIsLast
  <2>5. Active \subseteq {seg}
    BY DEF Active
  <2>6. RingPlaces'
    BY <1>1, <2>1, <2>2, <2>4, <2>5 DEF RingInv, RingPlaces
  <2> QED
    BY <2>3, <2>6 DEF RingInv
<1>7. CASE Seals
  <2>1. Active' = {} /\ wal' = wal \cup {seg} /\ ToUploader(Msg("upload", seg))
    BY <1>7 DEF Seals, Active
  <2>2. Active \subseteq {seg}
    BY DEF Active
  <2>3. CASE uploader = "gone"
    <3>1. uq' = uq
      BY <2>1, <2>3 DEF ToUploader
    <3>2. Reported' = Reported /\ ToUpload' = ToUpload
      BY <1>1, <1>2, <1>3, <3>1 DEF Reported, ToUpload
    <3>3. RingOrders'
      BY <1>1, <1>2, <1>3, <3>1, <3>2 DEF RingInv, RingOrders, Below
    <3>4. RingPlaces'
      BY <1>1, <2>1, <2>3, <3>2, SegIsLast DEF RingInv, RingPlaces
    <3> QED
      BY <3>3, <3>4 DEF RingInv
  <2>4. CASE uploader # "gone"
    <3>1. uq' = Append(uq, Msg("upload", seg)) /\ uq \in Seq(ToUp)
      BY <2>1, <2>4 DEF ToUploader, ShapeInv
    <3>2. Msg("upload", seg) \in ToUp /\ Msg("upload", seg).t = "upload"
          /\ Msg("upload", seg).n = seg
      BY SegBound, MessageTypes DEF Msg
    <3>3. \A x \in Reported \cup ToUpload : x < seg
      BY SegIsLast
    <3>4. \A x \in Numbers(uq, "upload") : x < seg
      BY <3>3 DEF ToUpload
    <3>5. Numbers(uq', "upload") = Numbers(uq, "upload") \cup {seg} /\ InOrder(uq', "upload")
      <4>1. InOrder(uq, "upload")
        BY DEF RingInv, RingOrders
      <4> QED
        BY <3>1, <3>2, <3>4, <4>1, NumbersAppended
    <3>6. Reported' = Reported /\ ToUpload' = ToUpload \cup {seg}
      BY <1>1, <1>2, <1>3, <3>5 DEF Reported, ToUpload
    <3>7. RingOrders'
      <4>1. Below(Reported', ToUpload')
        BY <3>3, <3>6 DEF RingInv, RingOrders, Below
      <4>2. Below(Working', Numbers(uq', "upload") \cup ToSet(orphans'))
        <5>1. \A x \in Working : x < seg
          BY <3>3 DEF ToUpload
        <5> QED
          BY <1>1, <1>3, <3>5, <5>1 DEF RingInv, RingOrders, Below
      <4>3. Below(Numbers(uq', "upload"), ToSet(orphans'))
        BY <1>1, <1>4 DEF Below
      <4> QED
        BY <1>1, <1>2, <3>5, <4>1, <4>2, <4>3 DEF RingInv, RingOrders, Below
    <3>8. RingPlaces'
      BY <1>1, <2>1, <2>2, <3>6, SegIsLast DEF RingInv, RingPlaces
    <3> QED
      BY <3>7, <3>8 DEF RingInv
  <2> QED
    BY <2>3, <2>4
<1> QED
  BY <1>1, <1>5, <1>6, <1>7

\* The writer deletes the file of the segment that came round.
LEMMA RingDurable ==
  ASSUME ShapeInv, CountInv, RingInv, OnDurable
  PROVE  RingInv'
<1> DEFINE h == Head(pwq).n
<1>1. /\ writer = "idle" /\ pwq # <<>> /\ Head(pwq).t = "durable" /\ pwq' = Tail(pwq)
      /\ wal' = wal \ {h} /\ uploaded' = uploaded \ {h}
      /\ UNCHANGED <<uq, dq, orphans, uploader, batch, writer, seg, active>>
  BY DEF OnDurable, WriterTakes, startVars, taskVars
<1>2. pwq \in Seq(ToPw) /\ InOrder(pwq, "durable")
  BY DEF ShapeInv, RingInv, RingOrders
<1>3. /\ InOrder(pwq', "durable")
      /\ Numbers(pwq, "durable") = Numbers(pwq', "durable") \cup {h}
      /\ \A x \in Numbers(pwq', "durable") : h < x
  BY <1>1, <1>2, NumbersTaken
<1>4. \A x \in wal : x \in Nat
  BY DEF CountInv
<1>5. h \in Reported /\ h \in uploaded /\ h \in wal
  BY <1>3 DEF Reported, RingInv, RingPlaces
<1>6. \A x : x \in Nat => ~(x < x)
  OBVIOUS
<1>7. h \in Nat /\ h \notin Numbers(pwq', "durable")
  BY <1>3, <1>4, <1>5, <1>6
<1>8. h \notin Numbers(dq, "durable") /\ h \notin ToUpload
  BY <1>3, <1>5, <1>6, <1>7 DEF RingInv, RingOrders, Below
<1>9. Reported' = Reported \ {h} /\ ToUpload' = ToUpload /\ Working' = Working /\ Active' = Active
  BY <1>1, <1>3, <1>7, <1>8 DEF Reported, ToUpload, Working, Active
<1> HIDE DEF h
<1>10. RingOrders'
  <2>1. Below(Numbers(pwq', "durable"), Numbers(dq', "durable"))
    BY <1>1, <1>3 DEF RingInv, RingOrders, Below
  <2>2. Below(Reported', ToUpload')
    BY <1>9 DEF RingInv, RingOrders, Below
  <2> QED
    BY <1>1, <1>3, <1>9, <2>1, <2>2 DEF RingInv, RingOrders
<1>11. h \notin Active
  BY <1>5 DEF RingInv, RingPlaces
<1>12. RingPlaces'
  BY <1>1, <1>8, <1>9, <1>11 DEF RingInv, RingPlaces
<1> QED
  BY <1>10, <1>12 DEF RingInv

\* The Uploader takes the segment that is next.
LEMMA RingTake ==
  ASSUME ShapeInv, RingInv, UploaderTakes
  PROVE  RingInv'
<1> DEFINE h == Head(uq).n
<1>1. /\ uploader = "idle" /\ uq # <<>> /\ Head(uq).t = "upload" /\ uq' = Tail(uq)
      /\ uploader' = "uploading" /\ batch' = h
      /\ UNCHANGED <<pwq, dq, orphans, writer, seg, active, wal, uploaded>>
  BY DEF UploaderTakes, startVars, diskVars, storeVars
<1>2. uq \in Seq(ToUp) /\ InOrder(uq, "upload")
  BY DEF ShapeInv, RingInv, RingOrders
<1>3. /\ InOrder(uq', "upload")
      /\ Numbers(uq, "upload") = Numbers(uq', "upload") \cup {h}
      /\ \A x \in Numbers(uq', "upload") : h < x
  BY <1>1, <1>2, NumbersTaken
<1>4. Working = {} /\ Working' = {h}
  BY <1>1 DEF Working
<1>5. Reported' = Reported /\ ToUpload' = ToUpload /\ Active' = Active
  BY <1>1, <1>3, <1>4 DEF Reported, ToUpload, Active
<1> HIDE DEF h
<1>6. RingOrders'
  <2>1. Below(Working', Numbers(uq', "upload") \cup ToSet(orphans'))
    BY <1>1, <1>3, <1>4 DEF RingInv, RingOrders, Below
  <2>2. Below(Numbers(uq', "upload"), ToSet(orphans'))
    BY <1>1, <1>3 DEF RingInv, RingOrders, Below
  <2> QED
    BY <1>1, <1>3, <1>5, <2>1, <2>2 DEF RingInv, RingOrders, Below
<1>7. RingPlaces'
  BY <1>1, <1>5 DEF RingInv, RingPlaces
<1> QED
  BY <1>6, <1>7 DEF RingInv

\* The segment is in the manifest, and reported.
LEMMA RingUpload ==
  ASSUME ShapeInv, CountInv, RingInv, UploadDone
  PROVE  RingInv'
<1>1. /\ uploader = "uploading" /\ uploader' = "reporting"
      /\ uploaded' = uploaded \cup {batch} /\ dq' = Append(dq, Msg("durable", batch))
      /\ UNCHANGED <<pwq, uq, orphans, writer, seg, active, wal>>
  BY DEF UploadDone, startVars
<1>2. Working = {batch} /\ Working' = {} /\ Active' = Active
  BY <1>1 DEF Working, Active
<1>3. /\ dq \in Seq(ToFw) /\ InOrder(dq, "durable") /\ Msg("durable", batch) \in ToFw
      /\ Msg("durable", batch).t = "durable" /\ Msg("durable", batch).n = batch
  BY MessageTypes DEF ShapeInv, RingInv, RingOrders, Msg
<1>4. batch \in ToUpload /\ \A x \in Reported : x < batch
  BY <1>2 DEF RingInv, RingOrders, Below, ToUpload
<1>5. \A x \in Numbers(dq, "durable") : x < batch
  BY <1>4 DEF Reported
<1>6. Numbers(dq', "durable") = Numbers(dq, "durable") \cup {batch} /\ InOrder(dq', "durable")
  BY <1>1, <1>3, <1>5, NumbersAppended
<1>7. Below({batch}, Numbers(uq, "upload") \cup ToSet(orphans))
  BY <1>2 DEF RingInv, RingOrders
<1>8. batch \notin Numbers(uq, "upload") \cup ToSet(orphans)
  <2>1. batch \in Nat
    BY <1>4 DEF RingInv, RingPlaces, CountInv
  <2> QED
    BY <1>7, <2>1 DEF Below
<1>9. Reported' = Reported \cup {batch} /\ ToUpload' = ToUpload \ {batch}
  BY <1>1, <1>2, <1>6, <1>8 DEF Reported, ToUpload
<1>10. RingOrders'
  <2>1. Below(Numbers(pwq', "durable"), Numbers(dq', "durable"))
    <3>1. \A x \in Numbers(pwq, "durable") : x < batch
      BY <1>4 DEF Reported
    <3> QED
      BY <1>1, <1>6, <3>1 DEF RingInv, RingOrders, Below
  <2>2. Below(Reported', ToUpload')
    <3>1. ToUpload' \subseteq Numbers(uq, "upload") \cup ToSet(orphans)
      BY <1>1, <1>2 DEF ToUpload
    <3> QED
      BY <1>7, <1>9, <3>1 DEF RingInv, RingOrders, Below
  <2>3. Below(Working', Numbers(uq', "upload") \cup ToSet(orphans'))
    BY <1>2 DEF Below
  <2> QED
    BY <1>1, <1>6, <2>1, <2>2, <2>3 DEF RingInv, RingOrders, Below
<1>11. batch \notin Active /\ batch \in wal
  BY <1>4 DEF RingInv, RingPlaces
<1>12. RingPlaces'
  BY <1>1, <1>2, <1>9, <1>11 DEF RingInv, RingPlaces
<1> QED
  BY <1>10, <1>12 DEF RingInv

\* The report goes on to the writer, or is lost with it.
LEMMA RingForward ==
  ASSUME ShapeInv, StageInv, RingInv, Forwards
  PROVE  RingInv'
<1> DEFINE h == Head(dq).n
<1>1. /\ dq # <<>> /\ dq' = Tail(dq) /\ ToWriter(Head(dq))
      /\ UNCHANGED <<uq, orphans, uploader, batch, writer, seg, active, wal, uploaded>>
  BY DEF Forwards, startVars, diskVars, storeVars
<1>2. /\ dq \in Seq(ToFw) /\ pwq \in Seq(ToPw)
      /\ InOrder(dq, "durable") /\ InOrder(pwq, "durable")
  BY DEF ShapeInv, RingInv, RingOrders
<1>3. Head(dq) \in ToPw /\ Head(dq).t = "durable"
  BY <1>1, HeadTypes
<1>4. /\ InOrder(dq', "durable")
      /\ Numbers(dq, "durable") = Numbers(dq', "durable") \cup {h}
      /\ \A x \in Numbers(dq', "durable") : h < x
  BY <1>1, <1>2, <1>3, NumbersTaken
<1>5. Working' = Working /\ Active' = Active
  BY <1>1 DEF Working, Active
<1>6. ToUpload' = ToUpload
  BY <1>1, <1>5 DEF ToUpload
<1>7. CASE writer = "gone"
  <2>1. pwq' = pwq /\ Numbers(pwq, "durable") = {}
    BY <1>1, <1>7, EmptyChannel DEF ToWriter, StageInv
  <2>2. Reported' \subseteq Reported
    BY <1>4, <2>1 DEF Reported
  <2>3. RingOrders'
    <3>1. Below(Numbers(pwq', "durable"), Numbers(dq', "durable"))
      BY <2>1 DEF Below
    <3>2. Below(Reported', ToUpload')
      BY <1>6, <2>2 DEF RingInv, RingOrders, Below
    <3> QED
      BY <1>1, <1>2, <1>4, <1>5, <2>1, <3>1, <3>2 DEF RingInv, RingOrders, Below
  <2>4. RingPlaces'
    BY <1>1, <1>5, <1>6, <1>7, <2>2 DEF RingInv, RingPlaces
  <2> QED
    BY <2>3, <2>4 DEF RingInv
<1>8. CASE writer # "gone"
  <2>1. pwq' = Append(pwq, Head(dq))
    BY <1>1, <1>8 DEF ToWriter
  <2>2. \A x \in Numbers(pwq, "durable") : x < h
    BY <1>4 DEF RingInv, RingOrders, Below
  <2>3. Numbers(pwq', "durable") = Numbers(pwq, "durable") \cup {h} /\ InOrder(pwq', "durable")
    <3>1. PICK m \in ToPw : m = Head(dq)
      BY <1>3
    <3>2. m.t = "durable" /\ m.n = h /\ pwq \in Seq(ToPw) /\ InOrder(pwq, "durable")
      BY <1>2, <1>3, <3>1
    <3>3. Numbers(Append(pwq, m), "durable") = Numbers(pwq, "durable") \cup {m.n}
      BY <3>2, NumbersAppended
    <3>4. InOrder(Append(pwq, m), "durable")
      BY <2>2, <3>2, NumbersAppended
    <3> QED
      BY <2>1, <3>1, <3>2, <3>3, <3>4
  <2>4. Reported' = Reported
    BY <1>4, <2>3 DEF Reported
  <2> HIDE DEF h
  <2>5. RingOrders'
    <3>1. Below(Numbers(pwq', "durable"), Numbers(dq', "durable"))
      BY <1>4, <2>3 DEF RingInv, RingOrders, Below
    <3> QED
      BY <1>1, <1>4, <1>5, <1>6, <2>3, <2>4, <3>1 DEF RingInv, RingOrders, Below
  <2>6. RingPlaces'
    <3>1. UNCHANGED <<Reported, ToUpload, Active, uploader, writer, wal, uploaded>>
      BY <1>1, <1>5, <1>6, <2>4
    <3> QED
      BY <3>1 DEF RingInv, RingPlaces
  <2> QED
    BY <2>5, <2>6 DEF RingInv
<1> QED
  BY <1>7, <1>8

\* The next orphan is queued.
LEMMA RingQueue ==
  ASSUME ShapeInv, StageInv, RingInv, QueueOrphan
  PROVE  RingInv'
<1> DEFINE h == Head(orphans)
<1>1. /\ startup = "queueing" /\ orphans # <<>> /\ orphans' = Tail(orphans)
      /\ ToUploader(Msg("upload", h))
      /\ UNCHANGED <<pwq, dq, uploader, batch, writer, seg, active, wal, uploaded>>
  BY DEF QueueOrphan, taskVars, diskVars, storeVars
<1>2. uploader # "gone"
  BY <1>1 DEF StageInv
<1>3. uq' = Append(uq, Msg("upload", h))
  BY <1>1, <1>2 DEF ToUploader
<1>4. /\ orphans \in Seq(Segments) /\ Increasing(orphans)
      /\ uq \in Seq(ToUp) /\ InOrder(uq, "upload")
  BY DEF ShapeInv, RingInv, RingOrders
<1>5. /\ Increasing(orphans') /\ ToSet(orphans) = ToSet(orphans') \cup {h}
      /\ \A x \in ToSet(orphans') : h < x
  BY <1>1, <1>4, IncreasingTaken
<1>6. h \in Segments
  BY <1>1, <1>4, Taken
<1>7. Msg("upload", h) \in ToUp /\ Msg("upload", h).t = "upload" /\ Msg("upload", h).n = h
  BY <1>6, MessageTypes DEF Msg
<1>8. \A x \in Numbers(uq, "upload") : x < h
  BY <1>5 DEF RingInv, RingOrders, Below
<1>9. Numbers(uq', "upload") = Numbers(uq, "upload") \cup {h} /\ InOrder(uq', "upload")
  <2>1. PICK m \in ToUp : m = Msg("upload", h) /\ m.t = "upload" /\ m.n = h
    BY <1>7
  <2>2. Numbers(Append(uq, m), "upload") = Numbers(uq, "upload") \cup {m.n}
    BY <1>4, <2>1, NumbersAppended
  <2>3. InOrder(Append(uq, m), "upload")
    BY <1>4, <1>8, <2>1, NumbersAppended
  <2> QED
    BY <1>3, <2>1, <2>2, <2>3
<1>10. Working' = Working /\ Active' = Active
  BY <1>1 DEF Working, Active
<1>11. Reported' = Reported /\ ToUpload' = ToUpload
  BY <1>1, <1>5, <1>9, <1>10 DEF Reported, ToUpload
<1> HIDE DEF h
<1>12. RingOrders'
  <2>1. Below(Numbers(uq', "upload"), ToSet(orphans'))
    BY <1>5, <1>9 DEF RingInv, RingOrders, Below
  <2>2. Below(Working', Numbers(uq', "upload") \cup ToSet(orphans'))
    BY <1>5, <1>9, <1>10 DEF RingInv, RingOrders, Below
  <2> QED
    BY <1>1, <1>5, <1>9, <1>11, <2>1, <2>2 DEF RingInv, RingOrders, Below
<1>13. RingPlaces'
  <2>1. UNCHANGED <<Reported, ToUpload, Active, uploader, writer, wal, uploaded>>
    BY <1>1, <1>10, <1>11
  <2> QED
    BY <2>1 DEF RingInv, RingPlaces
<1> QED
  BY <1>12, <1>13 DEF RingInv

\* After a restart all but the newest file is an orphan.
LEMMA RingCrash ==
  ASSUME ShapeInv, CountInv, RingInv, CrashAndRecover
  PROVE  RingInv'
<1> DEFINE files == FilesToRecover
<1>1. /\ wal' = files /\ uploaded' = {} /\ orphans' \in OrphansOf(files)
      /\ active' = (files # {})
      /\ seg' = IF files = {} THEN seg ELSE CHOOSE s \in files : \A f \in files : f <= s
      /\ pwq' = <<>> /\ uq' = <<>> /\ dq' = <<>> /\ uploader' = "idle"
  BY DEF CrashAndRecover
<1>0. files \in SUBSET wal
  BY DEF FilesToRecover
<1>2. /\ Increasing(orphans')
      /\ ToSet(orphans') = {f \in files : \E g \in files : f < g}
  BY <1>0, <1>1, OrphansFound
<1>3. /\ Numbers(pwq', "durable") = {} /\ Numbers(dq', "durable") = {}
      /\ Numbers(uq', "upload") = {} /\ InOrder(pwq', "durable")
      /\ InOrder(dq', "durable") /\ InOrder(uq', "upload")
  BY <1>1, EmptyChannel
<1>4. Working' = {}
  BY <1>1 DEF Working
<1>5. Reported' = {} /\ ToUpload' = ToSet(orphans')
  BY <1>3, <1>4 DEF Reported, ToUpload
<1>6. RingOrders'
  BY <1>2, <1>3, <1>4, <1>5 DEF RingOrders, Below
<1>7. ToSet(orphans') \cap Active' = {} /\ files = ToSet(orphans') \cup Active'
  <2>1. CASE files = {}
    <3>1. Active' = {}
      BY <1>1, <2>1 DEF Active
    <3> QED
      BY <1>2, <2>1, <3>1
  <2>2. CASE files # {}
    <3>1. Active' = {seg'}
      BY <1>1, <2>2 DEF Active
    <3>2. seg' \in files /\ \A f \in files : f <= seg'
      BY <1>0, <1>1, <2>2, NewestFile
    <3>3. \A f \in files : f \in Nat
      BY <1>0 DEF CountInv
    <3>4. \A f \in files : f # seg' => f < seg'
      BY <3>2, <3>3
    <3>5. ~\E g \in files : seg' < g
      BY <3>2, <3>3
    <3> QED
      BY <1>2, <3>1, <3>2, <3>4, <3>5
  <2> QED
    BY <2>1, <2>2
<1> HIDE DEF files
<1>8. RingPlaces'
  BY <1>1, <1>5, <1>7 DEF RingPlaces
<1> QED
  BY <1>6, <1>8 DEF RingInv

\* A task that ends takes its channel with it.
LEMMA RingEnds ==
  ASSUME RingInv, WriterStops \/ UploaderStops
  PROVE  RingInv'
<1>1. CASE WriterStops
  <2>1. /\ pwq' = <<>> /\ writer' = "gone"
        /\ UNCHANGED <<uq, dq, orphans, uploader, batch, seg, active, wal, uploaded>>
    BY <1>1 DEF WriterStops, startVars, diskVars, storeVars
  <2>2. Numbers(pwq', "durable") = {} /\ InOrder(pwq', "durable")
    BY <2>1, EmptyChannel
  <2>3. Working' = Working /\ Active' = Active
    BY <2>1 DEF Working, Active
  <2>4. Reported' \subseteq Reported /\ ToUpload' = ToUpload
    BY <2>1, <2>2, <2>3 DEF Reported, ToUpload
  <2>5. RingOrders'
    <3>1. Below(Reported', ToUpload')
      BY <2>4 DEF RingInv, RingOrders, Below
    <3> QED
      BY <2>1, <2>2, <2>3, <3>1 DEF RingInv, RingOrders, Below
  <2>6. RingPlaces'
    BY <2>1, <2>3, <2>4 DEF RingInv, RingPlaces
  <2> QED
    BY <2>5, <2>6 DEF RingInv
<1>2. CASE UploaderStops
  <2>1. /\ uq' = <<>> /\ uploader = "idle" /\ uploader' = "gone"
        /\ UNCHANGED <<pwq, dq, orphans, writer, batch, seg, active, wal, uploaded>>
    BY <1>2 DEF UploaderStops, startVars, diskVars, storeVars
  <2>2. Numbers(uq', "upload") = {} /\ InOrder(uq', "upload")
    BY <2>1, EmptyChannel
  <2>3. Working = {} /\ Working' = {} /\ Active' = Active
    BY <2>1 DEF Working, Active
  <2>4. Reported' = Reported /\ ToUpload' \subseteq ToUpload
    BY <2>1, <2>2, <2>3 DEF Reported, ToUpload
  <2>5. RingOrders'
    <3>1. Below(Reported', ToUpload')
      BY <2>4 DEF RingInv, RingOrders, Below
    <3> QED
      BY <2>1, <2>2, <2>3, <3>1 DEF RingInv, RingOrders, Below
  <2>6. RingPlaces'
    BY <2>1, <2>3, <2>4 DEF RingInv, RingPlaces
  <2> QED
    BY <2>5, <2>6 DEF RingInv
<1> QED
  BY <1>1, <1>2

\* A message of another kind joins, leaves or is taken back.
LEMMA QuietPw ==
  ASSUME ShapeInv, RingInv,
         \/ pwq' = pwq
         \/ \E m \in ToPw : m.t # "durable" /\ ToWriter(m)
         \/ pwq # <<>> /\ Head(pwq).t # "durable" /\ pwq' = Tail(pwq)
         \/ Waits(pwq, PwCap, Msg("shutdown", 0)) /\ pwq' = TakenBack(pwq, PwCap, Msg("shutdown", 0))
  PROVE  Numbers(pwq', "durable") = Numbers(pwq, "durable") /\ InOrder(pwq', "durable")
<1>1. pwq \in Seq(ToPw) /\ InOrder(pwq, "durable")
  BY DEF ShapeInv, RingInv, RingOrders
<1>2. CASE \E m \in ToPw : m.t # "durable" /\ ToWriter(m)
  BY <1>1, <1>2, SendsOther
<1>3. CASE pwq # <<>> /\ Head(pwq).t # "durable" /\ pwq' = Tail(pwq)
  BY <1>1, <1>3, NumbersTaken
<1>4. CASE Waits(pwq, PwCap, Msg("shutdown", 0)) /\ pwq' = TakenBack(pwq, PwCap, Msg("shutdown", 0))
  <2>1. PICK k \in DOMAIN pwq : pwq[k] = Msg("shutdown", 0) /\ pwq' = RemoveAt(pwq, k)
    BY <1>1, <1>4, TakenBackIsRemoved
  <2>2. pwq[k].t # "durable"
    BY <2>1 DEF Msg
  <2> QED
    BY <1>1, <2>1, <2>2, NumbersRemoved
<1> QED
  BY <1>1, <1>2, <1>3, <1>4

LEMMA QuietUq ==
  ASSUME ShapeInv, RingInv,
         \/ uq' = uq
         \/ \E m \in ToUp : m.t # "upload" /\ ToUploader(m)
         \/ uq # <<>> /\ Head(uq).t # "upload" /\ uq' = Tail(uq)
         \/ Waits(uq, UploadCap, Msg("shutdown", 0)) /\ uq' = TakenBack(uq, UploadCap, Msg("shutdown", 0))
  PROVE  Numbers(uq', "upload") = Numbers(uq, "upload") /\ InOrder(uq', "upload")
<1>1. uq \in Seq(ToUp) /\ InOrder(uq, "upload")
  BY DEF ShapeInv, RingInv, RingOrders
<1>2. CASE \E m \in ToUp : m.t # "upload" /\ ToUploader(m)
  BY <1>1, <1>2, SendsOther
<1>3. CASE uq # <<>> /\ Head(uq).t # "upload" /\ uq' = Tail(uq)
  BY <1>1, <1>3, NumbersTaken
<1>4. CASE Waits(uq, UploadCap, Msg("shutdown", 0)) /\ uq' = TakenBack(uq, UploadCap, Msg("shutdown", 0))
  <2>1. PICK k \in DOMAIN uq : uq[k] = Msg("shutdown", 0) /\ uq' = RemoveAt(uq, k)
    BY <1>1, <1>4, TakenBackIsRemoved
  <2>2. uq[k].t # "upload"
    BY <2>1 DEF Msg
  <2> QED
    BY <1>1, <2>1, <2>2, NumbersRemoved
<1> QED
  BY <1>1, <1>2, <1>3, <1>4

\* Every step keeps the segments in order and in their places.
LEMMA RingStep ==
  ASSUME ShapeInv, StageInv, CountInv, RingInv, [Next]_vars
  PROVE  RingInv'
<1> USE DEF startVars, taskVars, adminVars, chanVars, diskVars, storeVars
<1>1. CASE OnProduce \/ FlushTimer \/ OnShutdown
  BY <1>1, RingCommit
<1>2. CASE OnDurable
  BY <1>2, RingDurable
<1>3. CASE UploaderTakes
  BY <1>3, RingTake
<1>4. CASE UploadDone
  BY <1>4, RingUpload
<1>5. CASE Forwards
  BY <1>5, RingForward
<1>6. CASE QueueOrphan
  BY <1>6, RingQueue
<1>7. CASE CrashAndRecover
  BY <1>7, RingCrash
<1>8. CASE WriterStops \/ UploaderStops
  BY <1>8, RingEnds
<1> DEFINE QuietP == /\ Numbers(pwq', "durable") = Numbers(pwq, "durable")
                     /\ InOrder(pwq', "durable")
           QuietU == /\ Numbers(uq', "upload") = Numbers(uq, "upload")
                     /\ InOrder(uq', "upload")
           Rest   == /\ UNCHANGED <<dq, orphans, seg, active, wal, uploaded>>
                     /\ Working' = Working
                     /\ writer' # "gone" => writer # "gone"
                     /\ uploader' # "gone" => uploader # "gone"
<1>9. ASSUME QuietP, QuietU, Rest PROVE RingInv'
  <2>1. Active' = Active
    BY <1>9 DEF Active
  <2> QED
    BY <1>9, <2>1, RingFrame
<1>10. pwq' = pwq => QuietP
  BY QuietPw
<1>11. uq' = uq => QuietU
  BY QuietUq
<1>12. ASSUME NEW r \in Requests, NEW k \in {"produce", "read"}, Submit(r, k)
       PROVE  RingInv'
  <2>1. Msg(k, r) \in ToPw /\ Msg(k, r).t # "durable" /\ ToWriter(Msg(k, r))
    BY <1>12, MessageTypes DEF Submit, Msg
  <2>2. QuietP
    BY <2>1, QuietPw
  <2>3. uq' = uq /\ Rest
    BY <1>12 DEF Submit, Working
  <2> QED
    BY <1>9, <1>11, <2>2, <2>3
<1>13. ASSUME NEW r \in Requests, SubmitUnknown(r) PROVE RingInv'
  <2>1. pwq' = pwq /\ uq' = uq /\ Rest
    BY <1>13 DEF SubmitUnknown, Working
  <2> QED
    BY <1>9, <1>10, <1>11, <2>1
<1>14. CASE WriterResumes \/ UploaderResumes \/ ForwarderResumes \/ ForwarderStops
            \/ StartTasks \/ DeleteUp
  <2>1. pwq' = pwq /\ uq' = uq
    BY <1>14 DEF WriterResumes, UploaderResumes, ForwarderResumes, ForwarderStops,
                 StartTasks, DeleteUp
  <2>2. CASE StartTasks
    <3>1. Rest
      BY <2>2 DEF StartTasks, StageInv, Working
    <3> QED
      BY <1>9, <1>10, <1>11, <2>1, <3>1
  <2>3. CASE WriterResumes \/ UploaderResumes \/ ForwarderResumes \/ ForwarderStops \/ DeleteUp
    <3>1. Rest
      BY <2>3 DEF WriterResumes, UploaderResumes, ForwarderResumes, ForwarderStops, DeleteUp,
                  Working
    <3> QED
      BY <1>9, <1>10, <1>11, <2>1, <3>1
  <2> QED
    BY <1>14, <2>2, <2>3
<1>15. CASE OnRead \/ OnUpdateConfig
  <2>1. pwq # <<>> /\ Head(pwq).t # "durable" /\ pwq' = Tail(pwq)
    BY <1>15 DEF OnRead, OnUpdateConfig, WriterTakes
  <2>2. QuietP
    BY <2>1, QuietPw
  <2>3. uq' = uq /\ Rest
    BY <1>15 DEF OnRead, OnUpdateConfig, Working
  <2> QED
    BY <1>9, <1>11, <2>2, <2>3
<1>16. CASE UploaderSkips
  <2>1. uq # <<>> /\ Head(uq).t # "upload" /\ uq' = Tail(uq)
    BY <1>16 DEF UploaderSkips
  <2>2. QuietU
    BY <2>1, QuietUq
  <2>3. pwq' = pwq /\ Rest
    BY <1>16 DEF UploaderSkips, Working
  <2> QED
    BY <1>9, <1>10, <2>2, <2>3
<1>17. CASE AlterBegins \/ DeleteBegins
  <2>1. \E m \in ToPw : m.t # "durable" /\ ToWriter(m)
    <3>1. Msg("config", 0).t # "durable" /\ Msg("shutdown", 0).t # "durable"
      BY DEF Msg
    <3> QED
      BY <1>17, <3>1, MessageTypes DEF AlterBegins, DeleteBegins
  <2>2. QuietP
    BY <2>1, QuietPw
  <2>3. uq' = uq /\ Rest
    BY <1>17 DEF AlterBegins, DeleteBegins, Working
  <2> QED
    BY <1>9, <1>11, <2>2, <2>3
<1>18. CASE AlterProceeds \/ DeletePw \/ SweeperKicks
  <2>1. uq' = uq \/ \E m \in ToUp : m.t # "upload" /\ ToUploader(m)
    <3>1. /\ Msg("config", 0).t # "upload" /\ Msg("shutdown", 0).t # "upload"
          /\ Msg("kick", 0).t # "upload"
      BY DEF Msg
    <3>2. CASE AlterProceeds \/ DeletePw
      BY <3>1, <3>2, MessageTypes DEF AlterProceeds, DeletePw
    <3>3. CASE SweeperKicks
      <4>1. ToUploader(Msg("kick", 0))
        BY <3>3 DEF SweeperKicks, ToUploader
      <4> QED
        BY <3>1, <4>1, MessageTypes
    <3> QED
      BY <1>18, <3>2, <3>3
  <2>2. QuietU
    BY <2>1, QuietUq
  <2>3. pwq' = pwq /\ Rest
    BY <1>18 DEF AlterProceeds, DeletePw, SweeperKicks, Working
  <2> QED
    BY <1>9, <1>10, <2>2, <2>3
<1>19. CASE DeleteAborted
  <2>1. QuietP
    BY <1>19, QuietPw DEF DeleteAborted
  <2>2. QuietU
    BY <1>19, QuietUq DEF DeleteAborted
  <2>3. Rest
    BY <1>19 DEF DeleteAborted, Working
  <2> QED
    BY <1>9, <2>1, <2>2, <2>3
<1>20. CASE UNCHANGED vars
  <2>1. pwq' = pwq /\ uq' = uq /\ Rest
    BY <1>20 DEF vars, Working
  <2> QED
    BY <1>9, <1>10, <1>11, <2>1
<1> QED
  BY <1>1, <1>2, <1>3, <1>4, <1>5, <1>6, <1>7, <1>8, <1>12, <1>13, <1>14, <1>15, <1>16,
     <1>17, <1>18, <1>19, <1>20, StepCases

-----------------------------------------------------------------------------
(* Requests, and the segments they pay for *)

\* Messages of requests when a message joins, leaves or is taken back, and the
\* state of the requests that have none changes.
LEMMA RequestsAppended ==
  ASSUME NEW S, NEW q \in Seq(S), NEW m \in S, NEW rs, NEW rs2, RequestsIn(q, rs),
         \A r \in Requests : rs[r] = "sent" => rs2[r] = "sent",
         IsRequest(m) => m.n \in Requests /\ rs[m.n] # "sent" /\ rs2[m.n] = "sent"
  PROVE  RequestsIn(Append(q, m), rs2)
<1> DEFINE a == Append(q, m)
           e == Len(q) + 1
<1>1. /\ a[e] = m /\ \A i \in DOMAIN q : a[i] = q[i]
      /\ \A i \in DOMAIN a : i \in DOMAIN q \/ i = e
  BY Appended
<1> HIDE DEF a, e
<1>2. \A i \in DOMAIN a : IsRequest(a[i]) => a[i].n \in Requests /\ rs2[a[i].n] = "sent"
  BY <1>1 DEF RequestsIn
<1>3. ASSUME NEW i \in DOMAIN a, NEW j \in DOMAIN a,
             IsRequest(a[i]), IsRequest(a[j]), a[i].n = a[j].n
      PROVE  i = j
  BY <1>1, <1>3 DEF RequestsIn
<1> QED
  BY <1>2, <1>3 DEF RequestsIn, a

LEMMA RequestsTaken ==
  ASSUME NEW S, NEW q \in Seq(S), q # <<>>, NEW rs, NEW rs2, RequestsIn(q, rs),
         \A r \in Requests :
           rs[r] = "sent" => rs2[r] = "sent" \/ (IsRequest(Head(q)) /\ r = Head(q).n)
  PROVE  RequestsIn(Tail(q), rs2)
<1> DEFINE a == Tail(q)
<1>1. /\ Head(q) = q[1] /\ 1 \in DOMAIN q
      /\ \A i \in DOMAIN a : i + 1 \in DOMAIN q /\ a[i] = q[i + 1] /\ i + 1 # 1
      /\ \A i, j \in DOMAIN a : i + 1 = j + 1 => i = j
  BY Taken
<1> HIDE DEF a
<1>2. ASSUME NEW i \in DOMAIN a, IsRequest(a[i])
      PROVE  a[i].n \in Requests /\ rs2[a[i].n] = "sent"
  <2>1. a[i].n \in Requests /\ rs[a[i].n] = "sent"
    BY <1>1, <1>2 DEF RequestsIn
  <2>2. IsRequest(Head(q)) => a[i].n # Head(q).n
    BY <1>1, <1>2 DEF RequestsIn
  <2> QED
    BY <2>1, <2>2
<1>3. ASSUME NEW i \in DOMAIN a, NEW j \in DOMAIN a,
             IsRequest(a[i]), IsRequest(a[j]), a[i].n = a[j].n
      PROVE  i = j
  <2>1. i + 1 = j + 1
    BY <1>1, <1>3 DEF RequestsIn
  <2> QED
    BY <1>1, <2>1
<1> QED
  BY <1>2, <1>3 DEF RequestsIn, a

LEMMA RequestsRemoved ==
  ASSUME NEW S, NEW q \in Seq(S), NEW k \in DOMAIN q, NEW rs, RequestsIn(q, rs)
  PROVE  RequestsIn(RemoveAt(q, k), rs)
<1> DEFINE a == RemoveAt(q, k)
           up(i) == IF i < k THEN i ELSE i + 1
<1>1. \A i \in DOMAIN a : up(i) \in DOMAIN q /\ a[i] = q[up(i)]
  BY Removed
<1>2. \A i, j \in DOMAIN a : up(i) = up(j) => i = j
  <2>1. k \in Int /\ \A i \in DOMAIN a : i \in Int
    BY Removed
  <2>2. \A i, j \in Int : up(i) = up(j) => i = j
    BY <2>1
  <2> HIDE DEF a, up
  <2> QED
    BY <2>1, <2>2
<1> HIDE DEF a, up
<1>3. \A i \in DOMAIN a : IsRequest(a[i]) => a[i].n \in Requests /\ rs[a[i].n] = "sent"
  BY <1>1 DEF RequestsIn
<1>4. ASSUME NEW i \in DOMAIN a, NEW j \in DOMAIN a,
             IsRequest(a[i]), IsRequest(a[j]), a[i].n = a[j].n
      PROVE  i = j
  <2>1. up(i) = up(j)
    BY <1>1, <1>4 DEF RequestsIn
  <2> QED
    BY <1>2, <2>1
<1> QED
  BY <1>3, <1>4 DEF RequestsIn, a

LEMMA RequestsNone == \A rs : RequestsIn(<<>>, rs)
  BY EmptyChannel DEF RequestsIn

\* A message that is not of a request.
LEMMA RequestsOther ==
  ASSUME ShapeInv, RequestInv, reqs' = reqs, NEW m \in ToPw, ~IsRequest(m), ToWriter(m)
  PROVE  RequestsIn(pwq', reqs')
<1>1. pwq \in Seq(ToPw) /\ RequestsIn(pwq, reqs)
  BY DEF ShapeInv, RequestInv
<1>2. RequestsIn(Append(pwq, m), reqs)
  BY <1>1, RequestsAppended
<1> QED
  BY <1>1, <1>2 DEF ToWriter

\* Every step keeps the messages of requests apart.
LEMMA RequestStep ==
  ASSUME ShapeInv, StageInv, RequestInv, [Next]_vars
  PROVE  RequestInv'
<1> USE DEF startVars, taskVars, adminVars, chanVars, diskVars, storeVars
<1>0. /\ pwq \in Seq(ToPw) /\ RequestsIn(pwq, reqs) /\ \A r \in pending : reqs[r] = "pending"
      /\ reqs \in [Requests -> {"new", "sent", "pending", "answered", "refused"}]
      /\ pending \subseteq Requests
  BY DEF ShapeInv, RequestInv
<1>1. ASSUME NEW r \in Requests, NEW k \in {"produce", "read"}, Submit(r, k)
      PROVE  RequestInv'
  <2>1. reqs[r] = "new" /\ pending' = pending /\ ToWriter(Msg(k, r))
        /\ reqs' = [reqs EXCEPT ![r] = IF writer = "gone" THEN "refused" ELSE "sent"]
    BY <1>1 DEF Submit
  <2>2. \A s \in pending' : reqs'[s] = "pending"
    BY <1>0, <2>1
  <2>3. CASE writer = "gone"
    <3>1. pwq' = <<>>
      BY <2>1, <2>3 DEF ToWriter, StageInv
    <3> QED
      BY <2>2, <3>1, RequestsNone DEF RequestInv
  <2>4. CASE writer # "gone"
    <3>1. pwq' = Append(pwq, Msg(k, r))
      BY <2>1, <2>4 DEF ToWriter
    <3>2. Msg(k, r) \in ToPw /\ Msg(k, r).n = r
      BY MessageTypes DEF Msg
    <3>3. reqs'[r] = "sent" /\ \A s \in Requests : reqs[s] = "sent" => reqs'[s] = "sent"
      BY <1>0, <2>1, <2>4
    <3>4. RequestsIn(Append(pwq, Msg(k, r)), reqs')
      <4>1. PICK m \in ToPw : m = Msg(k, r) /\ m.n = r
        BY <3>2
      <4>2. PICK rs2 : rs2 = reqs'
        OBVIOUS
      <4>3. \A s \in Requests : reqs[s] = "sent" => rs2[s] = "sent"
        BY <3>3, <4>2
      <4>4. m.n \in Requests /\ reqs[m.n] # "sent" /\ rs2[m.n] = "sent"
        BY <2>1, <3>3, <4>1, <4>2
      <4>5. pwq \in Seq(ToPw) /\ RequestsIn(pwq, reqs)
        BY <1>0
      <4>6. RequestsIn(Append(pwq, m), rs2)
        BY <4>3, <4>4, <4>5, RequestsAppended
      <4> QED
        BY <4>1, <4>2, <4>6
    <3> QED
      BY <2>2, <3>1, <3>4 DEF RequestInv
  <2> QED
    BY <2>3, <2>4
<1>2. ASSUME NEW r \in Requests, SubmitUnknown(r) PROVE RequestInv'
  <2>1. /\ reqs[r] = "new" /\ reqs' = [reqs EXCEPT ![r] = "refused"]
        /\ pwq' = pwq /\ pending' = pending
    BY <1>2 DEF SubmitUnknown
  <2>2. \A s \in Requests : s # r => reqs'[s] = reqs[s]
    BY <1>0, <2>1
  <2>3. \A s \in pending' : reqs'[s] = "pending"
    BY <1>0, <2>1, <2>2
  <2>4. RequestsIn(pwq, reqs')
    BY <1>0, <2>1, <2>2 DEF RequestsIn
  <2> QED
    BY <2>1, <2>3, <2>4 DEF RequestInv
<1>3. ASSUME NEW rs \in SUBSET Requests, reqs' = Answered(rs)
      PROVE  \A r \in Requests : reqs'[r] = IF r \in rs THEN "answered" ELSE reqs[r]
  BY <1>3 DEF Answered
<1>4. CASE OnProduce
  <2>1. pwq # <<>> /\ pwq' = Tail(pwq) /\ IsRequest(Head(pwq))
    BY <1>4 DEF OnProduce, WriterTakes, IsRequest
  <2>2. PICK h \in Requests : h = Head(pwq).n /\ reqs[h] = "sent"
    BY <2>1, RequestHead
  <2>3. CASE pending' = pending \cup {h} /\ reqs' = [reqs EXCEPT ![h] = "pending"]
    <3>1. reqs'[h] = "pending" /\ \A r \in Requests : r # h => reqs'[r] = reqs[r]
      BY <1>0, <2>3
    <3>2. \A r \in pending' : reqs'[r] = "pending"
      BY <1>0, <2>3, <3>1
    <3>3. RequestsIn(Tail(pwq), reqs')
      BY <1>0, <2>1, <2>2, <3>1, RequestsTaken
    <3> QED
      BY <2>1, <3>2, <3>3 DEF RequestInv
  <2>4. CASE reqs' = Answered(pending \cup {h}) /\ pending' = {}
    <3>1. \A r \in Requests :
            reqs'[r] = IF r \in pending \cup {h} THEN "answered" ELSE reqs[r]
      BY <1>0, <1>3, <2>4
    <3>2. \A r \in Requests : reqs[r] = "sent" => reqs'[r] = "sent" \/ r = h
      BY <1>0, <3>1
    <3>3. RequestsIn(Tail(pwq), reqs')
      BY <1>0, <2>1, <2>2, <3>2, RequestsTaken
    <3> QED
      BY <2>1, <2>4, <3>3 DEF RequestInv
  <2> QED
    BY <1>4, <2>2, <2>3, <2>4 DEF OnProduce, Commit
<1>5. CASE FlushTimer
  <2>1. reqs' = Answered(pending) /\ pending' = {} /\ pwq' = pwq
    BY <1>5 DEF FlushTimer, Commit
  <2>2. \A r \in Requests : reqs[r] = "sent" => reqs'[r] = "sent"
    BY <1>0, <1>3, <2>1
  <2>3. RequestsIn(pwq, reqs')
    BY <1>0, <2>2 DEF RequestsIn
  <2> QED
    BY <2>1, <2>3 DEF RequestInv
<1>6. CASE OnRead
  <2>1. pwq # <<>> /\ pwq' = Tail(pwq) /\ IsRequest(Head(pwq)) /\ pending' = pending
    BY <1>6 DEF OnRead, WriterTakes, IsRequest
  <2>2. PICK h \in Requests : h = Head(pwq).n /\ reqs[h] = "sent"
    BY <2>1, RequestHead
  <2>3. reqs' = Answered({h})
    BY <1>6, <2>2 DEF OnRead
  <2>4. \A r \in Requests : reqs'[r] = IF r \in {h} THEN "answered" ELSE reqs[r]
    BY <1>3, <2>3
  <2>5. RequestsIn(Tail(pwq), reqs')
    BY <1>0, <2>1, <2>2, <2>4, RequestsTaken
  <2>6. \A r \in pending' : reqs'[r] = "pending"
    BY <1>0, <2>1, <2>2, <2>4
  <2> QED
    BY <2>1, <2>5, <2>6 DEF RequestInv
<1>7. CASE OnDurable \/ OnUpdateConfig
  <2>1. pwq # <<>> /\ pwq' = Tail(pwq) /\ pending' = pending /\ reqs' = reqs
    BY <1>7 DEF OnDurable, OnUpdateConfig, WriterTakes
  <2>2. RequestsIn(Tail(pwq), reqs')
    BY <1>0, <2>1, RequestsTaken
  <2> QED
    BY <1>0, <2>1, <2>2 DEF RequestInv
<1>8. CASE OnShutdown
  <2>1. pwq # <<>> /\ pwq' = Tail(pwq) /\ pending' = {}
        /\ (reqs' = reqs \/ reqs' = Answered(pending))
    BY <1>8 DEF OnShutdown, WriterTakes, Commit
  <2>2. \A r \in Requests : reqs[r] = "sent" => reqs'[r] = "sent"
    BY <1>0, <1>3, <2>1
  <2>3. RequestsIn(Tail(pwq), reqs')
    BY <1>0, <2>1, <2>2, RequestsTaken
  <2> QED
    BY <2>1, <2>3 DEF RequestInv
<1>9. CASE WriterStops
  <2>1. pwq' = <<>> /\ pending' = {}
    BY <1>9 DEF WriterStops, StageInv
  <2> QED
    BY <2>1, RequestsNone DEF RequestInv
<1>10. CASE Forwards \/ AlterBegins \/ DeleteBegins
  <2>1. reqs' = reqs /\ pending' = pending
    BY <1>10 DEF Forwards, AlterBegins, DeleteBegins
  <2>2. \E m \in ToPw : ~IsRequest(m) /\ ToWriter(m)
    <3>1. ~IsRequest(Msg("config", 0)) /\ ~IsRequest(Msg("shutdown", 0))
      BY DEF Msg, IsRequest
    <3>2. CASE Forwards
      BY <3>2, HeadTypes DEF Forwards, IsRequest
    <3>3. CASE AlterBegins \/ DeleteBegins
      BY <3>1, <3>3, MessageTypes DEF AlterBegins, DeleteBegins
    <3> QED
      BY <1>10, <3>2, <3>3
  <2>3. RequestsIn(pwq', reqs')
    BY <2>1, <2>2, RequestsOther
  <2> QED
    BY <1>0, <2>1, <2>3 DEF RequestInv
<1>11. CASE DeleteAborted
  <2>1. reqs' = reqs /\ pending' = pending
    BY <1>11 DEF DeleteAborted
  <2>2. Waits(pwq, PwCap, Msg("shutdown", 0)) =>
          RequestsIn(TakenBack(pwq, PwCap, Msg("shutdown", 0)), reqs)
    BY <1>0, TakenBackIsRemoved, RequestsRemoved
  <2>3. RequestsIn(pwq', reqs)
    BY <1>0, <1>11, <2>2 DEF DeleteAborted
  <2> QED
    BY <1>0, <2>1, <2>3 DEF RequestInv
<1>12. CASE CrashAndRecover
  <2>1. pwq' = <<>> /\ pending' = {}
    BY <1>12 DEF CrashAndRecover
  <2> QED
    BY <2>1, RequestsNone DEF RequestInv
<1>13. ASSUME UNCHANGED <<pwq, reqs, pending>> PROVE RequestInv'
  BY <1>13 DEF RequestInv
<1>14. CASE \/ WriterResumes \/ UploaderTakes \/ UploaderSkips \/ UploadDone
            \/ UploaderResumes \/ UploaderStops \/ ForwarderResumes \/ ForwarderStops
            \/ QueueOrphan \/ StartTasks \/ AlterProceeds \/ DeletePw \/ DeleteUp
            \/ SweeperKicks \/ UNCHANGED vars
  <2>1. UNCHANGED <<pwq, reqs, pending>>
    BY <1>14 DEF WriterResumes, UploaderTakes, UploaderSkips, UploadDone, UploaderResumes,
         UploaderStops, ForwarderResumes, ForwarderStops, QueueOrphan, StartTasks,
         AlterProceeds, DeletePw, DeleteUp, SweeperKicks, vars
  <2> QED
    BY <1>13, <2>1
<1> QED
  BY <1>1, <1>2, <1>4, <1>5, <1>6, <1>7, <1>8, <1>9, <1>10, <1>11, <1>12, <1>14, StepCases

\* A request that was answered stays so, and a commit answers one more.
LEMMA DoneGrows ==
  ASSUME ShapeInv, RequestInv, [Next]_vars
  PROVE  Done \subseteq Done'
<1> USE DEF startVars, taskVars, adminVars, chanVars, diskVars, storeVars
<1>0. reqs \in [Requests -> {"new", "sent", "pending", "answered", "refused"}]
      /\ pwq \in Seq(ToPw) /\ RequestsIn(pwq, reqs)
  BY DEF ShapeInv, RequestInv
<1>1. ASSUME NEW r \in Requests, NEW v, reqs[r] # "answered", reqs' = [reqs EXCEPT ![r] = v]
      PROVE  Done \subseteq Done'
  BY <1>0, <1>1 DEF Done
<1>2. ASSUME NEW rs, reqs' = Answered(rs) PROVE Done \subseteq Done'
  BY <1>0, <1>2 DEF Done, Answered
<1>3. ASSUME NEW rs, reqs' = Refused(rs), \A r \in rs : r \in Requests => reqs[r] # "answered"
      PROVE  Done \subseteq Done'
  BY <1>0, <1>3 DEF Done, Refused
<1>4. ASSUME reqs' = reqs PROVE Done \subseteq Done'
  BY <1>4 DEF Done
<1>5. ASSUME NEW r \in Requests, NEW k \in {"produce", "read"}, Submit(r, k)
      PROVE  Done \subseteq Done'
  BY <1>1, <1>5 DEF Submit
<1>6. ASSUME NEW r \in Requests, SubmitUnknown(r) PROVE Done \subseteq Done'
  BY <1>1, <1>6 DEF SubmitUnknown
<1>7. CASE OnProduce
  <2>1. pwq # <<>> /\ IsRequest(Head(pwq))
    BY <1>7 DEF OnProduce, WriterTakes, IsRequest
  <2>2. Head(pwq).n \in Requests /\ reqs[Head(pwq).n] # "answered"
    BY <2>1, RequestHead
  <2> QED
    BY <1>1, <1>2, <1>7, <2>2 DEF OnProduce, Commit
<1>8. CASE FlushTimer \/ OnRead \/ OnShutdown
  BY <1>2, <1>4, <1>8 DEF FlushTimer, OnRead, OnShutdown, Commit
<1>9. CASE WriterStops
  <2>1. \A i \in DOMAIN pwq : pwq[i].t \in {"produce", "read"} => reqs[pwq[i].n] # "answered"
    BY <1>0 DEF RequestsIn, IsRequest
  <2>2. \A r \in Numbers(pwq, "produce") \cup Numbers(pwq, "read") : reqs[r] # "answered"
    BY <2>1 DEF Numbers
  <2> QED
    BY <1>3, <1>9, <2>2 DEF WriterStops
<1>10. CASE CrashAndRecover
  BY <1>3, <1>10 DEF CrashAndRecover
<1>11. CASE \/ WriterResumes \/ UploaderTakes \/ UploaderSkips \/ UploadDone
            \/ UploaderResumes \/ UploaderStops \/ ForwarderResumes \/ ForwarderStops
            \/ QueueOrphan \/ StartTasks \/ AlterProceeds \/ DeletePw \/ DeleteUp
            \/ SweeperKicks \/ UNCHANGED vars \/ OnDurable \/ OnUpdateConfig
            \/ Forwards \/ AlterBegins \/ DeleteBegins \/ DeleteAborted
  <2>1. reqs' = reqs
    BY <1>11 DEF WriterResumes, UploaderTakes, UploaderSkips, UploadDone, UploaderResumes,
         UploaderStops, ForwarderResumes, ForwarderStops, QueueOrphan, StartTasks,
         AlterProceeds, DeletePw, DeleteUp, SweeperKicks, vars, OnDurable, OnUpdateConfig,
         Forwards, AlterBegins, DeleteBegins, DeleteAborted
  <2> QED
    BY <1>4, <2>1
<1> QED
  BY <1>5, <1>6, <1>7, <1>8, <1>9, <1>10, <1>11, StepCases

LEMMA CommitAnswers ==
  ASSUME ShapeInv, RequestInv, CountInv, OnProduce \/ FlushTimer \/ OnShutdown
  PROVE  Keeps \/ active \/ \E r \in Requests : r \notin Done /\ r \in Done'
<1>1. ASSUME NEW rs \in SUBSET Requests, rs # {}, reqs' = Answered(rs),
             \A r \in rs : reqs[r] # "answered"
      PROVE  \E r \in Requests : r \notin Done /\ r \in Done'
  BY <1>1 DEF Done, Answered
<1>2. pending \in SUBSET Requests /\ \A r \in pending : reqs[r] # "answered"
  BY DEF ShapeInv, RequestInv
<1>3. CASE OnProduce
  <2>1. pwq # <<>> /\ IsRequest(Head(pwq))
    BY <1>3 DEF OnProduce, WriterTakes, IsRequest
  <2>2. PICK h \in Requests : h = Head(pwq).n /\ reqs[h] # "answered"
    BY <2>1, RequestHead
  <2>3. CASE UNCHANGED <<wal, active, writer, seg, uq>>
    BY <2>3 DEF Keeps
  <2>4. CASE reqs' = Answered(pending \cup {h})
    <3>1. /\ pending \cup {h} \in SUBSET Requests /\ pending \cup {h} # {}
          /\ \A r \in pending \cup {h} : reqs[r] # "answered"
      BY <1>2, <2>2
    <3> QED
      BY <1>1, <2>4, <3>1
  <2> QED
    BY <1>3, <2>2, <2>3, <2>4 DEF OnProduce, Commit
<1>4. CASE FlushTimer
  BY <1>1, <1>2, <1>4 DEF FlushTimer, Commit
<1>5. CASE OnShutdown
  <2>1. CASE pending # {}
    BY <1>1, <1>2, <1>5, <2>1 DEF OnShutdown, Commit
  <2>2. CASE pending = {} /\ ~active
    BY <1>5, <2>2 DEF OnShutdown, Keeps
  <2> QED
    BY <2>1, <2>2
<1> QED
  BY <1>3, <1>4, <1>5

\* Every step leaves each segment a request of its own.
LEMMA CountStep ==
  ASSUME ShapeInv, StageInv, RequestInv, CountInv, RingInv, [Next]_vars
  PROVE  CountInv'
<1> USE DEF startVars, taskVars, adminVars, chanVars, diskVars, storeVars
<1>0. /\ seg \in Nat \ {0} /\ active \in BOOLEAN
      /\ \A s \in wal : s \in Nat /\ 1 <= s /\ s <= seg
      /\ seg \in wal <=> active
  BY DEF ShapeInv, CountInv
<1>1. ShapeInv'
  BY ShapeStep
<1>2. PICK c : c = Cardinality(Done)
  OBVIOUS
<1>3. PICK d : d = Cardinality(Done')
  OBVIOUS
<1>4. c \in Nat /\ d \in Nat /\ c <= d /\ IsFiniteSet(Done) /\ IsFiniteSet(Done')
  <2>1. IsFiniteSet(Done) /\ c \in Nat
    BY <1>2, DoneBound
  <2>2. IsFiniteSet(Done')
    <3>1. IsFiniteSet(Requests)
      BY CapsAssumption, FS_Interval DEF Requests
    <3>2. Done' \in SUBSET Requests
      BY DEF Done
    <3> QED
      BY <3>1, <3>2, FS_Subset
  <2>3. d \in Nat
    BY <1>3, <2>2, FS_CardinalityType
  <2>4. c <= d
    BY <1>2, <1>3, <2>2, DoneGrows, FS_Subset
  <2> QED
    BY <2>1, <2>2, <2>3, <2>4
<1>5. (seg - 1) + (IF active THEN 1 ELSE 0) <= c
  BY <1>2 DEF CountInv
<1>6. ASSUME (seg' - 1) + (IF active' THEN 1 ELSE 0) <= d,
             \A s \in wal' : s \in Nat /\ 1 <= s /\ s <= seg',
             seg' \in wal' <=> active'
      PROVE  CountInv'
  BY <1>3, <1>6 DEF CountInv
<1>7. ASSUME UNCHANGED <<seg, active>>, wal' \subseteq wal, seg \in wal => seg \in wal'
      PROVE  CountInv'
  <2>1. (seg' - 1) + (IF active' THEN 1 ELSE 0) <= d
    BY <1>0, <1>4, <1>5, <1>7
  <2>2. \A s \in wal' : s \in Nat /\ 1 <= s /\ s <= seg'
    BY <1>0, <1>7
  <2>3. seg' \in wal' <=> active'
    BY <1>0, <1>7
  <2> QED
    BY <1>6, <2>1, <2>2, <2>3
<1>8. CASE OnProduce \/ FlushTimer \/ OnShutdown
  <2>1. CASE Keeps
    BY <1>7, <2>1 DEF Keeps
  <2>2. CASE ~Keeps
    <3>1. Commits \/ Seals
      BY <1>8, <2>2, CommitSteps
    <3>2. active \/ c + 1 <= d
      <4>1. CASE \E r \in Requests : r \notin Done /\ r \in Done'
        <5>1. PICK r \in Requests : r \notin Done /\ r \in Done'
          BY <4>1
        <5>2. Cardinality(Done \cup {r}) = c + 1
          BY <1>2, <1>4, <5>1, FS_AddElement
        <5>3. Done \cup {r} \in SUBSET Done'
          BY <5>1, DoneGrows
        <5>4. Cardinality(Done \cup {r}) <= Cardinality(Done')
          BY <1>4, <5>3, FS_Subset
        <5> QED
          BY <1>3, <5>2, <5>4
      <4> QED
        BY <1>8, <2>2, <4>1, CommitAnswers
    <3>3. seg <= d
      BY <1>0, <1>4, <1>5, <3>2
    <3>4. CASE Commits
      <4>1. seg' = seg /\ active' = TRUE /\ wal' = wal \cup {seg}
        BY <3>4 DEF Commits
      <4>2. (seg' - 1) + (IF active' THEN 1 ELSE 0) <= d
        BY <1>0, <1>4, <3>3, <4>1
      <4>3. \A s \in wal' : s \in Nat /\ 1 <= s /\ s <= seg'
        BY <1>0, <4>1
      <4> QED
        BY <1>6, <4>1, <4>2, <4>3
    <3>5. CASE Seals
      <4>1. seg' = seg + 1 /\ active' = FALSE /\ wal' = wal \cup {seg}
        BY <3>5 DEF Seals
      <4>2. (seg' - 1) + (IF active' THEN 1 ELSE 0) <= d
        BY <1>0, <1>4, <3>3, <4>1
      <4>3. \A s \in wal' : s \in Nat /\ 1 <= s /\ s <= seg /\ s <= seg' /\ s # seg'
        BY <1>0, <4>1
      <4> QED
        BY <1>6, <4>1, <4>2, <4>3
    <3> QED
      BY <3>1, <3>4, <3>5
  <2> QED
    BY <2>1, <2>2
<1>9. CASE OnDurable
  <2>1. /\ pwq # <<>> /\ Head(pwq).t = "durable" /\ wal' = wal \ {Head(pwq).n}
        /\ UNCHANGED <<seg, active>>
    BY <1>9 DEF OnDurable, WriterTakes
  <2>2. Head(pwq).n \in uploaded
    <3>1. Head(pwq).n \in Numbers(pwq, "durable")
      BY <2>1, HeadsNumber
    <3> QED
      BY <3>1 DEF Reported, RingInv, RingPlaces
  <2>3. Head(pwq).n # seg
    BY <2>2, SegIsLast
  <2> QED
    BY <1>7, <2>1, <2>3
<1>10. CASE CrashAndRecover
  <2> DEFINE files == FilesToRecover
  <2>1. /\ wal' = files /\ active' = (files # {})
        /\ seg' = IF files = {} THEN seg ELSE CHOOSE s \in files : \A f \in files : f <= s
    BY <1>10 DEF CrashAndRecover
  <2>0. files \in SUBSET wal
    BY DEF FilesToRecover
  <2>2. CASE files = {}
    <3>1. seg' = seg /\ active' = FALSE /\ wal' = {}
      BY <2>1, <2>2
    <3>2. (seg' - 1) + (IF active' THEN 1 ELSE 0) <= d
      BY <1>0, <1>4, <1>5, <3>1
    <3> QED
      BY <1>6, <3>1, <3>2
  <2>3. CASE files # {}
    <3>1. active' = TRUE /\ seg' \in files /\ (\A f \in files : f <= seg') /\ seg' \in Nat
          /\ seg' <= seg
      BY <2>0, <2>1, <2>3, NewestFile
    <3>2. seg' = seg => active
      BY <1>0, <2>0, <3>1
    <3>3. (seg' - 1) + (IF active' THEN 1 ELSE 0) <= d
      <4>1. seg - 1 <= c /\ (active => seg <= c)
        BY <1>0, <1>4, <1>5
      <4>2. seg' <= d
        BY <1>0, <1>4, <3>1, <3>2, <4>1
      <4> QED
        BY <3>1, <4>2
    <3>4. \A s \in wal' : s \in Nat /\ 1 <= s /\ s <= seg'
      BY <1>0, <2>0, <2>1, <3>1
    <3> QED
      <4>1. seg' \in wal' <=> active'
        BY <2>1, <3>1
      <4> HIDE DEF files
      <4> QED
        BY <1>6, <3>3, <3>4, <4>1
  <2> QED
    BY <2>2, <2>3
<1>11. ASSUME UNCHANGED <<seg, active, wal>> PROVE CountInv'
  BY <1>7, <1>11
<1>12. ASSUME NEW r \in Requests, NEW k \in {"produce", "read"}, Submit(r, k)
       PROVE  CountInv'
  BY <1>11, <1>12 DEF Submit
<1>13. ASSUME NEW r \in Requests, SubmitUnknown(r) PROVE CountInv'
  BY <1>11, <1>13 DEF SubmitUnknown
<1>14. CASE \/ WriterResumes \/ UploaderTakes \/ UploaderSkips \/ UploadDone
            \/ UploaderResumes \/ UploaderStops \/ ForwarderResumes \/ ForwarderStops
            \/ QueueOrphan \/ StartTasks \/ AlterProceeds \/ DeletePw \/ DeleteUp
            \/ SweeperKicks \/ UNCHANGED vars \/ OnRead \/ OnUpdateConfig \/ WriterStops
            \/ Forwards \/ AlterBegins \/ DeleteBegins \/ DeleteAborted
  <2>1. UNCHANGED <<seg, active, wal>>
    BY <1>14 DEF WriterResumes, UploaderTakes, UploaderSkips, UploadDone, UploaderResumes,
         UploaderStops, ForwarderResumes, ForwarderStops, QueueOrphan, StartTasks,
         AlterProceeds, DeletePw, DeleteUp, SweeperKicks, vars, OnRead, OnUpdateConfig,
         WriterStops, Forwards, AlterBegins, DeleteBegins, DeleteAborted
  <2> QED
    BY <1>11, <2>1
<1> QED
  BY <1>8, <1>9, <1>10, <1>12, <1>13, <1>14, StepCases

-----------------------------------------------------------------------------
(* Who waits *)

LEMMA WaitsMeans == \A q, cap, m : Waits(q, cap, m) <=> m \in Waiting(q, cap)
  BY DEF Waits, Waiting

LEMMA WaitingAppended ==
  ASSUME NEW S, NEW q \in Seq(S), NEW m \in S, NEW cap \in Nat, OneOfEach(q, cap)
  PROVE  /\ Waiting(Append(q, m), cap) \subseteq Waiting(q, cap) \cup {m}
         /\ (\A x \in Waiting(q, cap) : x.t # m.t) => OneOfEach(Append(q, m), cap)
         /\ Len(q) < cap => /\ Waiting(Append(q, m), cap) = {}
                            /\ OneOfEach(Append(q, m), cap)
<1> DEFINE a == Append(q, m)
           e == Len(q) + 1
<1>1. /\ a[e] = m /\ \A i \in DOMAIN q : a[i] = q[i]
      /\ \A i \in DOMAIN a : i \in DOMAIN q \/ i = e
  BY Appended
<1>2. Len(q) < cap => \A i \in DOMAIN a : ~(i > cap)
  BY Appended
<1> HIDE DEF a, e
<1>3. Waiting(a, cap) \subseteq Waiting(q, cap) \cup {m}
  BY <1>1 DEF Waiting
<1>4. ASSUME \A x \in Waiting(q, cap) : x.t # m.t PROVE OneOfEach(a, cap)
  <2>1. \A i \in DOMAIN q : i > cap => q[i].t # m.t
    BY <1>4 DEF Waiting
  <2> QED
    BY <1>1, <2>1 DEF OneOfEach
<1>5. ASSUME Len(q) < cap PROVE Waiting(a, cap) = {} /\ OneOfEach(a, cap)
  BY <1>2, <1>5 DEF Waiting, OneOfEach
<1> QED
  BY <1>3, <1>4, <1>5 DEF a

LEMMA WaitingTaken ==
  ASSUME NEW S, NEW q \in Seq(S), q # <<>>, NEW cap \in Nat, OneOfEach(q, cap)
  PROVE  Waiting(Tail(q), cap) \subseteq Waiting(q, cap) /\ OneOfEach(Tail(q), cap)
<1> DEFINE a == Tail(q)
<1>1. /\ \A i \in DOMAIN a : i + 1 \in DOMAIN q /\ a[i] = q[i + 1]
      /\ \A i \in DOMAIN a : i > cap => i + 1 > cap
      /\ \A i, j \in DOMAIN a : i + 1 = j + 1 => i = j
  BY Taken
<1> HIDE DEF a
<1>2. Waiting(a, cap) \subseteq Waiting(q, cap)
  BY <1>1 DEF Waiting
<1>3. ASSUME NEW i \in DOMAIN a, NEW j \in DOMAIN a, i > cap, j > cap, a[i].t = a[j].t
      PROVE  i = j
  <2>1. i + 1 = j + 1
    BY <1>1, <1>3 DEF OneOfEach
  <2> QED
    BY <1>1, <2>1
<1> QED
  BY <1>2, <1>3 DEF OneOfEach, a

LEMMA WaitingRemoved ==
  ASSUME NEW S, NEW q \in Seq(S), NEW cap \in Nat, NEW k \in DOMAIN q, k > cap, OneOfEach(q, cap)
  PROVE  /\ Waiting(RemoveAt(q, k), cap) \subseteq Waiting(q, cap)
         /\ OneOfEach(RemoveAt(q, k), cap)
         /\ q[k] \notin Waiting(RemoveAt(q, k), cap)
<1> DEFINE a == RemoveAt(q, k)
           up(i) == IF i < k THEN i ELSE i + 1
<1>1. \A i \in DOMAIN a : up(i) \in DOMAIN q /\ a[i] = q[up(i)]
  BY Removed
<1>2. \A i, j \in DOMAIN a : /\ up(i) = up(j) => i = j
                             /\ i > cap => up(i) > cap
                             /\ up(i) # k
  <2>1. k \in Int /\ \A i \in DOMAIN a : i \in Int
    BY Removed
  <2>2. \A i, j \in Int : /\ up(i) = up(j) => i = j
                          /\ i > cap => up(i) > cap
                          /\ up(i) # k
    BY <2>1
  <2> HIDE DEF a, up
  <2> QED
    BY <2>1, <2>2
<1> HIDE DEF a, up
<1>3. Waiting(a, cap) \subseteq Waiting(q, cap)
  BY <1>1, <1>2 DEF Waiting
<1>4. ASSUME NEW i \in DOMAIN a, NEW j \in DOMAIN a, i > cap, j > cap, a[i].t = a[j].t
      PROVE  i = j
  <2>1. up(i) = up(j)
    BY <1>1, <1>2, <1>4 DEF OneOfEach
  <2> QED
    BY <1>2, <2>1
<1>5. ASSUME NEW i \in DOMAIN a, i > cap, a[i] = q[k] PROVE FALSE
  <2>1. up(i) = k
    BY <1>1, <1>2, <1>5 DEF OneOfEach
  <2> QED
    BY <1>2, <2>1
<1> QED
  BY <1>3, <1>4, <1>5 DEF OneOfEach, Waiting, a

LEMMA WaitingNone == \A cap : Waiting(<<>>, cap) = {} /\ OneOfEach(<<>>, cap)
  BY EmptyChannel DEF Waiting, OneOfEach

\* An upload that waits is of a segment.
LEMMA WaitingUpload ==
  ASSUME ShapeInv, CountInv, RingInv, NEW m \in Waiting(uq, UploadCap), m.t = "upload"
  PROVE  m.n \in Segments /\ m = Msg("upload", m.n)
<1>1. uq \in Seq(ToUp)
  BY DEF ShapeInv
<1>2. PICK i \in DOMAIN uq : m = uq[i]
  BY DEF Waiting
<1>3. m \in ToUp
  BY <1>1, <1>2, LenProperties
<1>4. m.n \in Numbers(uq, "upload")
  BY <1>2 DEF Numbers
<1>5. m.n \in wal
  BY <1>4 DEF RingInv, RingPlaces, ToUpload
<1>6. m = Msg("upload", m.n)
  BY <1>3 DEF ToUp, Msg
<1> QED
  BY <1>5, <1>6, SegBound

\* Whoever sends to the Uploader is the only one of its kind.
LEMMA WaitingSend ==
  ASSUME ShapeInv, UploadWaits, NEW m \in ToUp, ToUploader(m),
         \A x \in Waiting(uq, UploadCap) : x.t # m.t
  PROVE  Waiting(uq', UploadCap) \subseteq Waiting(uq, UploadCap) \cup {m}
         /\ OneOfEach(uq', UploadCap)
<1>1. uq \in Seq(ToUp) /\ UploadCap \in Nat /\ OneOfEach(uq, UploadCap)
  BY CapsAssumption DEF ShapeInv, UploadWaits
<1>2. Waiting(Append(uq, m), UploadCap) \subseteq Waiting(uq, UploadCap) \cup {m}
      /\ OneOfEach(Append(uq, m), UploadCap)
  BY <1>1, WaitingAppended
<1> QED
  BY <1>1, <1>2 DEF ToUploader

\* Every step keeps the rule of who waits for the Uploader.
LEMMA UploadWaitsStep ==
  ASSUME ShapeInv, StageInv, CountInv, RingInv, UploadWaits, [Next]_vars
  PROVE  UploadWaits'
<1> USE DEF startVars, taskVars, adminVars, chanVars, diskVars, storeVars
<1>0. /\ uq \in Seq(ToUp) /\ UploadCap \in Nat /\ OneOfEach(uq, UploadCap)
      /\ \A m \in Waiting(uq, UploadCap) :
           \/ m.t = "upload" /\ startup = "queueing"
           \/ m = Msg("upload", seg - 1) /\ writer \in {"sealing", "stopping"}
           \/ m = Msg("config", 0) /\ alter = "up"
           \/ m = Msg("shutdown", 0) /\ delete = "up"
  BY CapsAssumption DEF ShapeInv, UploadWaits
<1>1. /\ \A n : Msg("upload", n).t = "upload" /\ Msg("upload", n).n = n
      /\ Msg("config", 0).t = "config" /\ Msg("shutdown", 0).t = "shutdown"
  BY DEF Msg
\* the waiting messages of a step that changes neither who waits nor where
<1>2. ASSUME Waiting(uq', UploadCap) \subseteq Waiting(uq, UploadCap), OneOfEach(uq', UploadCap),
             UNCHANGED <<startup, seg, writer, alter, delete>>
      PROVE  UploadWaits'
  BY <1>0, <1>2 DEF UploadWaits
<1>3. CASE OnProduce \/ FlushTimer \/ OnShutdown
  <2>1. /\ writer = "idle" /\ startup = "done" /\ UNCHANGED <<startup, alter, delete>>
        /\ Keeps \/ Commits \/ Seals
    BY <1>3, CommitSteps
  <2>2. \A m \in Waiting(uq, UploadCap) :
          \/ m = Msg("config", 0) /\ alter = "up"
          \/ m = Msg("shutdown", 0) /\ delete = "up"
    BY <1>0, <2>1
  <2>3. CASE Keeps \/ Commits
    <3>1. uq' = uq
      BY <2>3 DEF Keeps, Commits
    <3> QED
      BY <1>0, <2>1, <2>2, <3>1 DEF UploadWaits
  <2>4. CASE Seals
    <3>1. /\ ToUploader(Msg("upload", seg)) /\ writer' \in {"sealing", "stopping"}
          /\ seg' = seg + 1
      BY <2>4 DEF Seals
    <3>2. Msg("upload", seg) \in ToUp /\ seg' - 1 = seg
      BY <3>1, SegBound, MessageTypes DEF ShapeInv
    <3>3. \A x \in Waiting(uq, UploadCap) : x.t # Msg("upload", seg).t
      BY <1>1, <2>2
    <3>4. Waiting(uq', UploadCap) \subseteq Waiting(uq, UploadCap) \cup {Msg("upload", seg)}
          /\ OneOfEach(uq', UploadCap)
      BY <3>1, <3>2, <3>3, WaitingSend
    <3>5. Msg("upload", seg' - 1) = Msg("upload", seg)
      BY <3>2
    <3> QED
      BY <2>1, <2>2, <3>1, <3>4, <3>5 DEF UploadWaits
  <2> QED
    BY <2>1, <2>3, <2>4
<1>4. CASE WriterResumes \/ WriterStops
  <2>1. /\ Msg("upload", seg - 1) \notin Waiting(uq, UploadCap)
        /\ UNCHANGED <<uq, startup, alter, delete>>
    BY <1>4, WaitsMeans DEF WriterResumes, WriterStops
  <2> QED
    BY <1>0, <2>1 DEF UploadWaits
<1>5. CASE UploaderTakes \/ UploaderSkips
  <2>1. /\ uq # <<>> /\ uq' = Tail(uq)
        /\ UNCHANGED <<startup, seg, writer, alter, delete>>
    BY <1>5 DEF UploaderTakes, UploaderSkips
  <2>2. Waiting(uq', UploadCap) \subseteq Waiting(uq, UploadCap) /\ OneOfEach(uq', UploadCap)
    BY <1>0, <2>1, WaitingTaken
  <2> QED
    BY <1>2, <2>1, <2>2
<1>6. CASE UploaderStops \/ CrashAndRecover
  <2>1. uq' = <<>>
    BY <1>6 DEF UploaderStops, CrashAndRecover
  <2> QED
    BY <2>1, WaitingNone DEF UploadWaits
<1>7. CASE SweeperKicks
  <2>1. /\ Len(uq) < UploadCap /\ uq' = Append(uq, Msg("kick", 0))
        /\ UNCHANGED <<startup, seg, writer, alter, delete>>
    BY <1>7 DEF SweeperKicks
  <2>2. Msg("kick", 0) \in ToUp
    BY MessageTypes
  <2>3. Waiting(uq', UploadCap) = {} /\ OneOfEach(uq', UploadCap)
    BY <1>0, <2>1, <2>2, WaitingAppended
  <2> QED
    BY <1>2, <2>1, <2>3
<1>8. CASE QueueOrphan
  <2>1. /\ startup = "queueing" /\ orphans # <<>> /\ ToUploader(Msg("upload", Head(orphans)))
        /\ \A b \in Segments : Msg("upload", b) \notin Waiting(uq, UploadCap)
        /\ UNCHANGED <<startup, seg, writer, alter, delete>>
    BY <1>8, WaitsMeans DEF QueueOrphan
  <2>2. PICK h \in Segments : h = Head(orphans)
    BY <2>1, Taken DEF ShapeInv
  <2>3. Msg("upload", h) \in ToUp
    BY MessageTypes
  <2>4. \A x \in Waiting(uq, UploadCap) : x.t # "upload"
    BY <2>1, WaitingUpload
  <2>5. Waiting(uq', UploadCap) \subseteq Waiting(uq, UploadCap) \cup {Msg("upload", h)}
        /\ OneOfEach(uq', UploadCap)
    BY <1>1, <2>1, <2>2, <2>3, <2>4, WaitingSend
  <2> QED
    BY <1>0, <1>1, <2>1, <2>5 DEF UploadWaits
<1>9. CASE StartTasks
  <2>1. /\ startup = "queueing" /\ UNCHANGED <<uq, alter, delete>>
        /\ \A b \in Segments : Msg("upload", b) \notin Waiting(uq, UploadCap)
    BY <1>9, WaitsMeans DEF StartTasks
  <2>2. \A x \in Waiting(uq, UploadCap) : x.t # "upload"
    BY <2>1, WaitingUpload
  <2> QED
    BY <1>0, <1>1, <2>1, <2>2 DEF UploadWaits
<1>10. CASE AlterProceeds
  <2>0. UNCHANGED <<startup, seg, writer, delete>>
    BY <1>10 DEF AlterProceeds
  <2>1. CASE alter = "pw" /\ ToUploader(Msg("config", 0)) /\ alter' = "up"
    <3>1. \A x \in Waiting(uq, UploadCap) : x.t # "config"
      BY <1>0, <1>1, <2>1
    <3>2. Waiting(uq', UploadCap) \subseteq Waiting(uq, UploadCap) \cup {Msg("config", 0)}
          /\ OneOfEach(uq', UploadCap)
      BY <1>1, <2>1, <3>1, MessageTypes, WaitingSend
    <3> QED
      BY <1>0, <2>0, <2>1, <3>2 DEF UploadWaits
  <2>2. CASE alter = "up" /\ ~Waits(uq, UploadCap, Msg("config", 0)) /\ alter' = "done" /\ uq' = uq
    <3>1. Msg("config", 0) \notin Waiting(uq, UploadCap)
      BY <2>2, WaitsMeans
    <3> QED
      BY <1>0, <2>0, <2>2, <3>1 DEF UploadWaits
  <2> QED
    BY <1>10, <2>1, <2>2 DEF AlterProceeds
<1>11. CASE DeletePw
  <2>1. /\ delete = "pw" /\ delete' = "up" /\ ToUploader(Msg("shutdown", 0))
        /\ UNCHANGED <<startup, seg, writer, alter>>
    BY <1>11 DEF DeletePw
  <2>2. \A x \in Waiting(uq, UploadCap) : x.t # "shutdown"
    BY <1>0, <1>1, <2>1
  <2>3. Waiting(uq', UploadCap) \subseteq Waiting(uq, UploadCap) \cup {Msg("shutdown", 0)}
        /\ OneOfEach(uq', UploadCap)
    BY <1>1, <2>1, <2>2, MessageTypes, WaitingSend
  <2> QED
    BY <1>0, <2>1, <2>3 DEF UploadWaits
<1>12. CASE DeleteUp
  <2>1. /\ Msg("shutdown", 0) \notin Waiting(uq, UploadCap)
        /\ UNCHANGED <<uq, startup, seg, writer, alter>>
    <3>1. uploader = "gone" => Waiting(uq, UploadCap) = {}
      BY WaitingNone DEF StageInv
    <3> QED
      BY <1>12, <3>1, WaitsMeans DEF DeleteUp
  <2> QED
    BY <1>0, <2>1 DEF UploadWaits
<1>13. CASE DeleteAborted
  <2>1. UNCHANGED <<startup, seg, writer, alter>>
    BY <1>13 DEF DeleteAborted
  <2>2. /\ Waiting(uq', UploadCap) \subseteq Waiting(uq, UploadCap)
        /\ OneOfEach(uq', UploadCap)
        /\ Msg("shutdown", 0) \notin Waiting(uq', UploadCap)
    <3>1. CASE Waits(uq, UploadCap, Msg("shutdown", 0))
      <4>1. PICK k \in DOMAIN uq : /\ k > UploadCap /\ uq[k] = Msg("shutdown", 0)
                                   /\ uq' = RemoveAt(uq, k)
        BY <1>0, <1>13, <3>1, TakenBackIsRemoved DEF DeleteAborted
      <4> QED
        BY <1>0, <4>1, WaitingRemoved
    <3>2. CASE ~Waits(uq, UploadCap, Msg("shutdown", 0))
      BY <1>0, <1>13, <3>2, WaitsMeans DEF DeleteAborted
    <3> QED
      BY <3>1, <3>2
  <2> QED
    BY <1>0, <2>1, <2>2 DEF UploadWaits
<1>14. ASSUME NEW r \in Requests, NEW k \in {"produce", "read"}, Submit(r, k)
       PROVE  UploadWaits'
  <2>1. UNCHANGED <<uq, startup, seg, writer, alter, delete>>
    BY <1>14 DEF Submit
  <2> QED
    BY <1>0, <1>2, <2>1
<1>15. ASSUME NEW r \in Requests, SubmitUnknown(r) PROVE UploadWaits'
  <2>1. UNCHANGED <<uq, startup, seg, writer, alter, delete>>
    BY <1>15 DEF SubmitUnknown
  <2> QED
    BY <1>0, <1>2, <2>1
<1>16. CASE OnRead \/ OnDurable \/ OnUpdateConfig \/ UploadDone \/ UploaderResumes
            \/ Forwards \/ ForwarderResumes \/ ForwarderStops \/ UNCHANGED vars
  <2>1. UNCHANGED <<uq, startup, seg, writer, alter, delete>>
    BY <1>16 DEF OnRead, OnDurable, OnUpdateConfig, UploadDone, UploaderResumes, Forwards,
                 ForwarderResumes, ForwarderStops, vars
  <2> QED
    BY <1>0, <1>2, <2>1
<1>17. CASE AlterBegins
  <2>1. alter = "none" /\ UNCHANGED <<uq, startup, seg, writer, delete>>
    BY <1>17 DEF AlterBegins
  <2> QED
    BY <1>0, <2>1 DEF UploadWaits
<1>18. CASE DeleteBegins
  <2>1. delete = "none" /\ UNCHANGED <<uq, startup, seg, writer, alter>>
    BY <1>18 DEF DeleteBegins
  <2> QED
    BY <1>0, <2>1 DEF UploadWaits
<1> QED
  BY <1>3, <1>4, <1>5, <1>6, <1>7, <1>8, <1>9, <1>10, <1>11, <1>12, <1>13, <1>14, <1>15,
     <1>16, <1>17, <1>18, StepCases

\* Every step keeps the Uploader the only one that waits for the forwarder.
LEMMA DurableWaitsStep ==
  ASSUME ShapeInv, DurableWaits, [Next]_vars
  PROVE  DurableWaits'
<1> USE DEF startVars, taskVars, adminVars, chanVars, diskVars, storeVars
<1>0. DurableCap \in Nat /\ dq \in Seq(ToFw)
  BY CapsAssumption DEF ShapeInv
<1>len. PICK n \in Nat : n = Len(dq) /\ DOMAIN dq = 1 .. n
  BY <1>0, LenProperties
<1>bound. /\ n <= DurableCap + 1
          /\ n = DurableCap + 1 => uploader = "reporting" /\ dq[n] = Msg("durable", batch)
  BY <1>len DEF DurableWaits
<1>1. CASE UploadDone
  <2>1. uploader = "uploading" /\ uploader' = "reporting" /\ batch' = batch
        /\ dq' = Append(dq, Msg("durable", batch))
    BY <1>1 DEF UploadDone
  <2>2. Msg("durable", batch) \in ToFw
    BY MessageTypes DEF ShapeInv
  <2>3. Len(dq') = n + 1 /\ dq'[n + 1] = Msg("durable", batch)
    BY <1>0, <1>len, <2>1, <2>2, Appended
  <2>4. n + 1 <= DurableCap + 1
    BY <1>0, <1>bound, <2>1
  <2> QED
    BY <2>1, <2>3, <2>4 DEF DurableWaits
<1>2. ASSUME NEW k \in Nat, Len(dq') = k, k <= DurableCap PROVE DurableWaits'
  <2>1. k <= DurableCap + 1 /\ k # DurableCap + 1
    BY <1>0, <1>2
  <2> QED
    BY <1>2, <2>1 DEF DurableWaits
<1>3. CASE UploaderResumes
  <2>1. dq' = dq /\ ~Waits(dq, DurableCap, Msg("durable", batch))
    BY <1>3 DEF UploaderResumes
  <2>2. n # DurableCap + 1
    <3>1. SUFFICES ASSUME n = DurableCap + 1 PROVE FALSE
      OBVIOUS
    <3>2. n \in DOMAIN dq /\ n > DurableCap /\ dq[n] = Msg("durable", batch)
      BY <1>0, <1>len, <1>bound, <3>1
    <3> QED
      BY <2>1, <3>2 DEF Waits
  <2>3. n <= DurableCap
    BY <1>0, <1>bound, <2>2
  <2> QED
    BY <1>2, <1>len, <2>1, <2>3
<1>4. CASE UploaderTakes \/ UploaderStops
  <2>1. dq' = dq /\ uploader = "idle"
    BY <1>4 DEF UploaderTakes, UploaderStops
  <2>2. n <= DurableCap
    BY <1>0, <1>bound, <2>1
  <2> QED
    BY <1>2, <1>len, <2>1, <2>2
<1>5. CASE Forwards
  <2>1. dq # <<>> /\ dq' = Tail(dq)
    BY <1>5 DEF Forwards
  <2>2. Len(dq') = n - 1 /\ n # 0
    BY <1>0, <1>len, <2>1, Taken
  <2>3. n - 1 \in Nat /\ n - 1 <= DurableCap
    BY <1>0, <1>bound, <2>2
  <2> QED
    BY <1>2, <2>2, <2>3
<1>6. CASE CrashAndRecover
  <2>1. Len(dq') = 0
    BY <1>6, EmptyChannel DEF CrashAndRecover
  <2>2. 0 \in Nat /\ 0 <= DurableCap
    BY <1>0
  <2> QED
    BY <1>2, <2>1, <2>2
<1>7. ASSUME UNCHANGED <<dq, uploader, batch>> PROVE DurableWaits'
  BY <1>7 DEF DurableWaits
<1>8. ASSUME NEW r \in Requests, NEW k \in {"produce", "read"}, Submit(r, k)
      PROVE  DurableWaits'
  BY <1>7, <1>8 DEF Submit
<1>9. ASSUME NEW r \in Requests, SubmitUnknown(r) PROVE DurableWaits'
  BY <1>7, <1>9 DEF SubmitUnknown
<1>10. CASE \/ OnProduce \/ FlushTimer \/ OnShutdown \/ WriterResumes \/ OnRead \/ OnDurable
            \/ OnUpdateConfig \/ WriterStops \/ UploaderSkips \/ ForwarderResumes
            \/ ForwarderStops \/ QueueOrphan \/ StartTasks \/ AlterProceeds \/ DeletePw
            \/ DeleteUp \/ SweeperKicks \/ AlterBegins \/ DeleteBegins \/ DeleteAborted
            \/ UNCHANGED vars
  <2>1. UNCHANGED <<dq, uploader, batch>>
    BY <1>10 DEF OnProduce, FlushTimer, OnShutdown, WriterResumes, OnRead, OnDurable,
         OnUpdateConfig, WriterStops, UploaderSkips, ForwarderResumes, ForwarderStops,
         QueueOrphan, StartTasks, AlterProceeds, DeletePw, DeleteUp, SweeperKicks,
         AlterBegins, DeleteBegins, DeleteAborted, vars
  <2> QED
    BY <1>7, <2>1
<1> QED
  BY <1>1, <1>3, <1>4, <1>5, <1>6, <1>8, <1>9, <1>10, StepCases

-----------------------------------------------------------------------------
(* The end *)

LEMMA DrainedAppended ==
  ASSUME NEW S, NEW q \in Seq(S), NEW m \in S, Drained(q),
         m.t # "upload" \/ Numbers(q, "shutdown") = {}
  PROVE  Drained(Append(q, m))
<1> DEFINE a == Append(q, m)
           e == Len(q) + 1
<1>1. /\ a[e] = m /\ \A i \in DOMAIN q : a[i] = q[i] /\ ~(e < i)
      /\ \A i \in DOMAIN a : i \in DOMAIN q \/ i = e
      /\ ~(e < e)
  BY Appended
<1> HIDE DEF a, e
<1>2. ASSUME NEW i \in DOMAIN a, NEW j \in DOMAIN a, i < j, a[i].t = "shutdown",
             a[j].t = "upload"
      PROVE  FALSE
  <2>1. i \in DOMAIN q /\ q[i].t = "shutdown"
    BY <1>1, <1>2
  <2>2. Numbers(q, "shutdown") # {}
    BY <2>1 DEF Numbers
  <2>3. j \in DOMAIN q
    BY <1>1, <1>2, <2>2
  <2> QED
    BY <1>1, <1>2, <2>1, <2>3 DEF Drained
<1> QED
  BY <1>2 DEF Drained, a

LEMMA DrainedTaken ==
  ASSUME NEW S, NEW q \in Seq(S), q # <<>>, Drained(q)
  PROVE  Drained(Tail(q)) /\ (Head(q).t = "shutdown" => Numbers(q, "upload") = {})
<1> DEFINE a == Tail(q)
<1>1. /\ Head(q) = q[1] /\ 1 \in DOMAIN q
      /\ \A i \in DOMAIN a : i + 1 \in DOMAIN q /\ a[i] = q[i + 1]
      /\ \A i \in DOMAIN q : i = 1 \/ 1 < i
      /\ \A i, j \in DOMAIN a : i < j => i + 1 < j + 1
  BY Taken
<1> HIDE DEF a
<1>2. Drained(a)
  BY <1>1 DEF Drained
<1>3. ASSUME Head(q).t = "shutdown" PROVE \A i \in DOMAIN q : q[i].t # "upload"
  BY <1>1, <1>3 DEF Drained
<1> QED
  BY <1>2, <1>3 DEF Numbers, a

LEMMA DrainedRemoved ==
  ASSUME NEW S, NEW q \in Seq(S), NEW k \in DOMAIN q, Drained(q)
  PROVE  /\ Drained(RemoveAt(q, k))
         /\ \A type : Numbers(RemoveAt(q, k), type) \subseteq Numbers(q, type)
<1> DEFINE a == RemoveAt(q, k)
           up(i) == IF i < k THEN i ELSE i + 1
<1>1. \A i \in DOMAIN a : up(i) \in DOMAIN q /\ a[i] = q[up(i)]
  BY Removed
<1>2. \A i, j \in DOMAIN a : i < j => up(i) < up(j)
  <2>1. k \in Int /\ \A i \in DOMAIN a : i \in Int
    BY Removed
  <2>2. \A i, j \in Int : i < j => up(i) < up(j)
    BY <2>1
  <2> HIDE DEF a, up
  <2> QED
    BY <2>1, <2>2
<1> HIDE DEF a, up
<1>3. ASSUME NEW i \in DOMAIN a, NEW j \in DOMAIN a, i < j, a[i].t = "shutdown"
      PROVE  a[j].t # "upload"
  BY <1>1, <1>2, <1>3 DEF Drained
<1>4. \A type : Numbers(a, type) \subseteq Numbers(q, type)
  BY <1>1 DEF Numbers
<1> QED
  BY <1>3, <1>4 DEF Drained, a

LEMMA DrainedNone == Drained(<<>>)
  BY EmptyChannel DEF Drained

\* When the writer is gone and nothing is queued, all is uploaded.
LEMMA NothingLeft ==
  ASSUME StageInv, RingInv, ShapeInv, writer = "gone", uploader = "idle",
         Numbers(uq, "upload") = {}
  PROVE  wal = uploaded
<1>1. ~active /\ delete # "none" /\ orphans = <<>>
  BY DEF StageInv, ShapeInv
<1>2. Active = {} /\ Working = {} /\ ToSet(orphans) = {}
  BY <1>1, EmptyChannel DEF Active, Working
<1>3. ToUpload = {}
  BY <1>2 DEF ToUpload
<1> QED
  BY <1>2, <1>3 DEF RingInv, RingPlaces

\* Every step keeps a DeleteTopic in time from leaving anything behind.
LEMMA DrainStep ==
  ASSUME ShapeInv, StageInv, CountInv, RingInv, DrainInv, [Next]_vars
  PROVE  DrainInv'
<1> USE DEF startVars, taskVars, adminVars, chanVars, diskVars, storeVars
<1>0. uq \in Seq(ToUp)
  BY DEF ShapeInv
<1>1. ~late => /\ Numbers(uq, "shutdown") # {} => writer = "gone"
               /\ Drained(uq)
               /\ uploader = "gone" => writer = "gone" /\ wal = uploaded
               /\ delete = "done" => uploader = "gone"
  BY DEF DrainInv
\* a step that changes neither the disk nor who has ended
<1>2. ASSUME ~late' => ~late /\ Drained(uq') /\ Numbers(uq', "shutdown") \subseteq Numbers(uq, "shutdown"),
             writer = "gone" => writer' = "gone",
             uploader' = "gone" <=> uploader = "gone",
             delete' = "done" => delete = "done", UNCHANGED <<wal, uploaded>>
      PROVE  DrainInv'
  BY <1>1, <1>2 DEF DrainInv
<1>3. CASE OnProduce \/ FlushTimer \/ OnShutdown
  <2>1. /\ writer = "idle" /\ UNCHANGED <<late, delete, uploader>>
        /\ Keeps \/ Commits \/ Seals
    BY <1>3, CommitSteps
  <2>2. SUFFICES ASSUME ~late PROVE DrainInv'
    BY <2>1 DEF DrainInv
  <2>3. /\ Numbers(uq, "shutdown") = {} /\ Drained(uq) /\ uploader # "gone"
        /\ delete # "done"
    BY <1>1, <2>1, <2>2
  <2>4. Numbers(uq', "shutdown") = {} /\ Drained(uq')
    <3>1. CASE Keeps \/ Commits
      BY <2>3, <3>1 DEF Keeps, Commits
    <3>2. CASE Seals
      <4>1. PICK m \in ToUp : m = Msg("upload", seg) /\ m.t # "shutdown"
        BY SegBound, MessageTypes DEF Msg
      <4>2. uq' = Append(uq, m)
        BY <2>3, <3>2, <4>1 DEF Seals, ToUploader
      <4>3. Numbers(Append(uq, m), "shutdown") = Numbers(uq, "shutdown")
        BY <1>0, <4>1, NumbersAppended
      <4>4. Drained(Append(uq, m))
        BY <1>0, <2>3, DrainedAppended
      <4> QED
        BY <2>3, <4>2, <4>3, <4>4
    <3> QED
      BY <2>1, <3>1, <3>2
  <2> QED
    BY <2>1, <2>3, <2>4 DEF DrainInv
<1>4. CASE WriterResumes \/ OnRead \/ OnUpdateConfig \/ WriterStops \/ UploadDone
           \/ UploaderResumes \/ Forwards \/ ForwarderResumes \/ ForwarderStops
           \/ StartTasks \/ AlterBegins \/ DeleteBegins \/ UNCHANGED vars
  <2>1. CASE UploadDone
    <3>1. uploader' # "gone" /\ uploader # "gone" /\ UNCHANGED <<uq, late, delete, writer>>
      BY <2>1 DEF UploadDone
    <3> QED
      BY <1>1, <3>1 DEF DrainInv
  <2>2. CASE StartTasks
    <3>1. /\ writer # "gone" /\ UNCHANGED <<uq, late, delete, uploader, wal, uploaded>>
      BY <2>2 DEF StartTasks, StageInv
    <3> QED
      BY <1>1, <1>2, <3>1
  <2>3. CASE DeleteBegins
    <3>1. delete' # "done" /\ UNCHANGED <<uq, late, writer, uploader, wal, uploaded>>
      BY <2>3 DEF DeleteBegins
    <3> QED
      BY <1>1, <1>2, <3>1
  <2>4. CASE WriterResumes \/ OnRead \/ OnUpdateConfig \/ WriterStops \/ UploaderResumes
             \/ Forwards \/ ForwarderResumes \/ ForwarderStops \/ AlterBegins
             \/ UNCHANGED vars
    <3>1. /\ UNCHANGED <<uq, late, delete, wal, uploaded>>
          /\ writer = "gone" => writer' = "gone"
          /\ uploader' = "gone" <=> uploader = "gone"
      BY <2>4 DEF WriterResumes, OnRead, OnUpdateConfig, WriterStops, UploaderResumes,
           Forwards, ForwarderResumes, ForwarderStops, AlterBegins, vars
    <3> QED
      BY <1>1, <1>2, <3>1
  <2> QED
    BY <1>4, <2>1, <2>2, <2>3, <2>4
<1>5. CASE OnDurable
  <2>1. /\ writer = "idle" /\ UNCHANGED <<uq, writer, late, delete, uploader>>
    BY <1>5 DEF OnDurable, WriterTakes
  <2> QED
    BY <1>1, <2>1 DEF DrainInv
<1>6. CASE UploaderTakes \/ UploaderSkips
  <2>1. /\ uq # <<>> /\ uq' = Tail(uq) /\ UNCHANGED <<writer, late, delete, wal, uploaded>>
        /\ uploader # "gone" /\ uploader' # "gone"
    BY <1>6 DEF UploaderTakes, UploaderSkips
  <2>2. ~late => Drained(Tail(uq))
    BY <1>0, <1>1, <2>1, DrainedTaken
  <2>3. Numbers(Tail(uq), "shutdown") \subseteq Numbers(uq, "shutdown")
    BY <2>1, TakesFewer
  <2> QED
    BY <1>2, <2>1, <2>2, <2>3
<1>7. CASE UploaderStops
  <2>1. /\ uploader = "idle" /\ uq' = <<>> /\ UNCHANGED <<writer, late, delete, wal, uploaded>>
        /\ uploader' = "gone"
    BY <1>7 DEF UploaderStops
  <2>2. Drained(uq') /\ Numbers(uq', "shutdown") = {}
    BY <2>1, DrainedNone, EmptyChannel
  <2>3. ASSUME ~late PROVE writer = "gone" /\ wal = uploaded
    <3>1. CASE uq # <<>> /\ Head(uq).t = "shutdown"
      <4>1. Numbers(uq, "upload") = {}
        BY <1>0, <1>1, <2>3, <3>1, DrainedTaken
      <4>2. Numbers(uq, "shutdown") # {}
        BY <3>1, HeadsNumber
      <4>3. writer = "gone"
        BY <1>1, <2>3, <4>2
      <4> QED
        BY <2>1, <4>1, <4>3, NothingLeft
    <3>2. CASE uq = <<>> /\ ~UploaderReachable
      <4>1. writer = "gone" /\ Numbers(uq, "upload") = {}
        BY <3>2, EmptyChannel DEF UploaderReachable
      <4> QED
        BY <2>1, <4>1, NothingLeft
    <3> QED
      BY <1>7, <3>1, <3>2 DEF UploaderStops
  <2> QED
    BY <2>1, <2>2, <2>3 DEF DrainInv
<1>8. CASE QueueOrphan
  <2>1. /\ startup = "queueing" /\ orphans # <<>> /\ ToUploader(Msg("upload", Head(orphans)))
        /\ UNCHANGED <<writer, uploader, late, delete, wal, uploaded>>
    BY <1>8 DEF QueueOrphan
  <2>2. uploader # "gone" /\ Numbers(uq, "shutdown") = {}
    BY <2>1 DEF StageInv
  <2>3. PICK m \in ToUp : m = Msg("upload", Head(orphans)) /\ m.t # "shutdown"
    <3>1. Head(orphans) \in Segments
      BY <2>1, Taken DEF ShapeInv
    <3> QED
      BY <3>1, MessageTypes DEF Msg
  <2>4. uq' = Append(uq, m)
    BY <2>1, <2>2, <2>3 DEF ToUploader
  <2>5. Numbers(Append(uq, m), "shutdown") = Numbers(uq, "shutdown")
    BY <1>0, <2>3, NumbersAppended
  <2>6. ~late => Drained(Append(uq, m))
    BY <1>0, <1>1, <2>2, DrainedAppended
  <2> QED
    BY <1>2, <2>1, <2>4, <2>5, <2>6
<1>9. ASSUME NEW m \in ToUp, m.t \notin {"upload", "shutdown"}, uq' = uq \/ ToUploader(m),
             UNCHANGED <<writer, uploader, late, delete, wal, uploaded>>
      PROVE  DrainInv'
  <2>1. uq' = uq \/ uq' = Append(uq, m)
    BY <1>9 DEF ToUploader
  <2>2. Numbers(Append(uq, m), "shutdown") = Numbers(uq, "shutdown")
    BY <1>0, <1>9, NumbersAppended
  <2>3. ~late => Drained(Append(uq, m))
    BY <1>0, <1>1, <1>9, DrainedAppended
  <2> QED
    BY <1>1, <1>2, <1>9, <2>1, <2>2, <2>3
<1>10. CASE AlterProceeds
  <2>1. Msg("config", 0) \in ToUp /\ Msg("config", 0).t \notin {"upload", "shutdown"}
    BY MessageTypes DEF Msg
  <2> QED
    BY <1>9, <1>10, <2>1 DEF AlterProceeds
<1>11. CASE SweeperKicks
  <2>1. Msg("kick", 0) \in ToUp /\ Msg("kick", 0).t \notin {"upload", "shutdown"}
    BY MessageTypes DEF Msg
  <2> QED
    BY <1>9, <1>11, <2>1 DEF SweeperKicks, ToUploader
<1>12. CASE DeletePw
  <2>1. /\ delete' = "up" /\ ToUploader(Msg("shutdown", 0))
        /\ UNCHANGED <<writer, uploader, wal, uploaded>>
    BY <1>12 DEF DeletePw
  <2>2. SUFFICES ASSUME ~late' PROVE DrainInv'
    BY DEF DrainInv
  <2>3. writer = "gone" /\ ~late
    BY <1>12, <2>2 DEF DeletePw
  <2>4. PICK m \in ToUp : m = Msg("shutdown", 0) /\ m.t # "upload"
    BY MessageTypes DEF Msg
  <2>5. Drained(Append(uq, m))
    BY <1>0, <1>1, <2>3, <2>4, DrainedAppended
  <2>6. Drained(uq')
    BY <1>1, <2>1, <2>3, <2>4, <2>5 DEF ToUploader
  <2> QED
    BY <1>1, <2>1, <2>3, <2>6 DEF DrainInv
<1>13. CASE DeleteUp
  <2>1. UNCHANGED <<uq, writer, uploader, wal, uploaded>>
    BY <1>13 DEF DeleteUp
  <2>2. SUFFICES ASSUME ~late' PROVE DrainInv'
    BY DEF DrainInv
  <2>3. uploader = "gone" /\ ~late
    BY <1>13, <2>2 DEF DeleteUp
  <2> QED
    BY <1>1, <2>1, <2>3 DEF DrainInv
<1>14. CASE DeleteAborted
  <2>1. UNCHANGED <<writer, uploader, late, wal, uploaded>> /\ delete' # "done"
    BY <1>14 DEF DeleteAborted
  <2>2. ~late => Drained(uq') /\ Numbers(uq', "shutdown") \subseteq Numbers(uq, "shutdown")
    <3>1. CASE Waits(uq, UploadCap, Msg("shutdown", 0))
      <4>1. PICK k \in DOMAIN uq : uq' = RemoveAt(uq, k)
        BY <1>0, <1>14, <3>1, TakenBackIsRemoved DEF DeleteAborted
      <4> QED
        BY <1>0, <1>1, <4>1, DrainedRemoved
    <3>2. CASE ~Waits(uq, UploadCap, Msg("shutdown", 0))
      BY <1>1, <1>14, <3>2 DEF DeleteAborted
    <3> QED
      BY <3>1, <3>2
  <2> QED
    BY <1>2, <2>1, <2>2
<1>15. CASE CrashAndRecover
  <2>1. uq' = <<>> /\ uploader' = "idle" /\ delete' = "none"
    BY <1>15 DEF CrashAndRecover
  <2> QED
    BY <2>1, DrainedNone, EmptyChannel DEF DrainInv
<1>16. ASSUME NEW r \in Requests, NEW k \in {"produce", "read"}, Submit(r, k)
       PROVE  DrainInv'
  <2>1. UNCHANGED <<uq, late, delete, writer, uploader, wal, uploaded>>
    BY <1>16 DEF Submit
  <2> QED
    BY <1>1, <1>2, <2>1
<1>17. ASSUME NEW r \in Requests, SubmitUnknown(r) PROVE DrainInv'
  <2>1. UNCHANGED <<uq, late, delete, writer, uploader, wal, uploaded>>
    BY <1>17 DEF SubmitUnknown
  <2> QED
    BY <1>1, <1>2, <2>1
<1> QED
  BY <1>3, <1>4, <1>5, <1>6, <1>7, <1>8, <1>10, <1>11, <1>12, <1>13, <1>14, <1>15, <1>16,
     <1>17, StepCases

-----------------------------------------------------------------------------
(* The theorems *)

LEMMA ChannelsInit == Init => ChannelsInv
<1> SUFFICES ASSUME Init PROVE ChannelsInv
  OBVIOUS
<1>1. /\ MaxRequests \in Nat /\ MaxBoots \in Nat /\ UploadCap \in Nat /\ DurableCap \in Nat
  BY CapsAssumption
<1>2. ShapeInv
  <2>1. 0 \in Number
    BY <1>1 DEF Number
  <2>2. 0 \in 0 .. MaxBoots
    BY <1>1
  <2>3. handle \in BOOLEAN /\ active \in BOOLEAN /\ late \in BOOLEAN /\ leaked \in BOOLEAN
    BY DEF Init
  <2>4. reqs \in [Requests -> {"new", "sent", "pending", "answered", "refused"}]
    BY DEF Init
  <2> QED
    BY <2>1, <2>2, <2>3, <2>4, EmptyChannel DEF Init, ShapeInv
<1>3. StageInv
  BY EmptyChannel DEF Init, StageInv
<1>4. RequestInv
  BY RequestsNone DEF Init, RequestInv
<1>5. CountInv
  <2>1. seg = 1 /\ active = FALSE /\ wal = {}
    BY DEF Init
  <2>2. PICK c : c = Cardinality(Done)
    OBVIOUS
  <2>3. c \in Nat
    BY <1>2, <2>2, DoneBound
  <2>4. (seg - 1) + (IF active THEN 1 ELSE 0) <= c
    BY <2>1, <2>3
  <2> QED
    BY <2>1, <2>2, <2>4 DEF CountInv
<1>6. UploadWaits
  BY WaitingNone DEF Init, UploadWaits
<1>7. DurableWaits
  <2>1. Len(dq) = 0 /\ 0 <= DurableCap + 1 /\ 0 # DurableCap + 1
    BY <1>1, EmptyChannel DEF Init
  <2> QED
    BY <2>1 DEF DurableWaits
<1>8. RingInv
  <2>1. Active = {} /\ Working = {} /\ wal = {} /\ uploaded = {}
    BY DEF Init, Active, Working
  <2>2. /\ Numbers(pwq, "durable") = {} /\ Numbers(dq, "durable") = {}
        /\ Numbers(uq, "upload") = {} /\ ToSet(orphans) = {} /\ Increasing(orphans)
        /\ InOrder(pwq, "durable") /\ InOrder(dq, "durable") /\ InOrder(uq, "upload")
    BY EmptyChannel DEF Init
  <2>3. Reported = {} /\ ToUpload = {}
    BY <2>1, <2>2 DEF Reported, ToUpload
  <2> QED
    BY <2>1, <2>2, <2>3 DEF RingInv, RingOrders, RingPlaces, Below
<1>9. DrainInv
  BY EmptyChannel, DrainedNone DEF Init, DrainInv
<1> QED
  BY <1>2, <1>3, <1>4, <1>5, <1>6, <1>7, <1>8, <1>9 DEF ChannelsInv

LEMMA ChannelsStep == ChannelsInv /\ [Next]_vars => ChannelsInv'
<1> SUFFICES ASSUME ChannelsInv, [Next]_vars PROVE ChannelsInv'
  OBVIOUS
<1> USE DEF ChannelsInv
<1>1. ShapeInv'
  BY ShapeStep
<1>2. StageInv'
  BY StageStep
<1>3. RequestInv'
  BY RequestStep
<1>4. CountInv'
  BY CountStep
<1>5. UploadWaits'
  BY UploadWaitsStep
<1>6. DurableWaits'
  BY DurableWaitsStep
<1>7. RingInv'
  BY RingStep
<1>8. DrainInv'
  BY DrainStep
<1> QED
  BY <1>1, <1>2, <1>3, <1>4, <1>5, <1>6, <1>7, <1>8

\* The inductive invariant of the channels and their tasks.
THEOREM ChannelsInvariant == Spec => []ChannelsInv
<1> QED
  BY ChannelsInit, ChannelsStep, PTL DEF Spec

\* At most three wait for the Uploader: one message each of three kinds.
LEMMA ThreeWait ==
  ASSUME ShapeInv, UploadWaits
  PROVE  Len(uq) <= UploadCap + 3
<1>1. UploadCap \in Nat /\ uq \in Seq(ToUp)
  BY CapsAssumption DEF ShapeInv
<1>2. PICK n \in Nat : n = Len(uq) /\ DOMAIN uq = 1 .. n
  BY <1>1, LenProperties
<1>3. SUFFICES ASSUME n > UploadCap + 3 PROVE FALSE
  BY <1>1, <1>2
<1>4. \A i \in {1, 2, 3, 4} : UploadCap + i \in DOMAIN uq /\ UploadCap + i > UploadCap
  BY <1>1, <1>2, <1>3
<1>5. /\ Msg("config", 0).t = "config" /\ Msg("shutdown", 0).t = "shutdown"
      /\ \A x : Msg("upload", x).t = "upload"
  BY DEF Msg
<1>6. \A m \in Waiting(uq, UploadCap) : m.t \in {"upload", "config", "shutdown"}
  BY <1>5 DEF UploadWaits
<1>7. \A i \in {1, 2, 3, 4} : uq[UploadCap + i].t \in {"upload", "config", "shutdown"}
  BY <1>4, <1>6 DEF Waiting
<1>8. \A i, j \in {1, 2, 3, 4} :
        uq[UploadCap + i].t = uq[UploadCap + j].t => UploadCap + i = UploadCap + j
  BY <1>4 DEF UploadWaits, OneOfEach
<1>9. \A i, j \in {1, 2, 3, 4} : UploadCap + i = UploadCap + j => i = j
  BY <1>1
<1>10. PICK a, b, c, d : /\ a = uq[UploadCap + 1].t /\ b = uq[UploadCap + 2].t
                         /\ c = uq[UploadCap + 3].t /\ d = uq[UploadCap + 4].t
  OBVIOUS
<1>11. a # b /\ a # c /\ a # d /\ b # c /\ b # d /\ c # d
  <2>1. 1 # 2 /\ 1 # 3 /\ 1 # 4 /\ 2 # 3 /\ 2 # 4 /\ 3 # 4
    OBVIOUS
  <2> QED
    BY <1>8, <1>9, <1>10, <2>1
<1>12. /\ a \in {"upload", "config", "shutdown"} /\ b \in {"upload", "config", "shutdown"}
       /\ c \in {"upload", "config", "shutdown"} /\ d \in {"upload", "config", "shutdown"}
  BY <1>7, <1>10
<1> QED
  BY <1>11, <1>12

\* Whatever the capacities and the environment, every variable has its type;
\* the forwarder's queue is at most one message longer than its channel, and
\* the Uploader's three: no more senders can wait in spawn_partition,
\* seal_and_handoff, AlterTopicConfig and DeleteTopic together.
THEOREM ChannelsTyped == Spec => []TypeOK
<1>1. ChannelsInv => TypeOK
  <2> SUFFICES ASSUME ChannelsInv PROVE TypeOK
    OBVIOUS
  <2>0. ShapeInv /\ CountInv /\ RingInv /\ UploadWaits /\ DurableWaits
    BY DEF ChannelsInv
  <2>1. ToPw \subseteq Message /\ ToUp \subseteq Message /\ ToFw \subseteq Message
    BY DEF ToPw, ToUp, ToFw, Message, Number
  <2>2. pwq \in Seq(Message) /\ uq \in Seq(Message) /\ dq \in Seq(Message)
    <3>1. pwq \in Seq(ToPw) /\ uq \in Seq(ToUp) /\ dq \in Seq(ToFw)
      BY <2>0 DEF ShapeInv
    <3> QED
      BY <2>1, <3>1, SeqMonotonic
  <2>3. Len(uq) <= UploadCap + 3 /\ Len(dq) <= DurableCap + 1
    BY <2>0, ThreeWait DEF DurableWaits
  <2>4. seg \in Segments /\ wal \subseteq Segments /\ uploaded \subseteq wal
    BY <2>0, SegBound DEF RingInv, RingPlaces
  <2> QED
    BY <2>0, <2>2, <2>3, <2>4 DEF TypeOK, ShapeInv, Number
<1> QED
  BY <1>1, ChannelsInvariant, PTL

\* Whatever the capacities and the environment, the sealed segments on disk go
\* round each once and in order, and none is missing while the writer and the
\* Uploader run.
THEOREM SegmentsGoRound == Spec => []RingOrdered
<1>1. ChannelsInv => RingOrdered
  <2> SUFFICES ASSUME ChannelsInv PROVE RingOrdered
    OBVIOUS
  <2>0. RingOrders /\ RingPlaces
    BY DEF ChannelsInv, RingInv
  <2>1. PICK P, D, W, U, O :
          /\ P = Numbers(pwq, "durable") /\ D = Numbers(dq, "durable")
          /\ W = (IF uploader = "uploading" THEN {batch} ELSE {})
          /\ U = Numbers(uq, "upload") /\ O = ToSet(orphans)
    OBVIOUS
  <2>2. Ring = <<P, D, W, U, O>>
    BY <2>1 DEF Ring
  <2>3. Reported = P \cup D /\ ToUpload = W \cup U \cup O
    BY <2>1 DEF Reported, ToUpload, Working
  <2>4. /\ Below(P, D) /\ Below(P \cup D, W \cup U \cup O) /\ Below(W, U \cup O) /\ Below(U, O)
    BY <2>0, <2>1, <2>3 DEF RingOrders, Working
  <2>5. Ring[1] = P /\ Ring[2] = D /\ Ring[3] = W /\ Ring[4] = U /\ Ring[5] = O
    BY <2>2
  <2>6. /\ Below(P, D) /\ Below(P, W) /\ Below(P, U) /\ Below(P, O) /\ Below(D, W)
        /\ Below(D, U) /\ Below(D, O) /\ Below(W, U) /\ Below(W, O) /\ Below(U, O)
    BY <2>4 DEF Below
  <2>7. ASSUME NEW i \in 1 .. 5, NEW j \in 1 .. 5, i < j PROVE Below(Ring[i], Ring[j])
    <3>1. /\ i \in {1, 2, 3, 4, 5} /\ j \in {1, 2, 3, 4, 5}
      OBVIOUS
    <3>2. \/ i = 1 /\ j \in {2, 3, 4, 5}
          \/ i = 2 /\ j \in {3, 4, 5}
          \/ i = 3 /\ j \in {4, 5}
          \/ i = 4 /\ j = 5
      BY <2>7, <3>1
    <3> QED
      BY <2>5, <2>6, <3>2
  <2>8. UNION {Ring[i] : i \in 1 .. 5} = Reported \cup ToUpload
    <3>1. 1 .. 5 = {1, 2, 3, 4, 5}
      OBVIOUS
    <3>2. {Ring[i] : i \in 1 .. 5} = {P, D, W, U, O}
      BY <2>5, <3>1
    <3> QED
      BY <2>3, <3>2
  <2>9. Reported \cup ToUpload \subseteq wal \ Active
    BY <2>0 DEF RingPlaces
  <2>10. writer # "gone" /\ uploader # "gone" => Reported \cup ToUpload = wal \ Active
    BY <2>0 DEF RingPlaces
  <2>11. wal \ Active = wal \ (IF active THEN {seg} ELSE {})
    BY DEF Active
  <2>12. \A i, j \in 1 .. 5 : i < j => \A x \in Ring[i], y \in Ring[j] : x < y
    BY <2>7 DEF Below
  <2>13. /\ InOrder(pwq, "durable") /\ InOrder(dq, "durable") /\ InOrder(uq, "upload")
         /\ Increasing(orphans)
    BY <2>0 DEF RingOrders
  <2> QED
    BY <2>8, <2>9, <2>10, <2>11, <2>12, <2>13 DEF RingOrdered
<1> QED
  BY <1>1, ChannelsInvariant, PTL

\* Whatever the capacities and the environment, a DeleteTopic that got both
\* acks in time leaves no task behind and no committed record outside the
\* store: what the comments on DeleteTopic and on the Uploader's Shutdown say.
THEOREM DeleteLeavesNothing == Spec => []DeleteQuiesces
<1>1. ChannelsInv => DeleteQuiesces
  BY DEF ChannelsInv, DrainInv, DeleteQuiesces
<1> QED
  BY <1>1, ChannelsInvariant, PTL
=============================================================================
