-------------------------- MODULE BrokerFilesProofs --------------------------
(***************************************************************************)
(* What a broker finds again in its data directory, for every value of the *)
(* constants: its identity, the configuration of a topic, and the records  *)
(* of a partition, byte for byte through the wire and the WAL file.        *)
(***************************************************************************)
EXTENDS BrokerFiles, NaturalFacts, FiniteSetTheorems, SequenceTheorems, TLAPS

-----------------------------------------------------------------------------
(* Sequences *)

\* Slices of a concatenation: one that lies in the left part, and the two
\* halves of what was put on the right.
LEMMA SliceOfLeft ==
  ASSUME NEW S, NEW s \in Seq(S), NEW t \in Seq(S),
         NEW a \in Nat, NEW b \in Nat, 1 <= a, b <= Len(s)
  PROVE  SubSeq(s \o t, a, b) = SubSeq(s, a, b)
<1>1. CASE b < a
  BY <1>1, SubSeqEmpty
<1>2. CASE a <= b
  <2>1. Len(s) \in Nat /\ a \in 1 .. Len(s) /\ b \in 1 .. Len(s)
    BY <1>2, LenProperties
  <2>2. QED
    BY <2>1, SubSeqOfConcat1
<1>3. QED
  BY <1>1, <1>2

LEMMA SliceOfMiddle ==
  ASSUME NEW S, NEW s \in Seq(S), NEW t \in Seq(S), NEW u \in Seq(S)
  PROVE  SubSeq(s \o (t \o u), Len(s) + 1, Len(s) + Len(t)) = t
<1> DEFINE w == s \o (t \o u)
           x == SubSeq(w, Len(s) + 1, Len(s) + Len(t))
<1>1. /\ Len(s) \in Nat /\ Len(t) \in Nat /\ Len(u) \in Nat
      /\ t \o u \in Seq(S) /\ w \in Seq(S)
      /\ Len(t \o u) = Len(t) + Len(u) /\ Len(w) = Len(s) + (Len(t) + Len(u))
  BY LenProperties, ConcatProperties
<1>2. \A i \in 1 .. Len(t) : w[Len(s) + i] = t[i]
  <2> TAKE i \in 1 .. Len(t)
  <2>1. w[Len(s) + i] = (t \o u)[i]
    BY <1>1, ConcatProperties
  <2>2. (t \o u)[i] = t[i]
    BY <1>1, ConcatProperties
  <2>3. QED
    BY <2>1, <2>2
<1>3. \A i \in Len(s) + 1 .. Len(s) + Len(t) : w[i] \in S
  <2> TAKE i \in Len(s) + 1 .. Len(s) + Len(t)
  <2>1. i \in 1 .. Len(w)
    BY <1>1
  <2>2. QED
    BY <1>1, <2>1, ElementOfSeq
<1>4. /\ x \in Seq(S) /\ Len(x) = Len(t)
      /\ \A i \in 1 .. Len(t) : x[i] = w[Len(s) + i]
  <2> HIDE DEF w
  <2>1. /\ x \in Seq(S)
        /\ Len(x) = IF Len(s) + 1 <= Len(s) + Len(t)
                    THEN (Len(s) + Len(t)) - (Len(s) + 1) + 1 ELSE 0
        /\ \A i \in 1 .. (Len(s) + Len(t)) - (Len(s) + 1) + 1 :
             x[i] = w[(Len(s) + 1) + i - 1]
    BY <1>1, <1>3, SubSeqProperties
  <2> HIDE DEF x
  <2>2. \A i \in 1 .. Len(t) : (Len(s) + 1) + i - 1 = Len(s) + i
    BY <1>1
  <2>3. (Len(s) + Len(t)) - (Len(s) + 1) + 1 = Len(t)
    BY <1>1
  <2>4. Len(x) = Len(t)
    BY <1>1, <2>1, <2>3
  <2>5. QED
    BY <2>1, <2>2, <2>3, <2>4
<1> HIDE DEF w, x
<1>5. x = t
  BY <1>1, <1>2, <1>4, SeqEqual
<1>6. QED
  BY <1>5 DEF x, w

\* The same for the last part.
LEMMA SliceOfRight ==
  ASSUME NEW S, NEW s \in Seq(S), NEW t \in Seq(S), NEW u \in Seq(S)
  PROVE  SubSeq(s \o (t \o u), Len(s) + Len(t) + 1, Len(s) + Len(t) + Len(u)) = u
<1>1. /\ s \o t \in Seq(S) /\ Len(s \o t) = Len(s) + Len(t)
      /\ u \o <<>> = u /\ <<>> \in Seq(S)
  BY ConcatProperties, ConcatEmptySeq, EmptySeq
<1>2. s \o (t \o u) = (s \o t) \o (u \o <<>>)
  BY <1>1, ConcatAssociative
<1>3. QED
  BY <1>1, <1>2, SliceOfMiddle

\* What is put on the right leaves two neighbouring slices where they are.
LEMMA SlicesKept ==
  ASSUME NEW S, NEW s \in Seq(S), NEW t \in Seq(S),
         NEW c \in Nat, NEW k \in Nat, NEW v \in Nat, c + k + v <= Len(s)
  PROVE  /\ SubSeq(s \o t, c + 1, c + k) = SubSeq(s, c + 1, c + k)
         /\ SubSeq(s \o t, c + k + 1, c + k + v) = SubSeq(s, c + k + 1, c + k + v)
<1>1. /\ Len(s) \in Nat /\ c + 1 \in Nat /\ c + k \in Nat /\ c + k + 1 \in Nat
      /\ c + k + v \in Nat /\ 1 <= c + 1 /\ 1 <= c + k + 1 /\ c + k <= Len(s)
  BY LenProperties
<1>2. QED
  BY <1>1, SliceOfLeft

LEMMA FunctionIsSeq ==
  ASSUME NEW S, NEW n \in Nat, NEW f \in [1 .. n -> S]
  PROVE  f \in Seq(S) /\ Len(f) = n
<1>1. f \in Seq(S)
  BY SeqDef
<1>2. Len(f) \in Nat /\ 1 .. Len(f) = 1 .. n
  BY <1>1, LenProperties
<1>3. QED
  BY <1>1, <1>2

-----------------------------------------------------------------------------
(* The wire: what is put together comes apart again *)

Bytes == Seq(Nat)
Sent  == [key : Bytes, value : Bytes]
Metas == [kl : Nat, vl : Nat]

\* slice_payload's cursor is what its loop makes it: a recursive function has
\* to be shown to exist before its definition can be used.
LEMMA CursorLoop ==
  ASSUME NEW metas \in Seq(Metas)
  PROVE  /\ Cursor(metas) \in [0 .. Len(metas) -> Nat]
         /\ Cursor(metas)[0] = 0
         /\ \A n \in 1 .. Len(metas) :
              Cursor(metas)[n] = Cursor(metas)[n - 1] + metas[n].kl + metas[n].vl
<1> DEFINE Runs(f, n) == /\ f \in [0 .. n -> Nat] /\ f[0] = 0
                         /\ \A k \in 1 .. n : f[k] = f[k - 1] + metas[k].kl + metas[k].vl
           N == Len(metas)
           S == {n \in Nat : \E f : Runs(f, n)}
<1>1. N \in Nat /\ \A n \in 1 .. N : metas[n].kl \in Nat /\ metas[n].vl \in Nat
  <2>1. N \in Nat
    BY LenProperties
  <2>2. \A n \in 1 .. N : metas[n] \in Metas
    BY ElementOfSeq
  <2>3. QED
    BY <2>1, <2>2 DEF Metas
<1> HIDE DEF N
<1>2. 0 \in S
  <2>1. Runs([k \in 0 .. 0 |-> 0], 0)
    OBVIOUS
  <2>2. QED
    BY <2>1
<1>3. \A n \in 0 .. N : n \in S /\ n < N => n + 1 \in S
  <2>1. SUFFICES ASSUME NEW n \in 0 .. N, n < N, NEW f, Runs(f, n)
                 PROVE  \E g : Runs(g, n + 1)
    <3> HIDE DEF Runs
    <3>1. \A n \in 0 .. N : n + 1 \in Nat
      BY <1>1
    <3>2. QED
      BY <3>1
  <2> DEFINE m == metas[n + 1]
             g == [k \in 0 .. n + 1 |-> IF k <= n THEN f[k] ELSE f[n] + m.kl + m.vl]
  <2>2. n \in Nat /\ f[n] \in Nat /\ m.kl \in Nat /\ m.vl \in Nat
    BY <1>1, <2>1
  <2>3. g \in [0 .. n + 1 -> Nat] /\ g[0] = 0
    BY <2>1, <2>2
  <2>4. ASSUME NEW k \in 1 .. n + 1
        PROVE  g[k] = g[k - 1] + metas[k].kl + metas[k].vl
    <3>1. CASE k <= n
      BY <2>1, <2>2, <3>1
    <3>2. CASE k = n + 1
      BY <2>1, <2>2, <3>2
    <3>3. QED
      BY <2>2, <3>1, <3>2
  <2>5. QED
    BY <2>3, <2>4
<1>4. PICK f : Runs(f, N)
  <2>1. N \in 0 .. N
    BY <1>1
  <2> HIDE DEF Runs
  <2>2. \A n \in 0 .. N : n \in S
    <3> HIDE DEF S
    <3>1. QED
      BY <1>1, <1>2, <1>3, IntervalInduction
  <2>3. QED
    BY <2>1, <2>2
<1> DEFINE Body(at) == [n \in 0 .. N |-> IF n = 0 THEN 0
                                         ELSE at[n - 1] + metas[n].kl + metas[n].vl]
<1>5. \E at : at = Body(at)
  <2>1. f = Body(f)
    BY <1>1, <1>4
  <2>2. QED
    BY <2>1
<1>6. Cursor(metas) = (CHOOSE at : at = Body(at))
  BY DEF Cursor, N
<1>7. Cursor(metas) = Body(Cursor(metas))
  <2> HIDE DEF Body
  <2>1. QED
    BY <1>5, <1>6
<1> DEFINE C == Cursor(metas)
<1>8. C[0] = 0 /\ DOMAIN C = 0 .. N /\ C = [n \in DOMAIN C |-> C[n]]
  BY <1>1, <1>7
<1>9. \A n \in 1 .. N : C[n] = C[n - 1] + metas[n].kl + metas[n].vl
  BY <1>1, <1>7
<1> HIDE DEF C
<1>10. \A n \in 0 .. N : n \in {k \in 0 .. N : C[k] \in Nat}
  <2> DEFINE T == {k \in 0 .. N : C[k] \in Nat}
  <2>1. 0 \in T
    BY <1>1, <1>8
  <2>2. \A n \in 0 .. N : n \in T /\ n < N => n + 1 \in T
    <3>1. SUFFICES ASSUME NEW n \in 0 .. N, C[n] \in Nat, n < N
                   PROVE  n + 1 \in 0 .. N /\ C[n + 1] \in Nat
      OBVIOUS
    <3>2. n + 1 \in 1 .. N /\ (n + 1) - 1 = n
      BY <1>1, <3>1
    <3>3. C[n + 1] = C[n] + metas[n + 1].kl + metas[n + 1].vl
      BY <1>9, <3>2
    <3>4. QED
      BY <1>1, <3>1, <3>2, <3>3
  <2> HIDE DEF T
  <2>3. QED
    BY <1>1, <2>1, <2>2, IntervalInduction DEF T
<1>11. C \in [0 .. N -> Nat]
  BY <1>8, <1>10
<1>12. QED
  BY <1>8, <1>9, <1>11 DEF C, N

\* The bytes of a batch, put one record behind the other: FlattenSeq is what
\* its loop makes it.
LEMMA FlattenLoop ==
  ASSUME NEW seqs \in Seq(Bytes), Len(seqs) > 0
  PROVE  \E f \in [1 .. Len(seqs) -> Bytes] :
           /\ FlattenSeq(seqs) = f[Len(seqs)]
           /\ f[1] = seqs[1]
           /\ \A n \in 2 .. Len(seqs) : f[n] = f[n - 1] \o seqs[n]
<1> DEFINE Runs(f, n) == /\ f \in [1 .. n -> Bytes]
                         /\ n > 0 => f[1] = seqs[1]
                         /\ \A k \in 2 .. n : f[k] = f[k - 1] \o seqs[k]
           N == Len(seqs)
           S == {n \in Nat : \E f : Runs(f, n)}
<1>1. N \in Nat /\ N > 0 /\ \A n \in 1 .. N : seqs[n] \in Bytes
  BY LenProperties, ElementOfSeq
<1> HIDE DEF N
<1>2. 0 \in S
  <2>1. Runs([k \in 1 .. 0 |-> <<>>], 0)
    OBVIOUS
  <2>2. QED
    BY <2>1
<1>3. \A n \in 0 .. N : n \in S /\ n < N => n + 1 \in S
  <2>1. SUFFICES ASSUME NEW n \in 0 .. N, n < N, NEW f, Runs(f, n)
                 PROVE  \E g : Runs(g, n + 1)
    <3> HIDE DEF Runs
    <3>1. \A n \in 0 .. N : n + 1 \in Nat
      BY <1>1
    <3>2. QED
      BY <3>1
  <2> DEFINE new == IF n = 0 THEN seqs[1] ELSE f[n] \o seqs[n + 1]
             g == [k \in 1 .. n + 1 |-> IF k <= n THEN f[k] ELSE new]
  <2>2. n \in Nat /\ new \in Bytes
    <3>1. n + 1 \in 1 .. N /\ seqs[n + 1] \in Bytes
      BY <1>1, <2>1
    <3>2. CASE n = 0
      BY <3>1, <3>2
    <3>3. CASE n # 0
      <4>1. f[n] \in Bytes
        BY <2>1, <3>3
      <4>2. QED
        BY <3>1, <3>3, <4>1, ConcatProperties DEF Bytes
    <3>4. QED
      BY <3>2, <3>3
  <2>3. g \in [1 .. n + 1 -> Bytes] /\ g[1] = seqs[1]
    <3> HIDE DEF new
    <3>1. g \in [1 .. n + 1 -> Bytes]
      BY <2>1, <2>2
    <3>2. g[1] = IF 1 <= n THEN f[1] ELSE new
      BY <2>2
    <3>3. QED
      BY <2>1, <2>2, <3>1, <3>2 DEF new
  <2>4. ASSUME NEW k \in 2 .. n + 1
        PROVE  g[k] = g[k - 1] \o seqs[k]
    <3>1. CASE k <= n
      <4> HIDE DEF new
      <4>1. g[k] = f[k] /\ g[k - 1] = f[k - 1]
        BY <2>2, <3>1
      <4>2. k \in 2 .. n
        BY <2>2, <3>1
      <4>3. QED
        BY <2>1, <4>1, <4>2
    <3>2. CASE k = n + 1
      <4>1. n # 0 /\ k - 1 = n
        BY <2>2, <3>2
      <4>2. new = f[n] \o seqs[k]
        BY <3>2, <4>1
      <4> HIDE DEF new
      <4>3. g[k] = new /\ g[k - 1] = f[n]
        BY <2>2, <3>2, <4>1
      <4>4. QED
        BY <4>2, <4>3
    <3> HIDE DEF g, new
    <3>3. k <= n \/ k = n + 1
      BY <2>2
    <3>4. QED
      BY <3>1, <3>2, <3>3
  <2> HIDE DEF g
  <2>5. QED
    BY <2>3, <2>4
<1>4. PICK f : Runs(f, N)
  <2>1. N \in 0 .. N
    BY <1>1
  <2> HIDE DEF Runs
  <2>2. \A n \in 0 .. N : n \in S
    <3> HIDE DEF S
    <3>1. QED
      BY <1>1, <1>2, <1>3, IntervalInduction
  <2>3. QED
    BY <2>1, <2>2
<1> DEFINE Body(at) == [i \in 1 .. N |-> IF i = 1 THEN seqs[i] ELSE at[i - 1] \o seqs[i]]
           c == CHOOSE at : at = Body(at)
<1>5. c = Body(c)
  <2>1. f = [i \in 1 .. N |-> f[i]]
    BY <1>4
  <2>2. ASSUME NEW i \in 1 .. N
        PROVE  f[i] = IF i = 1 THEN seqs[i] ELSE f[i - 1] \o seqs[i]
    <3>1. i = 1 \/ i \in 2 .. N
      BY <1>1
    <3>2. QED
      BY <1>1, <1>4, <3>1
  <2>3. f = Body(f)
    BY <2>1, <2>2
  <2> HIDE DEF Body
  <2>4. QED
    BY <2>3
<1>6. FlattenSeq(seqs) = c[N]
  BY <1>1 DEF FlattenSeq, N
<1> HIDE DEF c
<1>7. c[1] = seqs[1] /\ DOMAIN c = 1 .. N /\ c = [n \in DOMAIN c |-> c[n]]
  BY <1>1, <1>5
<1>8. ASSUME NEW n \in 2 .. N
      PROVE  c[n] = c[n - 1] \o seqs[n]
  <2>1. n \in 1 .. N /\ n # 1
    BY <1>1
  <2>2. c[n] = Body(c)[n]
    BY <1>5
  <2> HIDE <1>5
  <2>3. QED
    BY <2>1, <2>2
<1> DEFINE T == {k \in 0 .. N : k # 0 => c[k] \in Bytes}
<1>9. \A n \in 0 .. N : n \in T
  <2>1. 0 \in T
    BY <1>1
  <2>2. \A n \in 0 .. N : n \in T /\ n < N => n + 1 \in T
    <3>1. SUFFICES ASSUME NEW n \in 0 .. N, n # 0 => c[n] \in Bytes, n < N
                   PROVE  n + 1 \in 0 .. N /\ c[n + 1] \in Bytes
      OBVIOUS
    <3>2. n + 1 \in 1 .. N /\ (n + 1) - 1 = n
      BY <1>1, <3>1
    <3>3. CASE n = 0
      BY <1>1, <1>7, <3>2, <3>3
    <3>4. CASE n # 0
      <4>1. n + 1 \in 2 .. N
        BY <3>2, <3>4
      <4>2. c[n + 1] = c[n] \o seqs[n + 1]
        BY <1>8, <3>2, <4>1
      <4>3. QED
        BY <1>1, <3>1, <3>2, <3>4, <4>2, ConcatProperties DEF Bytes
    <3>5. QED
      BY <3>3, <3>4
  <2> HIDE DEF T
  <2>3. QED
    BY <1>1, <2>1, <2>2, IntervalInduction
<1>10. c \in [1 .. N -> Bytes]
  BY <1>1, <1>7, <1>9
<1>11. QED
  BY <1>6, <1>7, <1>8, <1>10 DEF N

LEMMA MetasTyped ==
  ASSUME NEW recs \in Seq(Sent)
  PROVE  /\ MetasOf(recs) \in Seq(Metas) /\ Len(MetasOf(recs)) = Len(recs)
         /\ DOMAIN MetasOf(recs) = 1 .. Len(recs)
         /\ \A i \in 1 .. Len(recs) :
              /\ MetasOf(recs)[i].kl = Len(recs[i].key)
              /\ MetasOf(recs)[i].vl = Len(recs[i].value)
<1>1. Len(recs) \in Nat /\ DOMAIN recs = 1 .. Len(recs)
  BY LenProperties
<1>2. \A i \in 1 .. Len(recs) :
        [kl |-> Len(recs[i].key), vl |-> Len(recs[i].value)] \in Metas
  <2> TAKE i \in 1 .. Len(recs)
  <2>1. recs[i] \in Sent
    BY ElementOfSeq
  <2>2. Len(recs[i].key) \in Nat /\ Len(recs[i].value) \in Nat
    BY <2>1, LenProperties DEF Sent, Bytes
  <2>3. QED
    BY <2>2 DEF Metas
<1>3. QED
  BY <1>1, <1>2 DEF MetasOf

\* The wire keeps records apart: the payload of a batch is as long as its
\* metas declare, and slice_payload cuts it into the same keys and values.
LEMMA RoundTrip ==
  ASSUME NEW recs \in Seq(Sent), Len(recs) > 0
  PROVE  /\ PayloadOf(recs) \in Bytes
         /\ Cursor(MetasOf(recs))[Len(MetasOf(recs))] = Len(PayloadOf(recs))
         /\ SlicePayload(MetasOf(recs), PayloadOf(recs)) = recs
<1> DEFINE N == Len(recs)
           metas == MetasOf(recs)
           C == Cursor(metas)
           seqs == [i \in DOMAIN recs |-> recs[i].key \o recs[i].value]
<1>1. /\ N \in Nat /\ N > 0 /\ DOMAIN recs = 1 .. N
      /\ \A i \in 1 .. N : recs[i] \in Sent
  BY LenProperties, ElementOfSeq
<1> HIDE DEF N
<1>2. /\ metas \in Seq(Metas) /\ Len(metas) = N /\ DOMAIN metas = 1 .. N
      /\ \A i \in 1 .. N : /\ metas[i].kl = Len(recs[i].key)
                           /\ metas[i].vl = Len(recs[i].value)
  BY MetasTyped DEF N
<1>3. \A i \in 1 .. N :
        /\ recs[i].key \in Bytes /\ recs[i].value \in Bytes
        /\ Len(recs[i].key) \in Nat /\ Len(recs[i].value) \in Nat
        /\ recs[i].key \o recs[i].value \in Bytes
        /\ Len(recs[i].key \o recs[i].value) = Len(recs[i].key) + Len(recs[i].value)
  <2> TAKE i \in 1 .. N
  <2>1. recs[i].key \in Bytes /\ recs[i].value \in Bytes
    BY <1>1 DEF Sent
  <2>2. QED
    BY <2>1, LenProperties, ConcatProperties DEF Bytes
<1>4. /\ C \in [0 .. N -> Nat] /\ C[0] = 0
      /\ \A n \in 1 .. N : C[n] = C[n - 1] + metas[n].kl + metas[n].vl
  <2> HIDE DEF metas
  <2>1. QED
    BY <1>2, CursorLoop
<1>5. /\ seqs \in Seq(Bytes) /\ Len(seqs) = N
      /\ \A i \in 1 .. N : seqs[i] = recs[i].key \o recs[i].value
  <2> HIDE DEF N
  <2>1. /\ seqs \in [1 .. N -> Bytes]
        /\ \A i \in 1 .. N : seqs[i] = recs[i].key \o recs[i].value
    BY <1>1, <1>3
  <2> HIDE DEF seqs
  <2>2. QED
    BY <1>1, <2>1, FunctionIsSeq
<1> HIDE DEF metas, seqs, N, C
<1>6. PICK F \in [1 .. N -> Bytes] :
        /\ FlattenSeq(seqs) = F[N]
        /\ F[1] = seqs[1]
        /\ \A n \in 2 .. N : F[n] = F[n - 1] \o seqs[n]
  BY <1>1, <1>5, FlattenLoop
<1>7. PayloadOf(recs) = F[N]
  BY <1>6 DEF PayloadOf, seqs
<1> DEFINE Key(p, i) == SubSeq(p, C[i - 1] + 1, C[i - 1] + metas[i].kl)
           Value(p, i) == SubSeq(p, C[i - 1] + metas[i].kl + 1,
                                    C[i - 1] + metas[i].kl + metas[i].vl)
           Fine(p, n) == /\ Len(p) = C[n]
                         /\ \A i \in 1 .. n : Key(p, i) = recs[i].key
                                              /\ Value(p, i) = recs[i].value
\* One more record leaves the slices of the earlier ones where they are.
<1>8. ASSUME NEW s \in Bytes, NEW n \in 1 .. N, Fine(s, n - 1)
      PROVE  Fine(s \o seqs[n], n)
  <2> DEFINE k == recs[n].key
             v == recs[n].value
             p == s \o (k \o v)
  <2>1. /\ seqs[n] = k \o v /\ k \in Seq(Nat) /\ v \in Seq(Nat) /\ s \in Seq(Nat)
        /\ k \o v \in Seq(Nat) /\ Len(k \o v) = Len(k) + Len(v)
        /\ Len(k) \in Nat /\ Len(v) \in Nat
        /\ metas[n].kl = Len(k) /\ metas[n].vl = Len(v)
    BY <1>2, <1>3, <1>5 DEF Bytes
  <2>2. Len(s) = C[n - 1] /\ Len(s) \in Nat /\ p \in Seq(Nat)
        /\ Len(p) = Len(s) + (Len(k) + Len(v))
    <3>1. Len(s) = C[n - 1]
      BY <1>8
    <3>2. Len(s) \in Nat
      BY <2>1, LenProperties
    <3>3. p \in Seq(Nat) /\ Len(p) = Len(s) + Len(k \o v)
      BY <2>1, ConcatProperties
    <3>4. QED
      BY <2>1, <3>1, <3>2, <3>3
  <2>3. C[n] = Len(p)
    <3> HIDE DEF k, v, p
    <3>1. C[n] = C[n - 1] + metas[n].kl + metas[n].vl
      BY <1>4
    <3>2. QED
      BY <2>1, <2>2, <3>1
  <2>4. Key(p, n) = k /\ Value(p, n) = v
    <3>1. k \in Seq(Nat) /\ v \in Seq(Nat) /\ s \in Seq(Nat)
      BY <2>1
    <3>2. SubSeq(p, Len(s) + 1, Len(s) + Len(k)) = k
      BY <3>1, SliceOfMiddle
    <3>3. SubSeq(p, Len(s) + Len(k) + 1, Len(s) + Len(k) + Len(v)) = v
      BY <3>1, SliceOfRight
    <3> HIDE DEF p
    <3>4. QED
      BY <2>1, <2>2, <3>2, <3>3
  <2>5. ASSUME NEW i \in 1 .. n - 1
        PROVE  Key(p, i) = recs[i].key /\ Value(p, i) = recs[i].value
    <3>1. /\ C[i - 1] \in Nat /\ metas[i].kl \in Nat /\ metas[i].vl \in Nat
          /\ C[i] = C[i - 1] + metas[i].kl + metas[i].vl
      <4>1. i \in 1 .. N /\ i - 1 \in 0 .. N
        BY <1>1
      <4>2. QED
        BY <1>2, <1>3, <1>4, <4>1
    <3>2. C[i] <= Len(s)
      <4> DEFINE T == {j \in 0 .. n - 1 : i <= j => C[i] <= C[j]}
      <4>1. 0 \in T
        BY <1>1
      <4>2. \A j \in 0 .. n - 1 : j \in T /\ j < n - 1 => j + 1 \in T
        <5>1. SUFFICES ASSUME NEW j \in 0 .. n - 1, i <= j => C[i] <= C[j], j < n - 1,
                              i <= j + 1
                       PROVE  C[i] <= C[j + 1]
          BY <1>1
        <5>2. /\ j + 1 \in 1 .. N /\ j \in 0 .. N /\ (j + 1) - 1 = j /\ i \in 0 .. N
          BY <1>1, <5>1
        <5>3. /\ C[j + 1] = C[j] + metas[j + 1].kl + metas[j + 1].vl
              /\ metas[j + 1].kl \in Nat /\ metas[j + 1].vl \in Nat
              /\ C[j] \in Nat /\ C[i] \in Nat /\ C[j + 1] \in Nat
          <6>1. metas[j + 1].kl \in Nat /\ metas[j + 1].vl \in Nat
            BY <1>2, <1>3, <5>2
          <6>2. C[j] \in Nat /\ C[i] \in Nat /\ C[j + 1] \in Nat
            BY <1>1, <1>4, <5>2
          <6>3. QED
            BY <1>4, <5>2, <6>1, <6>2
        <5>4. CASE i <= j
          BY <5>1, <5>3, <5>4
        <5>5. CASE i = j + 1
          BY <5>3, <5>5
        <5>6. QED
          BY <5>1, <5>4, <5>5
      <4>3. n - 1 \in T
        <5> HIDE DEF T
        <5>1. n - 1 \in Nat /\ n - 1 \in 0 .. n - 1
          BY <1>1
        <5>2. QED
          BY <4>1, <4>2, <5>1, IntervalInduction
      <4>4. QED
        BY <2>2, <4>3
    <3>3. C[i - 1] + metas[i].kl + metas[i].vl <= Len(s)
      BY <3>1, <3>2
    <3>4. Key(p, i) = Key(s, i) /\ Value(p, i) = Value(s, i)
      <4> DEFINE c == C[i - 1]
                 kl == metas[i].kl
                 vl == metas[i].vl
                 t == k \o v
      <4>1. t \in Seq(Nat) /\ s \in Seq(Nat) /\ p = s \o t
        BY <2>1
      <4>2. c \in Nat /\ kl \in Nat /\ vl \in Nat /\ c + kl + vl <= Len(s)
        BY <3>1, <3>3
      <4> HIDE DEF t, p, c, kl, vl
      <4>3. /\ SubSeq(p, c + 1, c + kl) = SubSeq(s, c + 1, c + kl)
            /\ SubSeq(p, c + kl + 1, c + kl + vl) = SubSeq(s, c + kl + 1, c + kl + vl)
        BY <4>1, <4>2, SlicesKept
      <4>4. QED
        BY <4>3 DEF c, kl, vl
    <3>5. QED
      BY <1>8, <3>4
  <2>6. \A i \in 1 .. n : i = n \/ i \in 1 .. n - 1
    BY <1>1
  <2>7. s \o seqs[n] = p
    BY <2>1
  <2> HIDE DEF p, Key, Value
  <2>8. QED
    BY <2>3, <2>4, <2>5, <2>6, <2>7
<1>9. \A n \in 0 .. N : n \in {m \in 0 .. N : m # 0 => Fine(F[m], m)}
  <2> DEFINE T == {m \in 0 .. N : m # 0 => Fine(F[m], m)}
  <2>1. 0 \in T
    BY <1>1
  <2>2. \A n \in 0 .. N : n \in T /\ n < N => n + 1 \in T
    <3> HIDE DEF Fine
    <3>1. SUFFICES ASSUME NEW n \in 0 .. N, n # 0 => Fine(F[n], n), n < N
                   PROVE  n + 1 \in 0 .. N /\ Fine(F[n + 1], n + 1)
      OBVIOUS
    <3>2. n + 1 \in 1 .. N /\ (n + 1) - 1 = n
      BY <1>1, <3>1
    <3>3. CASE n = 0
      <4>1. F[n + 1] = <<>> \o seqs[n + 1] /\ <<>> \in Bytes
        BY <1>1, <1>5, <1>6, <3>2, <3>3, ConcatEmptySeq, ElementOfSeq, EmptySeq DEF Bytes
      <4>2. Fine(<<>>, n)
        BY <1>4, <3>3 DEF Fine
      <4>3. Fine(<<>> \o seqs[n + 1], n + 1)
        BY <1>8, <3>2, <4>1, <4>2
      <4>4. QED
        BY <3>2, <4>1, <4>3
    <3>4. CASE n # 0
      <4>1. n + 1 \in 2 .. N /\ n \in 1 .. N
        BY <3>2, <3>4
      <4>2. F[n + 1] = F[n] \o seqs[n + 1] /\ F[n] \in Bytes
        BY <1>6, <3>2, <4>1
      <4>3. QED
        BY <1>8, <3>1, <3>2, <3>4, <4>2
    <3>5. QED
      BY <3>2, <3>3, <3>4
  <2> HIDE DEF T
  <2>3. \A n \in 0 .. N : n \in T
    BY <1>1, <2>1, <2>2, IntervalInduction
  <2>4. QED
    BY <2>3 DEF T
<1>10. Fine(F[N], N)
  BY <1>1, <1>9
<1>11. F[N] \in Bytes /\ C[N] = Len(F[N])
  BY <1>1, <1>6, <1>10
<1>12. SlicePayload(metas, F[N]) = recs
  <2> DEFINE sl == SlicePayload(metas, F[N])
  <2>1. /\ sl = [i \in 1 .. N |-> [key |-> Key(F[N], i), value |-> Value(F[N], i)]]
    BY <1>2 DEF SlicePayload, C
  <2>2. \A i \in 1 .. N : sl[i] = [key |-> recs[i].key, value |-> recs[i].value]
    <3> HIDE DEF sl, Key, Value
    <3>1. QED
      BY <1>10, <2>1
  <2>3. \A i \in 1 .. N : recs[i] = [key |-> recs[i].key, value |-> recs[i].value]
    BY <1>1 DEF Sent
  <2>4. recs = [i \in 1 .. N |-> recs[i]]
    BY <1>1
  <2> HIDE DEF sl, Key, Value
  <2>5. DOMAIN sl = 1 .. N /\ sl = [i \in 1 .. N |-> sl[i]]
    BY <2>1
  <2>6. QED
    BY <2>2, <2>3, <2>4, <2>5 DEF sl
<1>13. QED
  BY <1>2, <1>7, <1>11, <1>12 DEF C, metas

-----------------------------------------------------------------------------
(* The WAL file: what is encoded decodes *)

Kept   == [off : Nat, key : Bytes, value : Bytes]
Frames == [off : Nat, keyLen : Nat, valueLen : Nat, body : Bytes, whole : BOOLEAN]

LEMMA ModBelow ==
  ASSUME NEW a \in Nat, NEW b \in Nat, a < b
  PROVE  a % b = a
  BY SMTT(30)

\* encode_record and decode_record: exactly the keys that key_len can hold come
\* back, and then the record comes back as it was.
LEMMA CodecRoundTrip ==
  ASSUME NEW r \in Kept
  PROVE  /\ EncodeRecord(r) \in Frames
         /\ EncodeRecord(r).off = r.off
         /\ EncodeRecord(r).whole
         /\ Decodes(EncodeRecord(r)) <=> ~TooLong(r)
         /\ ~TooLong(r) => DecodeRecord(EncodeRecord(r)) = r
<1> DEFINE kl == Len(r.key)
           vl == Len(r.value)
           e == EncodeRecord(r)
<1>1. /\ r.off \in Nat /\ r.key \in Seq(Nat) /\ r.value \in Seq(Nat)
      /\ r = [off |-> r.off, key |-> r.key, value |-> r.value]
  BY DEF Kept, Bytes
<1>2. /\ kl \in Nat /\ vl \in Nat /\ r.key \o r.value \in Seq(Nat)
      /\ Len(r.key \o r.value) = kl + vl
  BY <1>1, LenProperties, ConcatProperties
<1>3. KeyLenMod \in Nat /\ KeyLenMod > 0
  BY KeyLenAssumption
<1> HIDE DEF kl, vl
<1>4. kl % KeyLenMod \in Nat /\ kl % KeyLenMod < KeyLenMod
  BY <1>2, <1>3
<1>5. kl < KeyLenMod => kl % KeyLenMod = kl
  BY <1>2, <1>3, ModBelow
<1>6. /\ e.off = r.off /\ e.keyLen = kl % KeyLenMod /\ e.valueLen = vl
      /\ e.body = r.key \o r.value /\ e.whole = TRUE
  BY DEF EncodeRecord, kl, vl
<1>7. e \in Frames
  BY <1>1, <1>2, <1>4 DEF EncodeRecord, kl, vl, Frames, Bytes
<1>8. TooLong(r) <=> kl >= KeyLenMod
  BY DEF TooLong, kl
<1>9. Decodes(e) <=> kl < KeyLenMod
  <2>1. Decodes(e) <=> (kl % KeyLenMod) + vl = kl + vl
    BY <1>2, <1>6 DEF Decodes
  <2>2. QED
    BY <1>2, <1>3, <1>4, <1>5, <2>1
<1>10. ASSUME kl < KeyLenMod PROVE DecodeRecord(e) = r
  <2>1. e.keyLen = kl
    BY <1>5, <1>6, <1>10
  <2>2. SubSeq(r.key \o r.value, 1, kl) = r.key
    <3>1. <<>> \in Seq(Nat) /\ Len(<<>>) = 0 /\ <<>> \o (r.key \o r.value) = r.key \o r.value
      BY <1>2, EmptySeq, ConcatEmptySeq
    <3>2. SubSeq(<<>> \o (r.key \o r.value), Len(<<>>) + 1, Len(<<>>) + Len(r.key)) = r.key
      BY <1>1, <3>1, SliceOfMiddle
    <3>3. Len(<<>>) + 1 = 1 /\ Len(<<>>) + Len(r.key) = kl
      BY <1>2, <3>1 DEF kl
    <3>4. QED
      BY <3>1, <3>2, <3>3
  <2>3. SubSeq(r.key \o r.value, kl + 1, kl + vl) = r.value
    <3>1. <<>> \in Seq(Nat) /\ r.value \o <<>> = r.value
      BY <1>1, EmptySeq, ConcatEmptySeq
    <3>2. SubSeq(r.key \o (r.value \o <<>>), Len(r.key) + 1, Len(r.key) + Len(r.value)) = r.value
      BY <1>1, <3>1, SliceOfMiddle
    <3>3. QED
      BY <3>1, <3>2 DEF kl, vl
  <2>4. DecodeRecord(e) = [off |-> r.off, key |-> r.key, value |-> r.value]
    BY <1>6, <2>1, <2>2, <2>3 DEF DecodeRecord
  <2>5. QED
    BY <1>1, <2>4
<1>11. QED
  BY <1>2, <1>3, <1>6, <1>7, <1>8, <1>9, <1>10

-----------------------------------------------------------------------------
(* The invariants *)

IdFiles == {NoFile} \cup [id : Nat, state : {"synced"}]

IdOf(n, state) == [id |-> n, state |-> state]

\* broker_id is not there or complete, on disk too; a boot without a configured
\* id goes by it; and as long as no rename was undone it holds the one id that
\* was ever announced.
NamingInv ==
  /\ boots \in Nat /\ undone \in BOOLEAN
  /\ idFile \in idDisk /\ idDisk \subseteq IdFiles
  /\ phase \in {"naming", "tmp", "synced"} =>
       idFile = NoFile /\ toml.id = Unset /\ identity \in Nat
  /\ phase = "tmp" => idTmp = IdOf(identity, "cached")
  /\ phase = "synced" => idTmp = IdOf(identity, "synced")
  /\ phase \in {"named", "up"} /\ toml.id = Unset => idFile = IdOf(identity, "synced")
  /\ ~undone => named \subseteq {idFile.id} /\ (idFile = NoFile => named = {})

\* Whatever a power loss makes of topics.json is valid; a topic that is served
\* is the one in the file and has its manifest.
RegistryInv ==
  /\ saved \in savedDisk
  /\ \A e \in savedDisk : e = NoTopic \/ (e \in Entries /\ Valid(e.config))
  /\ phase # "up" => topic = NoTopic /\ admin = NoAdmin
  /\ topic # NoTopic =>
       saved # NoTopic /\ saved.uuid \in manifests /\ topic = saved.config
  /\ admin.op = "create" =>
       topic = NoTopic /\ saved # NoTopic /\ admin.o = saved.config
  /\ admin.op = "alter" => topic # NoTopic

\* What is stored and what runs is among what the replies leave possible.  While
\* an alteration is under way, so is its result; once a client knows that the
\* topic exists, its manifest is there; a boot that was refused for want of it
\* is the last one that gets so far.
RepliesInv ==
  ~undone =>
    /\ saved # NoTopic => saved.config \in told
    /\ topic # NoTopic => \E o \in told \ {NoTopic} : cfg = Resolve(o, toml.disk)
    /\ admin.op = "alter" => topic \in Patched(told, admin.o)
    /\ NoTopic \notin told =>
         saved # NoTopic /\ saved.uuid \in manifests /\ (phase = "up" => topic # NoTopic)
    /\ "manifest" \in refusals =>
         saved # NoTopic /\ saved.uuid \notin manifests /\ phase # "up"

SettingsInv == RegistryInv /\ RepliesInv

\* A record a client sent, under an offset.
Genuine(r) == r \in Kept /\ [key |-> r.key, value |-> r.value] \in offered

\* Frame i of the file has offset i - 1 and, unless it is torn, is the encoding
\* of a record that was sent.
FrameOK(i) ==
  /\ wal[i].off = i - 1
  /\ wal[i].whole => \E r \in Kept : Genuine(r) /\ wal[i] = EncodeRecord(r)

WalInv ==
  /\ wal \in Seq(Frames) /\ Len(wal) <= MaxFrames
  /\ synced \in 0 .. Len(wal)
  /\ offered \subseteq Sent
  /\ \A i \in 1 .. Len(wal) : FrameOK(i)

\* The records being served and the ones that wait for the sync are, in this
\* order, the frames of the file; a served record whose frame does not decode
\* was acknowledged since the boot.
LogInv ==
  /\ log \in Seq(Kept) /\ waiting \in Seq(Kept)
  /\ topic = NoTopic => log = <<>> /\ waiting = <<>>
  /\ topic # NoTopic =>
       /\ synced <= Len(log) /\ Len(wal) = Len(log) + Len(waiting)
       /\ \A i \in 1 .. Len(log) :
            /\ Genuine(log[i]) /\ wal[i] = EncodeRecord(log[i])
            /\ Decodes(wal[i]) \/ log[i] \in acked
       /\ \A i \in 1 .. Len(waiting) :
            Genuine(waiting[i]) /\ wal[Len(log) + i] = EncodeRecord(waiting[i])

\* No acknowledged record up to this one has a key that key_len cannot hold.
Clean(r) == \A q \in acked : q.off <= r.off => ~TooLong(q)

\* The synced part of the file holds every clean acknowledged record, behind
\* frames that all decode.
AckedInv ==
  \A r \in acked :
    /\ Genuine(r) /\ r.off < MaxFrames
    /\ Clean(r) => /\ r.off < synced /\ wal[r.off + 1] = EncodeRecord(r)
                   /\ \A i \in 1 .. r.off + 1 : Decodes(wal[i])

RecordsInv == WalInv /\ LogInv /\ AckedInv

\* The positions of the boot, the bounds, and the boots that were refused.
StateInv ==
  /\ phase \in {"down", "naming", "tmp", "synced", "named", "up"}
  /\ boots <= MaxBoots /\ nAdmin \in 0 .. MaxAdmin
  /\ refusals \subseteq {"cluster_id", "manifest"}
  /\ admin.op \in {"none", "create", "alter"}

FilesInv == StateInv /\ NamingInv /\ SettingsInv /\ RecordsInv

-----------------------------------------------------------------------------
(* The identity *)

LEMMA IdFileFacts ==
  /\ NoFile \in IdFiles /\ NoFile.id = Unset /\ NoFile.state = "none"
  /\ \A n \in Nat : IdOf(n, "synced") \in IdFiles /\ IdOf(n, "synced").id = n
  /\ \A f \in IdFiles : \/ f = NoFile
                        \/ f.id \in Nat /\ f.state = "synced" /\ f = IdOf(f.id, "synced")
  /\ \A f, g \in IdFiles : f.id = g.id => f = g
<1>1. Unset \notin Nat
  BY UnsetAssumption
<1>2. NoFile \in IdFiles /\ NoFile.id = Unset /\ NoFile.state = "none"
  BY DEF NoFile, IdFiles
<1>3. \A n \in Nat : IdOf(n, "synced") \in IdFiles /\ IdOf(n, "synced").id = n
  BY DEF IdOf, IdFiles
<1>4. \A f \in IdFiles : \/ f = NoFile
                         \/ f.id \in Nat /\ f.state = "synced" /\ f = IdOf(f.id, "synced")
  BY DEF IdOf, IdFiles
<1>5. QED
  BY <1>1, <1>2, <1>3, <1>4

LEMMA NamingFrame ==
  ASSUME NamingInv,
         UNCHANGED <<idFile, idTmp, idDisk, phase, toml, identity, boots, named, undone>>
  PROVE  NamingInv'
  BY DEF NamingInv

LEMMA BootNames ==
  ASSUME NamingInv, NEW c \in Tomls, Boot(c)
  PROVE  NamingInv' /\ refusals' \subseteq refusals \cup {"cluster_id"}
<1>1. /\ phase = "down" /\ boots \in Nat /\ boots' = boots + 1 /\ toml' = c
      /\ UNCHANGED <<idFile, idTmp, idDisk, named, undone>>
  BY DEF Boot, NamingInv, idVars
<1>2. idFile \in IdFiles /\ c.cluster \in BOOLEAN
  BY FilesAssumption DEF NamingInv
<1>3. CASE ~ c.cluster
  <2>1. UNCHANGED <<phase, identity>> /\ refusals' = refusals \cup {"cluster_id"}
    BY <1>3 DEF Boot, Refuse
  <2>2. QED
    BY <1>1, <2>1 DEF NamingInv
<1>4. CASE c.cluster
  <2>1. ResolveBrokerId
    BY <1>4 DEF Boot
  <2>2. CASE c.id # Unset
    <3>1. identity' = c.id /\ phase' = "named" /\ refusals' = refusals
      BY <1>1, <2>1, <2>2 DEF ResolveBrokerId, Name
    <3>2. QED
      BY <1>1, <2>2, <3>1 DEF NamingInv
  <2>3. CASE c.id = Unset /\ idFile = NoFile
    <3>1. identity' = boots /\ phase' = "naming" /\ refusals' = refusals
      BY <1>1, <2>1, <2>3, IdFileFacts DEF ResolveBrokerId, Name
    <3>2. QED
      BY <1>1, <2>3, <3>1 DEF NamingInv
  <2>4. CASE c.id = Unset /\ idFile # NoFile
    <3>1. idFile.state = "synced" /\ idFile = IdOf(idFile.id, "synced")
      BY <1>2, <2>4, IdFileFacts
    <3>2. identity' = idFile.id /\ phase' = "named" /\ refusals' = refusals
      BY <1>1, <2>1, <2>4, <3>1 DEF ResolveBrokerId, Name, ValidBrokerId
    <3>3. QED
      BY <1>1, <2>4, <3>1, <3>2 DEF NamingInv
  <2>5. QED
    BY <2>2, <2>3, <2>4
<1>5. QED
  BY <1>2, <1>3, <1>4

\* Every step of the first boot leaves broker_id absent or complete.
LEMMA WritingNames ==
  ASSUME NamingInv, WriteIdTmp \/ SyncIdTmp \/ RenameIdTmp
  PROVE  NamingInv'
<1>1. CASE WriteIdTmp
  BY <1>1 DEF WriteIdTmp, NamingInv, IdOf, histVars
<1>2. CASE SyncIdTmp
  <2>1. idTmp' = IdOf(identity, "synced")
    BY <1>2 DEF SyncIdTmp, NamingInv, IdOf
  <2>2. QED
    BY <1>2, <2>1 DEF SyncIdTmp, NamingInv, histVars
<1>3. CASE RenameIdTmp
  <2>1. /\ phase = "synced" /\ phase' = "named" /\ idTmp = IdOf(identity, "synced")
        /\ idFile' = idTmp /\ idDisk' = idDisk \cup {idTmp} /\ identity \in Nat
        /\ idFile = NoFile
        /\ UNCHANGED <<toml, identity, boots, named, undone>>
    BY <1>3 DEF RenameIdTmp, NamingInv, histVars
  <2>2. idTmp \in IdFiles
    BY <2>1, IdFileFacts
  <2>3. ~undone => named = {}
    BY <2>1 DEF NamingInv
  <2>4. QED
    BY <2>1, <2>2, <2>3 DEF NamingInv
<1>4. QED
  BY <1>1, <1>2, <1>3

LEMMA LoadNames ==
  ASSUME NamingInv, Load
  PROVE  NamingInv'
<1>1. phase = "named" /\ UNCHANGED <<idFile, idTmp, idDisk, toml, boots, undone>>
  BY DEF Load, idVars
<1>2. CASE phase' = "down" /\ named' = named
  BY <1>1, <1>2 DEF NamingInv
<1>3. CASE /\ phase' = "up" /\ identity' = identity
           /\ named' = IF toml.id = Unset THEN named \cup {identity} ELSE named
  <2>1. CASE toml.id # Unset
    BY <1>1, <1>3, <2>1 DEF NamingInv
  <2>2. CASE toml.id = Unset
    <3>1. idFile = IdOf(identity, "synced") /\ idFile.id = identity
      BY <1>1, <2>2 DEF NamingInv, IdOf
    <3>2. idFile # NoFile
      BY <3>1 DEF IdOf, NoFile
    <3>3. QED
      BY <1>1, <1>3, <2>2, <3>1, <3>2 DEF NamingInv
  <2>3. QED
    BY <2>1, <2>2
<1>4. QED
  BY <1>2, <1>3 DEF Load

\* A power loss brings back an earlier broker_id or the same one, never a torn
\* one: only synced files were renamed.
LEMMA CrashNames ==
  ASSUME NamingInv, NEW powerLoss \in BOOLEAN, Crash(powerLoss)
  PROVE  NamingInv'
<1>1. phase' = "down" /\ UNCHANGED <<toml, boots, named>>
  BY DEF Crash
<1>2. CASE ~powerLoss
  <2>1. UNCHANGED <<idFile, idDisk, undone>>
    BY <1>2 DEF Crash
  <2>2. QED
    BY <1>1, <2>1 DEF NamingInv
<1>3. CASE powerLoss
  <2>1. /\ idDisk' = {idFile'}
        /\ undone' = (undone \/ idFile'.id # idFile.id \/ saved' # saved)
    BY <1>3 DEF Crash
  <2>2. PICK f \in idDisk : idFile' = IF f.state = "cached"
                                      THEN [f EXCEPT !.state = "torn"] ELSE f
    BY <1>3 DEF Crash
  <2>3. f \in IdFiles /\ idFile \in IdFiles
    BY DEF NamingInv
  <2>4. idFile' = f
    BY <2>2, <2>3, IdFileFacts
  <2>5. undone \in BOOLEAN /\ undone' \in BOOLEAN
    BY <2>1 DEF NamingInv
  <2>6. ~undone' => ~undone /\ f = idFile
    BY <2>1, <2>3, <2>4, <2>5, IdFileFacts
  <2>7. QED
    BY <1>1, <2>1, <2>3, <2>4, <2>5, <2>6 DEF NamingInv
<1>4. QED
  BY <1>2, <1>3

LEMMA SettlingNames ==
  ASSUME NamingInv, DirectorySettles
  PROVE  NamingInv'
  BY DEF NamingInv, DirectorySettles, upVars, histVars

\* The steps of CreateTopic and AlterTopicConfig, and what they leave alone.
AdminStep ==
  \/ \E o \in Overrides : CreateSaves(o) \/ AlterSaves(o)
  \/ CreatePuts \/ CreateFails \/ CreateStarts \/ AlterPushes \/ AlterAborted

LEMMA AdminFrame ==
  ASSUME AdminStep
  PROVE  /\ UNCHANGED <<idFile, idTmp, idDisk, phase, toml, identity, boots, named, undone>>
         /\ UNCHANGED <<waiting, refusals, acked, offered>>
<1>1. CASE \E o \in Overrides : CreateSaves(o) \/ AlterSaves(o)
  BY <1>1 DEF CreateSaves, AlterSaves, Save, idVars
<1>2. CASE CreatePuts
  BY <1>2 DEF CreatePuts, idVars, upVars, histVars
<1>3. CASE CreateFails \/ CreateStarts \/ AlterPushes \/ AlterAborted
  BY <1>3 DEF CreateFails, CreateStarts, AlterPushes, AlterAborted, Answer, idVars
<1>4. QED
  BY <1>1, <1>2, <1>3 DEF AdminStep

LEMMA NamingStep ==
  ASSUME NamingInv, Next
  PROVE  NamingInv'
<1>1. CASE \E c \in Tomls : Boot(c)
  BY <1>1, BootNames
<1>2. CASE WriteIdTmp \/ SyncIdTmp \/ RenameIdTmp
  BY <1>2, WritingNames
<1>3. CASE Load
  BY <1>3, LoadNames
<1>4. CASE AdminStep
  <2>1. UNCHANGED <<idFile, idTmp, idDisk, phase, toml, identity, boots, named, undone>>
    BY <1>4, AdminFrame
  <2>2. QED
    BY <2>1, NamingFrame
<1>5. CASE \E recs \in Batches : \E p \in Payloads(recs) : Produce(recs, p)
  BY <1>5, NamingFrame DEF Produce, idVars
<1>6. CASE SyncAndAck
  BY <1>6, NamingFrame DEF SyncAndAck, idVars
<1>7. CASE \E powerLoss \in BOOLEAN : Crash(powerLoss)
  BY <1>7, CrashNames
<1>8. CASE DirectorySettles
  BY <1>8, SettlingNames
<1>9. QED
  BY <1>1, <1>2, <1>3, <1>4, <1>5, <1>6, <1>7, <1>8 DEF Next, AdminStep

-----------------------------------------------------------------------------
(* The configuration *)

LEMMA MergeTyped ==
  ASSUME NEW o \in Settings, NEW patch \in Settings
  PROVE  Merge(o, patch) \in Settings /\ Merge(o, patch) # NoTopic
<1>1. \A f \in Field : patch[f] \in Int \cup {Unset} /\ o[f] \in Int \cup {Unset}
  BY DEF Settings
<1>2. Merge(o, patch) \in [Field -> Int \cup {Unset}]
  BY <1>1 DEF Merge
<1>3. QED
  BY <1>2, UnsetAssumption DEF Settings, NoTopic

\* What a patch makes of something possible is possible after it.
LEMMA PatchedHas ==
  ASSUME NEW S, NEW o \in S, o # NoTopic, NEW patch
  PROVE  Merge(o, patch) \in Patched(S, patch)
  BY DEF Merge, Patched

LEMMA PatchedGrows ==
  ASSUME NEW S, NEW T, S \subseteq T, NEW patch
  PROVE  Patched(S, patch) \subseteq Patched(T, patch)
  BY DEF Patched

\* An entry is not the lack of one, and its overrides are not either.
LEMMA EntryFacts ==
  /\ \A e \in Entries : e # NoTopic /\ e.uuid \in Nat /\ e.config \in Settings
                         /\ e.config # NoTopic
  /\ \A n \in Nat, o \in Settings : /\ [uuid |-> n, config |-> o] \in Entries
                                     /\ [uuid |-> n, config |-> o].uuid = n
                                     /\ [uuid |-> n, config |-> o].config = o
  /\ \A o \in Overrides : o \in Settings /\ o # NoTopic
  /\ NoAdmin.op = "none"
  BY FilesAssumption, UnsetAssumption DEF Entries, NoTopic, NoAdmin

LEMMA SavedEntry ==
  ASSUME RegistryInv, saved # NoTopic
  PROVE  saved \in Entries /\ Valid(saved.config)
  BY DEF RegistryInv

LEMMA CreateSavesSettles ==
  ASSUME SettingsInv, nAdmin \in Nat, NEW o \in Overrides, CreateSaves(o)
  PROVE  SettingsInv'
<1> DEFINE e == [uuid |-> nAdmin, config |-> o]
<1>1. /\ topic = NoTopic /\ phase = "up" /\ admin = NoAdmin /\ Valid(o)
      /\ saved' = e /\ savedDisk' = savedDisk \cup {e}
      /\ admin'.op = "create" /\ admin'.o = o /\ told' = told \cup {o}
      /\ UNCHANGED <<topic, phase, manifests, toml, cfg, undone, refusals>>
  BY DEF CreateSaves, Save
<1>2. e \in Entries /\ e # NoTopic /\ e.config = o
  BY EntryFacts
<1> HIDE DEF e
<1>3. RegistryInv'
  BY <1>1, <1>2 DEF SettingsInv, RegistryInv
<1>4. ASSUME ~undone' PROVE NoTopic \in told' /\ "manifest" \notin refusals'
  BY <1>1, <1>4 DEF SettingsInv, RepliesInv
<1>5. RepliesInv'
  BY <1>1, <1>2, <1>4 DEF RepliesInv
<1>6. QED
  BY <1>3, <1>5 DEF SettingsInv

LEMMA CreatePutsSettles ==
  ASSUME SettingsInv, CreatePuts
  PROVE  SettingsInv'
<1>1. /\ admin.op = "create" /\ manifests' = manifests \cup {saved.uuid}
      /\ UNCHANGED <<saved, savedDisk, topic, phase, toml, cfg, admin, undone, refusals, told>>
  BY DEF CreatePuts, upVars, histVars
<1>2. phase = "up" /\ topic = NoTopic
  BY <1>1, EntryFacts DEF SettingsInv, RegistryInv
<1>3. RegistryInv'
  BY <1>1, <1>2 DEF SettingsInv, RegistryInv
<1>4. RepliesInv'
  BY <1>1, <1>2 DEF SettingsInv, RepliesInv
<1>5. QED
  BY <1>3, <1>4 DEF SettingsInv

LEMMA CreateFailsSettles ==
  ASSUME SettingsInv, CreateFails
  PROVE  SettingsInv'
<1>1. /\ admin.op = "create" /\ manifests \subseteq manifests'
      /\ admin' = NoAdmin
      /\ UNCHANGED <<saved, savedDisk, topic, phase, toml, cfg, undone, refusals, told>>
  BY DEF CreateFails, Answer
<1>2. phase = "up" /\ topic = NoTopic /\ NoAdmin.op = "none"
  BY <1>1, EntryFacts DEF SettingsInv, RegistryInv
<1>3. RegistryInv'
  BY <1>1, <1>2 DEF SettingsInv, RegistryInv
<1>4. RepliesInv'
  BY <1>1, <1>2 DEF SettingsInv, RepliesInv
<1>5. QED
  BY <1>3, <1>4 DEF SettingsInv

LEMMA CreateStartsSettles ==
  ASSUME SettingsInv, CreateStarts
  PROVE  SettingsInv'
<1> DEFINE o == admin.o
<1>1. /\ admin.op = "create" /\ saved.uuid \in manifests
      /\ admin' = NoAdmin /\ topic' = o /\ cfg' = Resolve(o, toml.disk) /\ told' = {o}
      /\ UNCHANGED <<saved, savedDisk, manifests, phase, toml, undone, refusals>>
  BY DEF CreateStarts, Answer, StartPartition
<1>2. /\ phase = "up" /\ NoAdmin.op = "none" /\ saved # NoTopic /\ o = saved.config
  BY <1>1, EntryFacts DEF SettingsInv, RegistryInv
<1>3. o # NoTopic
  BY <1>2, SavedEntry, EntryFacts DEF SettingsInv
<1> HIDE DEF o
<1>4. RegistryInv'
  BY <1>1, <1>2, <1>3 DEF SettingsInv, RegistryInv
<1>5. ~undone' => "manifest" \notin refusals'
  BY <1>1, <1>2 DEF SettingsInv, RepliesInv
<1>6. RepliesInv'
  BY <1>1, <1>2, <1>3, <1>5 DEF RepliesInv
<1>7. QED
  BY <1>4, <1>6 DEF SettingsInv

LEMMA AlterSavesSettles ==
  ASSUME SettingsInv, NEW patch \in Overrides, AlterSaves(patch)
  PROVE  SettingsInv'
<1> DEFINE o == Merge(topic, patch)
           e == [uuid |-> saved.uuid, config |-> o]
<1>1. /\ topic # NoTopic /\ phase = "up" /\ admin = NoAdmin /\ Valid(o)
      /\ saved' = e /\ savedDisk' = savedDisk \cup {e} /\ topic' = o
      /\ admin'.op = "alter" /\ admin'.o = patch /\ told' = told \cup Patched(told, patch)
      /\ UNCHANGED <<phase, manifests, toml, cfg, undone, refusals>>
  BY DEF AlterSaves, Save
<1>2. /\ saved # NoTopic /\ saved.uuid \in manifests /\ topic = saved.config
      /\ saved.uuid \in Nat /\ topic \in Settings /\ patch \in Settings
  BY <1>1, SavedEntry, EntryFacts DEF SettingsInv, RegistryInv
<1>3. o \in Settings /\ o # NoTopic
  BY <1>2, MergeTyped
<1>4. e \in Entries /\ e # NoTopic /\ e.config = o /\ e.uuid = saved.uuid
  BY <1>2, <1>3, EntryFacts
<1>5. ~undone => topic \in told
  BY <1>2 DEF SettingsInv, RepliesInv
<1>6. ~undone => o \in Patched(told, patch)
  BY <1>1, <1>5, PatchedHas
<1>7. ~undone => o \in Patched(told', patch)
  BY <1>1, <1>6, PatchedGrows
<1> HIDE DEF o, e
<1>8. RegistryInv'
  BY <1>1, <1>2, <1>3, <1>4 DEF SettingsInv, RegistryInv
<1>9. ~undone => \E q \in told \ {NoTopic} : cfg = Resolve(q, toml.disk)
  BY <1>1 DEF SettingsInv, RepliesInv
<1>10. RepliesInv'
  <2>1. SUFFICES ASSUME ~undone
                 PROVE  /\ saved'.config \in told'
                        /\ \E q \in told' \ {NoTopic} : cfg' = Resolve(q, toml'.disk)
                        /\ topic' \in Patched(told', admin'.o)
                        /\ saved' # NoTopic /\ saved'.uuid \in manifests' /\ topic' # NoTopic
                        /\ "manifest" \notin refusals'
    BY <1>1 DEF RepliesInv
  <2>2. saved'.config \in told' /\ saved' # NoTopic /\ saved'.uuid \in manifests'
    BY <1>1, <1>2, <1>4, <1>6, <2>1
  <2>3. \E q \in told' \ {NoTopic} : cfg' = Resolve(q, toml'.disk)
    <3>1. PICK q \in told \ {NoTopic} : cfg = Resolve(q, toml.disk)
      BY <1>9, <2>1
    <3>2. q \in told' \ {NoTopic} /\ cfg' = Resolve(q, toml'.disk)
      BY <1>1, <3>1
    <3>3. QED
      BY <3>2
  <2>4. topic' \in Patched(told', admin'.o) /\ topic' # NoTopic
    BY <1>1, <1>3, <1>7, <2>1
  <2>5. "manifest" \notin refusals'
    BY <1>1, <2>1 DEF SettingsInv, RepliesInv
  <2>6. QED
    BY <2>2, <2>3, <2>4, <2>5
<1>11. QED
  BY <1>8, <1>10 DEF SettingsInv

LEMMA AlterPushesSettles ==
  ASSUME SettingsInv, AlterPushes
  PROVE  SettingsInv'
<1>1. /\ admin.op = "alter" /\ admin' = NoAdmin /\ told' = Patched(told, admin.o)
      /\ cfg' = Resolve(topic, toml.disk)
      /\ UNCHANGED <<saved, savedDisk, manifests, topic, phase, toml, undone, refusals>>
  BY DEF AlterPushes, Answer
<1>2. /\ topic # NoTopic /\ NoAdmin.op = "none" /\ phase = "up"
      /\ saved # NoTopic /\ saved.uuid \in manifests /\ topic = saved.config
  BY <1>1, EntryFacts DEF SettingsInv, RegistryInv
<1>3. ~undone => topic \in told' /\ "manifest" \notin refusals
  BY <1>1, <1>2 DEF SettingsInv, RepliesInv
<1>4. RegistryInv'
  BY <1>1, <1>2 DEF SettingsInv, RegistryInv
<1>5. RepliesInv'
  BY <1>1, <1>2, <1>3 DEF RepliesInv
<1>6. QED
  BY <1>4, <1>5 DEF SettingsInv

LEMMA AlterAbortedSettles ==
  ASSUME SettingsInv, AlterAborted
  PROVE  SettingsInv'
<1>1. /\ admin' = NoAdmin /\ NoAdmin.op = "none"
      /\ UNCHANGED <<saved, savedDisk, manifests, topic, phase, toml, cfg, undone, refusals, told>>
  BY EntryFacts DEF AlterAborted, Answer
<1>2. RegistryInv'
  BY <1>1 DEF SettingsInv, RegistryInv
<1>3. RepliesInv'
  BY <1>1 DEF SettingsInv, RepliesInv
<1>4. QED
  BY <1>2, <1>3 DEF SettingsInv

LEMMA LoadSettles ==
  ASSUME SettingsInv, Load
  PROVE  SettingsInv' /\ refusals' \subseteq refusals \cup {"manifest"}
<1>1. /\ phase = "named" /\ topic = NoTopic /\ admin = NoAdmin /\ NoAdmin.op = "none"
      /\ refusals' = refusals \cup LoadRefused
      /\ UNCHANGED <<saved, savedDisk, manifests, toml, admin, told, undone>>
  BY EntryFacts DEF Load, SettingsInv, RegistryInv, topicVars
<1>2. CASE saved = NoTopic
  <2>1. LoadRefused = {}
    BY <1>2 DEF LoadRefused
  <2>2. UNCHANGED <<topic, cfg, refusals>> /\ phase' = "up"
    BY <1>1, <1>2, <2>1 DEF Load
  <2>3. RegistryInv'
    BY <1>1, <2>2 DEF SettingsInv, RegistryInv
  <2>4. RepliesInv'
    BY <1>1, <1>2, <2>2 DEF SettingsInv, RepliesInv
  <2>5. QED
    BY <2>2, <2>3, <2>4 DEF SettingsInv
<1>3. CASE saved # NoTopic /\ saved.uuid \notin manifests
  <2>1. LoadRefused = {"manifest"}
    BY <1>3, SavedEntry DEF LoadRefused, SettingsInv
  <2>2. topic' = NoTopic /\ phase' = "down" /\ refusals' = refusals \cup {"manifest"}
    BY <1>1, <2>1 DEF Load
  <2>3. RegistryInv'
    BY <1>1, <2>2 DEF SettingsInv, RegistryInv
  <2>4. RepliesInv'
    BY <1>1, <1>3, <2>2 DEF SettingsInv, RepliesInv
  <2>5. QED
    BY <2>2, <2>3, <2>4 DEF SettingsInv
<1>4. CASE saved # NoTopic /\ saved.uuid \in manifests
  <2>1. LoadRefused = {}
    BY <1>4, SavedEntry DEF LoadRefused, SettingsInv
  <2>2. /\ topic' = saved.config /\ cfg' = Resolve(saved.config, toml.disk) /\ phase' = "up"
        /\ refusals' = refusals
    BY <1>1, <1>4, <2>1 DEF Load, StartPartition
  <2>3. saved.config # NoTopic
    BY <1>4, SavedEntry, EntryFacts DEF SettingsInv
  <2>4. RegistryInv'
    BY <1>1, <1>4, <2>2, <2>3 DEF SettingsInv, RegistryInv
  <2>5. RepliesInv'
    BY <1>1, <1>4, <2>2, <2>3 DEF SettingsInv, RepliesInv
  <2>6. QED
    BY <2>2, <2>4, <2>5 DEF SettingsInv
<1>5. QED
  BY <1>2, <1>3, <1>4

LEMMA CrashSettles ==
  ASSUME SettingsInv, NamingInv, NEW powerLoss \in BOOLEAN, Crash(powerLoss)
  PROVE  SettingsInv'
<1>1. /\ phase' = "down" /\ topic' = NoTopic /\ admin' = NoAdmin /\ NoAdmin.op = "none"
      /\ UNCHANGED <<manifests, told, refusals>>
  BY EntryFacts DEF Crash
<1>2. /\ saved' \in savedDisk' /\ savedDisk' \subseteq savedDisk
      /\ ~undone' => ~undone /\ saved' = saved
  <2>1. CASE ~powerLoss
    BY <2>1 DEF Crash, SettingsInv, RegistryInv
  <2>2. CASE powerLoss
    <3>1. /\ saved' \in savedDisk /\ savedDisk' = {saved'}
          /\ undone' = (undone \/ idFile'.id # idFile.id \/ saved' # saved)
      BY <2>2 DEF Crash
    <3>2. undone \in BOOLEAN
      BY DEF NamingInv
    <3>3. QED
      BY <3>1, <3>2
  <2>3. QED
    BY <2>1, <2>2
<1>3. RegistryInv'
  BY <1>1, <1>2 DEF SettingsInv, RegistryInv
<1>4. RepliesInv'
  BY <1>1, <1>2 DEF SettingsInv, RepliesInv
<1>5. QED
  BY <1>3, <1>4 DEF SettingsInv

LEMMA SettingsFrame ==
  ASSUME SettingsInv, phase' = "up" <=> phase = "up",
         phase = "up" => UNCHANGED <<cfg, toml>>,
         UNCHANGED <<saved, savedDisk, manifests, topic, admin, told, undone>>,
         "manifest" \in refusals' => "manifest" \in refusals
  PROVE  SettingsInv'
<1>1. RegistryInv'
  BY DEF SettingsInv, RegistryInv
<1>2. RepliesInv'
  BY DEF SettingsInv, RegistryInv, RepliesInv
<1>3. QED
  BY <1>1, <1>2 DEF SettingsInv

LEMMA SettingsStep ==
  ASSUME StateInv, SettingsInv, NamingInv, Next
  PROVE  SettingsInv'
<1>0. nAdmin \in Nat
  BY FilesAssumption DEF StateInv
<1>1. CASE \E c \in Tomls : Boot(c)
  <2>1. PICK c \in Tomls : Boot(c)
    BY <1>1
  <2>2. /\ phase = "down"
        /\ UNCHANGED <<saved, savedDisk, manifests, topic, admin, told, undone>>
    BY <2>1 DEF Boot, topicVars
  <2>3. phase' # "up"
    <3>1. c.cluster \in BOOLEAN
      BY FilesAssumption
    <3>2. QED
      BY <2>1, <2>2, <3>1 DEF Boot, Refuse, ResolveBrokerId, Name
  <2>4. "manifest" \in refusals' => "manifest" \in refusals
    BY <2>1, BootNames
  <2>5. QED
    BY <2>2, <2>3, <2>4, SettingsFrame
<1>2. CASE WriteIdTmp \/ SyncIdTmp \/ RenameIdTmp
  <2>1. /\ phase # "up" /\ phase' # "up" /\ refusals' = refusals
        /\ UNCHANGED <<saved, savedDisk, manifests, topic, admin, told, undone>>
    BY <1>2 DEF WriteIdTmp, SyncIdTmp, RenameIdTmp, topicVars, histVars
  <2>2. QED
    BY <2>1, SettingsFrame
<1>3. CASE Load
  BY <1>3, LoadSettles
<1>4. CASE AdminStep
  BY <1>0, <1>4, CreateSavesSettles, CreatePutsSettles, CreateFailsSettles,
     CreateStartsSettles, AlterSavesSettles, AlterPushesSettles, AlterAbortedSettles
     DEF AdminStep
<1>5. CASE \E recs \in Batches : \E p \in Payloads(recs) : Produce(recs, p)
  <2>1. UNCHANGED <<phase, cfg, toml, saved, savedDisk, manifests, topic, admin, told,
                    undone, refusals>>
    BY <1>5 DEF Produce, topicVars
  <2>2. QED
    BY <2>1, SettingsFrame
<1>6. CASE SyncAndAck
  <2>1. UNCHANGED <<phase, cfg, toml, saved, savedDisk, manifests, topic, admin, told,
                    undone, refusals>>
    BY <1>6 DEF SyncAndAck, topicVars
  <2>2. QED
    BY <2>1, SettingsFrame
<1>7. CASE \E powerLoss \in BOOLEAN : Crash(powerLoss)
  BY <1>7, CrashSettles
<1>8. CASE DirectorySettles
  <2>1. /\ UNCHANGED <<phase, cfg, toml, saved, manifests, topic, admin, told, undone, refusals>>
        /\ savedDisk' = {saved} /\ saved \in savedDisk
    BY <1>8 DEF DirectorySettles, upVars, histVars, SettingsInv, RegistryInv
  <2>2. RegistryInv'
    BY <2>1 DEF SettingsInv, RegistryInv
  <2>3. RepliesInv'
    BY <2>1 DEF SettingsInv, RepliesInv
  <2>4. QED
    BY <2>2, <2>3 DEF SettingsInv
<1>9. QED
  BY <1>1, <1>2, <1>3, <1>4, <1>5, <1>6, <1>7, <1>8 DEF Next, AdminStep

-----------------------------------------------------------------------------
(* The records *)

LEMMA RecordsFrame ==
  ASSUME RecordsInv, UNCHANGED <<wal, synced, log, waiting, acked, offered>>,
         topic' = NoTopic <=> topic = NoTopic
  PROVE  RecordsInv'
<1>1. WalInv'
  BY DEF RecordsInv, WalInv, FrameOK, Genuine
<1>2. LogInv'
  BY DEF RecordsInv, LogInv, Genuine
<1>3. AckedInv'
  BY DEF RecordsInv, AckedInv, Genuine, Clean
<1>4. QED
  BY <1>1, <1>2, <1>3 DEF RecordsInv

LEMMA PrefixOf ==
  ASSUME NEW S, NEW s \in Seq(S), NEW n \in 0 .. Len(s)
  PROVE  /\ SubSeq(s, 1, n) \in Seq(S) /\ Len(SubSeq(s, 1, n)) = n
         /\ \A i \in 1 .. n : SubSeq(s, 1, n)[i] = s[i]
<1>1. Len(s) \in Nat /\ \A i \in 1 .. Len(s) : s[i] \in S
  BY LenProperties, ElementOfSeq
<1>2. n \in Nat /\ \A i \in 1 .. n : s[i] \in S /\ (1 + i) - 1 = i
  BY <1>1
<1>3. /\ SubSeq(s, 1, n) \in Seq(S)
      /\ Len(SubSeq(s, 1, n)) = IF 1 <= n THEN n - 1 + 1 ELSE 0
      /\ \A i \in 1 .. n - 1 + 1 : SubSeq(s, 1, n)[i] = s[1 + i - 1]
  BY <1>2, SubSeqProperties
<1>4. n - 1 + 1 = n /\ \A i \in 1 .. n : 1 + i - 1 = i
  BY <1>2
<1>5. Len(SubSeq(s, 1, n)) = n
  BY <1>2, <1>3, <1>4
<1>6. QED
  BY <1>3, <1>4, <1>5

\* scan_wal keeps the longest part of the file whose frames decode.
LEMMA ScanKeeps ==
  ASSUME NEW file \in Seq(Frames)
  PROVE  \E m \in 0 .. Len(file) :
           /\ ScanWal(file) = SubSeq(file, 1, m)
           /\ \A i \in 1 .. m : Decodes(file[i])
           /\ \A n \in 0 .. Len(file) : (\A i \in 1 .. n : Decodes(file[i])) => n <= m
<1> DEFINE Good == {n \in 0 .. Len(file) : \A i \in 1 .. n : Decodes(file[i])}
<1>1. Len(file) \in Nat /\ Len(file) \in Int
  BY LenProperties
<1>2. Good \in SUBSET Int /\ 0 \in Good /\ Good # {} /\ \A x \in Good : x <= Len(file)
  BY <1>1
<1>3. Max(Good) \in Good /\ \A x \in Good : x <= Max(Good)
  <2> HIDE DEF Good
  <2>1. QED
    BY <1>1, <1>2, MaxOfBounded
<1>4. ScanWal(file) = SubSeq(file, 1, Max(Good))
  BY DEF ScanWal
<1> DEFINE m == Max(Good)
<1>5. m \in 0 .. Len(file) /\ \A i \in 1 .. m : Decodes(file[i])
  <2> HIDE DEF m
  <2>1. m \in Good
    BY <1>3 DEF m
  <2>2. QED
    BY <2>1
<1>6. \A n \in 0 .. Len(file) : (\A i \in 1 .. n : Decodes(file[i])) => n <= m
  <2> HIDE DEF m
  <2>1. \A x \in Good : x <= m
    BY <1>3 DEF m
  <2>2. QED
    BY <2>1
<1> HIDE DEF m, Good
<1>7. QED
  BY <1>4, <1>5, <1>6 DEF m

\* A frame that decodes is whole: its record was sent, and is the one that
\* decode_record returns.
LEMMA DecodedGenuine ==
  ASSUME WalInv, NEW i \in 1 .. Len(wal), Decodes(wal[i])
  PROVE  /\ Genuine(DecodeRecord(wal[i]))
         /\ wal[i] = EncodeRecord(DecodeRecord(wal[i]))
         /\ DecodeRecord(wal[i]).off = i - 1
<1>1. wal[i].whole /\ FrameOK(i)
  BY DEF Decodes, WalInv
<1>2. PICK r \in Kept : Genuine(r) /\ wal[i] = EncodeRecord(r)
  BY <1>1 DEF FrameOK
<1>3. DecodeRecord(wal[i]) = r /\ r.off = wal[i].off
  BY <1>2, CodecRoundTrip
<1>4. QED
  BY <1>1, <1>2, <1>3 DEF FrameOK

\* Recovery: the frames that decode are served as they were sent, and none of
\* the clean acknowledged records is cut off.
LEMMA StartServes ==
  ASSUME RecordsInv, NEW o, o # NoTopic, topic = NoTopic, StartPartition(o),
         UNCHANGED <<waiting, acked, offered>>
  PROVE  RecordsInv'
<1>1. /\ wal \in Seq(Frames) /\ synced \in 0 .. Len(wal) /\ Len(wal) <= MaxFrames
      /\ waiting = <<>> /\ Len(wal) \in Nat
  BY LenProperties DEF RecordsInv, WalInv, LogInv
<1>2. PICK m \in 0 .. Len(wal) :
        /\ ScanWal(wal) = SubSeq(wal, 1, m)
        /\ \A i \in 1 .. m : Decodes(wal[i])
        /\ \A n \in 0 .. Len(wal) : (\A i \in 1 .. n : Decodes(wal[i])) => n <= m
  BY <1>1, ScanKeeps
<1>3. /\ wal' \in Seq(Frames) /\ Len(wal') = m /\ \A i \in 1 .. m : wal'[i] = wal[i]
  BY <1>1, <1>2, PrefixOf DEF StartPartition, RecoverWalFile
<1>4. m \in Nat /\ m <= Len(wal)
  BY <1>1
<1>5. synced' \in 0 .. m /\ (synced' = synced \/ synced' = m)
  <2>1. CASE wal' = wal
    BY <1>1, <1>3, <2>1 DEF StartPartition
  <2>2. CASE wal' # wal
    BY <1>3, <1>4, <2>2 DEF StartPartition
  <2>3. QED
    BY <2>1, <2>2
<1>6. WalInv'
  <2>1. \A i \in 1 .. m : FrameOK(i)'
    <3> TAKE i \in 1 .. m
    <3>1. i \in 1 .. Len(wal)
      BY <1>4
    <3>2. FrameOK(i)
      BY <3>1 DEF RecordsInv, WalInv
    <3>3. QED
      BY <1>3, <3>2 DEF FrameOK, Genuine
  <2>3. Len(wal') <= MaxFrames
    BY <1>1, <1>3, <1>4, FilesAssumption
  <2>4. QED
    BY <1>3, <1>5, <2>1, <2>3 DEF RecordsInv, WalInv
<1>7. /\ log' \in Seq(Kept) /\ Len(log') = m
      /\ \A i \in 1 .. m : log'[i] = DecodeRecord(wal[i])
  <2>1. log' = [i \in 1 .. m |-> DecodeRecord(SubSeq(wal, 1, m)[i])]
    <3>1. DOMAIN SubSeq(wal, 1, m) = 1 .. m
      BY <1>1, <1>4, PrefixOf, LenProperties
    <3>2. QED
      BY <1>2, <3>1 DEF StartPartition, Records
  <2>2. \A i \in 1 .. m : SubSeq(wal, 1, m)[i] = wal[i]
    BY <1>1, PrefixOf
  <2>3. \A i \in 1 .. m : DecodeRecord(wal[i]) \in Kept
    <3> TAKE i \in 1 .. m
    <3>1. i \in 1 .. Len(wal) /\ Decodes(wal[i])
      BY <1>2, <1>4
    <3>2. QED
      BY <3>1, DecodedGenuine DEF RecordsInv, Genuine
  <2>4. log' \in [1 .. m -> Kept] /\ \A i \in 1 .. m : log'[i] = DecodeRecord(wal[i])
    BY <2>1, <2>2, <2>3
  <2>5. QED
    BY <1>4, <2>4, FunctionIsSeq
<1>8. LogInv'
  <2>1. topic' = o /\ waiting' = <<>> /\ Len(waiting') = 0 /\ waiting' \in Seq(Kept)
    BY <1>1, EmptySeq DEF StartPartition
  <2>2. ASSUME NEW i \in 1 .. m
        PROVE  /\ Genuine(log[i])' /\ wal'[i] = EncodeRecord(log'[i])
               /\ Decodes(wal'[i])
    <3>1. i \in 1 .. Len(wal) /\ Decodes(wal[i])
      BY <1>2, <1>4
    <3>2. Genuine(DecodeRecord(wal[i])) /\ wal[i] = EncodeRecord(DecodeRecord(wal[i]))
      BY <3>1, DecodedGenuine DEF RecordsInv
    <3>3. QED
      BY <1>3, <1>7, <3>1, <3>2 DEF Genuine
  <2>3. synced' <= Len(log') /\ Len(wal') = Len(log') + Len(waiting')
    BY <1>3, <1>4, <1>5, <1>7, <2>1
  <2>4. \A i \in 1 .. Len(waiting') : FALSE
    BY <2>1
  <2>5. \A i \in 1 .. Len(log') :
          /\ Genuine(log[i])' /\ wal'[i] = EncodeRecord(log'[i])
          /\ Decodes(wal'[i]) \/ log'[i] \in acked'
    BY <1>7, <2>2
  <2>6. QED
    BY <1>7, <2>1, <2>3, <2>4, <2>5 DEF LogInv
<1>9. AckedInv'
  <2>1. SUFFICES ASSUME NEW r \in acked
                 PROVE  /\ Genuine(r)' /\ r.off < MaxFrames
                        /\ Clean(r)' => /\ r.off < synced' /\ wal'[r.off + 1] = EncodeRecord(r)
                                        /\ \A i \in 1 .. r.off + 1 : Decodes(wal'[i])
    BY DEF AckedInv
  <2>2. /\ Genuine(r) /\ r.off < MaxFrames
        /\ Clean(r) => /\ r.off < synced /\ wal[r.off + 1] = EncodeRecord(r)
                       /\ \A i \in 1 .. r.off + 1 : Decodes(wal[i])
    BY DEF RecordsInv, AckedInv
  <2>3. Genuine(r)' /\ (Clean(r)' <=> Clean(r))
    BY <2>2 DEF Genuine, Clean
  <2>4. ASSUME Clean(r)
        PROVE  /\ r.off < synced' /\ wal'[r.off + 1] = EncodeRecord(r)
               /\ \A i \in 1 .. r.off + 1 : Decodes(wal'[i])
    <3>1. r.off \in Nat
      BY <2>2 DEF Genuine, Kept
    <3>2. r.off + 1 \in 0 .. Len(wal)
      BY <1>1, <2>2, <2>4, <3>1
    <3>3. r.off + 1 <= m
      BY <1>2, <2>2, <2>4, <3>2
    <3>4. r.off < synced'
      BY <1>1, <1>4, <1>5, <2>2, <2>4, <3>1, <3>3
    <3>5. \A i \in 1 .. r.off + 1 : i \in 1 .. m
      BY <1>4, <3>1, <3>3
    <3>6. r.off + 1 \in 1 .. r.off + 1
      BY <3>1
    <3>7. QED
      BY <1>3, <2>2, <2>4, <3>4, <3>5, <3>6
  <2>5. QED
    BY <2>2, <2>3, <2>4
<1>10. QED
  BY <1>6, <1>8, <1>9 DEF RecordsInv

\* validate_payload_length leaves one payload: the one that was declared.
LEMMA OnlyDeclaredFits ==
  ASSUME NEW recs \in Seq(Sent), recs # <<>>, NEW p \in Payloads(recs),
         PayloadFits(MetasOf(recs), p)
  PROVE  SlicePayload(MetasOf(recs), p) = recs
<1> DEFINE q == PayloadOf(recs)
<1>1. Len(recs) > 0
  BY EmptySeq
<1>2. q \in Seq(Nat) /\ Len(q) = Len(p) /\ SlicePayload(MetasOf(recs), q) = recs
  BY <1>1, RoundTrip DEF PayloadFits, Bytes
<1>3. p \in {q, Append(q, 0)} \cup (IF q = <<>> THEN {} ELSE {Front(q)})
  BY DEF Payloads
<1> HIDE DEF q
<1>4. Len(q) \in Nat /\ Len(Append(q, 0)) = Len(q) + 1
  BY <1>2, LenProperties, AppendProperties
<1>5. ASSUME q # <<>> PROVE Len(Front(q)) = Len(q) - 1
  <2>1. Len(q) - 1 \in 0 .. Len(q)
    BY <1>2, <1>4, <1>5, EmptySeq
  <2>2. QED
    BY <1>2, <2>1, PrefixOf DEF Front
<1>6. p = q
  BY <1>2, <1>3, <1>4, <1>5
<1>7. QED
  BY <1>2, <1>6

\* A batch goes to the end of the file, each record as it was sent and under
\* the next offset.
LEMMA ProduceWrites ==
  ASSUME RecordsInv, NEW recs \in Batches, NEW p \in Payloads(recs), Produce(recs, p)
  PROVE  RecordsInv'
<1> DEFINE n == Len(recs)
           new == [i \in 1 .. n |-> [off |-> Len(log) + i - 1, key |-> recs[i].key,
                                     value |-> recs[i].value]]
           add == [i \in 1 .. n |-> EncodeRecord(new[i])]
<1>1. /\ topic # NoTopic /\ waiting = <<>> /\ recs # <<>>
      /\ PayloadFits(MetasOf(recs), p)
      /\ Len(wal) + Len(MetasOf(recs)) <= MaxFrames
      /\ offered' = offered \cup ToSet(recs)
      /\ UNCHANGED <<synced, topic, log, acked>>
  BY DEF Produce
<1>2. recs \in Seq(Sent)
  BY FilesAssumption DEF Sent, Bytes
<1>3. /\ SlicePayload(MetasOf(recs), p) = recs /\ Len(MetasOf(recs)) = n
      /\ n \in Nat /\ DOMAIN recs = 1 .. n
  BY <1>1, <1>2, OnlyDeclaredFits, MetasTyped, LenProperties
<1>4. waiting' = new /\ wal' = wal \o add
  <2>1. waiting' = [i \in DOMAIN recs |-> [off |-> Len(log) + i - 1, key |-> recs[i].key,
                                           value |-> recs[i].value]]
    BY <1>3 DEF Produce
  <2>2. wal' = wal \o [i \in DOMAIN waiting' |-> EncodeRecord(waiting'[i])]
    BY DEF Produce
  <2>3. waiting' = new
    BY <1>3, <2>1
  <2>4. DOMAIN new = 1 .. n
    OBVIOUS
  <2> HIDE DEF new
  <2>5. QED
    BY <2>2, <2>3, <2>4
<1>5. /\ wal \in Seq(Frames) /\ Len(wal) \in Nat /\ log \in Seq(Kept) /\ Len(log) \in Nat
      /\ offered \subseteq Sent /\ synced \in 0 .. Len(wal) /\ synced <= Len(log)
      /\ Len(wal) = Len(log)
  BY <1>1, LenProperties, EmptySeq DEF RecordsInv, WalInv, LogInv
<1>6. \A i \in 1 .. n : recs[i] \in Sent /\ recs[i] \in ToSet(recs)
  BY <1>2, <1>3, ElementOfSeq DEF ToSet
<1>7. offered' \subseteq Sent /\ offered \subseteq offered'
  <2>1. ToSet(recs) \subseteq Sent
    BY <1>3, <1>6 DEF ToSet
  <2>2. QED
    BY <1>1, <1>5, <2>1
<1> HIDE DEF n
<1>8. ASSUME NEW i \in 1 .. n
      PROVE  /\ new[i] \in Kept /\ new[i].off = Len(log) + i - 1
             /\ [key |-> new[i].key, value |-> new[i].value] \in offered'
             /\ add[i] = EncodeRecord(new[i])
  <2>1. /\ new[i] = [off |-> Len(log) + i - 1, key |-> recs[i].key, value |-> recs[i].value]
        /\ add[i] = EncodeRecord(new[i])
    OBVIOUS
  <2> HIDE DEF new, add
  <2>2. new[i].off = Len(log) + i - 1 /\ Len(log) + i - 1 \in Nat
    BY <1>3, <1>5, <2>1
  <2>3. recs[i].key \in Bytes /\ recs[i].value \in Bytes
        /\ recs[i] = [key |-> recs[i].key, value |-> recs[i].value]
    BY <1>6 DEF Sent
  <2>4. new[i] \in Kept
    BY <2>1, <2>2, <2>3 DEF Kept
  <2>5. [key |-> new[i].key, value |-> new[i].value] \in offered'
    BY <1>1, <1>6, <2>1, <2>3
  <2>6. QED
    BY <2>1, <2>2, <2>4, <2>5
<1>9. /\ new \in Seq(Kept) /\ Len(new) = n
      /\ add \in Seq(Frames) /\ Len(add) = n
  <2>1. \A i \in 1 .. n : new[i] \in Kept /\ EncodeRecord(new[i]) \in Frames
    BY <1>8, CodecRoundTrip
  <2>2. new \in [1 .. n -> Kept]
    <3>1. new = [i \in 1 .. n |-> new[i]]
      OBVIOUS
    <3> HIDE DEF new
    <3>2. QED
      BY <2>1, <3>1
  <2> HIDE DEF new
  <2>3. add \in [1 .. n -> Frames]
    BY <2>1
  <2> HIDE DEF add
  <2>4. QED
    BY <1>3, <2>2, <2>3, FunctionIsSeq
<1> HIDE DEF new, add
<1>10. /\ wal' \in Seq(Frames) /\ Len(wal') = Len(wal) + n
       /\ \A i \in 1 .. Len(wal) : wal'[i] = wal[i]
       /\ \A i \in 1 .. n : wal'[Len(wal) + i] = add[i]
  <2>1. /\ wal \o add \in Seq(Frames) /\ Len(wal \o add) = Len(wal) + Len(add)
        /\ \A i \in 1 .. Len(wal) + Len(add) :
             (wal \o add)[i] = IF i <= Len(wal) THEN wal[i] ELSE add[i - Len(wal)]
    BY <1>5, <1>9, ConcatProperties
  <2>2. \A i \in 1 .. Len(wal) : i \in 1 .. Len(wal) + n /\ i <= Len(wal)
    BY <1>3, <1>5
  <2>3. \A i \in 1 .. n : /\ Len(wal) + i \in 1 .. Len(wal) + n /\ ~ (Len(wal) + i <= Len(wal))
                          /\ (Len(wal) + i) - Len(wal) = i
    BY <1>3, <1>5
  <2>4. QED
    BY <1>4, <1>9, <2>1, <2>2, <2>3
<1>11. \A i \in 1 .. Len(wal) + n : i \in 1 .. Len(wal) \/ \E j \in 1 .. n : i = Len(wal) + j
  <2> TAKE i \in 1 .. Len(wal) + n
  <2>1. CASE i <= Len(wal)
    BY <1>3, <1>5, <2>1
  <2>2. CASE ~ (i <= Len(wal))
    <3>1. i - Len(wal) \in 1 .. n /\ i = Len(wal) + (i - Len(wal))
      BY <1>3, <1>5, <2>2
    <3>2. QED
      BY <3>1
  <2>3. QED
    BY <2>1, <2>2
<1>12. \A r : Genuine(r) => Genuine(r)'
  BY <1>7 DEF Genuine
<1>13. WalInv'
  <2>1. ASSUME NEW i \in 1 .. Len(wal) PROVE FrameOK(i)'
    <3>1. FrameOK(i) /\ wal'[i] = wal[i]
      BY <1>10 DEF RecordsInv, WalInv
    <3>2. CASE ~ wal[i].whole
      BY <3>1, <3>2 DEF FrameOK
    <3>3. CASE wal[i].whole
      <4>1. PICK r \in Kept : Genuine(r) /\ wal[i] = EncodeRecord(r)
        BY <3>1, <3>3 DEF FrameOK
      <4>2. QED
        BY <1>12, <3>1, <4>1 DEF FrameOK
    <3>4. QED
      BY <3>2, <3>3
  <2>2. ASSUME NEW j \in 1 .. n, NEW k, k = Len(wal) + j PROVE FrameOK(k)'
    <3>1. PICK r \in Kept : r = new[j]
      BY <1>8
    <3>2. /\ wal'[k] = EncodeRecord(r) /\ Genuine(r)' /\ r.off = Len(log) + j - 1
      BY <1>8, <1>10, <2>2, <3>1 DEF Genuine
    <3>3. EncodeRecord(r).off = r.off
      BY <3>1, CodecRoundTrip
    <3>4. wal'[k].off = k - 1
      BY <1>3, <1>5, <2>2, <3>2, <3>3
    <3>5. QED
      BY <3>1, <3>2, <3>4 DEF FrameOK
  <2>3. \A i \in 1 .. Len(wal') : FrameOK(i)'
    <3> TAKE i \in 1 .. Len(wal')
    <3>1. CASE i \in 1 .. Len(wal)
      BY <2>1, <3>1
    <3>2. CASE \E j \in 1 .. n : i = Len(wal) + j
      BY <2>2, <3>2
    <3>3. QED
      BY <1>10, <1>11, <3>1, <3>2
  <2>4. synced' \in 0 .. Len(wal') /\ Len(wal') <= MaxFrames
    BY <1>1, <1>3, <1>5, <1>10
  <2>5. QED
    BY <1>7, <1>10, <2>3, <2>4 DEF WalInv
<1>14. LogInv'
  <2>1. \A i \in 1 .. Len(log) :
          /\ Genuine(log[i])' /\ wal'[i] = EncodeRecord(log'[i])
          /\ Decodes(wal'[i]) \/ log'[i] \in acked'
    <3> TAKE i \in 1 .. Len(log)
    <3>1. /\ Genuine(log[i]) /\ wal[i] = EncodeRecord(log[i])
          /\ Decodes(wal[i]) \/ log[i] \in acked
      BY <1>1 DEF RecordsInv, LogInv
    <3>2. wal'[i] = wal[i] /\ log' = log /\ acked' = acked
      BY <1>1, <1>5, <1>10
    <3>3. Genuine(log[i])'
      BY <1>7, <3>1, <3>2 DEF Genuine
    <3>4. QED
      BY <3>1, <3>2, <3>3
  <2>2. \A i \in 1 .. n : Genuine(waiting[i])' /\ wal'[Len(log) + i] = EncodeRecord(waiting'[i])
    <3> TAKE i \in 1 .. n
    <3>1. waiting'[i] = new[i]
      BY <1>4
    <3>2. wal'[Len(log) + i] = EncodeRecord(new[i])
      BY <1>5, <1>8, <1>10
    <3>3. new[i] \in Kept /\ [key |-> new[i].key, value |-> new[i].value] \in offered'
      BY <1>8
    <3>4. Genuine(waiting[i])'
      BY <3>1, <3>3 DEF Genuine
    <3>5. QED
      BY <3>1, <3>2, <3>4
  <2>3. waiting' \in Seq(Kept) /\ Len(waiting') = n /\ Len(wal') = Len(log) + n
    BY <1>4, <1>5, <1>9, <1>10
  <2>4. QED
    BY <1>1, <1>5, <2>1, <2>2, <2>3 DEF LogInv
<1>15. AckedInv'
  <2>1. SUFFICES ASSUME NEW r \in acked
                 PROVE  /\ Genuine(r)' /\ r.off < MaxFrames
                        /\ Clean(r)' => /\ r.off < synced' /\ wal'[r.off + 1] = EncodeRecord(r)
                                        /\ \A i \in 1 .. r.off + 1 : Decodes(wal'[i])
    BY <1>1 DEF AckedInv
  <2>2. /\ Genuine(r) /\ r.off < MaxFrames
        /\ Clean(r) => /\ r.off < synced /\ wal[r.off + 1] = EncodeRecord(r)
                       /\ \A i \in 1 .. r.off + 1 : Decodes(wal[i])
    BY DEF RecordsInv, AckedInv
  <2>3. Genuine(r)' /\ (Clean(r)' <=> Clean(r)) /\ r.off \in Nat
    BY <1>1, <1>7, <2>2 DEF Genuine, Clean, Kept
  <2>4. ASSUME Clean(r)
        PROVE  \A i \in 1 .. r.off + 1 : i \in 1 .. Len(wal)
    BY <1>5, <2>2, <2>3, <2>4
  <2>5. r.off + 1 \in 1 .. r.off + 1
    BY <2>3
  <2>6. QED
    BY <1>1, <1>10, <2>2, <2>3, <2>4, <2>5
<1>16. QED
  BY <1>13, <1>14, <1>15 DEF RecordsInv

\* The sync makes the waiting records served and acknowledged ones.
LEMMA AckServes ==
  ASSUME RecordsInv, SyncAndAck
  PROVE  RecordsInv'
<1>1. /\ waiting # <<>> /\ synced' = Len(wal) /\ log' = log \o waiting
      /\ acked' = acked \cup ToSet(waiting) /\ waiting' = <<>>
      /\ UNCHANGED <<wal, topic, offered>>
  BY DEF SyncAndAck
<1>2. topic # NoTopic
  BY <1>1 DEF RecordsInv, LogInv
<1>3. /\ log \in Seq(Kept) /\ Len(log) \in Nat /\ waiting \in Seq(Kept)
      /\ Len(waiting) \in Nat /\ wal \in Seq(Frames) /\ Len(wal) <= MaxFrames
      /\ synced \in 0 .. Len(wal) /\ Len(wal) = Len(log) + Len(waiting)
      /\ MaxFrames \in Nat
  BY <1>2, LenProperties, FilesAssumption DEF RecordsInv, WalInv, LogInv
<1>4. /\ log' \in Seq(Kept) /\ Len(log') = Len(wal)
      /\ \A i \in 1 .. Len(log) : log'[i] = log[i]
      /\ \A i \in 1 .. Len(waiting) : log'[Len(log) + i] = waiting[i]
  <2>1. /\ log \o waiting \in Seq(Kept) /\ Len(log \o waiting) = Len(log) + Len(waiting)
        /\ \A i \in 1 .. Len(log) + Len(waiting) :
             (log \o waiting)[i] = IF i <= Len(log) THEN log[i] ELSE waiting[i - Len(log)]
    BY <1>3, ConcatProperties
  <2>2. \A i \in 1 .. Len(log) : i \in 1 .. Len(log) + Len(waiting) /\ i <= Len(log)
    BY <1>3
  <2>3. \A i \in 1 .. Len(waiting) :
          /\ Len(log) + i \in 1 .. Len(log) + Len(waiting) /\ ~ (Len(log) + i <= Len(log))
          /\ (Len(log) + i) - Len(log) = i
    BY <1>3
  <2>4. QED
    BY <1>1, <1>3, <2>1, <2>2, <2>3
<1>5. \A i \in 1 .. Len(waiting) : waiting[i] \in acked'
  BY <1>1, <1>3, LenProperties DEF ToSet
<1>6. \A i \in 1 .. Len(wal) :
        i \in 1 .. Len(log) \/ \E j \in 1 .. Len(waiting) : i = Len(log) + j
  <2> TAKE i \in 1 .. Len(wal)
  <2>1. CASE i <= Len(log)
    BY <1>3, <2>1
  <2>2. CASE ~ (i <= Len(log))
    <3>1. i - Len(log) \in 1 .. Len(waiting) /\ i = Len(log) + (i - Len(log))
      BY <1>3, <2>2
    <3>2. QED
      BY <3>1
  <2>3. QED
    BY <2>1, <2>2
<1>7. \A i \in 1 .. Len(wal) : /\ Genuine(log'[i]) /\ wal[i] = EncodeRecord(log'[i])
                               /\ Decodes(wal[i]) \/ log'[i] \in acked'
  <2> TAKE i \in 1 .. Len(wal)
  <2>1. CASE i \in 1 .. Len(log)
    <3>1. /\ Genuine(log[i]) /\ wal[i] = EncodeRecord(log[i])
          /\ Decodes(wal[i]) \/ log[i] \in acked
      BY <1>2, <2>1 DEF RecordsInv, LogInv
    <3>2. log'[i] = log[i] /\ acked \subseteq acked'
      BY <1>1, <1>4, <2>1
    <3>3. QED
      BY <3>1, <3>2
  <2>2. ASSUME NEW j \in 1 .. Len(waiting), i = Len(log) + j
        PROVE  Genuine(log'[i]) /\ wal[i] = EncodeRecord(log'[i]) /\ log'[i] \in acked'
    <3>1. Genuine(waiting[j]) /\ wal[i] = EncodeRecord(waiting[j])
      BY <1>2, <2>2 DEF RecordsInv, LogInv
    <3>2. log'[i] = waiting[j] /\ waiting[j] \in acked'
      BY <1>4, <1>5, <2>2
    <3>3. QED
      BY <3>1, <3>2
  <2>3. QED
    BY <1>6, <2>1, <2>2
<1>8. WalInv'
  <2>1. \A i \in 1 .. Len(wal) : FrameOK(i)'
    BY <1>1 DEF RecordsInv, WalInv, FrameOK, Genuine
  <2>2. synced' \in 0 .. Len(wal)
    BY <1>1, <1>3
  <2>3. QED
    BY <1>1, <2>1, <2>2 DEF RecordsInv, WalInv
<1>9. LogInv'
  <2>1. waiting' \in Seq(Kept) /\ Len(waiting') = 0
    BY <1>1, EmptySeq
  <2>2. \A i \in 1 .. Len(waiting') : FALSE
    BY <2>1
  <2>3. \A i \in 1 .. Len(log') :
          /\ Genuine(log[i])' /\ wal'[i] = EncodeRecord(log'[i])
          /\ Decodes(wal'[i]) \/ log'[i] \in acked'
    BY <1>1, <1>4, <1>7 DEF Genuine
  <2>4. synced' <= Len(log') /\ Len(wal') = Len(log') + Len(waiting')
    BY <1>1, <1>3, <1>4, <2>1
  <2>5. QED
    BY <1>1, <1>2, <1>4, <2>1, <2>2, <2>3, <2>4 DEF LogInv
<1>10. AckedInv'
  <2>1. SUFFICES ASSUME NEW r \in acked'
                 PROVE  /\ Genuine(r)' /\ r.off < MaxFrames
                        /\ Clean(r)' => /\ r.off < synced' /\ wal'[r.off + 1] = EncodeRecord(r)
                                        /\ \A i \in 1 .. r.off + 1 : Decodes(wal'[i])
    BY DEF AckedInv
  <2>2. CASE r \in acked
    <3>1. /\ Genuine(r) /\ r.off < MaxFrames
          /\ Clean(r) => /\ r.off < synced /\ wal[r.off + 1] = EncodeRecord(r)
                         /\ \A i \in 1 .. r.off + 1 : Decodes(wal[i])
      BY <2>2 DEF RecordsInv, AckedInv
    <3>2. Genuine(r)' /\ (Clean(r)' => Clean(r)) /\ r.off \in Nat
      BY <1>1, <3>1 DEF Genuine, Clean, Kept
    <3>3. r.off < synced => r.off < synced'
      BY <1>1, <1>3, <3>2
    <3>4. QED
      BY <1>1, <3>1, <3>2, <3>3
  <2>3. CASE r \in ToSet(waiting)
    <3>1. PICK j \in 1 .. Len(waiting) : r = waiting[j]
      BY <1>3, <2>3, LenProperties DEF ToSet
    <3> DEFINE k == Len(log) + j
    <3>2. Genuine(r) /\ wal[k] = EncodeRecord(r)
      BY <1>2, <3>1 DEF RecordsInv, LogInv
    <3>3. k \in 1 .. Len(wal)
      BY <1>3
    <3> HIDE DEF k
    <3>4. r \in Kept /\ r.off \in Nat /\ r.off = wal[k].off /\ wal[k].off = k - 1
      BY <3>2, <3>3, CodecRoundTrip DEF Genuine, Kept, RecordsInv, WalInv, FrameOK
    <3>5. r.off + 1 = k /\ r.off < Len(wal) /\ r.off < MaxFrames
      BY <1>3, <3>3, <3>4
    <3>6. Genuine(r)'
      BY <1>1, <3>2 DEF Genuine
    <3>7. ASSUME Clean(r)', NEW i \in 1 .. k
          PROVE  Decodes(wal[i])
      <4>1. i \in 1 .. Len(wal) /\ i - 1 <= r.off
        BY <1>3, <3>3, <3>4, <3>5
      <4>2. PICK q \in Kept : q = log'[i] /\ wal[i] = EncodeRecord(q)
        BY <1>7, <4>1 DEF Genuine
      <4>3. q.off = i - 1
        <5>1. FrameOK(i)
          BY <4>1 DEF RecordsInv, WalInv
        <5>2. QED
          BY <4>2, <5>1, CodecRoundTrip DEF FrameOK
      <4>4. CASE q \in acked'
        <5>1. ~TooLong(q)
          BY <3>7, <4>1, <4>3, <4>4 DEF Clean
        <5>2. QED
          BY <4>2, <5>1, CodecRoundTrip
      <4>5. QED
        BY <1>7, <4>1, <4>2, <4>4
    <3>8. QED
      BY <1>1, <3>2, <3>5, <3>6, <3>7
  <2>4. QED
    BY <1>1, <2>2, <2>3
<1>11. QED
  BY <1>8, <1>9, <1>10 DEF RecordsInv

\* A crash leaves the synced frames alone; of the rest it keeps a part, with
\* at most one torn frame behind it.
LEMMA CrashKeeps ==
  ASSUME WalInv, NEW file \in AfterCrash(wal, synced)
  PROVE  /\ file \in Seq(Frames) /\ Len(file) \in synced .. Len(wal)
         /\ \A i \in 1 .. Len(file) :
              \/ file[i] = wal[i]
              \/ i > synced /\ file[i].off = wal[i].off /\ ~ file[i].whole
<1>1. wal \in Seq(Frames) /\ Len(wal) \in Nat /\ synced \in 0 .. Len(wal)
  BY LenProperties DEF WalInv
<1>2. ASSUME NEW k \in synced .. Len(wal), file = SubSeq(wal, 1, k)
      PROVE  /\ file \in Seq(Frames) /\ Len(file) = k
             /\ \A i \in 1 .. k : file[i] = wal[i]
  <2>1. k \in 0 .. Len(wal)
    BY <1>1
  <2>2. QED
    BY <1>1, <1>2, <2>1, PrefixOf
<1>3. ASSUME NEW k \in synced .. Len(wal) - 1,
             file = Append(SubSeq(wal, 1, k), Torn(wal[k + 1]))
      PROVE  /\ file \in Seq(Frames) /\ Len(file) = k + 1 /\ k + 1 \in synced .. Len(wal)
             /\ \A i \in 1 .. k : file[i] = wal[i]
             /\ k + 1 > synced /\ file[k + 1].off = wal[k + 1].off /\ ~ file[k + 1].whole
  <2>1. k \in Nat /\ k \in 0 .. Len(wal) /\ k + 1 \in 1 .. Len(wal) /\ k + 1 > synced
        /\ k + 1 \in synced .. Len(wal)
    BY <1>1
  <2>2. /\ SubSeq(wal, 1, k) \in Seq(Frames) /\ Len(SubSeq(wal, 1, k)) = k
        /\ \A i \in 1 .. k : SubSeq(wal, 1, k)[i] = wal[i]
    BY <1>1, <2>1, PrefixOf
  <2>3. wal[k + 1] \in Frames
    BY <1>1, <2>1, ElementOfSeq
  <2>4. /\ Torn(wal[k + 1]) \in Frames /\ Torn(wal[k + 1]).off = wal[k + 1].off
        /\ Torn(wal[k + 1]).whole = FALSE
    BY <2>3 DEF Torn, Frames
  <2> DEFINE s == SubSeq(wal, 1, k)
             e == Torn(wal[k + 1])
  <2> HIDE DEF s, e
  <2>5. /\ Append(s, e) \in Seq(Frames) /\ Len(Append(s, e)) = Len(s) + 1
        /\ \A i \in 1 .. Len(s) : Append(s, e)[i] = s[i]
        /\ Append(s, e)[Len(s) + 1] = e
    BY <2>2, <2>4, AppendProperties DEF s, e
  <2>6. QED
    BY <1>3, <2>1, <2>2, <2>4, <2>5 DEF s, e
<1>4. CASE \E k \in synced .. Len(wal) : file = SubSeq(wal, 1, k)
  BY <1>2, <1>4
<1>5. CASE \E k \in synced .. Len(wal) - 1 : file = Append(SubSeq(wal, 1, k), Torn(wal[k + 1]))
  <2>1. PICK k \in synced .. Len(wal) - 1 : file = Append(SubSeq(wal, 1, k), Torn(wal[k + 1]))
    BY <1>5
  <2>2. \A i \in 1 .. k + 1 : i \in 1 .. k \/ i = k + 1
    BY <1>1
  <2>3. QED
    BY <1>3, <2>1, <2>2
<1>6. QED
  BY <1>4, <1>5 DEF AfterCrash

LEMMA CrashServes ==
  ASSUME RecordsInv, NEW powerLoss \in BOOLEAN, Crash(powerLoss)
  PROVE  RecordsInv'
<1>1. /\ topic' = NoTopic /\ log' = <<>> /\ waiting' = <<>> /\ wal' \in AfterCrash(wal, synced)
      /\ synced' = (IF powerLoss THEN Len(wal') ELSE synced) /\ UNCHANGED <<acked, offered>>
  BY DEF Crash
<1>2. /\ Len(wal) \in Nat /\ Len(wal) <= MaxFrames /\ synced \in 0 .. Len(wal)
      /\ MaxFrames \in Nat
  BY LenProperties, FilesAssumption DEF RecordsInv, WalInv
<1>3. /\ wal' \in Seq(Frames) /\ Len(wal') \in synced .. Len(wal)
      /\ \A i \in 1 .. Len(wal') :
           \/ wal'[i] = wal[i]
           \/ i > synced /\ wal'[i].off = wal[i].off /\ ~ wal'[i].whole
  BY <1>1, CrashKeeps DEF RecordsInv
<1>4. synced' \in 0 .. Len(wal') /\ synced <= synced' /\ Len(wal') <= MaxFrames
  <2>1. CASE powerLoss
    BY <1>1, <1>2, <1>3, <2>1
  <2>2. CASE ~powerLoss
    BY <1>1, <1>2, <1>3, <2>2
  <2>3. QED
    BY <2>1, <2>2
<1>5. WalInv'
  <2>1. ASSUME NEW i \in 1 .. Len(wal') PROVE FrameOK(i)'
    <3>1. i \in 1 .. Len(wal)
      BY <1>2, <1>3
    <3>2. FrameOK(i)
      BY <3>1 DEF RecordsInv, WalInv
    <3>3. QED
      BY <1>1, <1>3, <3>2 DEF FrameOK, Genuine
  <2>2. QED
    BY <1>1, <1>3, <1>4, <2>1 DEF RecordsInv, WalInv
<1>6. LogInv'
  BY <1>1, EmptySeq DEF LogInv
<1>7. AckedInv'
  <2>1. SUFFICES ASSUME NEW r \in acked
                 PROVE  /\ Genuine(r)' /\ r.off < MaxFrames
                        /\ Clean(r)' => /\ r.off < synced' /\ wal'[r.off + 1] = EncodeRecord(r)
                                        /\ \A i \in 1 .. r.off + 1 : Decodes(wal'[i])
    BY <1>1 DEF AckedInv
  <2>2. /\ Genuine(r) /\ r.off < MaxFrames
        /\ Clean(r) => /\ r.off < synced /\ wal[r.off + 1] = EncodeRecord(r)
                       /\ \A i \in 1 .. r.off + 1 : Decodes(wal[i])
    BY DEF RecordsInv, AckedInv
  <2>3. Genuine(r)' /\ (Clean(r)' <=> Clean(r)) /\ r.off \in Nat
    BY <1>1, <2>2 DEF Genuine, Clean, Kept
  <2>4. ASSUME r.off < synced
        PROVE  r.off < synced' /\ \A i \in 1 .. r.off + 1 : wal'[i] = wal[i]
    <3>1. \A i \in 1 .. r.off + 1 : i \in 1 .. Len(wal') /\ ~ (i > synced)
      BY <1>2, <1>3, <2>3, <2>4
    <3>2. r.off < synced'
      BY <1>2, <1>4, <2>3, <2>4
    <3>3. QED
      BY <1>3, <3>1, <3>2
  <2>5. r.off + 1 \in 1 .. r.off + 1
    BY <2>3
  <2>6. QED
    BY <2>2, <2>3, <2>4, <2>5
<1>8. QED
  BY <1>5, <1>6, <1>7 DEF RecordsInv

LEMMA RecordsStep ==
  ASSUME RecordsInv, SettingsInv, Next
  PROVE  RecordsInv'
<1>1. CASE \E c \in Tomls : Boot(c)
  BY <1>1, RecordsFrame DEF Boot, walVars
<1>2. CASE WriteIdTmp \/ SyncIdTmp \/ RenameIdTmp
  BY <1>2, RecordsFrame DEF WriteIdTmp, SyncIdTmp, RenameIdTmp, walVars, histVars
<1>3. CASE Load
  <2>1. topic = NoTopic /\ UNCHANGED <<waiting, acked, offered>>
    BY <1>3 DEF Load, SettingsInv, RegistryInv
  <2>2. CASE UNCHANGED <<topic, log, walVars>>
    BY <2>1, <2>2, RecordsFrame DEF walVars
  <2>3. CASE saved # NoTopic /\ StartPartition(saved.config)
    <3>1. saved.config # NoTopic
      BY <2>3, SavedEntry, EntryFacts DEF SettingsInv
    <3>2. QED
      BY <2>1, <2>3, <3>1, StartServes
  <2>4. QED
    BY <1>3, <2>2, <2>3 DEF Load
<1>4. CASE CreateStarts
  <2>1. admin.o # NoTopic /\ topic = NoTopic
    BY <1>4, SavedEntry, EntryFacts DEF CreateStarts, SettingsInv, RegistryInv
  <2>2. StartPartition(admin.o) /\ UNCHANGED <<waiting, acked, offered>>
    BY <1>4, AdminFrame DEF CreateStarts, AdminStep
  <2>3. QED
    BY <2>1, <2>2, StartServes
<1>5. CASE AdminStep /\ ~CreateStarts
  <2>1. UNCHANGED <<wal, synced, log, waiting, acked, offered>>
    BY <1>5, AdminFrame DEF AdminStep, CreateSaves, AlterSaves, Save, CreatePuts,
       CreateFails, AlterPushes, AlterAborted, walVars, upVars
  <2>2. topic' = NoTopic <=> topic = NoTopic
    <3>1. CASE \E o \in Overrides : AlterSaves(o)
      <4>1. PICK o \in Overrides : AlterSaves(o)
        BY <3>1
      <4>2. topic # NoTopic /\ topic' = Merge(topic, o) /\ topic = saved.config
            /\ saved # NoTopic
        BY <4>1 DEF AlterSaves, SettingsInv, RegistryInv
      <4>3. topic \in Settings /\ o \in Settings
        BY <4>2, SavedEntry, EntryFacts DEF SettingsInv
      <4>4. QED
        BY <4>2, <4>3, MergeTyped
    <3>2. CASE ~ \E o \in Overrides : AlterSaves(o)
      BY <1>5, <3>2 DEF AdminStep, CreateSaves, CreatePuts, CreateFails, AlterPushes,
         AlterAborted, upVars
    <3>3. QED
      BY <3>1, <3>2
  <2>3. QED
    BY <2>1, <2>2, RecordsFrame
<1>6. CASE \E recs \in Batches : \E p \in Payloads(recs) : Produce(recs, p)
  BY <1>6, ProduceWrites
<1>7. CASE SyncAndAck
  BY <1>7, AckServes
<1>8. CASE \E powerLoss \in BOOLEAN : Crash(powerLoss)
  BY <1>8, CrashServes
<1>9. CASE DirectorySettles
  BY <1>9, RecordsFrame DEF DirectorySettles, walVars, upVars, histVars
<1>10. QED
  BY <1>1, <1>2, <1>3, <1>4, <1>5, <1>6, <1>7, <1>8, <1>9 DEF Next, AdminStep

-----------------------------------------------------------------------------
(* The invariant holds *)

LEMMA StateStep ==
  ASSUME StateInv, NamingInv, SettingsInv, Next
  PROVE  StateInv'
<1>0. boots \in Nat /\ nAdmin \in Nat /\ MaxBoots \in Nat /\ MaxAdmin \in Nat
  BY FilesAssumption DEF StateInv, NamingInv
<1>1. CASE \E c \in Tomls : Boot(c)
  <2>1. PICK c \in Tomls : Boot(c)
    BY <1>1
  <2>2. boots' = boots + 1 /\ boots < MaxBoots /\ nAdmin' = nAdmin /\ phase = "down" /\ admin' = admin
    BY <2>1 DEF Boot
  <2>3. refusals' \subseteq {"cluster_id", "manifest"}
    BY <2>1, BootNames DEF StateInv
  <2>4. phase' \in {"down", "naming", "named"}
    <3>1. c.cluster \in BOOLEAN
      BY FilesAssumption
    <3>2. QED
      BY <2>1, <2>2, <3>1 DEF Boot, Refuse, ResolveBrokerId, Name
  <2>5. QED
    BY <1>0, <2>2, <2>3, <2>4 DEF StateInv
<1>2. CASE WriteIdTmp \/ SyncIdTmp \/ RenameIdTmp
  BY <1>2 DEF WriteIdTmp, SyncIdTmp, RenameIdTmp, histVars, StateInv
<1>3. CASE Load
  <2>1. refusals' \subseteq refusals \cup {"manifest"}
    BY <1>3, LoadSettles
  <2>2. phase' \in {"down", "up"} /\ UNCHANGED <<boots, nAdmin, admin>>
    BY <1>3 DEF Load
  <2>3. QED
    BY <2>1, <2>2 DEF StateInv
<1>4. CASE AdminStep
  <2>1. UNCHANGED <<phase, boots, refusals>>
    BY <1>4, AdminFrame
  <2>2. nAdmin' = nAdmin \/ (nAdmin < MaxAdmin /\ nAdmin' = nAdmin + 1)
    BY <1>4 DEF AdminStep, CreateSaves, AlterSaves, Save, CreatePuts, CreateFails,
       CreateStarts, AlterPushes, AlterAborted, Answer, histVars
  <2>3. admin'.op \in {"none", "create", "alter"}
    BY <1>4, EntryFacts DEF AdminStep, CreateSaves, AlterSaves, Save, CreatePuts,
       CreateFails, CreateStarts, AlterPushes, AlterAborted, Answer, upVars, StateInv
  <2>4. QED
    BY <1>0, <2>1, <2>2, <2>3 DEF StateInv
<1>5. CASE \E recs \in Batches : \E p \in Payloads(recs) : Produce(recs, p)
  BY <1>5 DEF Produce, StateInv
<1>6. CASE SyncAndAck
  BY <1>6 DEF SyncAndAck, StateInv
<1>7. CASE \E powerLoss \in BOOLEAN : Crash(powerLoss)
  BY <1>7, EntryFacts DEF Crash, StateInv
<1>8. CASE DirectorySettles
  BY <1>8 DEF DirectorySettles, upVars, histVars, StateInv
<1>9. QED
  BY <1>1, <1>2, <1>3, <1>4, <1>5, <1>6, <1>7, <1>8 DEF Next, AdminStep

LEMMA FilesInvInit == Init => FilesInv
<1>1. SUFFICES ASSUME Init PROVE FilesInv
  OBVIOUS
<1>2. NamingInv
  BY <1>1, IdFileFacts DEF Init, NamingInv
<1>3. SettingsInv
  BY <1>1, EntryFacts DEF Init, SettingsInv, RegistryInv, RepliesInv
<1>4. RecordsInv
  <2>1. <<>> \in Seq(Frames) /\ <<>> \in Seq(Kept) /\ Len(<<>>) = 0
    BY EmptySeq
  <2>2. WalInv
    BY <1>1, <2>1, FilesAssumption DEF Init, WalInv
  <2>3. LogInv /\ AckedInv
    BY <1>1, <2>1 DEF Init, LogInv, AckedInv
  <2>4. QED
    BY <2>2, <2>3 DEF RecordsInv
<1>5. StateInv
  BY <1>1, FilesAssumption, EntryFacts DEF Init, StateInv
<1>6. QED
  BY <1>2, <1>3, <1>4, <1>5 DEF FilesInv

LEMMA FilesInvStep == FilesInv /\ [Next]_vars => FilesInv'
<1>1. SUFFICES ASSUME FilesInv, [Next]_vars PROVE FilesInv'
  OBVIOUS
<1>2. CASE Next
  BY <1>1, <1>2, NamingStep, SettingsStep, RecordsStep, StateStep DEF FilesInv
<1>3. CASE UNCHANGED vars
  <2>1. /\ UNCHANGED <<idFile, idTmp, idDisk, saved, savedDisk, manifests, wal, synced>>
        /\ UNCHANGED <<phase, toml, identity, topic, cfg, log, waiting, admin>>
        /\ UNCHANGED <<boots, named, refusals, told, nAdmin, acked, offered, undone>>
    BY <1>3 DEF vars, idVars, topicVars, walVars, upVars, histVars
  <2>2. NamingInv' /\ SettingsInv' /\ RecordsInv'
    BY <1>1, <2>1, NamingFrame, SettingsFrame, RecordsFrame DEF FilesInv
  <2>3. StateInv'
    BY <1>1, <2>1 DEF FilesInv, StateInv
  <2>4. QED
    BY <2>2, <2>3 DEF FilesInv
<1>4. QED
  BY <1>1, <1>2, <1>3

LEMMA FilesInvHolds == Spec => []FilesInv
  BY FilesInvInit, FilesInvStep, PTL DEF Spec

-----------------------------------------------------------------------------
(* The theorems *)

\* Every variable of BrokerFiles has its type, the synced frames are in the
\* file, and an acknowledged offset is within it.
THEOREM FilesTypes == Spec => []TypeOK
<1>1. FilesInv => TypeOK
  <2>1. SUFFICES ASSUME FilesInv PROVE TypeOK
    OBVIOUS
  <2>2. idFile.state \in {"none", "synced"}
    BY <2>1, IdFileFacts DEF FilesInv, NamingInv
  <2>3. \A r \in acked : r.off \in 0 .. MaxFrames - 1
    <3> TAKE r \in acked
    <3>1. r.off \in Nat /\ r.off < MaxFrames /\ MaxFrames \in Nat
      BY <2>1, FilesAssumption DEF FilesInv, RecordsInv, AckedInv, Genuine, Kept
    <3>2. QED
      BY <3>1
  <2>4. boots \in 0 .. MaxBoots
    BY <2>1, FilesAssumption DEF FilesInv, StateInv, NamingInv
  <2>5. QED
    BY <2>1, <2>2, <2>3, <2>4
       DEF TypeOK, FilesInv, StateInv, NamingInv, SettingsInv, RegistryInv, RecordsInv, WalInv
<1>2. QED
  BY <1>1, FilesInvHolds, PTL

\* broker_identity: all boots without a configured id announce the same one,
\* whatever crashes and boots with a configured id come between, as long as no
\* power loss undid a rename.
THEOREM IdentityKept == Spec => []IdentityStable
<1>1. FilesInv => IdentityStable
  <2>1. SUFFICES ASSUME FilesInv, ~undone PROVE Cardinality(named) <= 1
    BY DEF IdentityStable
  <2>2. named \subseteq {idFile.id}
    BY <2>1 DEF FilesInv, NamingInv
  <2>3. IsFiniteSet({idFile.id}) /\ Cardinality({idFile.id}) = 1
    BY FS_Singleton
  <2>4. QED
    BY <2>2, <2>3, FS_Subset
<1>2. QED
  BY <1>1, FilesInvHolds, PTL

\* No crash and no power loss, at any step of a boot, leaves a broker_id on which
\* the next boot fails; no request leaves a topics.json with invalid overrides;
\* and a boot that fails for want of a manifest means that CreateTopic was never
\* answered with success, or that a power loss undid a rename.
THEOREM BootsAgain == Spec => []BootsOnOwnFiles
<1>1. FilesInv => BootsOnOwnFiles
  BY DEF FilesInv, StateInv, SettingsInv, RepliesInv, BootsOnOwnFiles
<1>2. QED
  BY <1>1, FilesInvHolds, PTL

\* The configuration in the registry and the one a partition runs with are such
\* that the replies to CreateTopic and AlterTopicConfig allow them, over any
\* restarts: a request that was cut short may or may not be in force, one that
\* was answered is, and none loses a field that another set.
THEOREM ConfigSurvives == Spec => []ConfigKept
<1>1. FilesInv => ConfigKept
  BY DEF FilesInv, SettingsInv, RegistryInv, RepliesInv, ConfigKept
<1>2. QED
  BY <1>1, FilesInvHolds, PTL

\* The offset of a record being served is its position.
LEMMA ServedOffsets ==
  ASSUME RecordsInv, topic # NoTopic, NEW i \in 1 .. Len(log)
  PROVE  /\ log[i] \in Kept /\ log[i].off = i - 1
         /\ i \in 1 .. Len(wal) /\ wal[i] = EncodeRecord(log[i])
<1>1. /\ Len(log) \in Nat /\ Len(waiting) \in Nat /\ Len(wal) = Len(log) + Len(waiting)
      /\ log[i] \in Kept /\ wal[i] = EncodeRecord(log[i])
  BY LenProperties DEF RecordsInv, LogInv, Genuine
<1>2. i \in 1 .. Len(wal)
  BY <1>1
<1>3. wal[i].off = i - 1
  BY <1>2 DEF RecordsInv, WalInv, FrameOK
<1>4. QED
  BY <1>1, <1>2, <1>3, CodecRoundTrip

\* A Fetch of one record brings the record at that offset, byte for byte.
LEMMA FetchExact ==
  ASSUME RecordsInv, topic # NoTopic, NEW r \in Kept, r.off < Len(log),
         log[r.off + 1] = r
  PROVE  FetchOne(r.off) = <<r>>
<1> DEFINE hits == {i \in DOMAIN log : log[i].off >= r.off}
           k == r.off + 1
           s == [key |-> r.key, value |-> r.value]
<1>1. log \in Seq(Kept) /\ Len(log) \in Nat /\ DOMAIN log = 1 .. Len(log) /\ r.off \in Nat
  BY LenProperties DEF RecordsInv, LogInv, Kept
<1>2. \A i \in 1 .. Len(log) : log[i].off = i - 1
  BY ServedOffsets
<1>3. k \in 1 .. Len(log)
  BY <1>1
<1>4. hits \in SUBSET Nat /\ k \in hits /\ hits # {} /\ \A i \in hits : k <= i
  BY <1>1, <1>2, <1>3
<1>5. Min(hits) = k
  <2> HIDE DEF hits
  <2>1. Min(hits) \in hits /\ \A x \in hits : Min(hits) <= x
    BY <1>4, MinOfNaturals
  <2>2. Min(hits) \in Nat /\ Min(hits) <= k /\ k <= Min(hits)
    BY <1>4, <2>1
  <2>3. QED
    BY <1>1, <2>2
<1>6. ReadActive(r.off) = <<r>>
  <2>1. ReadActive(r.off) = IF hits = {} THEN <<>> ELSE <<log[Min(hits)]>>
    BY DEF ReadActive
  <2> HIDE DEF hits
  <2>2. QED
    BY <1>4, <1>5, <2>1
<1>7. <<s>> \in Seq(Sent) /\ Len(<<s>>) = 1 /\ s.key = r.key /\ s.value = r.value
  BY DEF Sent, Kept
<1>8. MetasOf(<<r>>) = MetasOf(<<s>>) /\ PayloadOf(<<r>>) = PayloadOf(<<s>>)
  <2>1. DOMAIN <<r>> = {1} /\ DOMAIN <<s>> = {1} /\ <<r>>[1] = r /\ <<s>>[1] = s
    OBVIOUS
  <2>2. MetasOf(<<r>>) = MetasOf(<<s>>)
    BY <1>7, <2>1 DEF MetasOf
  <2>3. [i \in DOMAIN <<r>> |-> <<r>>[i].key \o <<r>>[i].value]
        = [i \in DOMAIN <<s>> |-> <<s>>[i].key \o <<s>>[i].value]
    BY <1>7, <2>1
  <2>4. QED
    BY <2>2, <2>3 DEF PayloadOf
<1>9. SlicePayload(MetasOf(<<r>>), PayloadOf(<<r>>)) = <<s>>
  <2> DEFINE t == <<s>>
  <2>1. t \in Seq(Sent) /\ Len(t) > 0
    BY <1>7
  <2>2. MetasOf(<<r>>) = MetasOf(t) /\ PayloadOf(<<r>>) = PayloadOf(t)
    BY <1>8
  <2> HIDE DEF t
  <2>3. SlicePayload(MetasOf(t), PayloadOf(t)) = t
    BY <2>1, RoundTrip
  <2>4. SlicePayload(MetasOf(<<r>>), PayloadOf(<<r>>)) = t
    BY <2>2, <2>3
  <2>5. QED
    BY <2>4 DEF t
<1> HIDE DEF hits, k
<1>10. FetchOne(r.off) = [i \in DOMAIN <<r>> |->
                            [off |-> <<r>>[i].off, key |-> <<s>>[i].key,
                             value |-> <<s>>[i].value]]
  BY <1>6, <1>9 DEF FetchOne
<1>11. r = [off |-> r.off, key |-> r.key, value |-> r.value]
  BY DEF Kept
<1>12. QED
  BY <1>10, <1>11

\* Every acknowledged record can be fetched under its offset exactly as it was
\* produced, over any number of crashes and torn tails: slicing, encoding,
\* truncation, decoding and slicing again lose nothing, as long as no
\* acknowledged key up to it is longer than key_len can say.
THEOREM AckedRecordsComeBack == Spec => []AckedComeBack
<1>1. FilesInv => AckedComeBack
  <2>1. SUFFICES ASSUME FilesInv, topic # NoTopic, NEW r \in acked, Clean(r)
                 PROVE  FetchOne(r.off) = <<r>>
    BY DEF AckedComeBack, Clean
  <2> DEFINE k == r.off + 1
  <2>2. /\ r \in Kept /\ r.off \in Nat /\ r.off < synced /\ wal[k] = EncodeRecord(r)
        /\ Decodes(wal[k])
    <3>1. r \in Kept /\ r.off \in Nat
      BY <2>1 DEF FilesInv, RecordsInv, AckedInv, Genuine, Kept
    <3>2. k \in 1 .. k
      BY <3>1
    <3>3. QED
      BY <2>1, <3>1, <3>2 DEF FilesInv, RecordsInv, AckedInv
  <2>3. synced <= Len(log) /\ Len(log) \in Nat /\ synced \in Nat
    BY <2>1, LenProperties DEF FilesInv, RecordsInv, LogInv, WalInv
  <2>4. k \in 1 .. Len(log) /\ r.off < Len(log)
    BY <2>2, <2>3
  <2>5. log[k] \in Kept /\ wal[k] = EncodeRecord(log[k])
    BY <2>1, <2>4, ServedOffsets DEF FilesInv
  <2>6. log[k] = r
    <3> HIDE DEF k
    <3>1. DecodeRecord(wal[k]) = r
      BY <2>2, CodecRoundTrip
    <3>2. DecodeRecord(wal[k]) = log[k]
      BY <2>2, <2>5, CodecRoundTrip
    <3>3. QED
      BY <3>1, <3>2
  <2>7. QED
    BY <2>1, <2>2, <2>4, <2>6, FetchExact DEF FilesInv
<1>2. QED
  BY <1>1, FilesInvHolds, PTL

\* Nothing is served that no client sent: recovery makes up no record from torn
\* frames or wrapped lengths, and no payload is cut at the wrong place.
THEOREM NothingMadeUp == Spec => []NothingInvented
<1>1. FilesInv => NothingInvented
  <2>1. SUFFICES ASSUME FilesInv, NEW i \in DOMAIN log
                 PROVE  [key |-> log[i].key, value |-> log[i].value] \in offered
    BY DEF NothingInvented
  <2>2. DOMAIN log = 1 .. Len(log)
    BY <2>1, LenProperties DEF FilesInv, RecordsInv, LogInv
  <2>3. topic # NoTopic
    BY <2>1, <2>2, EmptySeq DEF FilesInv, RecordsInv, LogInv
  <2>4. Genuine(log[i])
    BY <2>1, <2>2, <2>3 DEF FilesInv, RecordsInv, LogInv
  <2>5. QED
    BY <2>4 DEF Genuine
<1>2. QED
  BY <1>1, FilesInvHolds, PTL
==============================================================================
