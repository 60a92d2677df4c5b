----------------------------- MODULE RecordCodec -----------------------------
(***************************************************************************)
(* The three forms of a record between a producer and a consumer: metas    *)
(* and payload on the wire, a frame in a WAL file, and the record itself.  *)
(*                                                                         *)
(* A byte string is a sequence.  The integer fields of a frame whose       *)
(* encoding is exact (offset, timestamp, schema, value length, frame       *)
(* length) keep their values; key_len is a u16 and wraps.  A frame that a  *)
(* crash cut short or left with other bytes is one that is not whole: it   *)
(* ends before its length says, or its CRC does not match.                 *)
(***************************************************************************)
EXTENDS Integers, Sequences, FiniteSets, SequencesExt

CONSTANT KeyLenMod \* 2^16: what fits the key_len field of a frame

ASSUME KeyLenAssumption == KeyLenMod \in Nat \ {0}

-----------------------------------------------------------------------------
(* The wire: lengths in the command, bytes in the payload *)

MetasOf(recs) ==
  [i \in DOMAIN recs |-> [kl |-> Len(recs[i].key), vl |-> Len(recs[i].value)]]

PayloadOf(recs) == FlattenSeq([i \in DOMAIN recs |-> recs[i].key \o recs[i].value])

\* The cursor after the first n records.
Cursor(metas) ==
  LET at[n \in 0 .. Len(metas)] ==
        IF n = 0 THEN 0 ELSE at[n - 1] + metas[n].kl + metas[n].vl
  IN at

\* The payload is neither shorter nor longer than the lengths declare.
PayloadFits(metas, payload) == Cursor(metas)[Len(metas)] = Len(payload)

\* The records of a payload that fits.
SlicePayload(metas, payload) ==
  [i \in DOMAIN metas |->
     LET c == Cursor(metas)[i - 1] k == metas[i].kl v == metas[i].vl
     IN [key |-> SubSeq(payload, c + 1, c + k),
         value |-> SubSeq(payload, c + k + 1, c + k + v)]]

-----------------------------------------------------------------------------
(* The WAL file: a sequence of frames *)

\* Offset, the two length fields, key and value; the CRC goes with it.
EncodeRecord(r) ==
  [off |-> r.off, keyLen |-> Len(r.key) % KeyLenMod, valueLen |-> Len(r.value),
   body |-> r.key \o r.value, whole |-> TRUE]

Torn(f) == [f EXCEPT !.whole = FALSE]

\* Mutant: the lengths are not compared with that of the frame.
Decodes_AnyLength(f) == f.whole

\* decode_record succeeds: the frame is whole and its lengths add up.
Decodes(f) == f.whole /\ f.keyLen + f.valueLen = Len(f.body)

DecodeRecord(f) ==
  [off |-> f.off, key |-> SubSeq(f.body, 1, f.keyLen),
   value |-> SubSeq(f.body, f.keyLen + 1, f.keyLen + f.valueLen)]

\* scan_wal: the frames before the first that does not decode.
ScanWal(file) ==
  LET Good == {n \in 0 .. Len(file) : \A i \in 1 .. n : Decodes(file[i])}
  IN SubSeq(file, 1, Max(Good))

Records(frames) == [i \in DOMAIN frames |-> DecodeRecord(frames[i])]
==============================================================================
