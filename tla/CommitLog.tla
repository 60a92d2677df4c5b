------------------------------ MODULE CommitLog ------------------------------
(***************************************************************************)
(* What a partition promises its producers: an append-only log.  A commit  *)
(* extends the log by the next offsets; the producers of a commit are      *)
(* acknowledged, or (when the commit fails half way) they are not, and     *)
(* then any prefix of it may or may not be in the log.  Nothing leaves the *)
(* log, no offset is used twice, and crashes, uploads and file removals    *)
(* are invisible.                                                          *)
(***************************************************************************)
EXTENDS Integers, FiniteSets

CONSTANT Records   \* records, each with a field off

VARIABLES log,     \* the records of the partition
          ackedLog \* those whose producer was told so

Init == log = {} /\ ackedLog = {}

\* The new records follow the log without a gap and no two share an offset.
Commit ==
  LET recs == log' \ log
      n    == Cardinality(log)
  IN  /\ log \subseteq log'
      /\ recs # {}
      /\ recs \subseteq Records
      /\ {r.off : r \in recs} = n .. n + Cardinality(recs) - 1
      /\ ackedLog' \in {ackedLog, ackedLog \cup recs}

Next == Commit

Spec == Init /\ [][Next]_<<log, ackedLog>>
=============================================================================
