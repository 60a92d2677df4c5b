--------------------------- MODULE MCPartitionLog ---------------------------
(* Instances of PartitionLog for TLC. *)
EXTENDS PartitionLog

\* Two records commit and seal a segment.
OneConfig == {[groupCount |-> 2, segmentSize |-> 2]}

\* The group size and the segment size change while the partition runs.
TwoConfigs == {[groupCount |-> 2, segmentSize |-> 2],
               [groupCount |-> 1, segmentSize |-> 3]}
=============================================================================
