------------------------- MODULE MCPartitionClients -------------------------
(* Instances of PartitionClients for TLC. *)
EXTENDS PartitionClients

\* Two records commit and seal a segment.
OneConfig == {[groupCount |-> 2, segmentSize |-> 2]}

\* Every Produce commits and seals a segment of its one or two records.
EveryProduce == {[groupCount |-> 1, segmentSize |-> 1]}
=============================================================================
