------------------------- MODULE MCPartitionChannels -------------------------
(* Environments in which the channels meet their cases: enough Produces for  *)
(* the circular wait; a crash that leaves orphans, and one after retention   *)
(* took entries whose files are still there; a DeleteTopic among requests    *)
(* and kicks; an AlterTopicConfig that overlaps it.                          *)
EXTENDS PartitionChannels

Env(n, kinds, events) == [requests |-> n, kinds |-> kinds, events |-> events]

OnlyProduces == {Env(7, {"produce"}, {})}

SomeEnvironments ==
  OnlyProduces \cup
  {Env(5, {"produce"}, {"crash"}),
   Env(6, {"produce"}, {"crash", "evict"}),
   Env(2, {"produce"}, {"crash", "evict", "kick"}),
   Env(3, {"produce", "read"}, {"delete", "kick"}),
   Env(1, {"produce", "read"}, {"alter", "delete", "kick"})}
==============================================================================
