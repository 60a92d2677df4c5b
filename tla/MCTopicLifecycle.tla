-------------------------- MODULE MCTopicLifecycle --------------------------
(* Instances of TopicLifecycle for TLC. *)
EXTENDS TopicLifecycle, TLC

\* The request tasks differ in name only (for runs without liveness).
Interchangeable == Permutations(Requests)
=============================================================================
