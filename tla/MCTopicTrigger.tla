----------------------------- MODULE MCTopicTrigger -----------------------------
(***************************************************************************)
(* Model values for TLC: a publisher, a task that writes and retains, one  *)
(* key for each entry, up to two subscribers.                              *)
(***************************************************************************)
EXTENDS TopicTrigger, TLC

Symmetry == Permutations(HeapBlocks) \cup Permutations(Nodes)
================================================================================
