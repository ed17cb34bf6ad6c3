------------------------------- MODULE MCObjDict -------------------------------
(***************************************************************************)
(* Model values for TLC: two keys and two entries, so that the array fills *)
(* up and slots change keys; one pool block, so that the pool runs out.    *)
(* Nothing tells tasks, heap blocks or data apart.                         *)
(***************************************************************************)
EXTENDS ObjDict, TLC

Symmetry == Permutations(Tasks) \cup Permutations(HeapBlocks) \cup Permutations(Data)
================================================================================
