------------------------------ MODULE KeyedStore ------------------------------
(***************************************************************************)
(* What the object dictionary promises its callers: a map from keys to     *)
(* values that every call reads and writes atomically.  A value carries a  *)
(* version, 1 for the first write of a key and one more for each further   *)
(* write, until the key is dropped.                                        *)
(***************************************************************************)
EXTENDS Naturals, FiniteSets

CONSTANTS Keys, Data, Lens, Tasks, MaxKeys, WordMod, Absent, Null

VARIABLES store,  \* store[k]: what key k holds, or Absent
          answer  \* answer[t]: what a read of task t returns, Null when there is none

vars == <<store, answer>>

Init == /\ store = [k \in Keys |-> Absent]
        /\ answer = [t \in Tasks |-> Null]

Present == {k \in Keys : store[k] # Absent}

NextVersion(k) == IF store[k] = Absent THEN 1 ELSE (store[k].version + 1) % WordMod

Write(k) ==
    /\ k \in Present \/ Cardinality(Present) < MaxKeys
    /\ \E d \in Data, n \in Lens \ {0} :
          store' = [store EXCEPT ![k] = [data |-> d, len |-> n, version |-> NextVersion(k)]]
    /\ UNCHANGED answer

\* A write of length 0, a write that found no memory, or a cleanup.
Drop(k) == /\ store' = [store EXCEPT ![k] = Absent]
           /\ UNCHANGED answer

Read(t) == /\ \E k \in Keys : answer' = [answer EXCEPT ![t] = store[k]]
           /\ UNCHANGED store

\* The task has its answer and goes on.
Return(t) == /\ answer' = [answer EXCEPT ![t] = Null]
             /\ UNCHANGED store

Next == \/ \E k \in Keys : Write(k) \/ Drop(k)
        \/ \E t \in Tasks : Read(t) \/ Return(t)

Spec == Init /\ [][Next]_vars
================================================================================
