------------------------------ MODULE BoundedFifo ------------------------------
(***************************************************************************)
(* What a ring buffer promises its callers: a first-in-first-out queue of  *)
(* at most Capacity items.  An item enters once, at the tail; an item      *)
(* leaves once, from the head, into the hands of one reader.               *)
(***************************************************************************)
EXTENDS Naturals, Sequences

CONSTANTS Capacity, Items, Readers, NoItem

VARIABLES queue,  \* the items accepted and not yet taken, oldest first
          got     \* got[c]: the item reader c took last, NoItem before the first

vars == <<queue, got>>

Init == /\ queue = <<>>
        /\ got = [c \in Readers |-> NoItem]

Put == /\ Len(queue) < Capacity
       /\ \E v \in Items : queue' = Append(queue, v)
       /\ UNCHANGED got

Get(c) == /\ queue # <<>>
          /\ got' = [got EXCEPT ![c] = Head(queue)]
          /\ queue' = Tail(queue)

Clear == /\ queue' = <<>>
         /\ UNCHANGED got

Next == Put \/ Clear \/ \E c \in Readers : Get(c)

Spec == Init /\ [][Next]_vars
================================================================================
