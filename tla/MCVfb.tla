-------------------------------- MODULE MCVfb --------------------------------
(***************************************************************************)
(* Model values for TLC: a task that sends twice and an interrupt that     *)
(* sends once, two receivers with queues of one place and memory for two   *)
(* frames.                                                                 *)
(***************************************************************************)
EXTENDS Vfb, TLC

CONSTANTS s1, i1, e1

MCMaxSends == s1 :> 2 @@ i1 :> 1

MCEventsOf == [r \in Receivers |-> {e1}]
================================================================================
