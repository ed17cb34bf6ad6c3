------------------------------ MODULE MCOsQueue ------------------------------
(***************************************************************************)
(* Model values for TLC: a sender and two receivers, interrupts that       *)
(* send, a ring of two places.  No symmetry, for a liveness property is    *)
(* checked.                                                                *)
(***************************************************************************)
EXTENDS OsQueue, TLC
================================================================================
