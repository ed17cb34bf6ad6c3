----------------------------- MODULE MCRingBuffer -----------------------------
(***************************************************************************)
(* Model values for TLC.  With Capacity 2 and IndexMod 4 both indices wrap *)
(* around after four items.                                                *)
(***************************************************************************)
EXTENDS RingBuffer
================================================================================
