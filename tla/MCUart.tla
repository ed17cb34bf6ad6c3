-------------------------------- MODULE MCUart --------------------------------
(***************************************************************************)
(* Model values for TLC: two messages, of two bytes and of one, and four   *)
(* received bytes through buffers of two.                                  *)
(***************************************************************************)
EXTENDS Uart

MCLengths == <<2, 1>>
================================================================================
