----------------------------- MODULE MCTopicServer -----------------------------
(***************************************************************************)
(* Model values for TLC: one event that fires one topic and one that fires *)
(* two, a callback for each topic and a table of two entries.              *)
(***************************************************************************)
EXTENDS TopicServer, TLC

CONSTANTS k1, k2, c1, c2

MCTopicsFor == k1 :> <<1>> @@ k2 :> <<2, 1>>

MCTopicOf == c1 :> 1 @@ c2 :> 2
================================================================================
