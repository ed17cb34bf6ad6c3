------------------------------- MODULE MCTopicBus -------------------------------
(***************************************************************************)
(* Model values for TLC: two entries that the rules of three topics        *)
(* contend for, and rules of every type over two or three events.          *)
(***************************************************************************)
EXTENDS TopicBus, TLC

Rule(ty, evs, td) == [type |-> ty, events |-> evs, timed |-> td]

DistinctRules == {Rule("or", <<1, 2>>, TRUE), Rule("and", <<2, 1>>, TRUE),
                  Rule("and", <<1, 3>>, FALSE), Rule("manual", <<1>>, TRUE)}

ZeroRules == {Rule("or", <<0, 1>>, FALSE), Rule("and", <<1, 0>>, FALSE)}

Symmetry == Permutations(Publishers) \cup Permutations(TopicIds)
================================================================================
