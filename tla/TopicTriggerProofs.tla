--------------------------- MODULE TopicTriggerProofs ---------------------------
(***************************************************************************)
(* What holds of a delivery of TopicTrigger for every number of            *)
(* publishers, subscribers, keys and blocks.                               *)
(***************************************************************************)
EXTENDS TopicTrigger, ObjDictProofs

-----------------------------------------------------------------------------
(***************************************************************************)
(* Lists.  Reach is From with the next fields as a parameter, so that what *)
(* is shown of it holds before and after a step.                           *)
(***************************************************************************)
Leads(f, S) == \A m \in S : f[m] \in S \cup {Nil}

Reach(f, n) == {m \in Nodes : \A S \in SUBSET Nodes : n \in S \cup {Nil} /\ Leads(f, S) => m \in S}

NextFields == [Nodes -> Nodes \cup {Nil}]

\* From is Reach along the next fields.
LEMMA FromReaches ==
    /\ \A n : From(n) = Reach(next, n)
    /\ \A n : From(n)' = Reach(next', n')
BY DEF From, Closed, Reach, Leads

\* The rest of a list is in every set of nodes that the list leaves at its end only.
LEMMA ReachLeast ==
    ASSUME NEW f, NEW n, NEW S \in SUBSET Nodes, n \in S \cup {Nil}, Leads(f, S)
    PROVE  Reach(f, n) \subseteq S
BY DEF Reach

\* The rest of a list is such a set.
LEMMA ReachClosed ==
    ASSUME NEW f, NEW n \in Nodes \cup {Nil}, \A m \in Nodes : f[m] \in Nodes \cup {Nil}
    PROVE  Reach(f, n) \subseteq Nodes /\ n \in Reach(f, n) \cup {Nil} /\ Leads(f, Reach(f, n))
<1>1. Reach(f, n) \subseteq Nodes /\ n \in Reach(f, n) \cup {Nil}
  BY DEF Reach
<1>2. ASSUME NEW m \in Reach(f, n), f[m] # Nil PROVE f[m] \in Reach(f, n)
  <2>1. f[m] \in Nodes
    BY <1>1, <1>2
  <2>2. ASSUME NEW S \in SUBSET Nodes, n \in S \cup {Nil}, Leads(f, S) PROVE f[m] \in S
    <3>1. m \in S
      BY <2>2 DEF Reach
    <3>. QED  BY <1>2, <2>2, <3>1 DEF Leads
  <2>. QED  BY <2>1, <2>2 DEF Reach
<1>. QED  BY <1>1, <1>2 DEF Leads

\* The end of a list has no nodes; another rest of it is its first node and what follows.
LEMMA ReachStep ==
    ASSUME NEW f, \A m \in Nodes : f[m] \in Nodes \cup {Nil}
    PROVE  /\ Reach(f, Nil) = {}
           /\ \A n \in Nodes : Reach(f, n) = {n} \cup Reach(f, f[n])
<1>1. Reach(f, Nil) = {}
  <2>1. Leads(f, {})
    BY DEF Leads
  <2>. QED  BY <2>1, ReachLeast
<1>2. ASSUME NEW n \in Nodes PROVE Reach(f, n) = {n} \cup Reach(f, f[n])
  <2>0. n # Nil
    BY TriggerAssumption
  <2>1. /\ Reach(f, n) \subseteq Nodes /\ n \in Reach(f, n) /\ Leads(f, Reach(f, n))
    BY <2>0, ReachClosed
  <2>2. /\ Reach(f, f[n]) \subseteq Nodes /\ f[n] \in Reach(f, f[n]) \cup {Nil}
        /\ Leads(f, Reach(f, f[n]))
    BY ReachClosed
  <2>3. f[n] \in Reach(f, n) \cup {Nil}
    BY <2>1 DEF Leads
  <2>4. Reach(f, f[n]) \subseteq Reach(f, n)
    BY <2>1, <2>3, ReachLeast
  <2>5. Leads(f, {n} \cup Reach(f, f[n]))
    BY <2>2 DEF Leads
  <2>6. Reach(f, n) \subseteq {n} \cup Reach(f, f[n])
    BY <2>2, <2>5, ReachLeast
  <2>. QED  BY <2>1, <2>4, <2>6
<1>. QED  BY <1>1, <1>2

\* A list that is not written to stays the same.
LEMMA ReachSame ==
    ASSUME NEW f, NEW g, NEW n \in Nodes \cup {Nil},
           \A m \in Nodes : f[m] \in Nodes \cup {Nil} /\ g[m] \in Nodes \cup {Nil},
           \A m \in Reach(f, n) : g[m] = f[m]
    PROVE  Reach(g, n) = Reach(f, n)
<1>1. /\ Reach(f, n) \subseteq Nodes /\ n \in Reach(f, n) \cup {Nil} /\ Leads(f, Reach(f, n))
      /\ Reach(g, n) \subseteq Nodes /\ n \in Reach(g, n) \cup {Nil} /\ Leads(g, Reach(g, n))
  BY ReachClosed
<1>2. Leads(g, Reach(f, n))
  BY <1>1 DEF Leads
<1>3. Reach(g, n) \subseteq Reach(f, n)
  BY <1>1, <1>2, ReachLeast
<1>4. Leads(f, Reach(g, n))
  BY <1>1, <1>3 DEF Leads
<1>. QED  BY <1>1, <1>3, <1>4, ReachLeast

Acyclic(f, A) == \A m \in A : m \notin Reach(f, f[m])

\* topic_unsubscribe leads every pointer to a node of the list past it.
LEMMA ReachCut ==
    ASSUME NEW f \in NextFields, NEW g \in NextFields, NEW h \in Nodes \cup {Nil},
           Acyclic(f, Reach(f, h)), NEW n \in Reach(f, h), n # h,
           \A m \in Nodes : g[m] = IF m \in Reach(f, h) /\ f[m] = n THEN f[n] ELSE f[m]
    PROVE  Reach(g, h) = Reach(f, h) \ {n} /\ Acyclic(g, Reach(g, h))
<1>. DEFINE L == Reach(f, h)
<1>0. \A m \in Nodes : f[m] \in Nodes \cup {Nil} /\ g[m] \in Nodes \cup {Nil}
  BY DEF NextFields
<1>1. L \subseteq Nodes /\ h \in L \cup {Nil} /\ Leads(f, L)
  BY <1>0, ReachClosed
<1>2. f[n] \in (L \ {n}) \cup {Nil}
  <2>1. f[n] \in Reach(f, f[n]) \cup {Nil}
    BY <1>0, <1>1, ReachClosed
  <2>. QED  BY <1>1, <2>1 DEF Acyclic, Leads
<1>3. ASSUME NEW x \in (L \ {n}) \cup {Nil} PROVE Reach(g, x) \subseteq Reach(f, x) \ {n}
  <2>1. Reach(f, x) \subseteq Nodes /\ x \in Reach(f, x) \cup {Nil} /\ Leads(f, Reach(f, x))
    BY <1>0, <1>1, ReachClosed
  <2>2. Reach(f, x) \subseteq L
    BY <1>1, ReachLeast
  <2>3. n \in Reach(f, x) => f[n] \in (Reach(f, x) \ {n}) \cup {Nil}
    BY <1>2, <2>1 DEF Leads
  <2>4. Leads(g, Reach(f, x) \ {n})
    <3>. SUFFICES ASSUME NEW m \in Reach(f, x) \ {n}
                  PROVE  g[m] \in (Reach(f, x) \ {n}) \cup {Nil}
      BY DEF Leads
    <3>1. g[m] = IF f[m] = n THEN f[n] ELSE f[m]
      BY <1>1, <2>2
    <3>2. f[m] \in Reach(f, x) \cup {Nil}
      BY <2>1 DEF Leads
    <3>3. n # Nil
      BY <1>1, TriggerAssumption
    <3>. QED  BY <2>3, <3>1, <3>2, <3>3
  <2>5. x \in (Reach(f, x) \ {n}) \cup {Nil} /\ Reach(f, x) \ {n} \in SUBSET Nodes
    BY <1>1, <2>1, TriggerAssumption
  <2>. QED  BY <2>4, <2>5, ReachLeast
<1>4. Reach(g, h) \subseteq L \ {n}
  BY <1>1, <1>3
<1>5. L \ {n} \subseteq Reach(g, h)
  <2>. DEFINE G == Reach(g, h)   S == IF f[n] \in G \cup {Nil} THEN G \cup {n} ELSE G
  <2>1. G \subseteq Nodes /\ h \in G \cup {Nil} /\ Leads(g, G)
    BY <1>0, ReachClosed
  <2>2. ASSUME NEW m \in G PROVE f[m] \in S \cup {Nil}
    <3>1. m \in L /\ g[m] \in G \cup {Nil}
      BY <1>4, <2>1 DEF Leads
    <3>2. g[m] = IF f[m] = n THEN f[n] ELSE f[m]
      BY <1>1, <3>1
    <3>. QED  BY <3>1, <3>2
  <2>3. Leads(f, S)
    BY <2>2 DEF Leads
  <2>4. S \in SUBSET Nodes /\ h \in S \cup {Nil}
    BY <1>1, <2>1
  <2>5. L \subseteq S
    BY <2>3, <2>4, ReachLeast
  <2>. QED  BY <2>5
<1>6. ASSUME NEW m \in L \ {n} PROVE m \notin Reach(g, g[m])
  <2>1. m \notin Reach(f, f[m]) /\ m \in Nodes
    BY <1>1 DEF Acyclic
  <2>2. CASE f[m] = n
    <3>1. g[m] = f[n] /\ Reach(f, n) = {n} \cup Reach(f, f[n])
      BY <1>0, <1>1, <2>1, <2>2, ReachStep
    <3>2. Reach(g, f[n]) \subseteq Reach(f, f[n])
      BY <1>2, <1>3
    <3>. QED  BY <2>1, <2>2, <3>1, <3>2
  <2>3. CASE f[m] # n
    <3>1. g[m] = f[m] /\ f[m] \in (L \ {n}) \cup {Nil}
      BY <1>1, <2>1, <2>3 DEF Leads
    <3>. QED  BY <1>3, <2>1, <3>1
  <2>. QED  BY <2>2, <2>3
<1>. QED  BY <1>4, <1>5, <1>6 DEF Acyclic

-----------------------------------------------------------------------------
(***************************************************************************)
(* Types.                                                                  *)
(***************************************************************************)
PubPCs == {"idle", "scan", "match", "check", "load", "retain", "walk", "callback", "walked",
           "route"}

PubType == [pc : PubPCs, op : PublishOps \cup {"none"}, key : Keys \cup {NoKey}, at : Slots,
            data : Blocks \cup {Null}, node : Nodes \cup {Nil},
            due : SUBSET Nodes, called : SUBSET Nodes]

BusTypes ==
    /\ subscribers \in Nodes \cup {Nil}
    /\ next \in NextFields
    /\ allocated \subseteq Nodes
    /\ pub \in [Publishers -> PubType]
    /\ \A p \in Publishers : /\ ~At(p, "idle") => pub[p].key \in Keys
                             /\ At(p, "callback") => pub[p].node # Nil

\* A publisher that moves on to a well-typed delivery leaves the others as they were.
LEMMA MoveType ==
    ASSUME BusTypes, NEW p \in Publishers, NEW r \in PubType, Move(p, r)
    PROVE  /\ pub' \in [Publishers -> PubType] /\ pub'[p] = r
           /\ \A q \in Publishers \ {p} : pub'[q] = pub[q]
BY DEF BusTypes, Move

SameData(d, e) == e.key = d.key /\ e.data = d.data /\ e.called = d.called

\* The rest of a search is well typed.
LEMMA OnwardType ==
    ASSUME NEW r \in PubType
    PROVE  /\ Onward(r) \in PubType /\ Onward(r).pc \in {"scan", "walk"}
           /\ SameData(r, Onward(r))
<1>1. r.at \in 1 .. MaxKeys /\ MaxKeys \in Nat
  BY DictAssumption DEF PubType, Slots
<1>2. CASE r.at = MaxKeys
  BY <1>2 DEF Onward, PubType, PubPCs, SameData
<1>3. CASE r.at # MaxKeys
  <2>1. r.at + 1 \in Slots
    BY <1>1, <1>3 DEF Slots
  <2>. QED  BY <1>3, <2>1 DEF Onward, PubType, PubPCs, SameData
<1>. QED  BY <1>2, <1>3

\* What each step makes of delivery d of publisher p, with the step it is in the dictionary.
Searched(d, e) ==
    /\ UNCHANGED vars /\ SameData(d, e)
    /\ \/ d.pc \in {"scan", "match", "check"} /\ e.pc \in {"scan", "walk"}
       \/ d.pc = "scan" /\ e.pc = "match" /\ e.at = d.at /\ Live(d.at)
       \/ d.pc = "match" /\ e.pc = "check" /\ e.at = d.at /\ entries[d.at].key = d.key
       \/ d.pc = "check" /\ e.pc = "load" /\ e.at = d.at /\ Live(d.at)

Loaded(d, e) ==
    /\ UNCHANGED vars /\ d.pc = "load" /\ e.pc = "retain" /\ e.key = d.key /\ e.called = d.called
    /\ e.data = entries[d.at].value

Held(p, d, e) ==
    /\ d.pc = "retain" /\ e.pc = "walk" /\ SameData(d, e)
    /\ Begin(p, [Idle EXCEPT !.op = "retain", !.key = d.key])

Walked(p, d, e) ==
    /\ UNCHANGED vars /\ e.key = d.key /\ e.data = d.data
    /\ \/ /\ d.pc = "walk" /\ call[p].pc = "idle"
          /\ e.pc = (IF subscribers = Nil THEN "walked" ELSE "callback")
          /\ e.node = subscribers /\ e.due = From(subscribers) /\ e.called = d.called
       \/ /\ d.pc = "callback" /\ e.called = d.called \cup {d.node} /\ e.due = d.due
          /\ e.node = next[d.node]
          /\ e.pc = (IF e.node = Nil THEN "walked" ELSE "callback")

Dropped(p, d, e) ==
    /\ d.pc = "walked" /\ e.pc = "route" /\ SameData(d, e)
    /\ IF d.data = Null THEN UNCHANGED vars
       ELSE Begin(p, [Idle EXCEPT !.op = "release", !.key = d.key])

Advances(p, d, e) ==
    \/ /\ UNCHANGED vars /\ d.pc = "idle" /\ e.pc = "scan" /\ e.key \in Keys
       /\ e.data = Null /\ e.called = {}
    \/ Searched(d, e)
    \/ Loaded(d, e)
    \/ Held(p, d, e)
    \/ PublisherCall(p) /\ e = d
    \/ Walked(p, d, e)
    \/ Dropped(p, d, e)
    \/ UNCHANGED vars /\ d.pc = "route" /\ call[p].pc = "idle" /\ e = Resting

\* A step of a publisher does that to its delivery and nothing to the others.
LEMMA PublisherMoves ==
    ASSUME TypeOK, BusTypes, NEW p \in Publishers, PublisherStep(p)
    PROVE  /\ pub' \in [Publishers -> PubType] /\ UNCHANGED list
           /\ \A q \in Publishers \ {p} : pub'[q] = pub[q]
           /\ Advances(p, pub[p], pub'[p])
<1>. DEFINE d == pub[p]
<1>0. /\ d \in PubType /\ \A s \in Slots : entries[s].value \in Blocks \cup {Null}
      /\ Resting \in PubType
  BY DictAssumption DEF TypeOK, BusTypes, PubType, PubPCs, Resting, Slots
<1>1. CASE Publish(p)
  <2>1. PICK op \in PublishOps, k \in Keys :
               Move(p, [Resting EXCEPT !.pc = "scan", !.op = op, !.key = k])
    BY <1>1 DEF Publish
  <2>. DEFINE r == [Resting EXCEPT !.pc = "scan", !.op = op, !.key = k]
  <2>2. r \in PubType /\ r.pc = "scan" /\ r.key \in Keys /\ r.data = Null /\ r.called = {}
    BY <1>0 DEF PubType, PubPCs, Resting
  <2>. HIDE DEF r
  <2>. QED  BY <1>1, <2>1, <2>2, MoveType DEF Publish, Advances, At, r
<1>2. CASE ScanValue(p) \/ ScanKey(p) \/ CheckValue(p)
  <2>. DEFINE r == IF ScanValue(p)
                   THEN IF Live(d.at) THEN [d EXCEPT !.pc = "match"] ELSE Onward(d)
                   ELSE IF ScanKey(p)
                   THEN IF entries[d.at].key = d.key THEN [d EXCEPT !.pc = "check"] ELSE Onward(d)
                   ELSE [d EXCEPT !.pc = IF Live(d.at) THEN "load" ELSE "walk"]
  <2>1. Move(p, r) /\ UNCHANGED <<vars, list>>
    BY <1>2 DEF ScanValue, ScanKey, CheckValue, At
  <2>2. r \in PubType
    BY <1>0, OnwardType DEF PubType, PubPCs
  <2>3. Searched(d, r)
    <3>1. CASE ScanValue(p)
      BY <1>0, <2>1, <3>1, OnwardType DEF Searched, SameData, PubType, ScanValue, At
    <3>2. CASE ScanKey(p)
      BY <1>0, <2>1, <3>2, OnwardType DEF Searched, SameData, PubType, ScanKey, ScanValue, At
    <3>3. CASE CheckValue(p)
      BY <1>0, <2>1, <3>3 DEF Searched, SameData, PubType, CheckValue, ScanKey, ScanValue, At
    <3>. QED  BY <1>2, <3>1, <3>2, <3>3
  <2>. HIDE DEF r
  <2>. QED  BY <2>1, <2>2, <2>3, MoveType DEF Advances
<1>3. CASE LoadValue(p)
  <2>. DEFINE r == [d EXCEPT !.pc = "retain", !.data = entries[d.at].value]
  <2>1. Move(p, r) /\ UNCHANGED <<vars, list>>
    BY <1>3 DEF LoadValue
  <2>2. r \in PubType /\ Loaded(d, r)
    BY <1>0, <1>3, <2>1 DEF PubType, PubPCs, Loaded, LoadValue, At
  <2>. HIDE DEF r
  <2>. QED  BY <2>1, <2>2, MoveType DEF Advances
<1>4. CASE RetainData(p)
  <2>. DEFINE r == [d EXCEPT !.pc = "walk"]
  <2>1. Move(p, r) /\ UNCHANGED list
    BY <1>4 DEF RetainData
  <2>2. r \in PubType /\ Held(p, d, r)
    BY <1>0, <1>4 DEF PubType, PubPCs, Held, SameData, RetainData, At
  <2>. HIDE DEF r
  <2>. QED  BY <2>1, <2>2, MoveType DEF Advances
<1>5. CASE PublisherCall(p)
  BY <1>5 DEF PublisherCall, bus, Advances, BusTypes
<1>6. CASE StartWalk(p)
  <2>. DEFINE r == [d EXCEPT !.pc = IF subscribers = Nil THEN "walked" ELSE "callback",
                             !.node = subscribers, !.due = From(subscribers)]
  <2>1. Move(p, r) /\ UNCHANGED <<vars, list>>
    BY <1>6 DEF StartWalk
  <2>2. From(subscribers) \in SUBSET Nodes
    BY DEF From
  <2>3. r \in PubType
    BY <1>0, <2>2, ZenonT(30) DEF PubType, PubPCs, BusTypes
  <2>4. Walked(p, d, r)
    BY <1>0, <1>6, <2>1 DEF PubType, Walked, StartWalk, At
  <2>. HIDE DEF r
  <2>. QED  BY <2>1, <2>3, <2>4, MoveType DEF Advances
<1>7. CASE NextSubscriber(p)
  <2>. DEFINE n == next[d.node]
              r == [d EXCEPT !.pc = IF n = Nil THEN "walked" ELSE "callback",
                             !.node = n, !.called = d.called \cup {d.node}]
  <2>1. Move(p, r) /\ UNCHANGED <<vars, list>>
    BY <1>0, <1>7 DEF NextSubscriber, PubType
  <2>2. d.node \in Nodes /\ n \in Nodes \cup {Nil}
    BY <1>0, <1>7 DEF NextSubscriber, BusTypes, PubType, NextFields
  <2>3. r \in PubType
    BY <1>0, <2>2, ZenonT(30) DEF PubType, PubPCs
  <2>4. Walked(p, d, r)
    BY <1>0, <1>7, <2>1 DEF PubType, Walked, NextSubscriber, At
  <2>. HIDE DEF r
  <2>. QED  BY <2>1, <2>3, <2>4, MoveType DEF Advances
<1>8. CASE ReleaseData(p)
  <2>. DEFINE r == [d EXCEPT !.pc = "route"]
  <2>1. Move(p, r) /\ UNCHANGED list
    BY <1>8 DEF ReleaseData
  <2>2. r \in PubType /\ Dropped(p, d, r)
    BY <1>0, <1>8 DEF PubType, PubPCs, Dropped, SameData, ReleaseData, At
  <2>. HIDE DEF r
  <2>. QED  BY <2>1, <2>2, MoveType DEF Advances
<1>9. CASE Routed(p)
  BY <1>0, <1>9, MoveType DEF Routed, Advances, At
<1>. QED  BY <1>1, <1>2, <1>3, <1>4, <1>5, <1>6, <1>7, <1>8, <1>9 DEF PublisherStep

\* Both kinds of variables keep their types.
LEMMA BusTypesStep == TypeOK /\ BusTypes /\ [TriggerNext]_allVars => BusTypes'
<1>. SUFFICES ASSUME TypeOK, BusTypes, [TriggerNext]_allVars PROVE BusTypes'
  OBVIOUS
<1>1. CASE UNCHANGED bus
  BY <1>1 DEF bus, list, BusTypes, At
<1>2. ASSUME NEW p \in Publishers, PublisherStep(p) PROVE BusTypes'
  <2>. DEFINE d == pub[p]   e == pub'[p]
  <2>1. /\ pub' \in [Publishers -> PubType] /\ UNCHANGED list
        /\ \A q \in Publishers \ {p} : pub'[q] = pub[q]
        /\ Advances(p, d, e)
    BY <1>2, PublisherMoves
  <2>2. e.pc = "callback" => e.node # Nil
    BY <2>1 DEF Advances, Searched, Loaded, Held, Walked, Dropped, BusTypes, At, Resting
  <2>3. e.pc # "idle" => e.key \in Keys
    BY <2>1 DEF Advances, Searched, Loaded, Held, Walked, Dropped, SameData, BusTypes, At, Resting
  <2>. QED  BY <2>1, <2>2, <2>3 DEF BusTypes, At, list
<1>3. CASE Subscribe
  BY <1>3 DEF Subscribe, BusTypes, NextFields, At
<1>4. CASE Unsubscribe
  <2>1. PICK n \in From(subscribers) :
          /\ allocated' = allocated \ {n}
          /\ IF n = subscribers
             THEN subscribers' = next[n] /\ UNCHANGED next
             ELSE /\ next' = [m \in Nodes |->
                        IF m \in From(subscribers) /\ next[m] = n THEN next[n] ELSE next[m]]
                  /\ UNCHANGED subscribers
    BY <1>4 DEF Unsubscribe
  <2>2. n \in Nodes
    BY DEF From
  <2>3. pub' = pub
    BY <1>4 DEF Unsubscribe
  <2>. QED  BY <2>1, <2>2, <2>3 DEF BusTypes, NextFields, At
<1>. QED  BY <1>1, <1>2, <1>3, <1>4 DEF TriggerNext, allVars

\* What publishers do to the dictionary: they begin calls and make the steps of any task.
LEMMA OtherTasks ==
    ASSUME NEW p \in Publishers
    PROVE  p \in Tasks /\ (PublisherCall(p) => TaskStep(p) /\ UNCHANGED bus)
BY TriggerAssumption DEF PublisherCall, TaskStep

\* Each step of a publication that touches the dictionary is one call of the bus on it.
LEMMA OwnCalls ==
    ASSUME NEW p \in Publishers, PublisherStep(p)
    PROVE  UNCHANGED vars \/ PublisherCall(p) \/ RetainData(p) \/ ReleaseData(p)
BY DEF PublisherStep, Publish, ScanValue, ScanKey, CheckValue, LoadValue, StartWalk,
       NextSubscriber, Routed

\* The calls of publishers into the dictionary keep its types too.
LEMMA DictTypesStep == TypeOK /\ BusTypes /\ [TriggerNext]_allVars => TypeOK'
<1>. SUFFICES ASSUME TypeOK, BusTypes, [TriggerNext]_allVars PROVE TypeOK'
  OBVIOUS
<1>1. CASE [Next]_vars
  BY <1>1, TypeStep
<1>2. ASSUME NEW p \in Publishers, RetainData(p) \/ ReleaseData(p), ~ UNCHANGED vars
      PROVE  TypeOK'
  <2>. DEFINE k == pub[p].key   c == [Idle EXCEPT !.op = "retain", !.key = k]
              d == [Idle EXCEPT !.op = "release", !.key = k]
  <2>1. k \in Keys /\ p \in Tasks
    BY <1>2, TriggerAssumption DEF BusTypes, RetainData, ReleaseData, At
  <2>2. c \in CallState /\ c.key \in Keys /\ d \in CallState /\ d.key \in Keys
    BY <2>1, IdleType DEF CallState, AllCalls
  <2>3. Begin(p, c) \/ Begin(p, d)
    BY <1>2 DEF RetainData, ReleaseData
  <2>. HIDE DEF c, d
  <2>. QED  BY <2>1, <2>2, <2>3, BeginType
<1>3. TriggerNext => \/ [Next]_vars
                     \/ \E p \in Publishers : RetainData(p) \/ ReleaseData(p)
  BY OtherTasks, OwnCalls DEF TriggerNext, Next, Subscribe, Unsubscribe
<1>4. UNCHANGED allVars => [Next]_vars
  BY DEF allVars
<1>. QED  BY <1>1, <1>2, <1>3, <1>4

\* In every delivery the types of the dictionary and of the bus are kept.
LEMMA DeliveriesTyped == TriggerSpec => [](TypeOK /\ BusTypes)
<1>1. TriggerInit => BusTypes
  BY DictAssumption DEF TriggerInit, BusTypes, NextFields, At, Resting, PubType, PubPCs, Slots
<1>2. TriggerInit => TypeOK
  BY TypeInit DEF TriggerInit
<1>. QED  BY <1>1, <1>2, DictTypesStep, BusTypesStep, PTL DEF TriggerSpec

-----------------------------------------------------------------------------
(***************************************************************************)
(* The subscribers.                                                        *)
(***************************************************************************)
\* The list is what is allocated, and ends.
ListKept ==
    /\ allocated = Reach(next, subscribers)
    /\ Acyclic(next, allocated)

\* The nodes that a delivery has called and those ahead of it are the ones that were on the
\* list when it began.
WalkKept(p) ==
    LET d == pub[p] IN
    /\ d.pc \in {"idle", "scan", "match", "check", "load", "retain", "walk"} => d.called = {}
    /\ d.pc = "callback" => /\ d.node \in allocated
                            /\ d.called \cap Reach(next, d.node) = {}
                            /\ d.due = d.called \cup Reach(next, d.node)
    /\ d.pc = "walked" => d.called = d.due

SubscribersKept == ListKept /\ \A p \in Publishers : WalkKept(p)

\* A delivery goes along a list that stays as it is.
LEMMA WalkStep ==
    ASSUME TypeOK, BusTypes, SubscribersKept, NEW p \in Publishers, PublisherStep(p)
    PROVE  SubscribersKept'
<1>. DEFINE d == pub[p]   e == pub'[p]
<1>0. \A m \in Nodes : next[m] \in Nodes \cup {Nil}
  BY DEF BusTypes, NextFields
<1>1. /\ pub' \in [Publishers -> PubType] /\ UNCHANGED <<subscribers, next, allocated>>
      /\ \A q \in Publishers \ {p} : pub'[q] = pub[q]
      /\ Advances(p, d, e)
  BY PublisherMoves DEF list
<1>2. ListKept'
  BY <1>1 DEF SubscribersKept, ListKept
<1>3. \A q \in Publishers \ {p} : WalkKept(q)'
  BY <1>1 DEF SubscribersKept, WalkKept
<1>4. WalkKept(p)
  BY DEF SubscribersKept
<1>5. CASE ~ Walked(p, d, e)
  <2>1. \/ e = d
        \/ /\ e.pc \in {"scan", "match", "check", "load", "retain", "walk", "route"}
           /\ e.pc # "route" => e.called = {}
        \/ e = Resting
    BY <1>1, <1>4, <1>5 DEF Advances, Searched, Loaded, Held, Dropped, SameData, WalkKept
  <2>2. WalkKept(p)'
    BY <1>1, <1>4, <2>1 DEF WalkKept, Resting
  <2>. QED  BY <1>2, <1>3, <2>2 DEF SubscribersKept
<1>6. CASE d.pc = "walk" /\ Walked(p, d, e)
  <2>1. /\ e.pc = IF subscribers = Nil THEN "walked" ELSE "callback"
        /\ e.node = subscribers /\ e.due = Reach(next, subscribers) /\ e.called = {}
    BY <1>4, <1>6, FromReaches DEF Walked, WalkKept
  <2>2. subscribers = Nil => e.due = {}
    BY <1>0, <2>1, ReachStep
  <2>3. subscribers # Nil => subscribers \in allocated
    BY <1>0, ReachClosed DEF SubscribersKept, ListKept, BusTypes
  <2>4. WalkKept(p)'
    BY <1>1, <2>1, <2>2, <2>3 DEF WalkKept
  <2>. QED  BY <1>2, <1>3, <2>4 DEF SubscribersKept
<1>7. CASE d.pc = "callback" /\ Walked(p, d, e)
  <2>. DEFINE n == d.node   m == next[n]
  <2>1. /\ n \in allocated /\ d.called \cap Reach(next, n) = {}
        /\ d.due = d.called \cup Reach(next, n)
    BY <1>4, <1>7 DEF WalkKept
  <2>2. /\ e.called = d.called \cup {n} /\ e.due = d.due /\ e.node = m
        /\ e.pc = IF m = Nil THEN "walked" ELSE "callback"
    BY <1>7 DEF Walked
  <2>3. Reach(next, n) = {n} \cup Reach(next, m) /\ n \notin Reach(next, m)
    BY <1>0, <2>1, ReachStep DEF SubscribersKept, ListKept, Acyclic, BusTypes
  <2>4. m = Nil => Reach(next, m) = {}
    BY <1>0, ReachStep
  <2>5. m # Nil => m \in allocated
    BY <1>0, <2>1, ReachClosed DEF SubscribersKept, ListKept, BusTypes, Leads
  <2>6. WalkKept(p)'
    <3>. HIDE DEF m, n
    <3>. QED  BY <1>1, <2>1, <2>2, <2>3, <2>4, <2>5 DEF WalkKept
  <2>. QED  BY <1>2, <1>3, <2>6 DEF SubscribersKept
<1>. QED  BY <1>5, <1>6, <1>7 DEF Walked

\* A new node is put in front of the list.
LEMMA SubscribeStep ==
    ASSUME BusTypes, SubscribersKept, Subscribe
    PROVE  SubscribersKept'
<1>0. \A m \in Nodes : next[m] \in Nodes \cup {Nil}
  BY DEF BusTypes, NextFields
<1>1. PICK n \in Nodes \ allocated :
        /\ allocated' = allocated \cup {n}
        /\ next' = [next EXCEPT ![n] = subscribers]
        /\ subscribers' = n
  BY DEF Subscribe
<1>2. /\ \A m \in Nodes : next'[m] \in Nodes \cup {Nil}
      /\ \A m \in Nodes : next'[m] = IF m = n THEN subscribers ELSE next[m]
  BY <1>0, <1>1 DEF BusTypes, NextFields
<1>3. Leads(next, allocated) /\ allocated \subseteq Nodes
  BY <1>0, ReachClosed DEF SubscribersKept, ListKept, BusTypes
<1>4. ASSUME NEW m \in allocated \cup {Nil} PROVE Reach(next', m) = Reach(next, m)
  <2>1. Reach(next, m) \subseteq allocated /\ m \in Nodes \cup {Nil}
    BY <1>3, ReachLeast
  <2>2. \A x \in Reach(next, m) : next'[x] = next[x]
    BY <1>1, <1>2, <1>3, <2>1
  <2>. QED  BY <1>0, <1>2, <2>1, <2>2, ReachSame
<1>5. subscribers \in allocated \cup {Nil}
  BY <1>0, ReachClosed DEF SubscribersKept, ListKept, BusTypes
<1>6. next'[n] = subscribers /\ Reach(next', subscribers) = allocated
  BY <1>2, <1>4, <1>5 DEF SubscribersKept, ListKept
<1>7. allocated' = Reach(next', subscribers')
  <2>1. Reach(next', n) = {n} \cup Reach(next', next'[n])
    BY <1>2, ReachStep
  <2>. QED  BY <1>1, <1>6, <2>1
<1>8. Acyclic(next', allocated')
  <2>. SUFFICES ASSUME NEW m \in allocated' PROVE m \notin Reach(next', next'[m])
    BY DEF Acyclic
  <2>1. CASE m = n
    BY <1>1, <1>6, <2>1
  <2>2. CASE m # n
    <3>1. m \in allocated /\ next'[m] = next[m] /\ next[m] \in allocated \cup {Nil}
      BY <1>1, <1>2, <1>3, <2>2 DEF Leads
    <3>. QED  BY <1>4, <3>1 DEF SubscribersKept, ListKept, Acyclic
  <2>. QED  BY <2>1, <2>2
<1>9. ASSUME NEW p \in Publishers PROVE WalkKept(p)'
  <2>1. pub' = pub /\ WalkKept(p)
    BY DEF Subscribe, SubscribersKept
  <2>2. pub[p].pc = "callback" => Reach(next', pub[p].node) = Reach(next, pub[p].node)
    BY <1>4, <2>1 DEF WalkKept
  <2>. QED  BY <1>1, <2>1, <2>2 DEF WalkKept
<1>. QED  BY <1>7, <1>8, <1>9 DEF SubscribersKept, ListKept

\* When nobody delivers, the list alone counts.
LEMMA WalksOver ==
    ASSUME Unsubscribe, ~UnsubscribeAnytime, SubscribersKept, ListKept'
    PROVE  SubscribersKept'
<1>1. \A p \in Publishers : pub'[p].pc = "idle" /\ pub'[p].called = {}
  BY DEF Unsubscribe, Delivering, SubscribersKept, WalkKept
<1>. QED  BY <1>1 DEF SubscribersKept, WalkKept

\* A node is taken out of the list while nobody walks along it.
LEMMA UnsubscribeStep ==
    ASSUME BusTypes, SubscribersKept, Unsubscribe, ~UnsubscribeAnytime
    PROVE  SubscribersKept'
<1>0. \A m \in Nodes : next[m] \in Nodes \cup {Nil}
  BY DEF BusTypes, NextFields
<1>1. PICK n \in Reach(next, subscribers) :
        /\ allocated' = allocated \ {n}
        /\ IF n = subscribers
           THEN subscribers' = next[n] /\ UNCHANGED next
           ELSE /\ next' = [m \in Nodes |->
                      IF m \in Reach(next, subscribers) /\ next[m] = n THEN next[n] ELSE next[m]]
                /\ UNCHANGED subscribers
  BY FromReaches DEF Unsubscribe
<1>2. n \in Nodes /\ n \in allocated
  BY DEF Reach, SubscribersKept, ListKept
<1>3. CASE n = subscribers
  <2>1. Reach(next, n) = {n} \cup Reach(next, next[n]) /\ n \notin Reach(next, next[n])
    BY <1>0, <1>2, ReachStep DEF SubscribersKept, ListKept, Acyclic
  <2>2. allocated' = Reach(next', subscribers')
    BY <1>1, <1>3, <2>1 DEF SubscribersKept, ListKept
  <2>3. Acyclic(next', allocated')
    BY <1>1, <1>3 DEF SubscribersKept, ListKept, Acyclic
  <2>4. ListKept'
    BY <2>2, <2>3 DEF ListKept
  <2>. QED  BY <2>4, WalksOver
<1>4. CASE n # subscribers
  <2>1. /\ next' \in NextFields
        /\ \A m \in Nodes : next'[m] = IF m \in Reach(next, subscribers) /\ next[m] = n
                                       THEN next[n] ELSE next[m]
    BY <1>0, <1>1, <1>2, <1>4 DEF NextFields
  <2>2. /\ next \in NextFields /\ subscribers \in Nodes \cup {Nil}
        /\ Acyclic(next, Reach(next, subscribers))
    BY DEF SubscribersKept, ListKept, BusTypes
  <2>3. /\ Reach(next', subscribers) = Reach(next, subscribers) \ {n}
        /\ Acyclic(next', Reach(next', subscribers))
    BY <1>4, <2>1, <2>2, ReachCut
  <2>4. ListKept'
    BY <1>1, <1>4, <2>3 DEF SubscribersKept, ListKept
  <2>. QED  BY <2>4, WalksOver
<1>. QED  BY <1>3, <1>4

\* A delivery calls into no freed node and misses no node that was on the list when it began,
\* while other tasks subscribe to the topic.
THEOREM SubscribersAreCalled ==
    ASSUME ~UnsubscribeAnytime
    PROVE  TriggerSpec => []EverySubscriberCalled
<1>1. TriggerInit => SubscribersKept
  <2>. SUFFICES ASSUME TriggerInit PROVE SubscribersKept
    OBVIOUS
  <2>1. \A p \in Publishers : pub[p].pc = "idle" /\ pub[p].called = {}
    BY DEF TriggerInit, Resting
  <2>2. Reach(next, subscribers) = {}
    BY ReachStep DEF TriggerInit
  <2>3. ListKept
    BY <2>2 DEF TriggerInit, ListKept, Acyclic
  <2>. QED  BY <2>1, <2>3 DEF SubscribersKept, WalkKept
<1>2. BusTypes /\ SubscribersKept /\ TypeOK /\ [TriggerNext]_allVars => SubscribersKept'
  <2>. SUFFICES ASSUME BusTypes, SubscribersKept, TypeOK, [TriggerNext]_allVars
                PROVE  SubscribersKept'
    OBVIOUS
  <2>1. CASE UNCHANGED bus
    BY <2>1 DEF bus, list, SubscribersKept, ListKept, WalkKept
  <2>. QED  BY <2>1, WalkStep, SubscribeStep, UnsubscribeStep DEF TriggerNext, allVars
<1>3. BusTypes /\ SubscribersKept => EverySubscriberCalled
  <2>. SUFFICES ASSUME BusTypes, SubscribersKept, NEW p \in Publishers
                PROVE  /\ At(p, "callback") => pub[p].node \in allocated \ pub[p].called
                       /\ At(p, "walked") => pub[p].called = pub[p].due
    BY DEF EverySubscriberCalled
  <2>1. WalkKept(p)
    BY DEF SubscribersKept
  <2>2. At(p, "callback") => pub[p].node \in Reach(next, pub[p].node)
    <3>. SUFFICES ASSUME At(p, "callback") PROVE pub[p].node \in Reach(next, pub[p].node)
      OBVIOUS
    <3>1. pub[p].node \in Nodes
      BY <2>1 DEF At, WalkKept, BusTypes
    <3>. QED  BY <3>1 DEF Reach, BusTypes, At
  <2>. QED  BY <2>1, <2>2 DEF At, WalkKept
<1>. QED  BY <1>1, <1>2, <1>3, DeliveriesTyped, PTL DEF TriggerSpec

-----------------------------------------------------------------------------
(***************************************************************************)
(* The data.  A delivery is under these conditions: no cleanup runs, all   *)
(* values of the dictionary have one length and its lock does not time     *)
(* out.  Then a value stays where it is from the moment a publisher finds  *)
(* it, with or without a reference.                                        *)
(***************************************************************************)
PlainDelivery == "cleanup" \notin Calls /\ PlainRetaining /\ ~LockTimesOut

\* No task is in a cleanup or about to enter one.
NoSweeps == \A t \in Tasks : call[t].pc # "sweep" /\ (call[t].pc = "take" => call[t].op \in Calls)

\* The steps of a task in the dictionary are steps of its own call and its own pin.
LEMMA OnlyOwn ==
    ASSUME TypeOK, NEW t \in Tasks, TaskStep(t)
    PROVE  \A u \in Tasks \ {t} : call'[u] = call[u] /\ pins'[u] = pins[u]
<1>1. \E c : call' = [call EXCEPT ![t] = c]
  <2>1. ASSUME Begins(t) PROVE \E c : call' = [call EXCEPT ![t] = c]
    BY <2>1 DEF Begins, BeginSet, BeginGet, BeginRetain, BeginRelease, BeginCleanup, Begin
  <2>2. ASSUME Take(t) \/ Give(t) \/ Retain(t) \/ Release(t) \/ ReadMeta(t)
               \/ CopyBegin(t) \/ CopyEnd(t) \/ Stamp(t)
        PROVE  \E c : call' = [call EXCEPT ![t] = c]
    BY <2>2 DEF Take, Give, Retain, Release, ReadMeta, CopyBegin, CopyEnd, Stamp, Goto
  <2>3. ASSUME FindEntry(t) \/ ReadValue(t) PROVE \E c : call' = [call EXCEPT ![t] = c]
    BY <2>3 DEF FindEntry, ReadValue, Goto
  <2>4. ASSUME ClaimSlot(t) \/ AllocValue(t) PROVE \E c : call' = [call EXCEPT ![t] = c]
    BY <2>4 DEF ClaimSlot, AllocValue, Goto
  <2>5. ASSUME TrimValue(t) PROVE \E c : call' = [call EXCEPT ![t] = c]
    BY <2>5 DEF TrimValue
  <2>6. ASSUME Sweep(t) PROVE \E c : call' = [call EXCEPT ![t] = c]
    BY <2>6 DEF Sweep
  <2>. QED  BY <2>1, <2>2, <2>3, <2>4, <2>5, <2>6 DEF TaskStep, SetStep, Begins
<1>2. UNCHANGED pins \/ \E k : pins' = [pins EXCEPT ![t] = k]
  BY DEF TaskStep, SetStep, BeginSet, BeginGet, BeginRetain, BeginRelease, BeginCleanup, Begin,
         Take, Give, Retain, Release, ReadMeta, CopyBegin, CopyEnd, Stamp, FindEntry, ReadValue,
         ClaimSlot, AllocValue, TrimValue, Sweep
<1>. QED  BY <1>1, <1>2 DEF TypeOK

\* A task that does not clean up never gets to.
LEMMA NoSweepsStep ==
    ASSUME TypeOK, NoSweeps, "cleanup" \notin Calls, [Next]_vars
    PROVE  NoSweeps'
<1>1. CASE UNCHANGED vars
  BY <1>1 DEF vars, NoSweeps
<1>2. ASSUME NEW t \in Tasks, TaskStep(t) PROVE NoSweeps'
  <2>0. /\ \A u \in Tasks \ {t} : call'[u] = call[u]
        /\ call \in [Tasks -> CallState] /\ call[t] \in CallState
    BY <1>2, OnlyOwn DEF TypeOK
  <2>1. call'[t].pc # "sweep" /\ (call'[t].pc = "take" => call'[t].op \in Calls)
    <3>1. CASE Begins(t)
      <4>1. PICK c \in CallState : Begin(t, c)
        BY <3>1, BeginsType
      <4>2. call'[t] = [c EXCEPT !.pc = "take"] /\ c.op \in Calls
        BY <2>0, <4>1 DEF Begin
      <4>. QED  BY <4>2 DEF CallState
    <3>2. CASE Take(t)
      <4>1. call'[t] = [call[t] EXCEPT !.pc = Entry(call[t].op)] /\ call[t].op \in Calls
        BY <2>0, <3>2 DEF Take, Goto, NoSweeps
      <4>2. call[t].op \in {"set", "get", "retain", "release"}
        BY <4>1, DictAssumption DEF AllCalls
      <4>3. Entry(call[t].op) \notin {"sweep", "take"}
        BY <4>2 DEF Entry
      <4>. QED  BY <2>0, <4>1, <4>3 DEF CallState
    <3>3. CASE Give(t)
      BY <2>0, <3>3 DEF Give, Idle
    <3>4. CASE Retain(t) \/ Release(t) \/ ReadMeta(t) \/ CopyBegin(t) \/ CopyEnd(t) \/ Stamp(t)
      BY <2>0, <3>4 DEF Retain, Release, ReadMeta, CopyBegin, CopyEnd, Stamp, Goto, CallState
    <3>5. CASE FindEntry(t) \/ ReadValue(t) \/ ClaimSlot(t) \/ AllocValue(t)
      <4>. DEFINE
             Jumps == \E l \in {"give", "claim", "copy"} :
                         call' = [call EXCEPT ![t] = [call[t] EXCEPT !.pc = l]]
             Trims == \E x : call' = [call EXCEPT ![t] = [call[t] EXCEPT !.pc = "trim", !.slot = x]]
             Reads == \E x, m, n : call' = [call EXCEPT ![t] = [call[t] EXCEPT !.pc = "meta",
                                                !.slot = x, !.data = m, !.len = n]]
      <4>1. ASSUME Jumps \/ Trims \/ Reads PROVE call'[t].pc \notin {"sweep", "take"}
        <5>1. CASE Jumps
          BY <2>0, <5>1 DEF CallState
        <5>2. CASE Trims
          BY <2>0, <5>2 DEF CallState
        <5>3. CASE Reads
          BY <2>0, <5>3 DEF CallState
        <5>. QED  BY <4>1, <5>1, <5>2, <5>3
      <4>2. Jumps \/ Trims \/ Reads
        <5>1. CASE FindEntry(t)
          BY <5>1 DEF FindEntry
        <5>2. CASE ReadValue(t)
          BY <5>2, ZenonT(30) DEF ReadValue, Goto
        <5>3. CASE ClaimSlot(t)
          BY <5>3 DEF ClaimSlot, Goto
        <5>4. CASE AllocValue(t)
          BY <5>4 DEF AllocValue, Goto
        <5>. QED  BY <3>5, <5>1, <5>2, <5>3, <5>4
      <4>. QED  BY <4>1, <4>2
    <3>6. CASE TrimValue(t)
      BY <2>0, <3>6 DEF TrimValue, CallState
    <3>7. CASE Sweep(t)
      BY <3>7 DEF Sweep, NoSweeps
    <3>. QED  BY <1>2, <3>1, <3>2, <3>3, <3>4, <3>5, <3>6, <3>7 DEF TaskStep, SetStep, Begins
  <2>. QED  BY <2>0, <2>1 DEF NoSweeps
<1>. QED  BY <1>1, <1>2 DEF Next

\* How far a publisher is with the dictionary: what it has seen of the entry it looks at,
\* whether it holds a reference, and that the pointer it took is still the value of its key.
DeliveryKept(p) ==
    LET d == pub[p]
        c == call[p]
    IN /\ d.data # Null => Valid(p)
       /\ d.pc \in {"idle", "scan", "match", "check", "load"} => d.data = Null
       /\ d.pc = "retain" => d.data # Null
       /\ d.pc \in {"idle", "scan", "match", "check", "load", "retain"} =>
             c.pc = "idle" /\ pins[p] = NoKey
       /\ d.pc \in {"match", "check", "load"} => Live(d.at)
       /\ d.pc \in {"check", "load"} => entries[d.at].key = d.key
       /\ d.pc = "walk" =>
             \/ c.pc = "idle" /\ pins[p] = IF d.data = Null THEN NoKey ELSE d.key
             \/ /\ c.pc \in {"take", "retain"} /\ c.op = "retain" /\ c.key = d.key
                /\ pins[p] = NoKey /\ d.data # Null
             \/ c.pc = "give" /\ pins[p] = d.key /\ d.data # Null
       /\ d.pc \in {"callback", "walked"} =>
             c.pc = "idle" /\ pins[p] = IF d.data = Null THEN NoKey ELSE d.key
       /\ d.pc = "route" =>
             \/ c.pc \in {"idle", "give"} /\ pins[p] = NoKey
             \/ c.pc \in {"take", "release"} /\ c.op = "release" /\ c.key = d.key

DataKept == NoSweeps /\ \A p \in Publishers : DeliveryKept(p)

\* The whole invariant of the dictionary under deliveries.
DictKept == DictInv /\ CallsFit /\ RefsKept /\ BusTypes /\ DataKept

\* What a publisher asks of the dictionary is what any task may ask of it.
LEMMA OwnSteps ==
    ASSUME DictKept, NEW p \in Publishers, PublisherStep(p)
    PROVE  UNCHANGED vars \/ TaskStep(p)
<1>1. ASSUME RetainData(p) PROVE BeginRetain(p)
  <2>1. pub[p].key \in Keys /\ pins[p] = NoKey
    BY <1>1 DEF RetainData, At, DictKept, DataKept, DeliveryKept, BusTypes
  <2>. QED  BY <1>1, <2>1 DEF RetainData, BeginRetain
<1>2. ASSUME ReleaseData(p), ~ UNCHANGED vars PROVE BeginRelease(p)
  <2>1. pub[p].key \in Keys /\ pins[p] = pub[p].key
    BY <1>2 DEF ReleaseData, At, DictKept, DataKept, DeliveryKept, BusTypes
  <2>2. pins[p] # NoKey
    BY <2>1, DictAssumption
  <2>. QED  BY <1>2, <2>1, <2>2 DEF ReleaseData, BeginRelease
<1>. QED  BY <1>1, <1>2, OtherTasks, OwnCalls DEF TaskStep

\* Therefore the composition only makes steps of the dictionary.
LEMMA DeliveriesAreCalls == DictKept /\ [TriggerNext]_allVars => [Next]_vars
BY OwnSteps, OtherTasks DEF allVars, TriggerNext, Next, Subscribe, Unsubscribe

\* A value that was found stays where it is.
LEMMA DataStays ==
    ASSUME PlainDelivery, DictKept, [Next]_vars, NEW s \in Slots, Live(s)
    PROVE  Live(s)' /\ entries'[s].value = entries[s].value /\ entries'[s].key = entries[s].key
<1>1. CASE Next
  BY <1>1, ValueStays DEF DictKept, DictInv, DataKept, NoSweeps, PlainDelivery, Live
<1>2. CASE UNCHANGED vars
  BY <1>2 DEF vars, dict, Live
<1>. QED  BY <1>1, <1>2

\* So does what a publisher has found in it, as long as the publisher itself does nothing.
LEMMA OthersKeepData ==
    ASSUME PlainDelivery, DictKept, [Next]_vars, NEW p \in Publishers,
           pub'[p] = pub[p], call'[p] = call[p], pins'[p] = pins[p]
    PROVE  DeliveryKept(p)'
<1>1. DeliveryKept(p) /\ pub[p].at \in Slots
  BY DEF DictKept, DataKept, BusTypes, PubType
<1>2. Valid(p) => Valid(p)'
  BY DataStays DEF Valid, Holding
<1>. QED  BY <1>1, <1>2, DataStays DEF DeliveryKept

\* What a task begins or goes on to in its call.
LEMMA CallMoves ==
    ASSUME TypeOK, NEW t \in Tasks
    PROVE  /\ \A c \in CallState : Begin(t, c) =>
                 /\ call'[t].pc = "take" /\ call'[t].op = c.op /\ call'[t].key = c.key
                 /\ UNCHANGED <<entries, pins>>
           /\ \A l \in PCs : Goto(t, l) =>
                 call'[t].pc = l /\ call'[t].op = call[t].op /\ call'[t].key = call[t].key
<1>0. call \in [Tasks -> CallState] /\ call[t] \in CallState
  BY DEF TypeOK
<1>1. ASSUME NEW c \in CallState, Begin(t, c)
      PROVE  /\ call'[t].pc = "take" /\ call'[t].op = c.op /\ call'[t].key = c.key
             /\ UNCHANGED <<entries, pins>>
  <2>1. call'[t] = [c EXCEPT !.pc = "take"] /\ UNCHANGED <<entries, pins>>
    BY <1>0, <1>1 DEF Begin, dict
  <2>. QED  BY <2>1 DEF CallState
<1>2. ASSUME NEW l \in PCs, Goto(t, l)
      PROVE  call'[t].pc = l /\ call'[t].op = call[t].op /\ call'[t].key = call[t].key
  <2>1. call'[t] = [call[t] EXCEPT !.pc = l]
    BY <1>0, <1>2 DEF Goto
  <2>. QED  BY <1>0, <2>1 DEF CallState
<1>. QED  BY <1>1, <1>2

\* A publisher that retains finds the value it has the pointer to, and one that releases gives
\* back what it retained.
LEMMA OwnCallKept ==
    ASSUME PlainDelivery, DictKept, NEW p \in Publishers, PublisherCall(p), [Next]_vars
    PROVE  DeliveryKept(p)'
<1>. DEFINE d == pub[p]   c == call[p]   i == call'[p]
<1>0. /\ p \in Tasks /\ d \in PubType /\ c \in CallState /\ DeliveryKept(p) /\ TypeOK /\ pub' = pub
      /\ pins \in [Tasks -> Keys \cup {NoKey}] /\ c.pc \in {"take", "retain", "release", "give"}
  BY OtherTasks DEF DictKept, DictInv, DataKept, BusTypes, TypeOK, PublisherCall, bus, Take, Retain,
                    Release, Give
<1>1. Valid(p) => Valid(p)'
  BY <1>0, DataStays DEF Valid, Holding
<1>2. d.pc \in {"walk", "route"}
  BY <1>0 DEF DeliveryKept, PubType, PubPCs
<1>3. CASE Take(p)
  <2>1. Goto(p, Entry(c.op)) /\ c.pc = "take" /\ c.op \in {"retain", "release"} /\ pins' = pins
    BY <1>0, <1>2, <1>3 DEF Take, DeliveryKept
  <2>2. Entry(c.op) = c.op /\ c.op \in PCs
    BY <2>1 DEF Entry, PCs
  <2>3. i.pc = c.op /\ i.op = c.op /\ i.key = c.key
    BY <1>0, <2>1, <2>2, CallMoves
  <2>. HIDE DEF i
  <2>. QED  BY <1>0, <1>1, <1>2, <2>1, <2>3 DEF DeliveryKept, i
<1>4. CASE Retain(p)
  <2>1. d.pc = "walk" /\ c.key = d.key /\ d.data # Null
    BY <1>0, <1>2, <1>4 DEF Retain, DeliveryKept
  <2>2. Holding(c.key) # {}
    BY <1>0, <2>1 DEF DeliveryKept, Valid
  <2>3. Goto(p, "give") /\ pins'[p] = d.key
    BY <1>0, <1>4, <2>1, <2>2 DEF Retain
  <2>4. i.pc = "give"
    BY <1>0, <2>3, CallMoves DEF PCs
  <2>. QED  BY <1>0, <1>1, <2>1, <2>3, <2>4 DEF DeliveryKept
<1>5. CASE Release(p)
  <2>1. d.pc = "route"
    BY <1>0, <1>2, <1>5 DEF Release, DeliveryKept
  <2>2. Goto(p, "give") /\ pins'[p] = NoKey
    BY <1>0, <1>5 DEF Release
  <2>3. i.pc = "give"
    BY <1>0, <2>2, CallMoves DEF PCs
  <2>. QED  BY <1>0, <1>1, <2>1, <2>2, <2>3 DEF DeliveryKept
<1>6. CASE Give(p)
  <2>1. i.pc = "idle" /\ pins' = pins /\ c.pc = "give"
    BY <1>0, <1>6 DEF Give, Idle, TypeOK
  <2>. QED  BY <1>0, <1>1, <1>2, <2>1 DEF DeliveryKept
<1>. QED  BY <1>3, <1>4, <1>5, <1>6 DEF PublisherCall

\* A publisher acts on what it has seen itself.
LEMMA OwnDataKept ==
    ASSUME PlainDelivery, DictKept, NEW p \in Publishers, PublisherStep(p), [Next]_vars
    PROVE  DeliveryKept(p)'
<1>. DEFINE d == pub[p]   e == pub'[p]   k == d.key
<1>0. /\ p \in Tasks /\ d \in PubType /\ DeliveryKept(p) /\ TypeOK /\ Advances(p, d, e)
      /\ BusTypes /\ d.at \in Slots /\ e \in PubType
  BY OtherTasks, PublisherMoves DEF DictKept, DictInv, DataKept, BusTypes, PubType
<1>1. CASE PublisherCall(p)
  BY <1>1, OwnCallKept
<1>2. ASSUME UNCHANGED vars, ~Held(p, d, e), Dropped(p, d, e) => d.data = Null
      PROVE  DeliveryKept(p)'
  <2>0. entries' = entries /\ call' = call /\ pins' = pins
    BY <1>2 DEF vars, dict
  <2>1. CASE d.pc = "idle" /\ e.pc = "scan" /\ e.data = Null
    BY <1>0, <2>0, <2>1 DEF DeliveryKept
  <2>2. CASE Searched(d, e)
    BY <1>0, <2>0, <2>2 DEF DeliveryKept, Searched, SameData, Valid, Holding, Live
  <2>3. CASE Loaded(d, e)
    <3>1. d.at \in Holding(e.key) /\ entries[d.at].value = e.data /\ e.data # Null
      BY <1>0, <2>3 DEF Loaded, DeliveryKept, Holding, Live
    <3>2. Valid(p)'
      BY <2>0, <3>1 DEF Valid, Holding, Live
    <3>. QED  BY <1>0, <2>0, <2>3, <3>1, <3>2 DEF DeliveryKept, Loaded
  <2>4. CASE Walked(p, d, e)
    BY <1>0, <2>0, <2>4 DEF DeliveryKept, Walked, Valid, Holding, Live
  <2>5. CASE Dropped(p, d, e)
    BY <1>0, <1>2, <2>0, <2>5 DEF DeliveryKept, Dropped, SameData
  <2>6. CASE d.pc = "route" /\ call[p].pc = "idle" /\ e = Resting
    BY <1>0, <2>0, <2>6 DEF DeliveryKept, Resting
  <2>. QED  BY <1>0, <1>1, <1>2, <2>1, <2>2, <2>3, <2>4, <2>5, <2>6 DEF Advances
<1>3. CASE Held(p, d, e) \/ (Dropped(p, d, e) /\ d.data # Null)
  <2>. DEFINE c == [Idle EXCEPT !.op = "retain", !.key = k]
              r == [Idle EXCEPT !.op = "release", !.key = k]
  <2>1. k \in Keys
    BY <1>0, <1>3 DEF Held, Dropped, BusTypes, At
  <2>2. /\ c \in CallState /\ c.key = k /\ c.op = "retain"
        /\ r \in CallState /\ r.key = k /\ r.op = "release"
    BY <2>1, IdleType DEF CallState, AllCalls
  <2>3. /\ entries' = entries /\ pins' = pins
        /\ call'[p].pc = "take" /\ call'[p].key = k
        /\ call'[p].op = IF d.pc = "retain" THEN "retain" ELSE "release"
    <3>. HIDE DEF c, r
    <3>. QED  BY <1>0, <1>3, <2>2, CallMoves DEF Held, Dropped, c, r
  <2>4. Valid(p) => Valid(p)'
    BY <1>3, <2>3 DEF Valid, Holding, Live, Held, Dropped, SameData
  <2>. QED  BY <1>0, <1>3, <2>3, <2>4 DEF DeliveryKept, Held, Dropped, SameData
<1>. QED  BY <1>0, <1>1, <1>2, <1>3 DEF Advances, Searched, Loaded, Walked, Dropped

\* Every step keeps what is known of the deliveries and of the dictionary.
LEMMA DictKeptStep ==
    ASSUME PlainDelivery
    PROVE  DictKept /\ TypeOK' /\ BusTypes' /\ [TriggerNext]_allVars => DictKept'
<1>. SUFFICES ASSUME DictKept, TypeOK', BusTypes', [TriggerNext]_allVars PROVE DictKept'
  OBVIOUS
<1>1. [Next]_vars
  BY DeliveriesAreCalls
<1>2. DictInv' /\ CallsFit' /\ RefsKept'
  BY <1>1, DictStep, CallsFitStep, RefsStep DEF DictKept, DictInv, PlainDelivery
<1>3. NoSweeps'
  BY <1>1, NoSweepsStep DEF DictKept, DictInv, DataKept, PlainDelivery
<1>4. ASSUME NEW p \in Publishers PROVE DeliveryKept(p)'
  <2>1. CASE PublisherStep(p)
    BY <1>1, <2>1, OwnDataKept
  <2>2. CASE UNCHANGED <<vars, pub>>
    BY <1>1, <2>2, OthersKeepData DEF vars
  <2>3. ASSUME NEW q \in Publishers \ {p}, PublisherStep(q) PROVE DeliveryKept(p)'
    <3>1. pub'[p] = pub[p]
      BY <2>3, PublisherMoves DEF DictKept, DictInv
    <3>2. UNCHANGED vars \/ TaskStep(q)
      BY <2>3, OwnSteps
    <3>3. call'[p] = call[p] /\ pins'[p] = pins[p]
      BY <2>3, <3>2, OnlyOwn, OtherTasks DEF DictKept, DictInv, vars
    <3>. QED  BY <1>1, <3>1, <3>3, OthersKeepData
  <2>4. ASSUME NEW t \in Tasks \ Publishers, TaskStep(t), UNCHANGED bus PROVE DeliveryKept(p)'
    <3>1. call'[p] = call[p] /\ pins'[p] = pins[p] /\ pub' = pub
      BY <2>4, OnlyOwn, OtherTasks DEF DictKept, DictInv, bus
    <3>. QED  BY <1>1, <3>1, OthersKeepData
  <2>. QED  BY <2>1, <2>2, <2>3, <2>4 DEF TriggerNext, allVars, bus, Subscribe, Unsubscribe
<1>. QED  BY <1>2, <1>3, <1>4 DEF DictKept, DataKept

\* Deliveries keep the whole invariant of the dictionary, from its beginning on.
LEMMA DeliveriesKept == ASSUME PlainDelivery PROVE TriggerSpec => []DictKept
<1>1. TriggerInit => DictInv /\ CallsFit /\ RefsKept
  BY DictInit, CallsFitInit, RefsInit DEF TriggerInit
<1>2. TriggerInit => DataKept
  BY OtherTasks DEF TriggerInit, Init, Idle, Resting, DataKept, NoSweeps, DeliveryKept
<1>3. DictInv /\ CallsFit /\ RefsKept /\ BusTypes /\ DataKept => DictKept
  BY DEF DictKept
<1>. QED  BY <1>1, <1>2, <1>3, DictKeptStep, DeliveriesTyped, PTL DEF TriggerSpec

\* The deliveries of the bus use the dictionary as any of its callers may: every behaviour of
\* the composition is one of the dictionary, and what holds of that holds during deliveries.
THEOREM DeliveriesUseTheDictionary ==
    ASSUME PlainDelivery
    PROVE  TriggerSpec => Spec
<1>1. TriggerInit => Init
  BY DEF TriggerInit
<1>. QED  BY <1>1, DeliveriesAreCalls, DeliveriesKept, PTL DEF TriggerSpec, Spec

\* The reference counts stay the number of the tasks that hold one, publishers among them.
THEOREM CountsStayExact ==
    ASSUME PlainDelivery
    PROVE  TriggerSpec => []RefExact
<1>1. DictKept => RefExact
  BY DEF DictKept, RefsKept
<1>. QED  BY <1>1, DeliveriesKept, PTL

\* The data pointer that a subscriber works on is the value of its key until it returns.
THEOREM CallbacksSeeTheValue ==
    ASSUME PlainDelivery
    PROVE  TriggerSpec => []CallbackDataValid
<1>1. DictKept => CallbackDataValid
  BY DEF DictKept, DataKept, DeliveryKept, CallbackDataValid
<1>. QED  BY <1>1, DeliveriesKept, PTL

\* So is the pointer that the router copies from after the reference was given back.
THEOREM RouterSeesTheValue ==
    ASSUME PlainDelivery
    PROVE  TriggerSpec => []RouterDataValid
<1>1. DictKept => RouterDataValid
  BY DEF DictKept, DataKept, DeliveryKept, RouterDataValid
<1>. QED  BY <1>1, DeliveriesKept, PTL

================================================================================
