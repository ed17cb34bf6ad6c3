----------------------------- MODULE TopicBusProofs -----------------------------
(***************************************************************************)
(* Proofs about topic_bus.c and topic_rule.c for any number of publishers, *)
(* topics and keys: TypeCorrect, EntriesUnique and, for keys other than 0  *)
(* and rules that name an event once, FiresExactly.                        *)
(***************************************************************************)
EXTENDS TopicBus, SequenceTheorems, WellFoundedInduction, TLAPS

\* A set of numbers that has an element has a least one.
LEMMA LeastExists ==
    ASSUME NEW S \in SUBSET Nat, S # {}
    PROVE  \E x \in S : \A y \in S : x <= y
<1>. DEFINE less == {ss \in Nat \X Nat : ss[1] < ss[2]}
<1>1. less = OpToRel(<, Nat)
  BY Zenon DEF OpToRel
<1>2. IsWellFoundedOn(less, Nat)
  BY <1>1, NatLessThanWellFounded, Zenon
<1>3. PICK x \in S : \A y \in S : ~ (<<y, x>> \in less)
  <2>. HIDE DEF less
  <2>. QED  BY <1>2, WFMin, Zenon
<1>4. ASSUME NEW y \in S PROVE x <= y
  <2>1. x \in Nat /\ y \in Nat
    BY <1>3
  <2>2. y < x => <<y, x>> \in less
    BY <2>1
  <2>. QED  BY <1>3, <2>1, <2>2 DEF less
<1>. QED  BY <1>4

\* A search of the entries that finds anything finds an entry.
LEMMA FirstOfIn ==
    ASSUME NEW S \in SUBSET Entries, S # {}
    PROVE  FirstOf(S) \in S
<1>1. S \in SUBSET Nat
  BY DEF Entries
<1>. QED  BY <1>1, LeastExists DEF FirstOf

\* What a rule's events look like.
EventLists == {<<>>} \cup {r.events : r \in Rules}

\* A rule's event list is a sequence of keys of at most 31 places.
LEMMA EventListType ==
    ASSUME NEW evs \in EventLists
    PROVE  evs \in Seq(Keys) /\ DOMAIN evs \in SUBSET (1 .. 31)
<1>1. CASE evs = <<>>
  BY <1>1
<1>2. CASE evs # <<>>
  <2>1. evs \in Seq(Keys) /\ Len(evs) \in 1 .. 31
    BY <1>2, BusAssumption DEF EventLists
  <2>2. DOMAIN evs = 1 .. Len(evs)
    BY <2>1, LenProperties
  <2>3. \A n \in 1 .. 31 : 1 .. n \subseteq 1 .. 31
    OBVIOUS
  <2>. QED  BY <2>1, <2>2, <2>3
<1>. QED  BY <1>1, <1>2

\* The bit of an event that a rule has is the place of that event.
LEMMA FirstIndexIs ==
    ASSUME NEW e, e.events \in EventLists, NEW k \in EventsOf(e)
    PROVE  FirstIndex(e, k) \in DOMAIN e.events /\ e.events[FirstIndex(e, k)] = k
<1>. DEFINE S == {i \in DOMAIN e.events : e.events[i] = k}
<1>1. S \in SUBSET Nat /\ S # {}
  BY EventListType DEF EventsOf
<1>2. PICK x \in S : \A y \in S : x <= y
  <2>. HIDE DEF S
  <2>. QED  BY <1>1, LeastExists
<1>3. \E i \in DOMAIN e.events :
          e.events[i] = k /\ \A j \in DOMAIN e.events : e.events[j] = k => i <= j
  BY <1>2
<1>. QED  BY <1>3 DEF FirstIndex

-----------------------------------------------------------------------------
(***************************************************************************)
(* Type correctness.                                                       *)
(***************************************************************************)
PubState == [pc : {"idle", "scan", "unlock", "fire", "manual"}, key : Keys \cup {0},
             at : Entries, fire : Seq(Entries)]

\* The calls are records of this form, too, and a scan is for an event.
BusType ==
    /\ TypeOK
    /\ pub \in [Publishers -> PubState]
    /\ \A p \in Publishers : pub[p].pc = "scan" => pub[p].key \in Keys

\* What an entry becomes when a rule is made, or an event comes to it.
LEMMA WithRuleType ==
    ASSUME NEW e, NEW id \in TopicIds, NEW rule \in Rules, NEW stored \in BOOLEAN
    PROVE  /\ WithRule(e, id, rule, stored) \in TopicEntry
           /\ WithRule(e, id, rule, stored).id = id
           /\ WithRule(e, id, rule, stored).mask = {}
  BY BusAssumption DEF WithRule, Unused, TopicEntry

\* Remembering an event changes nothing of a topic but its latched events.
LEMMA RememberedType ==
    ASSUME NEW e \in TopicEntry, NEW k \in Keys
    PROVE  /\ Remembered(e, k) \in TopicEntry
           /\ Remembered(e, k).id = e.id /\ Remembered(e, k).type = e.type
           /\ Remembered(e, k).events = e.events /\ Remembered(e, k).timed = e.timed
           /\ Remembered(e, k).mask = e.mask
<1>1. (k \in EventsOf(e)) \in BOOLEAN
  OBVIOUS
<1>. QED  BY <1>1 DEF Remembered, TopicEntry

\* A visit by an event keeps a topic's events and keeps its mask within them.
LEMMA VisitedType ==
    ASSUME NEW e \in TopicEntry, e.mask \subseteq DOMAIN e.events, NEW k \in Keys
    PROVE  /\ Visited(e, k).entry \in TopicEntry
           /\ Visited(e, k).entry.id = e.id
           /\ Visited(e, k).entry.events = e.events
           /\ Visited(e, k).entry.mask \subseteq DOMAIN e.events
<1>. DEFINE asked == Remembered(e, k)
            marked == UpdateMask(asked, k)
<1>1. asked \in TopicEntry /\ asked.id = e.id /\ asked.events = e.events /\ asked.mask = e.mask
  BY RememberedType
<1>2. CASE Visited(e, k).entry \in {e, asked}
  BY <1>1, <1>2
<1>3. CASE Visited(e, k).entry \notin {e, asked}
  <2>. HIDE DEF asked
  <2>1. InTime(e, k) /\ Visited(e, k).entry \in {marked, ResetMask(marked)}
    BY <1>3 DEF Visited, asked
  <2>2. e.events \in EventLists /\ k \in EventsOf(asked)
    BY <1>1, <2>1 DEF InTime, EventsOf, TopicEntry, EventLists
  <2>3. FirstIndex(asked, k) \in DOMAIN e.events /\ DOMAIN e.events \in SUBSET (1 .. 31)
    BY <1>1, <2>2, FirstIndexIs, EventListType
  <2>4. /\ marked \in TopicEntry /\ marked.id = e.id /\ marked.events = e.events
        /\ marked.mask \subseteq DOMAIN e.events
    BY <1>1, <2>3 DEF UpdateMask, TopicEntry
  <2>5. ResetMask(marked) \in TopicEntry /\ ResetMask(marked).id = e.id
        /\ ResetMask(marked).events = e.events /\ ResetMask(marked).mask = {}
    <3>. HIDE DEF marked
    <3>. QED  BY <2>4 DEF ResetMask, TopicEntry
  <2>. QED  BY <2>1, <2>4, <2>5
<1>. QED  BY <1>2, <1>3

\* Every step keeps the types.
LEMMA StepType ==
    ASSUME BusType, [Next]_vars PROVE BusType'
<1>0. /\ topics \in [Entries -> TopicEntry]
      /\ \A s \in Entries : topics[s].mask \subseteq DOMAIN topics[s].events
      /\ fresh \subseteq Keys /\ lock \in BOOLEAN
      /\ heard \in [Entries -> SUBSET Keys]
      /\ pub \in [Publishers -> PubState]
  BY DEF BusType, TypeOK
<1>1. Silent \in PubState /\ 1 \in Entries
  BY BusAssumption DEF Silent, PubState, Entries
<1>2. ASSUME NEW p \in Publishers, NEW r \in PubState, pub' = [pub EXCEPT ![p] = r],
             r.pc = "scan" => r.key \in Keys
      PROVE  /\ pub' \in [Publishers -> PubState]
             /\ \A q \in Publishers : /\ pub'[q].pc = "scan" => pub'[q].key \in Keys
                                     /\ pub'[q].pc \in {"idle", "scan", "unlock", "fire", "manual"}
                                     /\ pub'[q].key \in Keys \cup {0} /\ pub'[q].at \in Entries
                                     /\ pub'[q].fire \in Seq(Entries)
  <2>1. pub' \in [Publishers -> PubState]
    BY <1>0, <1>2
  <2>2. \A q \in Publishers : pub'[q].pc = "scan" => pub'[q].key \in Keys
    BY <1>0, <1>2 DEF BusType
  <2>. QED  BY <2>1, <2>2 DEF PubState
<1>3. ASSUME NEW p \in Publishers, PublishEvent(p) PROVE BusType'
  <2>1. PICK k \in Keys : pub' = [pub EXCEPT ![p] = [Silent EXCEPT !.pc = "scan", !.key = k]]
    BY <1>3 DEF PublishEvent
  <2>2. [Silent EXCEPT !.pc = "scan", !.key = k] \in PubState
        /\ [Silent EXCEPT !.pc = "scan", !.key = k].key = k
    BY <1>1 DEF Silent, PubState
  <2>. QED  BY <1>0, <1>2, <1>3, <2>1, <2>2 DEF PublishEvent, BusType, TypeOK
<1>4. ASSUME NEW p \in Publishers, VisitTopic(p) PROVE BusType'
  <2>. DEFINE s == pub[p].at   k == pub[p].key   visit == Visited(topics[s], k)
              call == [pub[p] EXCEPT
                          !.fire = IF visit.fires THEN Append(@, s) ELSE @,
                          !.at = IF s = MaxTopics THEN @ ELSE s + 1,
                          !.pc = IF s = MaxTopics THEN "unlock" ELSE "scan"]
  <2>1. s \in Entries /\ k \in Keys /\ pub[p].fire \in Seq(Entries) /\ pub[p] \in PubState
    BY <1>0, <1>4 DEF PubState, BusType, VisitTopic
  <2>2. /\ visit.entry \in TopicEntry /\ visit.entry.mask \subseteq DOMAIN visit.entry.events
    BY <1>0, <2>1, VisitedType
  <2>3. /\ topics' = [topics EXCEPT ![s] = visit.entry]
        /\ UNCHANGED <<fresh, lock>> /\ heard' = [heard EXCEPT ![s] = HeardWith(s, k)]
    BY <1>4 DEF VisitTopic
  <2>9. pub' = [pub EXCEPT ![p] = call]
    BY <1>4 DEF VisitTopic
  <2>4. HeardWith(s, k) \in SUBSET Keys
    BY <1>0, <2>1 DEF HeardWith
  <2>5. Append(pub[p].fire, s) \in Seq(Entries) /\ (s # MaxTopics => s + 1 \in Entries)
    BY <2>1, BusAssumption, AppendProperties DEF Entries
  <2>6. call \in PubState /\ call.key = k
    <3>. HIDE DEF visit
    <3>. QED  BY <2>1, <2>5 DEF PubState
  <2>7. /\ topics' \in [Entries -> TopicEntry]
        /\ \A r \in Entries : topics'[r].mask \subseteq DOMAIN topics'[r].events
    <3>. HIDE DEF visit
    <3>. QED  BY <1>0, <2>1, <2>2, <2>3
  <2>8. heard' \in [Entries -> SUBSET Keys]
    BY <1>0, <2>1, <2>3, <2>4
  <2>. HIDE DEF call
  <2>. QED  BY <1>0, <1>2, <2>1, <2>3, <2>6, <2>7, <2>8, <2>9 DEF BusType, TypeOK
<1>5. ASSUME NEW p \in Publishers, Unlock(p) PROVE BusType'
  <2>1. [pub[p] EXCEPT !.pc = "fire"] \in PubState
        /\ [pub[p] EXCEPT !.pc = "fire"].pc = "fire"
    BY <1>0 DEF PubState
  <2>2. pub' = [pub EXCEPT ![p] = [pub[p] EXCEPT !.pc = "fire"]]
    BY <1>5 DEF Unlock
  <2>. QED  BY <1>0, <1>2, <1>5, <2>1, <2>2 DEF Unlock, BusType, TypeOK
<1>6. ASSUME NEW p \in Publishers, Deliver(p) PROVE BusType'
  <2>. DEFINE call == IF Len(pub[p].fire) <= 1 THEN Silent
                      ELSE [pub[p] EXCEPT !.fire = Tail(@)]
  <2>0. pub' = [pub EXCEPT ![p] = call]
    BY <1>6 DEF Deliver
  <2>1. pub[p] \in PubState /\ pub[p].pc = "fire" /\ pub[p].fire \in Seq(Entries)
    BY <1>0, <1>6 DEF Deliver, PubState
  <2>2. Len(pub[p].fire) > 1 => Tail(pub[p].fire) \in Seq(Entries)
    BY <2>1, HeadTailProperties, LenProperties
  <2>3. call \in PubState /\ call.pc # "scan"
    BY <1>1, <2>1, <2>2, LenProperties, SMTT(30) DEF PubState, Silent
  <2>. HIDE DEF call
  <2>. QED  BY <1>0, <1>2, <1>6, <2>0, <2>1, <2>3 DEF Deliver, BusType, TypeOK
<1>7. ASSUME NEW p \in Publishers, PublishManual(p) PROVE BusType'
  <2>1. PICK s \in Entries : pub' = [pub EXCEPT ![p] = [Silent EXCEPT !.pc = "manual", !.at = s,
                       !.key = IF topics[s].events # <<>> THEN topics[s].events[1] ELSE 0]]
    BY <1>7 DEF PublishManual
  <2>2. topics[s].events # <<>> => topics[s].events[1] \in Keys
    <3>1. topics[s].events \in EventLists
      BY <1>0 DEF TopicEntry, EventLists
    <3>. QED  BY <3>1, EventListType, EmptySeq, ElementOfSeq
  <2>3. [Silent EXCEPT !.pc = "manual", !.at = s,
              !.key = IF topics[s].events # <<>> THEN topics[s].events[1] ELSE 0] \in PubState
    BY <1>1, <2>2 DEF Silent, PubState
  <2>. QED  BY <1>0, <1>2, <1>7, <2>1, <2>3 DEF PublishManual, BusType, TypeOK, Silent
<1>8. ASSUME NEW p \in Publishers, DeliverManual(p) PROVE BusType'
  BY <1>0, <1>1, <1>2, <1>8 DEF DeliverManual, BusType, TypeOK, Silent
<1>9. ASSUME NEW id \in TopicIds, RuleCreate(id) PROVE BusType'
  <2>. DEFINE s == FirstOf(Places(id))
  <2>1. s \in Entries
    BY <1>9, FirstOfIn DEF RuleCreate, Places, FindTopic
  <2>2. PICK rule \in Rules, stored \in BOOLEAN :
            topics' = [topics EXCEPT ![s] = WithRule(topics[s], id, rule, stored)]
    BY <1>9 DEF RuleCreate
  <2>3. WithRule(topics[s], id, rule, stored) \in TopicEntry
        /\ WithRule(topics[s], id, rule, stored).mask = {}
    BY WithRuleType
  <2>4. /\ topics' \in [Entries -> TopicEntry]
        /\ \A r \in Entries : topics'[r].mask \subseteq DOMAIN topics'[r].events
    <3>. HIDE DEF s
    <3>. QED  BY <1>0, <2>1, <2>2, <2>3
  <2>5. heard' \in [Entries -> SUBSET Keys]
    BY <1>0, <1>9, <2>1 DEF RuleCreate
  <2>. QED  BY <1>0, <1>9, <2>4, <2>5 DEF RuleCreate, BusType, TypeOK
<1>10. ASSUME NEW k \in Keys, SetKey(k) \/ KeyAges(k) PROVE BusType'
  BY <1>0, <1>10 DEF SetKey, KeyAges, BusType, TypeOK
<1>11. CASE UNCHANGED vars
  BY <1>11 DEF vars, BusType, TypeOK, PubState
<1>. QED
  BY <1>3, <1>4, <1>5, <1>6, <1>7, <1>8, <1>9, <1>10, <1>11 DEF Next

\* The bus starts well typed.
LEMMA InitType == Init => BusType
<1>. SUFFICES ASSUME Init PROVE BusType
  OBVIOUS
<1>1. Unused \in TopicEntry /\ Unused.mask = {} /\ 1 \in Entries
  BY BusAssumption DEF Unused, TopicEntry, RuleTypes, Entries
<1>2. Silent \in PubState /\ Silent.pc = "idle"
  BY <1>1 DEF Silent, PubState
<1>3. /\ topics \in [Entries -> TopicEntry] /\ heard \in [Entries -> SUBSET Keys]
      /\ \A s \in Entries : topics[s].mask = {}
      /\ pub \in [Publishers -> PubState] /\ \A p \in Publishers : pub[p].pc = "idle"
      /\ fresh = {} /\ lock = TRUE
  BY <1>1, <1>2, Zenon DEF Init
<1>. QED  BY <1>3 DEF BusType, TypeOK, PubState

\* The strengthened types hold in every state.
LEMMA TypeInvariant == Spec => []BusType
  BY InitType, StepType, PTL DEF Spec

\* Entries, masks, calls and the lock are of their types: a mask has a bit for events of
\* its rule only, and what a publisher fires are entries.
THEOREM TypeCorrect == Spec => []TypeOK
<1>1. BusType => TypeOK
  BY DEF BusType
<1>. QED  BY <1>1, TypeInvariant, PTL

-----------------------------------------------------------------------------
(***************************************************************************)
(* Topics are unique.                                                      *)
(***************************************************************************)
\* A list in the order of the entries, and one that ends before entry n.
Ascending(q) == \A i, j \in DOMAIN q : i < j => q[i] < q[j]
Before(q, n) == \A i \in DOMAIN q : q[i] < n

\* What a scan has collected lies before the entry it is at.
ScansInOrder == \A p \in Publishers : pub[p].pc = "scan" => Before(pub[p].fire, pub[p].at)

\* Appending the entry under the scan, and taking the first off, keep the order.
LEMMA AscendingAppend ==
    ASSUME NEW q \in Seq(Entries), Ascending(q), NEW n \in Entries, Before(q, n)
    PROVE  Ascending(Append(q, n)) /\ Before(Append(q, n), n + 1) /\ Before(q, n + 1)
<1>. DEFINE a == Append(q, n)
<1>1. /\ a \in Seq(Entries) /\ Len(a) = Len(q) + 1 /\ Len(q) \in Nat
      /\ a[Len(q) + 1] = n /\ \A i \in 1 .. Len(q) : a[i] = q[i]
  BY AppendProperties, LenProperties
<1>. HIDE DEF a
<1>2. DOMAIN a = 1 .. Len(q) + 1 /\ DOMAIN q = 1 .. Len(q)
      /\ \A i \in 1 .. Len(q) : q[i] \in Entries
  BY <1>1, LenProperties, ElementOfSeq
<1>3. n \in Nat /\ \A i \in 1 .. Len(q) : q[i] \in Nat /\ q[i] < n
  BY <1>2 DEF Entries, Before
<1>4. Ascending(a)
  BY <1>1, <1>2, <1>3 DEF Ascending
<1>5. Before(a, n + 1) /\ Before(q, n + 1)
  BY <1>1, <1>2, <1>3 DEF Before
<1>. QED  BY <1>4, <1>5 DEF a

\* The rest of an ascending sequence ascends.
LEMMA AscendingTail ==
    ASSUME NEW q \in Seq(Entries), Ascending(q), q # <<>>
    PROVE  Ascending(Tail(q))
<1>. DEFINE a == Tail(q)
<1>1. /\ a \in Seq(Entries) /\ Len(a) = Len(q) - 1 /\ Len(q) \in Nat
      /\ \A i \in 1 .. Len(a) : a[i] = q[i + 1]
  BY HeadTailProperties, LenProperties
<1>. HIDE DEF a
<1>2. DOMAIN a = 1 .. Len(q) - 1 /\ DOMAIN q = 1 .. Len(q)
  BY <1>1, LenProperties
<1>. QED  BY <1>1, <1>2 DEF Ascending, a

\* No topic id has two entries, and an event fires a topic once at most.  TopicsUnique is
\* inductive together with the order of the scans.
THEOREM EntriesUnique == Spec => []TopicsUnique
<1>. DEFINE Ids == \A s, r \in Entries :
                      topics[s].id = topics[r].id /\ topics[s].id # NoTopic => s = r
            Fires == \A p \in Publishers : Ascending(pub[p].fire)
<1>1. TopicsUnique <=> Ids /\ Fires
  BY DEF TopicsUnique, Ascending
<1>. HIDE DEF Ids, Fires
<1>2. Init => Ids /\ Fires /\ ScansInOrder
  BY DEF Init, Ids, Fires, ScansInOrder, Unused, Silent, Ascending, Before
<1>3. BusType /\ Ids /\ [Next]_vars => Ids'
  <2>. SUFFICES ASSUME BusType, Ids, [Next]_vars PROVE Ids'
    OBVIOUS
  <2>0. topics \in [Entries -> TopicEntry]
        /\ \A s \in Entries : topics[s].mask \subseteq DOMAIN topics[s].events
    BY DEF BusType, TypeOK
  <2>1. CASE UNCHANGED topics
    BY <2>1 DEF Ids
  <2>2. ASSUME NEW p \in Publishers, VisitTopic(p) PROVE Ids'
    <3>. DEFINE s == pub[p].at   visit == Visited(topics[s], pub[p].key)
    <3>1. s \in Entries /\ pub[p].key \in Keys
      BY <2>2 DEF VisitTopic, BusType, PubState
    <3>2. visit.entry.id = topics[s].id
      BY <2>0, <3>1, VisitedType
    <3>3. topics' = [topics EXCEPT ![s] = visit.entry]
      BY <2>2 DEF VisitTopic
    <3>4. \A r \in Entries : topics'[r].id = topics[r].id
      <4>. HIDE DEF s, visit
      <4>. QED  BY <2>0, <3>1, <3>2, <3>3
    <3>. QED  BY <3>4 DEF Ids
  <2>3. ASSUME NEW id \in TopicIds, RuleCreate(id) PROVE Ids'
    <3>. DEFINE s == FirstOf(Places(id))
    <3>1. s \in Places(id) /\ s \in Entries
      BY <2>3, FirstOfIn DEF RuleCreate, Places, FindTopic
    <3>2. PICK rule \in Rules, stored \in BOOLEAN :
              topics' = [topics EXCEPT ![s] = WithRule(topics[s], id, rule, stored)]
      BY <2>3 DEF RuleCreate
    <3>3. \A r \in Entries : topics'[r].id = IF r = s THEN id ELSE topics[r].id
      <4>. HIDE DEF s
      <4>. QED  BY <2>0, <3>1, <3>2, WithRuleType
    <3>4. \A r \in Entries : topics[r].id = id => r = s
      <4>1. CASE FindTopic(id) # {}
        <5>1. topics[s].id = id
          BY <3>1, <4>1 DEF Places, FindTopic
        <5>. QED  BY <3>1, <5>1, BusAssumption DEF Ids
      <4>2. CASE FindTopic(id) = {}
        BY <4>2 DEF FindTopic
      <4>. QED  BY <4>1, <4>2
    <3>. QED  BY <3>1, <3>3, <3>4 DEF Ids
  <2>. QED
    BY <2>1, <2>2, <2>3
       DEF Next, vars, PublishEvent, Unlock, Deliver, PublishManual, DeliverManual, SetKey, KeyAges
<1>4. BusType /\ Fires /\ ScansInOrder /\ [Next]_vars => Fires' /\ ScansInOrder'
  <2>. SUFFICES ASSUME BusType, Fires, ScansInOrder, [Next]_vars PROVE Fires' /\ ScansInOrder'
    OBVIOUS
  <2>0. pub \in [Publishers -> PubState]
    BY DEF BusType
  <2>1. ASSUME NEW p \in Publishers, NEW r \in PubState, pub' = [pub EXCEPT ![p] = r],
               Ascending(r.fire), r.pc = "scan" => Before(r.fire, r.at)
        PROVE  Fires' /\ ScansInOrder'
    BY <2>0, <2>1 DEF Fires, ScansInOrder
  <2>2. CASE UNCHANGED pub
    BY <2>2 DEF Fires, ScansInOrder
  <2>3. ASSUME NEW p \in Publishers, VisitTopic(p) PROVE Fires' /\ ScansInOrder'
    <3>. DEFINE s == pub[p].at   visit == Visited(topics[s], pub[p].key)
                call == [pub[p] EXCEPT !.fire = IF visit.fires THEN Append(@, s) ELSE @,
                                       !.at = IF s = MaxTopics THEN @ ELSE s + 1,
                                       !.pc = IF s = MaxTopics THEN "unlock" ELSE "scan"]
    <3>1. pub' = [pub EXCEPT ![p] = call]
      BY <2>3 DEF VisitTopic
    <3>2. pub'[p] = call /\ pub'[p] \in PubState
      BY <2>0, <3>1, StepType DEF BusType
    <3>3. /\ s \in Entries /\ pub[p].fire \in Seq(Entries)
          /\ Ascending(pub[p].fire) /\ Before(pub[p].fire, s)
      BY <2>0, <2>3 DEF PubState, VisitTopic, Fires, ScansInOrder
    <3>4. /\ call.fire = IF visit.fires THEN Append(pub[p].fire, s) ELSE pub[p].fire
          /\ call.pc = "scan" => call.at = s + 1
      <4>. HIDE DEF visit
      <4>. QED  BY <2>0 DEF PubState
    <3>5. Ascending(call.fire) /\ (call.pc = "scan" => Before(call.fire, call.at))
      <4>. HIDE DEF call, visit
      <4>. QED  BY <3>3, <3>4, AscendingAppend
    <3>. HIDE DEF call
    <3>. QED  BY <2>1, <3>1, <3>2, <3>5
  <2>4. ASSUME NEW p \in Publishers, Deliver(p) PROVE Fires' /\ ScansInOrder'
    <3>. DEFINE onward == [pub[p] EXCEPT !.fire = Tail(@)]
                call == IF Len(pub[p].fire) <= 1 THEN Silent ELSE onward
    <3>1. pub' = [pub EXCEPT ![p] = call]
      BY <2>4 DEF Deliver
    <3>2. pub'[p] = call /\ pub'[p] \in PubState
      BY <2>0, <3>1, StepType DEF BusType
    <3>3. pub[p].fire \in Seq(Entries) /\ Ascending(pub[p].fire)
      BY <2>0 DEF PubState, Fires
    <3>4. call.pc # "scan" /\ (call.fire = <<>> \/
              (pub[p].fire # <<>> /\ call.fire = Tail(pub[p].fire)))
      <4>1. CASE Len(pub[p].fire) <= 1
        BY <4>1 DEF Silent
      <4>2. CASE ~(Len(pub[p].fire) <= 1)
        <5>1. call = onward /\ pub[p].fire # <<>>
          BY <3>3, <4>2, LenProperties
        <5>2. onward.fire = Tail(pub[p].fire) /\ onward.pc = "fire"
          BY <2>0, <2>4 DEF PubState, Deliver
        <5>. QED  BY <5>1, <5>2
      <4>. QED  BY <4>1, <4>2
    <3>5. Ascending(call.fire)
      <4>. HIDE DEF call
      <4>1. Ascending(<<>>)
        BY DEF Ascending
      <4>. QED  BY <3>3, <3>4, <4>1, AscendingTail
    <3>. HIDE DEF call
    <3>. QED  BY <2>1, <3>1, <3>2, <3>4, <3>5
  <2>5. ASSUME NEW p \in Publishers, Unlock(p) PROVE Fires' /\ ScansInOrder'
    BY <2>0, <2>5 DEF Unlock, Fires, ScansInOrder
  <2>6. ASSUME NEW p \in Publishers, PublishEvent(p) \/ PublishManual(p) \/ DeliverManual(p)
        PROVE  Fires' /\ ScansInOrder'
    <3>1. /\ \A q \in Publishers \ {p} : pub'[q] = pub[q]
          /\ pub'[p].fire = <<>>
      <4>1. CASE PublishEvent(p)
        BY <2>0, <4>1 DEF PublishEvent, Silent
      <4>2. CASE PublishManual(p)
        <5>1. PICK s \in Entries : pub' = [pub EXCEPT ![p] = [Silent EXCEPT !.pc = "manual",
                       !.at = s, !.key = IF topics[s].events # <<>> THEN topics[s].events[1] ELSE 0]]
          BY <4>2 DEF PublishManual
        <5>. QED  BY <2>0, <5>1 DEF Silent
      <4>3. CASE DeliverManual(p)
        BY <2>0, <4>3 DEF DeliverManual, Silent
      <4>. QED  BY <2>6, <4>1, <4>2, <4>3
    <3>. QED  BY <3>1 DEF Fires, ScansInOrder, Ascending, Before
  <2>. QED
    BY <2>2, <2>3, <2>4, <2>5, <2>6 DEF Next, vars, RuleCreate, SetKey, KeyAges
<1>. QED  BY <1>1, <1>2, <1>3, <1>4, TypeInvariant, PTL DEF Spec

-----------------------------------------------------------------------------
(***************************************************************************)
(* Rules fire exactly.                                                     *)
(***************************************************************************)
\* An event list that names no event twice.
Once(evs) == \A i, j \in DOMAIN evs : evs[i] = evs[j] => i = j

\* The rules for which the promise is kept: key 0 is not an event (an entry's cache starts
\* out as "key 0: no"), and no rule lists an event twice (it would have two bits of the
\* mask and set one).
PlainRules == 0 \notin Keys /\ \A r \in Rules : Once(r.events)

EventsAt(e, m) == {e.events[i] : i \in m}

\* An entry and the events h its AND rule has heard: a free entry has no events, no event
\* is there twice, the cache tells the truth, the mask is the bits of the events heard.
RuleKept(e, h) ==
    /\ e.id = NoTopic => e.events = <<>>
    /\ Once(e.events)
    /\ e.cached_key \in Keys => e.cached_hit = CanTriggerUncached(e, e.cached_key)
    /\ e.type = "and" => h = EventsAt(e, e.mask)

RulesKept == \A s \in Entries : RuleKept(topics[s], heard[s])

\* The mask is full when all events have been heard.
LEMMA FullMask ==
    ASSUME NEW e, Once(e.events), NEW m \in SUBSET DOMAIN e.events
    PROVE  m = DOMAIN e.events <=> EventsAt(e, m) = EventsOf(e)
<1>1. ASSUME EventsAt(e, m) = EventsOf(e), NEW i \in DOMAIN e.events PROVE i \in m
  <2>1. e.events[i] \in EventsAt(e, m)
    BY <1>1 DEF EventsOf
  <2>2. PICK j \in m : e.events[j] = e.events[i]
    BY <2>1 DEF EventsAt
  <2>. QED  BY <2>2 DEF Once
<1>. QED  BY <1>1 DEF EventsAt, EventsOf

\* What a query leaves in the cache is the answer to it.
LEMMA CacheTrue ==
    ASSUME NEW e \in TopicEntry, NEW h, RuleKept(e, h), NEW k \in Keys
    PROVE  /\ CanTrigger(e, k) <=> CanTriggerUncached(e, k)
           /\ RuleKept(Remembered(e, k), h)
<1>1. CanTrigger(e, k) <=> CanTriggerUncached(e, k)
  BY DEF CanTrigger, CanTriggerUncached, RuleKept
<1>2. CASE e.type = "manual" \/ e.cached_key = k
  BY <1>1, <1>2 DEF Remembered
<1>3. CASE ~(e.type = "manual" \/ e.cached_key = k)
  <2>. DEFINE a == Remembered(e, k)
  <2>1. a = [e EXCEPT !.cached_key = k, !.cached_hit = k \in EventsOf(e)]
    BY <1>3 DEF Remembered
  <2>2. /\ a.id = e.id /\ a.type = e.type /\ a.events = e.events /\ a.mask = e.mask
        /\ a.cached_key = k /\ a.cached_hit = (k \in EventsOf(e))
    BY <2>1 DEF TopicEntry
  <2>. HIDE DEF a
  <2>3. EventsOf(a) = EventsOf(e) /\ EventsAt(a, a.mask) = EventsAt(e, e.mask)
    BY <2>2 DEF EventsOf, EventsAt
  <2>. QED  BY <1>1, <1>3, <2>2, <2>3 DEF RuleKept, CanTriggerUncached, a
<1>. QED  BY <1>1, <1>2, <1>3

\* The loop of topic_publish_event collects an entry when it ought to, and leaves the entry
\* and what it has heard in accord.
LEMMA VisitExact ==
    ASSUME NEW s \in Entries, topics[s] \in TopicEntry,
           topics[s].mask \subseteq DOMAIN topics[s].events,
           RuleKept(topics[s], heard[s]), NEW k \in Keys
    PROVE  /\ Visited(topics[s], k).fires <=> OughtToFire(s, k)
           /\ RuleKept(Visited(topics[s], k).entry, HeardWith(s, k))
<1>. DEFINE e == topics[s]   h == heard[s]
            asked == Remembered(e, k)   marked == UpdateMask(asked, k)
            v == Visited(e, k)
<1>. HIDE DEF e, h
<1>0. /\ e \in TopicEntry /\ e.mask \subseteq DOMAIN e.events /\ RuleKept(e, h)
      /\ CanTrigger(e, k) <=> CanTriggerUncached(e, k)
      /\ RuleKept(asked, h)
      /\ asked.events = e.events /\ asked.type = e.type /\ asked.timed = e.timed
      /\ asked.mask = e.mask /\ asked.id = e.id /\ asked \in TopicEntry
  BY CacheTrue, RememberedType DEF e, h
<1>. HIDE DEF asked
<1>1. /\ OughtToFire(s, k) <=> /\ e.type # "manual" /\ InTime(e, k)
                               /\ e.type = "and" => /\ h \cup {k} = EventsOf(e)
                                                    /\ \A x \in EventsOf(e) : InTime(e, x)
      /\ HeardWith(s, k) = IF e.type = "and" /\ InTime(e, k)
                           THEN IF h \cup {k} = EventsOf(e) THEN {} ELSE h \cup {k}
                           ELSE h
  BY DEF OughtToFire, HeardWith, e, h
<1>2. InTime(e, k) => k \in EventsOf(e) /\ e.events # <<>> /\ e.id # NoTopic
  BY <1>0 DEF InTime, EventsOf, RuleKept
<1>3. CASE e.id = NoTopic \/ e.events = <<>>
  <2>1. v.entry = e /\ v.fires = FALSE
    BY <1>3 DEF Visited
  <2>2. ~InTime(e, k)
    BY <1>2, <1>3
  <2>. QED  BY <1>0, <1>1, <2>1, <2>2 DEF e
<1>4. CASE ~(e.id = NoTopic \/ e.events = <<>>) /\ (~CanTrigger(e, k) \/ ~InTime(e, k))
  <2>1. v.entry = asked /\ v.fires = FALSE
    BY <1>4 DEF Visited, asked
  <2>2. e.type = "manual" \/ ~InTime(e, k)
    BY <1>0, <1>2, <1>4 DEF CanTriggerUncached
  <2>. QED  BY <1>0, <1>1, <2>1, <2>2 DEF e
<1>5. CASE CanTrigger(e, k) /\ InTime(e, k) /\ e.type = "or"
  <2>1. v.entry = asked /\ v.fires = TRUE
    BY <1>2, <1>5 DEF Visited, asked
  <2>. QED  BY <1>0, <1>1, <1>5, <2>1 DEF e
<1>6. CASE CanTrigger(e, k) /\ InTime(e, k) /\ e.type # "or"
  <2>1. e.type = "and"
    BY <1>0, <1>6 DEF TopicEntry, RuleTypes, CanTriggerUncached
  <2>. DEFINE i == FirstIndex(asked, k)
  <2>2. i \in DOMAIN e.events /\ e.events[i] = k
    <3>1. asked.events \in EventLists /\ k \in EventsOf(asked)
      BY <1>0, <1>2, <1>6 DEF TopicEntry, EventLists, EventsOf
    <3>. QED  BY <1>0, <3>1, FirstIndexIs
  <2>3. marked = [asked EXCEPT !.mask = asked.mask \cup {i}]
    BY DEF UpdateMask
  <2>4. /\ marked.id = e.id /\ marked.type = e.type /\ marked.events = e.events
        /\ marked.cached_key = asked.cached_key /\ marked.cached_hit = asked.cached_hit
        /\ marked.mask = e.mask \cup {i}
        /\ ResetMask(marked) = [marked EXCEPT !.mask = {}]
    <3>. HIDE DEF i
    <3>. QED  BY <1>0, <2>3 DEF TopicEntry, ResetMask
  <2>5. /\ v.entry = IF Matches(marked) THEN ResetMask(marked) ELSE marked
        /\ v.fires <=> Matches(marked) /\ \A x \in EventsOf(e) : InTime(e, x)
    BY <1>2, <1>6 DEF Visited, asked
  <2>. HIDE DEF i, marked, v
  <2>6. EventsAt(e, e.mask \cup {i}) = h \cup {k}
    <3>1. h = EventsAt(e, e.mask)
      BY <1>0, <2>1 DEF RuleKept
    <3>. QED  BY <2>2, <3>1 DEF EventsAt
  <2>7. Matches(marked) <=> h \cup {k} = EventsOf(e)
    <3>1. e.mask \cup {i} \in SUBSET DOMAIN e.events /\ Once(e.events)
      BY <1>0, <2>2 DEF RuleKept
    <3>2. Matches(marked) <=> e.mask \cup {i} = DOMAIN e.events
      BY <2>4 DEF Matches
    <3>. QED  BY <2>6, <3>1, <3>2, FullMask
  <2>8. /\ ResetMask(marked).id = e.id /\ ResetMask(marked).type = e.type
        /\ ResetMask(marked).events = e.events /\ ResetMask(marked).mask = {}
        /\ ResetMask(marked).cached_key = asked.cached_key
        /\ ResetMask(marked).cached_hit = asked.cached_hit
    BY <1>0, <2>3, <2>4 DEF TopicEntry
  <2>9. ASSUME NEW a, a.id = e.id, a.type = e.type, a.events = e.events,
               a.cached_key = asked.cached_key, a.cached_hit = asked.cached_hit
        PROVE  RuleKept(a, EventsAt(e, a.mask))
    <3>1. EventsOf(a) = EventsOf(asked) /\ EventsAt(a, a.mask) = EventsAt(e, a.mask)
      BY <1>0, <2>9 DEF EventsOf, EventsAt
    <3>. QED  BY <1>0, <2>9, <3>1 DEF RuleKept, CanTriggerUncached
  <2>10. EventsAt(e, {}) = {}
    BY DEF EventsAt
  <2>11. HeardWith(s, k) = IF Matches(marked) THEN {} ELSE h \cup {k}
    BY <1>1, <1>6, <2>1, <2>7
  <2>12. RuleKept(v.entry, HeardWith(s, k))
    <3>1. CASE Matches(marked)
      <4>1. RuleKept(ResetMask(marked), EventsAt(e, {}))
        BY <2>8, <2>9
      <4>. QED  BY <2>5, <2>10, <2>11, <3>1, <4>1
    <3>2. CASE ~Matches(marked)
      <4>1. RuleKept(marked, EventsAt(e, e.mask \cup {i}))
        BY <2>4, <2>9
      <4>. QED  BY <2>5, <2>6, <2>11, <3>2, <4>1
    <3>. QED  BY <3>1, <3>2
  <2>13. v.fires <=> OughtToFire(s, k)
    BY <1>1, <1>6, <2>1, <2>5, <2>7
  <2>. QED  BY <2>12, <2>13 DEF v, e
<1>. QED  BY <1>3, <1>4, <1>5, <1>6

\* RulesKept is inductive relative to the types.
LEMMA RulesKeptInvariant ==
    ASSUME PlainRules PROVE Spec => []RulesKept
<1>1. Init => RulesKept
  <2>. SUFFICES ASSUME Init, NEW s \in Entries PROVE RuleKept(topics[s], heard[s])
    BY DEF RulesKept
  <2>1. topics[s] = Unused /\ heard[s] = {}
    BY DEF Init
  <2>2. /\ Unused.events = <<>> /\ Unused.mask = {} /\ Unused.cached_key = 0
    BY DEF Unused
  <2>3. Once(<<>>) /\ EventsAt(Unused, {}) = {}
    BY <2>2 DEF Once, EventsAt
  <2>. QED  BY <2>1, <2>2, <2>3 DEF RuleKept, PlainRules
<1>2. BusType /\ RulesKept /\ [Next]_vars => RulesKept'
  <2>. SUFFICES ASSUME BusType, RulesKept, [Next]_vars PROVE RulesKept'
    OBVIOUS
  <2>0. /\ topics \in [Entries -> TopicEntry] /\ heard \in [Entries -> SUBSET Keys]
        /\ \A s \in Entries : topics[s].mask \subseteq DOMAIN topics[s].events
    BY DEF BusType, TypeOK
  <2>1. CASE UNCHANGED <<topics, heard>>
    BY <2>1 DEF RulesKept
  <2>2. ASSUME NEW p \in Publishers, VisitTopic(p) PROVE RulesKept'
    <3>. DEFINE s == pub[p].at   k == pub[p].key
                entry == Visited(topics[s], k).entry   h == HeardWith(s, k)
    <3>1. s \in Entries /\ k \in Keys
      BY <2>2 DEF VisitTopic, BusType, PubState
    <3>2. topics' = [topics EXCEPT ![s] = entry] /\ heard' = [heard EXCEPT ![s] = h]
      BY <2>2 DEF VisitTopic
    <3>3. RuleKept(entry, h)
      BY <2>0, <3>1, VisitExact DEF RulesKept
    <3>. HIDE DEF s, entry, h
    <3>. QED  BY <2>0, <3>1, <3>2, <3>3 DEF RulesKept
  <2>3. ASSUME NEW id \in TopicIds, RuleCreate(id) PROVE RulesKept'
    <3>. DEFINE s == FirstOf(Places(id))
    <3>1. s \in Entries
      BY <2>3, FirstOfIn DEF RuleCreate, Places, FindTopic
    <3>2. PICK rule \in Rules, stored \in BOOLEAN :
              topics' = [topics EXCEPT ![s] = WithRule(topics[s], id, rule, stored)]
      BY <2>3 DEF RuleCreate
    <3>. DEFINE entry == WithRule(topics[s], id, rule, stored)
    <3>3. /\ entry.id = id /\ entry.mask = {} /\ entry.cached_key = 0
          /\ entry.events = IF stored THEN rule.events ELSE <<>>
      BY DEF WithRule, Unused
    <3>4. heard' = [heard EXCEPT ![s] = {}]
      BY <2>3 DEF RuleCreate
    <3>. HIDE DEF entry
    <3>5. RuleKept(entry, {})
      <4>1. Once(<<>>)
        BY DEF Once
      <4>2. Once(entry.events)
        BY <3>3, <4>1 DEF PlainRules
      <4>3. EventsAt(entry, entry.mask) = {}
        BY <3>3 DEF EventsAt
      <4>. QED  BY <3>3, <4>2, <4>3, BusAssumption DEF RuleKept, PlainRules
    <3>. HIDE DEF s
    <3>. QED  BY <2>0, <3>1, <3>2, <3>4, <3>5 DEF RulesKept, entry
  <2>. QED
    BY <2>1, <2>2, <2>3
       DEF Next, vars, PublishEvent, Unlock, Deliver, PublishManual, DeliverManual, SetKey, KeyAges
<1>. QED  BY <1>1, <1>2, TypeInvariant, PTL DEF Spec

\* Whatever rules are made anew, events age and publishers take turns, an event fires
\* exactly the topics whose rule it satisfies.
THEOREM FiresExactly ==
    ASSUME PlainRules PROVE Spec => RulesFireExactly
<1>. DEFINE Exact == \A p \in Publishers : pub[p].pc = "scan" =>
                        \/ pub'[p] = pub[p]
                        \/ pub'[p].fire = IF OughtToFire(pub[p].at, pub[p].key)
                                          THEN Append(pub[p].fire, pub[p].at) ELSE pub[p].fire
<1>1. BusType /\ RulesKept /\ [Next]_vars => [Exact]_vars
  <2>. SUFFICES ASSUME BusType, RulesKept, Next, NEW p \in Publishers, pub[p].pc = "scan"
                PROVE  \/ pub'[p] = pub[p]
                       \/ pub'[p].fire = IF OughtToFire(pub[p].at, pub[p].key)
                                         THEN Append(pub[p].fire, pub[p].at) ELSE pub[p].fire
    OBVIOUS
  <2>0. /\ pub \in [Publishers -> PubState] /\ pub[p].at \in Entries /\ pub[p].key \in Keys
        /\ topics \in [Entries -> TopicEntry]
        /\ \A s \in Entries : topics[s].mask \subseteq DOMAIN topics[s].events
    BY DEF BusType, TypeOK, PubState
  <2>1. CASE VisitTopic(p)
    <3>. DEFINE s == pub[p].at   k == pub[p].key   visit == Visited(topics[s], k)
                call == [pub[p] EXCEPT !.fire = IF visit.fires THEN Append(@, s) ELSE @,
                                       !.at = IF s = MaxTopics THEN @ ELSE s + 1,
                                       !.pc = IF s = MaxTopics THEN "unlock" ELSE "scan"]
    <3>1. pub' = [pub EXCEPT ![p] = call]
      BY <2>1 DEF VisitTopic
    <3>2. pub'[p].fire = IF visit.fires THEN Append(pub[p].fire, s) ELSE pub[p].fire
      <4>1. pub'[p] = call
        BY <2>0, <3>1
      <4>2. call.fire = IF visit.fires THEN Append(pub[p].fire, s) ELSE pub[p].fire
        <5>. HIDE DEF visit
        <5>. QED  BY <2>0 DEF PubState
      <4>. QED  BY <4>1, <4>2
    <3>3. visit.fires <=> OughtToFire(s, k)
      BY <2>0, VisitExact DEF RulesKept
    <3>. HIDE DEF visit
    <3>. QED  BY <3>2, <3>3
  <2>2. ASSUME NEW q \in Publishers, q # p,
               \/ PublishEvent(q) \/ VisitTopic(q) \/ Unlock(q) \/ Deliver(q)
               \/ PublishManual(q) \/ DeliverManual(q)
        PROVE  pub'[p] = pub[p]
    <3>1. \E r : pub' = [pub EXCEPT ![q] = r]
      BY <2>2 DEF PublishEvent, VisitTopic, Unlock, Deliver, PublishManual, DeliverManual
    <3>. QED  BY <2>0, <2>2, <3>1
  <2>3. CASE UNCHANGED pub
    BY <2>3
  <2>. QED
    BY <2>1, <2>2, <2>3
       DEF Next, PublishEvent, Unlock, Deliver, PublishManual, DeliverManual, RuleCreate,
           SetKey, KeyAges
<1>. QED  BY <1>1, TypeInvariant, RulesKeptInvariant, PTL DEF Spec, RulesFireExactly
================================================================================
