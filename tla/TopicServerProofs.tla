--------------------------- MODULE TopicServerProofs ---------------------------
(***************************************************************************)
(* Proofs about topic_server.c, the ISR queue and topic_router.c for any   *)
(* number of threads, entries, topics and callbacks and any capacity:      *)
(* TypeCorrect; CallsAsAdded and EveryRouteCalled, when nothing is removed *)
(* under a pass; RelayImplementsFifo, when one thread reads at a time.     *)
(***************************************************************************)
EXTENDS TopicServer, FiniteSetTheorems, SequenceTheorems, WellFoundedInduction, TLAPS

\* A set of numbers that has an element has a least one.
LEMMA LeastExists ==
    ASSUME NEW S \in SUBSET Nat, S # {}
    PROVE  \E x \in S : \A y \in S : x <= y
<1>. DEFINE less == {ss \in Nat \X Nat : ss[1] < ss[2]}
<1>1. less = OpToRel(<, Nat)
  BY Zenon DEF OpToRel
<1>2. IsWellFoundedOn(less, Nat)
  BY <1>1, NatLessThanWellFounded, Zenon
<1>3. PICK x \in S : \A y \in S : ~ (<<y, x>> \in less)
  <2>. HIDE DEF less
  <2>. QED  BY <1>2, WFMin, Zenon
<1>4. ASSUME NEW y \in S PROVE x <= y
  <2>1. x \in Nat /\ y \in Nat
    BY <1>3
  <2>2. y < x => <<y, x>> \in less
    BY <2>1
  <2>. QED  BY <1>3, <2>1, <2>2 DEF less
<1>. QED  BY <1>4

\* An add that is let in finds a free entry.
LEMMA FirstFreeIsFree ==
    ASSUME Free # {} PROVE FirstFree \in Entries /\ ~routers[FirstFree].custom
<1>1. Free \in SUBSET Nat
  BY DEF Free, Entries
<1>2. FirstFree \in Free
  BY <1>1, LeastExists DEF FirstFree
<1>. QED  BY <1>2 DEF Free

-----------------------------------------------------------------------------
(***************************************************************************)
(* Type correctness.                                                       *)
(***************************************************************************)
RouteEntry == [custom : BOOLEAN, topic : TopicIds \cup {0},
               custom_cb : Callbacks \cup {Null, KeyAsPointer},
               callback_user_data : Callbacks \cup {Null}]

AddState == [entry : {0} \cup Entries, callback : Callbacks \cup {Null}, over : BOOLEAN,
             next : {"none", "custom_cb", "topic", "callback_user_data"}]

PassState == [topic : TopicIds \cup {0}, at : {0} \cup Entries,
              phase : {"none", "match", "call", "end"}, due : SUBSET Entries,
              called : Seq(Entries)]

Custom == {i \in Entries : routers[i].custom}

\* An add under way fills a custom entry that it has not counted yet.
AddCounted ==
    IF adding.next = "none" THEN adding = NoAdd /\ Cardinality(Custom) <= router_count
    ELSE /\ adding.entry \in Custom
         /\ adding.callback \in Callbacks
         /\ router_count < MaxRouters
         /\ Cardinality(Custom) <= router_count + 1

TableType ==
    /\ routers \in [Entries -> RouteEntry]
    /\ router_count \in 0 .. MaxRouters
    /\ adding \in AddState
    /\ owner \in [Entries -> Callbacks \cup {Null}]
    /\ AddCounted

PassPlaced(r) == IF r.phase = "none" THEN r = NotPassing ELSE r.at \in Entries

PassType ==
    /\ pass \in [Passers -> PassState]
    /\ \A p \in Passers : PassPlaced(pass[p])

RouterType == TableType /\ PassType

\* What the manager and the passes do to the table.
RouterStep ==
    \/ Manage
    \/ \E p \in Passers : (\E t \in TopicIds : BeginPass(p, t)) \/ PassStep(p)

ThreadStates == {"none", "created", "test", "run_once", "sleep", "process"}

RelayType ==
    /\ isr_queue \in Seq(Keys) /\ Len(isr_queue) <= Capacity
    /\ running \in BOOLEAN /\ wanted \in BOOLEAN
    /\ thread \in [Threads -> ThreadStates]
    /\ hand \in [Threads -> Keys \cup {NoEvent}]
    /\ todo \in [Threads -> Seq(TopicIds)]
    /\ relayed \in Keys \cup {NoEvent}

ServerType == RouterType /\ RelayType

\* Every step of the server is a step of the router or leaves it alone.
LEMMA ServerRoutes ==
    ASSUME ServerType, [Next]_vars
    PROVE  [RouterStep]_routeVars
<1>1. ASSUME NEW t \in Threads, Trigger(t) PROVE [RouterStep]_routeVars
  <2>1. Head(todo[t]) \in TopicIds
    BY <1>1, HeadTailProperties DEF Trigger, ServerType, RelayType
  <2>. QED  BY <1>1, <2>1 DEF Trigger, RouterStep, Threads
<1>2. ASSUME NEW t \in Threads, PassStep(t) PROVE RouterStep
  BY <1>2 DEF RouterStep, Threads
<1>3. CASE Manage
  BY <1>3 DEF RouterStep
<1>4. CASE InterruptStep \/ Stop \/ UNCHANGED vars
  BY <1>4 DEF InterruptStep, PublishIsr, Stop, vars
<1>5. ASSUME NEW t \in Threads,
             \/ Start(t) \/ ProcessIsrQueue(t) \/ BeginTask(t) \/ TestRunning(t) \/ Wake(t)
             \/ ReadEvent(t) \/ ReadNothing(t) \/ PublishEvent(t)
      PROVE  UNCHANGED routeVars
  BY <1>5 DEF Start, ProcessIsrQueue, BeginTask, TestRunning, Wake, ReadEvent, ReadNothing,
              PublishEvent
<1>. QED  BY <1>1, <1>2, <1>3, <1>4, <1>5 DEF Next, ThreadStep

\* The strengthened types of the router give its type invariant.
LEMMA RouterTypeImplies == ASSUME RouterType PROVE RouterTypeOK
BY DEF RouterType, TableType, PassType, RouterTypeOK, RouteEntry, AddState, PassState

\* The empty router is well-typed.
LEMMA RouterInitType == ASSUME RouterInit PROVE RouterType
<1>1. TableType
  <2>1. Custom = {}
    BY DEF RouterInit, Custom, Unused
  <2>2. AddCounted
    BY <2>1, FS_EmptySet DEF RouterInit, AddCounted, NoAdd
  <2>. QED  BY <2>2, RouterAssumption
            DEF RouterInit, TableType, RouteEntry, AddState, Unused, NoAdd
<1>2. NotPassing \in PassState /\ PassPlaced(NotPassing)
  BY DEF NotPassing, PassState, PassPlaced
<1>. QED  BY <1>1, <1>2 DEF RouterInit, RouterType, PassType

\* Putting an entry into use, or out of it, changes the number in use by one.
LEMMA CustomCounts ==
    ASSUME TableType, NEW i \in Entries
    PROVE  /\ IsFiniteSet(Custom) /\ Cardinality(Custom) \in Nat
           /\ i \notin Custom => Cardinality(Custom \cup {i}) = Cardinality(Custom) + 1
           /\ i \in Custom => Cardinality(Custom \ {i}) = Cardinality(Custom) - 1
<1>1. IsFiniteSet(Entries)
  BY RouterAssumption, FS_Interval DEF Entries
<1>2. IsFiniteSet(Custom)
  BY <1>1, FS_Subset DEF Custom
<1>. QED  BY <1>2, FS_CardinalityType, FS_AddElement, FS_RemoveElement

\* The table keeps its types: the count in particular neither passes the size of the table
\* nor goes below zero.
LEMMA TableKeepsType ==
    ASSUME TableType, Manage
    PROVE  TableType'
<1>0. /\ MaxRouters \in Nat \ {0} /\ TopicIds \subseteq Nat /\ Null \notin Callbacks
      /\ TopicOf \in [Callbacks -> TopicIds]
  BY RouterAssumption
<1>1. ASSUME NEW t \in TopicIds, AddVfb(t) PROVE TableType'
  <2>. DEFINE f == FirstFree
  <2>1. f \in Entries /\ ~routers[f].custom
    BY <1>1, FirstFreeIsFree DEF AddVfb, CanAdd
  <2>2. routers' = [routers EXCEPT ![f].custom_cb = KeyAsPointer, ![f].topic = t]
    BY <1>1 DEF AddVfb
  <2>. HIDE DEF f
  <2>3. routers' \in [Entries -> RouteEntry] /\ Custom' = Custom
    BY <1>1, <2>1, <2>2, ZenonT(30) DEF TableType, RouteEntry, Custom
  <2>4. adding.next = "none"
    BY <1>1 DEF AddVfb, CanAdd, NoAdd
  <2>5. router_count + 1 \in 0 .. MaxRouters
    BY <1>0, <1>1 DEF AddVfb, CanAdd, TableType
  <2>6. AddCounted'
    <3>1. adding' = adding /\ router_count' = router_count + 1
      BY <1>1 DEF AddVfb
    <3>2. Cardinality(Custom) \in Nat /\ Cardinality(Custom) <= router_count
      BY <2>1, <2>4, CustomCounts DEF TableType, AddCounted
    <3>3. Cardinality(Custom') <= router_count'
      BY <2>3, <3>1, <3>2 DEF TableType
    <3>. QED  BY <2>4, <3>1, <3>3 DEF TableType, AddCounted
  <2>. QED  BY <1>1, <2>3, <2>5, <2>6 DEF AddVfb, TableType
<1>2. ASSUME NEW c \in Callbacks, AddCustom(c) PROVE TableType'
  <2>. DEFINE f == FirstFree
  <2>1. f \in Entries /\ ~routers[f].custom
    BY <1>2, FirstFreeIsFree DEF AddCustom, CanAdd
  <2>2. /\ routers' = [routers EXCEPT ![f].custom = TRUE]
        /\ adding' = [entry |-> f, callback |-> c, next |-> "custom_cb", over |-> routers[f] # Unused]
        /\ owner' = [owner EXCEPT ![f] = c] /\ router_count' = router_count
        /\ adding.next = "none" /\ router_count < MaxRouters
    BY <1>2 DEF AddCustom, CanAdd, NoAdd
  <2>. HIDE DEF f
  <2>3. routers' \in [Entries -> RouteEntry] /\ Custom' = Custom \cup {f}
    BY <2>1, <2>2 DEF TableType, RouteEntry, Custom
  <2>4. f \notin Custom
    BY <2>1 DEF Custom
  <2>5. Cardinality(Custom') <= router_count' + 1
    BY <2>1, <2>2, <2>3, <2>4, CustomCounts DEF TableType, AddCounted
  <2>6. AddCounted'
    BY <2>2, <2>3, <2>5 DEF AddCounted
  <2>7. adding' \in AddState /\ owner' \in [Entries -> Callbacks \cup {Null}]
    BY <2>1, <2>2 DEF AddState, TableType
  <2>. QED  BY <2>2, <2>3, <2>6, <2>7 DEF TableType
<1>3. CASE StoreCallback
  <2>1. adding.entry \in Entries /\ adding.callback \in Callbacks
    BY <1>3 DEF StoreCallback, TableType, AddCounted, Custom
  <2>2. routers' \in [Entries -> RouteEntry] /\ Custom' = Custom
    BY <1>3, <2>1 DEF StoreCallback, TableType, RouteEntry, Custom
  <2>3. adding' \in AddState /\ AddCounted'
    BY <1>3, <2>1, <2>2 DEF StoreCallback, TableType, AddState, AddCounted
  <2>. QED  BY <1>3, <2>2, <2>3 DEF StoreCallback, TableType
<1>4. CASE StoreTopic
  <2>1. adding.entry \in Entries /\ TopicOf[adding.callback] \in TopicIds
    BY <1>0, <1>4 DEF StoreTopic, TableType, AddCounted, Custom
  <2>2. routers' \in [Entries -> RouteEntry] /\ Custom' = Custom
    BY <1>4, <2>1 DEF StoreTopic, TableType, RouteEntry, Custom
  <2>3. adding' \in AddState /\ AddCounted'
    BY <1>4, <2>1, <2>2 DEF StoreTopic, TableType, AddState, AddCounted
  <2>. QED  BY <1>4, <2>2, <2>3 DEF StoreTopic, TableType
<1>5. CASE StoreUserData
  <2>1. /\ adding.entry \in Entries /\ adding.callback \in Callbacks
        /\ router_count + 1 \in 0 .. MaxRouters
        /\ Cardinality(Custom) <= router_count + 1
    BY <1>0, <1>5 DEF StoreUserData, TableType, AddCounted, Custom
  <2>2. routers' \in [Entries -> RouteEntry] /\ Custom' = Custom
    BY <1>5, <2>1 DEF StoreUserData, TableType, RouteEntry, Custom
  <2>3. adding' \in AddState /\ AddCounted'
    BY <1>5, <2>1, <2>2 DEF StoreUserData, TableType, AddState, AddCounted, NoAdd
  <2>. QED  BY <1>5, <2>1, <2>2, <2>3 DEF StoreUserData, TableType
<1>6. ASSUME NEW t \in TopicIds, Remove(t) PROVE TableType'
  <2>1. PICK i \in Matching(t) : /\ routers' = [routers EXCEPT ![i] = Unused]
                                 /\ owner' = [owner EXCEPT ![i] = Null]
    BY <1>6 DEF Remove
  <2>2. i \in Entries /\ i \in Custom
    BY <2>1 DEF Matching, Custom
  <2>3. routers' \in [Entries -> RouteEntry] /\ Custom' = Custom \ {i}
    BY <2>1, <2>2 DEF TableType, RouteEntry, Custom, Unused
  <2>4. adding.next = "none" /\ router_count' = router_count - 1 /\ adding' = adding
    BY <1>6 DEF Remove, NoAdd
  <2>5. /\ Cardinality(Custom) \in Nat /\ Cardinality(Custom \ {i}) = Cardinality(Custom) - 1
        /\ Cardinality(Custom \ {i}) \in Nat
    <3>1. IsFiniteSet(Custom) /\ Cardinality(Custom) \in Nat
      BY <2>2, CustomCounts
    <3>. QED  BY <2>2, <3>1, CustomCounts, FS_RemoveElement, FS_CardinalityType
  <2>6. AddCounted' /\ router_count' \in 0 .. MaxRouters
    BY <1>0, <2>3, <2>4, <2>5 DEF TableType, AddCounted
  <2>. QED  BY <2>1, <2>3, <2>4, <2>6 DEF TableType
<1>. QED  BY <1>1, <1>2, <1>3, <1>4, <1>5, <1>6 DEF Manage

\* Passes keep their types.
LEMMA PassesKeepType ==
    ASSUME RouterType, [RouterStep]_routeVars
    PROVE  PassType'
<1>0. /\ PassType /\ pass \in [Passers -> PassState] /\ MaxRouters \in Nat \ {0}
      /\ Entries = 1 .. MaxRouters
  BY RouterAssumption DEF RouterType, PassType, Entries
<1>1. CASE UNCHANGED pass
  BY <1>0, <1>1 DEF PassType
<1>2. ASSUME NEW p \in Passers, NEW r \in PassState, PassPlaced(r),
             pass' = [pass EXCEPT ![p] = r]
      PROVE  PassType'
  BY <1>0, <1>2 DEF PassType
<1>3. ASSUME NEW r \in PassState, r.at \in Entries
      PROVE  Onward(r) \in PassState /\ PassPlaced(Onward(r))
  <2>1. CASE r.at = MaxRouters
    BY <1>3, <2>1 DEF Onward, PassState, PassPlaced
  <2>2. CASE r.at # MaxRouters
    <3>1. r.at + 1 \in Entries
      BY <1>0, <1>3, <2>2
    <3>2. [r EXCEPT !.at = r.at + 1, !.phase = "match"] \in PassState
      BY <3>1 DEF PassState
    <3>. QED  BY <2>2, <3>1, <3>2 DEF Onward, PassState, PassPlaced
  <2>. QED  BY <2>1, <2>2
<1>4. ASSUME NEW t \in TopicIds, Remove(t) PROVE PassType'
  <2>1. PICK i \in Entries : pass' = [p \in Passers |-> [pass[p] EXCEPT !.due = @ \ {i}]]
    BY <1>4 DEF Remove, Matching
  <2>2. ASSUME NEW p \in Passers
        PROVE  [pass[p] EXCEPT !.due = @ \ {i}] \in PassState
               /\ PassPlaced([pass[p] EXCEPT !.due = @ \ {i}])
    <3>1. pass[p] \in PassState /\ PassPlaced(pass[p])
      BY <1>0 DEF PassType
    <3>2. CASE pass[p].phase = "none"
      <4>1. [pass[p] EXCEPT !.due = @ \ {i}] = NotPassing
        <5>1. pass[p] = NotPassing /\ {} \ {i} = {}
          BY <3>1, <3>2 DEF PassPlaced
        <5>2. NotPassing \in PassState /\ NotPassing.due = {}
          BY DEF NotPassing, PassState
        <5>3. \A r \in PassState : r.due = {} => [r EXCEPT !.due = {}] = r
          BY DEF PassState
        <5>. QED  BY <5>1, <5>2, <5>3
      <4>2. NotPassing \in PassState /\ PassPlaced(NotPassing)
        BY DEF NotPassing, PassState, PassPlaced
      <4>. QED  BY <4>1, <4>2
    <3>3. CASE pass[p].phase # "none"
      BY <3>1, <3>3 DEF PassState, PassPlaced
    <3>. QED  BY <3>2, <3>3
  <2>. QED  BY <2>1, <2>2 DEF PassType
<1>5. ASSUME NEW p \in Passers, NEW t \in TopicIds, BeginPass(p, t) PROVE PassType'
  <2>. DEFINE r == [topic |-> t, at |-> 1, phase |-> "match", due |-> Complete(t), called |-> <<>>]
  <2>1. r \in PassState /\ PassPlaced(r)
    BY <1>0 DEF PassState, PassPlaced, Complete, Matching
  <2>2. pass' = [pass EXCEPT ![p] = r]
    BY <1>5 DEF BeginPass
  <2>. HIDE DEF r
  <2>. QED  BY <1>2, <2>1, <2>2
<1>6. ASSUME NEW p \in Passers, MatchEntry(p) PROVE PassType'
  <2>1. pass[p] \in PassState /\ pass[p].at \in Entries
    BY <1>0, <1>6 DEF MatchEntry, PassType, PassPlaced
  <2>2. [pass[p] EXCEPT !.phase = "call"] \in PassState
        /\ PassPlaced([pass[p] EXCEPT !.phase = "call"])
    BY <2>1 DEF PassState, PassPlaced
  <2>3. \/ pass' = [pass EXCEPT ![p] = [pass[p] EXCEPT !.phase = "call"]]
        \/ pass' = [pass EXCEPT ![p] = Onward(pass[p])]
    BY <1>6 DEF MatchEntry
  <2>. QED  BY <1>2, <1>3, <2>1, <2>2, <2>3
<1>7. ASSUME NEW p \in Passers, CallEntry(p) PROVE PassType'
  <2>1. pass[p] \in PassState /\ pass[p].at \in Entries
    BY <1>0, <1>7 DEF CallEntry, PassType, PassPlaced
  <2>. DEFINE r == [pass[p] EXCEPT !.called = Append(@, pass[p].at)]
  <2>2. r \in PassState /\ r.at \in Entries
    <3>1. Append(pass[p].called, pass[p].at) \in Seq(Entries)
      BY <2>1, AppendProperties DEF PassState
    <3>. QED  BY <2>1, <3>1 DEF PassState
  <2>3. \/ pass' = [pass EXCEPT ![p] = Onward(r)]
        \/ pass' = [pass EXCEPT ![p] = Onward(pass[p])]
    BY <1>7 DEF CallEntry
  <2>. HIDE DEF r
  <2>. QED  BY <1>2, <1>3, <2>1, <2>2, <2>3
<1>8. ASSUME NEW p \in Passers, EndPass(p) PROVE PassType'
  <2>1. NotPassing \in PassState /\ PassPlaced(NotPassing)
    BY DEF NotPassing, PassState, PassPlaced
  <2>. QED  BY <1>2, <1>8, <2>1 DEF EndPass
<1>. QED
  BY <1>1, <1>4, <1>5, <1>6, <1>7, <1>8
     DEF RouterStep, routeVars, Manage, AddVfb, AddCustom, StoreCallback, StoreTopic,
         StoreUserData, PassStep

\* Every router operation keeps the router well-typed.
LEMMA RouterKeepsType ==
    ASSUME RouterType, [RouterStep]_routeVars
    PROVE  RouterType'
<1>1. ASSUME UNCHANGED table PROVE TableType'
  <2>1. Custom' = Custom
    BY <1>1 DEF table, Custom
  <2>. QED  BY <1>1, <2>1 DEF RouterType, TableType, table, AddCounted
<1>2. ASSUME Manage PROVE TableType'
  BY <1>2, TableKeepsType DEF RouterType
<1>3. TableType'
  BY <1>1, <1>2 DEF RouterStep, routeVars, BeginPass, PassStep, MatchEntry, CallEntry, EndPass
<1>. QED  BY <1>3, PassesKeepType DEF RouterType

\* The ring, the threads and what they hold keep their types.
LEMMA RelayKeepsType ==
    ASSUME RelayType, [Next]_vars
    PROVE  RelayType'
<1>0. Capacity \in Nat \ {0} /\ TopicsFor \in [Keys -> Seq(TopicIds)] /\ NoEvent \notin Keys
  BY ServerAssumption
<1>1. CASE UNCHANGED <<server, relay>>
  BY <1>1 DEF server, relay, RelayType
<1>2. CASE InterruptStep
  <2>1. PICK k \in Keys : PublishIsr(k)
    BY <1>2 DEF InterruptStep
  <2>2. isr_queue' \in Seq(Keys) /\ Len(isr_queue') = Len(isr_queue) + 1
    BY <2>1, AppendProperties DEF PublishIsr, RelayType
  <2>3. Len(isr_queue') <= Capacity
    BY <1>0, <2>1, <2>2, LenProperties DEF PublishIsr, RelayType
  <2>. QED  BY <2>1, <2>2, <2>3 DEF PublishIsr, RelayType, server
<1>3. ASSUME NEW t \in Threads,
             \/ Start(t) \/ ProcessIsrQueue(t) \/ BeginTask(t) \/ TestRunning(t) \/ Wake(t)
             \/ ReadNothing(t) \/ Stop
      PROVE  RelayType'
  BY <1>3 DEF Start, ProcessIsrQueue, BeginTask, TestRunning, Wake, ReadNothing, Stop, relay,
              RelayType, ThreadStates
<1>4. ASSUME NEW t \in Threads, ReadEvent(t) PROVE RelayType'
  <2>1. /\ Head(isr_queue) \in Keys /\ Tail(isr_queue) \in Seq(Keys)
        /\ Len(Tail(isr_queue)) = Len(isr_queue) - 1
    BY <1>4, HeadTailProperties DEF ReadEvent, RelayType
  <2>2. Len(isr_queue') <= Capacity
    BY <1>0, <1>4, <2>1, LenProperties DEF ReadEvent, RelayType
  <2>. QED  BY <1>4, <2>1, <2>2 DEF ReadEvent, server, RelayType
<1>5. ASSUME NEW t \in Threads, PublishEvent(t) PROVE RelayType'
  <2>1. hand[t] \in Keys /\ TopicsFor[hand[t]] \in Seq(TopicIds)
    BY <1>0, <1>5 DEF PublishEvent, RelayType
  <2>. QED  BY <1>5, <2>1 DEF PublishEvent, server, RelayType
<1>6. ASSUME NEW t \in Threads, Trigger(t) PROVE RelayType'
  <2>1. Tail(todo[t]) \in Seq(TopicIds)
    BY <1>6, HeadTailProperties DEF Trigger, RelayType
  <2>. QED  BY <1>6, <2>1 DEF Trigger, server, RelayType
<1>7. CASE Stop
  BY <1>7 DEF Stop, relay, RelayType
<1>. QED  BY <1>1, <1>2, <1>3, <1>4, <1>5, <1>6, <1>7 DEF Next, ThreadStep, vars

\* The strengthened types hold in every state.
LEMMA TypeInvariant == Spec => []ServerType
<1>1. Init => ServerType
  <2>. SUFFICES ASSUME Init PROVE ServerType
    OBVIOUS
  <2>1. RouterType /\ RouterTypeOK
    BY RouterInitType, RouterTypeImplies DEF Init
  <2>2. <<>> \in Seq(Keys) /\ Len(<<>>) <= Capacity /\ <<>> \in Seq(TopicIds)
    BY ServerAssumption
  <2>. QED  BY <2>1, <2>2 DEF Init, ServerType, RelayType, ThreadStates
<1>2. ServerType /\ [Next]_vars => ServerType'
  <2>. SUFFICES ASSUME ServerType, [Next]_vars PROVE ServerType'
    OBVIOUS
  <2>1. RouterType'
    BY ServerRoutes, RouterKeepsType DEF ServerType
  <2>. QED  BY <2>1, RelayKeepsType DEF ServerType
<1>. QED  BY <1>1, <1>2, PTL DEF Spec

\* The table, the passes, the ring and the threads keep to their types.
THEOREM TypeCorrect == Spec => []TypeOK
<1>1. ServerType => TypeOK
  BY RouterTypeImplies DEF ServerType, RelayType, ThreadStates, TypeOK
<1>. QED  BY <1>1, TypeInvariant, PTL
-----------------------------------------------------------------------------
(***************************************************************************)
(* A pass finds the routes as they were added, and calls all of them.      *)
(*                                                                         *)
(* What keeps the table and the passes together: a free entry has no user  *)
(* data; a complete one is what its owner was added with; the one being    *)
(* filled matches no pass until its callback and topic are stored, unless  *)
(* it was filled over a VFB route, which nobody passes.                    *)
(***************************************************************************)
RouteKept(i) ==
    LET e == routers[i]
        c == owner[i]
    IN /\ ~e.custom => e.callback_user_data = Null
       /\ e.custom /\ i # adding.entry =>
             /\ c \in Callbacks /\ e.custom_cb = c /\ e.topic = TopicOf[c]
             /\ e.callback_user_data = c

AddKept ==
    adding.next # "none" =>
        LET e == routers[adding.entry]
            c == adding.callback
        IN /\ owner[adding.entry] = c
           /\ e.callback_user_data = Null
           /\ adding.next # "custom_cb" => e.custom_cb = c
           /\ IF adding.next = "callback_user_data" THEN e.topic = TopicOf[c]
              ELSE ~adding.over => e.topic = 0
           /\ adding.over => NobodyPasses

\* A pass about to call is at an entry that matches; the routes it is due to call stay
\* complete until it ends; it has called those behind it, each once.
Behind(r) == IF r.phase = "end" THEN Entries ELSE 1 .. (r.at - 1)

PassKept(r) ==
    /\ r.phase = "call" => r.at \in Matching(r.topic) /\ r.topic # 0
    /\ r.phase \in {"match", "call"} => r.due \subseteq Complete(r.topic)
    /\ r.phase # "none" =>
          /\ \A n \in DOMAIN r.called : r.called[n] \in Behind(r)
          /\ \A n, m \in DOMAIN r.called : r.called[n] = r.called[m] => n = m
          /\ \A i \in r.due \cap Behind(r) : \E n \in DOMAIN r.called : r.called[n] = i

RoutesKept ==
    /\ \A i \in Entries : RouteKept(i)
    /\ AddKept
    /\ \A p \in Passers : PassKept(pass[p])
\* The empty router holds every route added to it: none.
LEMMA RoutesKeptInit == ASSUME RouterInit PROVE RoutesKept
<1>1. \A i \in Entries : RouteKept(i)
  BY DEF RouterInit, RouteKept, Unused
<1>2. AddKept
  BY DEF RouterInit, AddKept, NoAdd
<1>3. PassKept(NotPassing)
  BY DEF NotPassing, PassKept
<1>. QED  BY <1>1, <1>2, <1>3 DEF RouterInit, RoutesKept

\* What an entry that is complete can be called with.
LEMMA CompleteEntry ==
    ASSUME RouterType, \A j \in Entries : RouteKept(j), NEW t, NEW i \in Complete(t)
    PROVE  /\ i \in Matching(t) /\ t # 0 /\ owner[i] \in Callbacks
           /\ routers[i].custom_cb = owner[i] /\ routers[i].custom_cb # Null
BY RouterAssumption DEF Complete, Matching, RouteKept

\* Stores to an entry that no pass may call leave the passes as they were.
LEMMA PassesUndisturbed ==
    ASSUME RouterType, RoutesKept, UNCHANGED pass, NEW f \in Entries,
           \A i \in Entries \ {f} : routers'[i] = routers[i],
           adding'.entry \in {0, adding.entry, f},
           ~routers[f].custom \/ (adding.next # "none" /\ f = adding.entry),
           \A p \in Passers : pass[p].phase = "call" /\ pass[p].at = f =>
               routers'[f].custom /\ routers'[f].topic = pass[p].topic
    PROVE  \A p \in Passers : PassKept(pass[p])'
<1>. SUFFICES ASSUME NEW p \in Passers PROVE PassKept(pass[p])'
  OBVIOUS
<1>. DEFINE r == pass[p]
<1>1. r' = r /\ PassKept(r) /\ r.due \subseteq Entries
  BY DEF RoutesKept, RouterType, PassType, PassState
<1>2. r.phase = "call" => r.at \in Matching(r.topic)' /\ r.topic # 0
  BY <1>1 DEF PassKept, Matching
<1>3. r.phase \in {"match", "call"} => r.due \subseteq Complete(r.topic)'
  <2>. SUFFICES ASSUME r.phase \in {"match", "call"}, NEW i \in r.due
                PROVE  i \in Complete(r.topic)'
    OBVIOUS
  <2>1. i \in Entries /\ i \in Complete(r.topic)
    BY <1>1 DEF PassKept
  <2>2. i # f /\ i # adding'.entry
    BY <2>1 DEF Complete, Matching, Entries
  <2>. QED  BY <1>1, <2>1, <2>2 DEF Complete, Matching
<1>. QED  BY <1>1, <1>2, <1>3 DEF PassKept, Behind

\* Changes of the table keep what the passes rely on.
LEMMA ManageKeeps ==
    ASSUME ~Unguarded, RouterType, RoutesKept, Manage
    PROVE  RoutesKept'
<1>0. /\ AddKept
      /\ \A i \in Entries : RouteKept(i)
      /\ TableType /\ routers \in [Entries -> RouteEntry]
      /\ owner \in [Entries -> Callbacks \cup {Null}]
  BY DEF RoutesKept, RouterType, TableType
<1>1. ASSUME NEW t \in TopicIds, AddVfb(t) PROVE RoutesKept'
  <2>. DEFINE f == FirstFree
  <2>1. f \in Entries /\ ~routers[f].custom
    BY <1>1, FirstFreeIsFree DEF AddVfb, CanAdd
  <2>2. /\ routers' = [routers EXCEPT ![f].custom_cb = KeyAsPointer, ![f].topic = t]
        /\ adding = NoAdd /\ UNCHANGED <<adding, pass, owner>>
    BY <1>1 DEF AddVfb, CanAdd
  <2>. HIDE DEF f
  <2>3. /\ routers'[f].custom = routers[f].custom
        /\ routers'[f].callback_user_data = routers[f].callback_user_data
        /\ \A i \in Entries \ {f} : routers'[i] = routers[i]
    BY <1>0, <2>1, <2>2 DEF RouteEntry
  <2>4. \A i \in Entries : RouteKept(i)'
    BY <1>0, <2>1, <2>2, <2>3 DEF RouteKept
  <2>5. AddKept'
    BY <2>2 DEF AddKept, NoAdd
  <2>6. \A p \in Passers : PassKept(pass[p])'
    <3>1. \A p \in Passers : ~ (pass[p].phase = "call" /\ pass[p].at = f)
      BY <2>1 DEF RoutesKept, PassKept, Matching
    <3>. QED  BY <2>1, <2>2, <2>3, <3>1, PassesUndisturbed
  <2>. QED  BY <2>4, <2>5, <2>6 DEF RoutesKept
<1>2. ASSUME NEW c \in Callbacks, AddCustom(c) PROVE RoutesKept'
  <2>. DEFINE f == FirstFree
  <2>1. f \in Entries /\ ~routers[f].custom
    BY <1>2, FirstFreeIsFree DEF AddCustom, CanAdd
  <2>2. /\ routers' = [routers EXCEPT ![f].custom = TRUE]
        /\ adding' = [entry |-> f, callback |-> c, next |-> "custom_cb", over |-> routers[f] # Unused]
        /\ owner' = [owner EXCEPT ![f] = c] /\ pass' = pass
        /\ adding = NoAdd /\ (routers[f] # Unused => NobodyPasses)
    BY <1>2 DEF AddCustom, CanAdd
  <2>. HIDE DEF f
  <2>3. /\ routers'[f].custom
        /\ routers'[f].topic = routers[f].topic
        /\ routers'[f].callback_user_data = routers[f].callback_user_data
        /\ \A i \in Entries \ {f} : routers'[i] = routers[i]
    BY <1>0, <2>1, <2>2 DEF RouteEntry
  <2>4. \A i \in Entries : RouteKept(i)'
    <3>1. \A i \in Entries : i # adding.entry
      BY <2>2 DEF NoAdd, Entries
    <3>. QED  BY <1>0, <2>1, <2>2, <2>3, <3>1 DEF RouteKept
  <2>5. AddKept'
    <3>1. owner'[f] = c /\ adding'.callback = c /\ adding'.entry = f
      BY <1>0, <2>1, <2>2
    <3>2. routers'[f].callback_user_data = Null
      BY <1>0, <2>1, <2>3 DEF RouteKept
    <3>3. routers[f] = Unused => routers'[f].topic = 0
      BY <2>3 DEF Unused
    <3>. QED  BY <2>2, <3>1, <3>2, <3>3 DEF AddKept, NobodyPasses
  <2>6. \A p \in Passers : PassKept(pass[p])'
    <3>1. \A p \in Passers : ~ (pass[p].phase = "call" /\ pass[p].at = f)
      BY <2>1 DEF RoutesKept, PassKept, Matching
    <3>. QED  BY <2>1, <2>2, <2>3, <3>1, PassesUndisturbed
  <2>. QED  BY <2>4, <2>5, <2>6 DEF RoutesKept
<1>. DEFINE e == adding.entry
<1>3. ASSUME adding.next # "none" PROVE e \in Entries /\ routers[e].custom /\ adding.callback \in Callbacks
  BY <1>0, <1>3 DEF TableType, AddCounted, Custom
<1>4. CASE StoreCallback
  <2>1. /\ adding.next = "custom_cb" /\ adding' = [adding EXCEPT !.next = "topic"]
        /\ routers' = [routers EXCEPT ![e].custom_cb = adding.callback]
        /\ UNCHANGED <<pass, owner>> /\ adding \in AddState
    BY <1>0, <1>4 DEF StoreCallback, TableType
  <2>2. /\ e \in Entries /\ routers[e].custom /\ adding.callback \in Callbacks
        /\ adding'.entry = e /\ adding'.next = "topic" /\ adding'.callback = adding.callback
        /\ adding'.over = adding.over
    BY <1>3, <2>1 DEF AddState
  <2>. HIDE DEF e
  <2>3. /\ routers'[e].custom /\ routers'[e].topic = routers[e].topic
        /\ routers'[e].callback_user_data = routers[e].callback_user_data
        /\ routers'[e].custom_cb = adding.callback
        /\ \A i \in Entries \ {e} : routers'[i] = routers[i]
    BY <1>0, <2>1, <2>2 DEF RouteEntry
  <2>4. \A i \in Entries : RouteKept(i)'
    BY <1>0, <2>1, <2>2, <2>3 DEF RouteKept, e
  <2>5. AddKept'
    BY <1>0, <2>1, <2>2, <2>3 DEF AddKept, e, NobodyPasses
  <2>6. \A p \in Passers : PassKept(pass[p])'
    <3>1. \A p \in Passers : pass[p].phase = "call" /\ pass[p].at = e =>
              routers'[e].custom /\ routers'[e].topic = pass[p].topic
      BY <2>3 DEF RoutesKept, PassKept, Matching
    <3>. QED  BY <2>1, <2>2, <2>3, <3>1, PassesUndisturbed DEF e
  <2>. QED  BY <2>4, <2>5, <2>6 DEF RoutesKept
<1>5. CASE StoreTopic
  <2>1. /\ adding.next = "topic" /\ adding' = [adding EXCEPT !.next = "callback_user_data"]
        /\ routers' = [routers EXCEPT ![e].topic = TopicOf[adding.callback]]
        /\ UNCHANGED <<pass, owner>> /\ adding \in AddState
    BY <1>0, <1>5 DEF StoreTopic, TableType
  <2>2. /\ e \in Entries /\ routers[e].custom /\ adding.callback \in Callbacks
        /\ adding'.entry = e /\ adding'.next = "callback_user_data"
        /\ adding'.callback = adding.callback /\ adding'.over = adding.over
    BY <1>3, <2>1 DEF AddState
  <2>. HIDE DEF e
  <2>3. /\ routers'[e].custom /\ routers'[e].topic = TopicOf[adding.callback]
        /\ routers'[e].callback_user_data = routers[e].callback_user_data
        /\ routers'[e].custom_cb = routers[e].custom_cb
        /\ \A i \in Entries \ {e} : routers'[i] = routers[i]
    BY <1>0, <2>1, <2>2 DEF RouteEntry
  <2>4. \A i \in Entries : RouteKept(i)'
    BY <1>0, <2>1, <2>2, <2>3 DEF RouteKept, e
  <2>5. AddKept'
    BY <1>0, <2>1, <2>2, <2>3 DEF AddKept, e, NobodyPasses
  <2>6. \A p \in Passers : PassKept(pass[p])'
    <3>1. ASSUME NEW p \in Passers, pass[p].phase = "call", pass[p].at = e PROVE FALSE
      <4>1. routers[e].topic # 0
        BY <3>1 DEF RoutesKept, PassKept, Matching
      <4>2. pass[p] # NotPassing
        BY <3>1 DEF NotPassing
      <4>. QED  BY <1>0, <2>1, <4>1, <4>2 DEF AddKept, e, NobodyPasses
    <3>. QED  BY <2>1, <2>2, <2>3, <3>1, PassesUndisturbed DEF e
  <2>. QED  BY <2>4, <2>5, <2>6 DEF RoutesKept
<1>6. CASE StoreUserData
  <2>1. /\ adding.next = "callback_user_data" /\ adding' = NoAdd
        /\ routers' = [routers EXCEPT ![e].callback_user_data = adding.callback]
        /\ UNCHANGED <<pass, owner>>
    BY <1>6 DEF StoreUserData
  <2>2. e \in Entries /\ routers[e].custom /\ adding.callback \in Callbacks /\ adding'.entry = 0
    BY <1>3, <2>1 DEF NoAdd
  <2>. HIDE DEF e
  <2>3. /\ routers'[e].custom /\ routers'[e].topic = routers[e].topic
        /\ routers'[e].callback_user_data = adding.callback
        /\ routers'[e].custom_cb = routers[e].custom_cb
        /\ \A i \in Entries \ {e} : routers'[i] = routers[i]
    BY <1>0, <2>1, <2>2 DEF RouteEntry
  <2>4. \A i \in Entries : RouteKept(i)'
    <3>1. owner[e] = adding.callback /\ routers[e].topic = TopicOf[adding.callback]
          /\ routers[e].custom_cb = adding.callback
      BY <1>0, <2>1 DEF AddKept, e
    <3>2. \A i \in Entries : i = e => RouteKept(i)'
      BY <2>1, <2>2, <2>3, <3>1 DEF RouteKept
    <3>3. \A i \in Entries : i # e => RouteKept(i)'
      BY <1>0, <2>1, <2>3 DEF RouteKept, e
    <3>. QED  BY <3>2, <3>3
  <2>5. AddKept'
    BY <2>1 DEF AddKept, NoAdd
  <2>6. \A p \in Passers : PassKept(pass[p])'
    <3>1. \A p \in Passers : pass[p].phase = "call" /\ pass[p].at = e =>
              routers'[e].custom /\ routers'[e].topic = pass[p].topic
      BY <2>3 DEF RoutesKept, PassKept, Matching
    <3>. QED  BY <2>1, <2>2, <2>3, <3>1, PassesUndisturbed DEF e
  <2>. QED  BY <2>4, <2>5, <2>6 DEF RoutesKept
<1>7. ASSUME NEW t \in TopicIds, Remove(t) PROVE RoutesKept'
  <2>1. /\ NobodyPasses /\ adding = NoAdd /\ adding' = adding
        /\ \E i \in Entries : /\ routers' = [routers EXCEPT ![i] = Unused]
                              /\ owner' = [owner EXCEPT ![i] = Null]
                              /\ pass' = [p \in Passers |-> [pass[p] EXCEPT !.due = @ \ {i}]]
    BY <1>7 DEF Remove, Matching
  <2>2. \A i \in Entries : RouteKept(i)'
    BY <1>0, <2>1 DEF RouteKept, Unused
  <2>3. AddKept'
    BY <2>1 DEF AddKept, NoAdd
  <2>4. ASSUME NEW p \in Passers PROVE PassKept(pass[p])'
    <3>1. pass[p] = NotPassing /\ pass[p].phase = "none"
      BY <2>1 DEF NobodyPasses, NotPassing
    <3>2. pass'[p].phase = "none"
      BY <2>1, <3>1 DEF NotPassing
    <3>. QED  BY <3>2 DEF PassKept
  <2>. QED  BY <2>2, <2>3, <2>4 DEF RoutesKept
<1>. QED  BY <1>1, <1>2, <1>4, <1>5, <1>6, <1>7 DEF Manage

\* A pass that moves on has called what it leaves behind.
LEMMA OnwardKept ==
    ASSUME NEW r \in PassState, r.at \in Entries, r.due \subseteq Complete(r.topic),
           \A n \in DOMAIN r.called : r.called[n] \in 1 .. r.at,
           \A n, m \in DOMAIN r.called : r.called[n] = r.called[m] => n = m,
           \A i \in r.due \cap (1 .. r.at) : \E n \in DOMAIN r.called : r.called[n] = i
    PROVE  PassKept(Onward(r))
<1>0. MaxRouters \in Nat \ {0} /\ Entries = 1 .. MaxRouters
  BY RouterAssumption DEF Entries
<1>. DEFINE s == Onward(r)
<1>1. s.topic = r.topic /\ s.due = r.due /\ s.called = r.called
  BY DEF Onward, PassState
<1>2. IF r.at = MaxRouters THEN s.phase = "end" ELSE s.phase = "match" /\ s.at = r.at + 1
  BY DEF Onward, PassState
<1>3. Behind(s) = 1 .. r.at
  BY <1>0, <1>2 DEF Behind
<1>. HIDE DEF s
<1>4. s.phase \in {"end", "match"}
  BY <1>2
<1>. QED  BY <1>1, <1>3, <1>4 DEF PassKept, s

\* Passes keep to it too.
LEMMA PassStepKeeps ==
    ASSUME ~Unguarded, RouterType, RoutesKept, NEW p \in Passers,
           (\E t \in TopicIds : BeginPass(p, t)) \/ PassStep(p)
    PROVE  RoutesKept'
<1>0. /\ \A i \in Entries : RouteKept(i)
      /\ pass \in [Passers -> PassState] /\ MaxRouters \in Nat \ {0} /\ Entries = 1 .. MaxRouters
      /\ pass[p].due \subseteq Entries /\ PassKept(pass[p]) /\ PassPlaced(pass[p])
  BY RouterAssumption DEF RouterType, PassType, PassState, Entries, RoutesKept
<1>1. UNCHANGED table /\ (adding.over => pass[p] # NotPassing)
  BY DEF BeginPass, PassStep, MatchEntry, CallEntry, EndPass, NotPassing
<1>2. ASSUME NEW r, PassKept(r), pass' = [pass EXCEPT ![p] = r] PROVE RoutesKept'
  <2>1. \A i \in Entries : RouteKept(i)'
    BY <1>0, <1>1 DEF RouteKept, table
  <2>2. AddKept'
    BY <1>1 DEF RoutesKept, AddKept, table, NobodyPasses
  <2>3. /\ \A t : Matching(t)' = Matching(t) /\ Complete(t)' = Complete(t)
        /\ \A q \in Passers : pass'[q] = IF q = p THEN r ELSE pass[q]
    BY <1>0, <1>1, <1>2 DEF Matching, Complete, table
  <2>4. ASSUME NEW q \in Passers PROVE PassKept(pass[q])'
    <3>1. PassKept(IF q = p THEN r ELSE pass[q])
      BY <1>2 DEF RoutesKept
    <3>2. PassKept(pass'[q])
      BY <2>3, <3>1
    <3>. QED  BY <2>3, <3>2 DEF PassKept, Behind
  <2>. QED  BY <2>1, <2>2, <2>4 DEF RoutesKept
<1>3. ASSUME NEW t \in TopicIds, BeginPass(p, t) PROVE RoutesKept'
  <2>. DEFINE r == [topic |-> t, at |-> 1, phase |-> "match", due |-> Complete(t), called |-> <<>>]
  <2>1. PassKept(r)
    <3>1. Behind(r) = {}
      BY DEF Behind
    <3>. QED  BY <3>1 DEF PassKept
  <2>2. pass' = [pass EXCEPT ![p] = r]
    BY <1>3 DEF BeginPass
  <2>. HIDE DEF r
  <2>. QED  BY <1>2, <2>1, <2>2
<1>. DEFINE r == pass[p]
<1>4. r \in PassState /\ r.called \in Seq(Entries)
  BY <1>0 DEF PassState
<1>5. ASSUME r.phase \in {"match", "call"}
      PROVE  /\ r.at \in Entries /\ r.due \subseteq Complete(r.topic) /\ Behind(r) = 1 .. (r.at - 1)
             /\ \A n \in DOMAIN r.called : r.called[n] \in 1 .. (r.at - 1)
             /\ \A n, m \in DOMAIN r.called : r.called[n] = r.called[m] => n = m
             /\ \A i \in r.due \cap (1 .. (r.at - 1)) : \E n \in DOMAIN r.called : r.called[n] = i
  BY <1>0, <1>5 DEF PassKept, PassPlaced, Behind
<1>6. CASE MatchEntry(p)
  <2>1. r.phase = "match"
    BY <1>6 DEF MatchEntry
  <2>2. CASE r.at \in Matching(r.topic) /\ r.topic # 0
    <3>. DEFINE s == [r EXCEPT !.phase = "call"]
    <3>1. pass' = [pass EXCEPT ![p] = s]
      BY <1>6, <2>2 DEF MatchEntry, Matching
    <3>2. /\ s.topic = r.topic /\ s.at = r.at /\ s.due = r.due /\ s.called = r.called
          /\ s.phase = "call" /\ Behind(s) = Behind(r)
      BY <1>4, <2>1 DEF PassState, Behind
    <3>. HIDE DEF s, r
    <3>3. PassKept(s)
      BY <1>5, <2>1, <2>2, <3>2 DEF PassKept
    <3>. QED  BY <1>2, <3>1, <3>3 DEF r
  <2>3. CASE ~ (r.at \in Matching(r.topic) /\ r.topic # 0)
    <3>1. pass' = [pass EXCEPT ![p] = Onward(r)]
      BY <1>5, <1>6, <2>1, <2>3 DEF MatchEntry, Matching
    <3>2. r.at \notin r.due
      BY <1>5, <2>1, <2>3 DEF Complete
    <3>. HIDE DEF r
    <3>3. PassKept(Onward(r))
      <4>1. \A i \in r.due \cap (1 .. r.at) : i \in r.due \cap (1 .. (r.at - 1))
        BY <1>0, <1>5, <2>1, <3>2
      <4>2. \A n \in DOMAIN r.called : r.called[n] \in 1 .. r.at
        BY <1>0, <1>5, <2>1
      <4>. QED  BY <1>4, <1>5, <2>1, <4>1, <4>2, OnwardKept
    <3>. QED  BY <1>2, <3>1, <3>3 DEF r
  <2>. QED  BY <2>2, <2>3
<1>7. CASE CallEntry(p)
  <2>1. r.phase = "call"
    BY <1>7 DEF CallEntry
  <2>2. CASE routers[r.at].custom_cb = Null
    <3>1. pass' = [pass EXCEPT ![p] = Onward(r)]
      BY <1>7, <2>2 DEF CallEntry
    <3>2. r.at \notin r.due
      BY <1>0, <1>5, <2>1, <2>2, CompleteEntry
    <3>. HIDE DEF r
    <3>3. PassKept(Onward(r))
      <4>1. \A i \in r.due \cap (1 .. r.at) : i \in r.due \cap (1 .. (r.at - 1))
        BY <1>0, <1>5, <2>1, <3>2
      <4>2. \A n \in DOMAIN r.called : r.called[n] \in 1 .. r.at
        BY <1>0, <1>5, <2>1
      <4>. QED  BY <1>4, <1>5, <2>1, <4>1, <4>2, OnwardKept
    <3>. QED  BY <1>2, <3>1, <3>3 DEF r
  <2>3. CASE routers[r.at].custom_cb # Null
    <3>. DEFINE s == [r EXCEPT !.called = Append(r.called, r.at)]
    <3>1. pass' = [pass EXCEPT ![p] = Onward(s)]
      BY <1>7, <2>3 DEF CallEntry
    <3>2. s \in PassState /\ s.topic = r.topic /\ s.at = r.at /\ s.due = r.due
          /\ s.called = Append(r.called, r.at)
      <4>1. Append(r.called, r.at) \in Seq(Entries)
        BY <1>4, <1>5, <2>1, AppendProperties
      <4>. QED  BY <1>4, <4>1 DEF PassState
    <3>. HIDE DEF s, r
    <3>3. /\ DOMAIN s.called = DOMAIN r.called \cup {Len(r.called) + 1}
          /\ Len(r.called) + 1 \notin DOMAIN r.called
          /\ \A n \in DOMAIN r.called : s.called[n] = r.called[n]
          /\ s.called[Len(r.called) + 1] = r.at
      BY <1>4, <1>5, <2>1, <3>2, AppendProperties, LenProperties
    <3>4. r.at \notin 1 .. (r.at - 1) /\ 1 .. r.at = (1 .. (r.at - 1)) \cup {r.at}
      BY <1>0, <1>5, <2>1
    <3>5. PassKept(Onward(s))
      <4>1. \A n \in DOMAIN s.called : s.called[n] \in 1 .. r.at
        BY <1>5, <2>1, <3>3, <3>4
      <4>2. \A n, m \in DOMAIN s.called : s.called[n] = s.called[m] => n = m
        BY <1>5, <2>1, <3>3, <3>4
      <4>3. \A i \in r.due \cap (1 .. r.at) : \E n \in DOMAIN s.called : s.called[n] = i
        BY <1>5, <2>1, <3>3, <3>4
      <4>. QED  BY <1>5, <2>1, <3>2, <4>1, <4>2, <4>3, OnwardKept
    <3>. QED  BY <1>2, <3>1, <3>5 DEF r
  <2>. QED  BY <2>2, <2>3
<1>8. CASE EndPass(p)
  <2>1. PassKept(NotPassing)
    BY DEF NotPassing, PassKept
  <2>. QED  BY <1>2, <1>8, <2>1 DEF EndPass
<1>. QED  BY <1>3, <1>6, <1>7, <1>8 DEF PassStep

\* RoutesKept is inductive relative to the types.
LEMMA RoutesKeptInvariant == ASSUME ~Unguarded PROVE Spec => []RoutesKept
<1>1. Init => RoutesKept
  BY RoutesKeptInit DEF Init
<1>2. ServerType /\ RoutesKept /\ [Next]_vars => RoutesKept'
  <2>. SUFFICES ASSUME ServerType, RoutesKept, [Next]_vars PROVE RoutesKept'
    OBVIOUS
  <2>1. [RouterStep]_routeVars /\ RouterType
    BY ServerRoutes DEF ServerType
  <2>2. CASE UNCHANGED routeVars
    BY <2>2 DEF routeVars, table, RoutesKept, RouteKept, AddKept, NobodyPasses, PassKept,
                Behind, Matching, Complete
  <2>. QED  BY <2>1, <2>2, ManageKeeps, PassStepKeeps DEF RouterStep
<1>. QED  BY <1>1, <1>2, TypeInvariant, PTL DEF Spec

\* A callback is called for the topic it was added for, with its own data or, while the add
\* is under way, with NULL.
THEOREM CallsAsAdded == ASSUME ~Unguarded PROVE Spec => []RoutesAsAdded
<1>1. ServerType /\ RoutesKept => RoutesAsAdded
  <2>. SUFFICES ASSUME ServerType, RoutesKept, NEW p \in Passers, pass[p].phase = "call"
                PROVE  LET i == pass[p].at
                           c == owner[i]
                       IN /\ c \in Callbacks
                          /\ routers[i].custom_cb = c
                          /\ TopicOf[c] = pass[p].topic
                          /\ routers[i].callback_user_data
                                \in {c} \cup (IF adding.entry = i THEN {Null} ELSE {})
    BY DEF RoutesAsAdded
  <2>. DEFINE i == pass[p].at
  <2>1. /\ i \in Entries /\ routers[i].custom /\ routers[i].topic = pass[p].topic
        /\ pass[p].topic # 0 /\ RouteKept(i)
    BY DEF RoutesKept, PassKept, Matching
  <2>2. CASE i # adding.entry
    BY <2>1, <2>2 DEF RouteKept
  <2>3. CASE i = adding.entry
    <3>1. adding.next # "none" /\ adding.callback \in Callbacks /\ adding \in AddState
      BY <2>1, <2>3 DEF ServerType, RouterType, TableType, AddCounted, NoAdd, Entries
    <3>2. ~adding.over
      BY <3>1 DEF RoutesKept, AddKept, NobodyPasses, NotPassing
    <3>3. adding.next = "callback_user_data"
      BY <2>1, <2>3, <3>1, <3>2 DEF RoutesKept, AddKept
    <3>. QED  BY <2>1, <2>3, <3>1, <3>3 DEF RoutesKept, AddKept
  <2>. QED  BY <2>2, <2>3
<1>. QED  BY <1>1, TypeInvariant, RoutesKeptInvariant, PTL

\* No pass misses or repeats a route that stayed from its begin to its end, however many
\* adds went on beside it.
THEOREM EveryRouteCalled == ASSUME ~Unguarded PROVE Spec => []AllRoutesCalled
<1>1. ServerType /\ RoutesKept => AllRoutesCalled
  <2>. SUFFICES ASSUME ServerType, RoutesKept, NEW p \in Passers, pass[p].phase = "end",
                       NEW i \in pass[p].due
                PROVE  \E n \in DOMAIN pass[p].called :
                          /\ pass[p].called[n] = i
                          /\ \A m \in DOMAIN pass[p].called : pass[p].called[m] = i => m = n
    BY DEF AllRoutesCalled
  <2>1. PassKept(pass[p]) /\ pass[p].due \subseteq Entries
    BY DEF RoutesKept, ServerType, RouterType, PassType, PassState
  <2>. QED  BY <2>1 DEF PassKept, Behind
<1>. QED  BY <1>1, TypeInvariant, RoutesKeptInvariant, PTL

-----------------------------------------------------------------------------
(***************************************************************************)
(* From the interrupt to the bus in order.  One thread reads at a time,    *)
(* and a thread that has something to publish or to route is reading.      *)
(***************************************************************************)
OneReader ==
    /\ \A t, u \in Threads : thread[t] # "none" /\ thread[u] # "none" => t = u
    /\ \A t \in Threads :
          hand[t] # NoEvent \/ todo[t] # <<>> => thread[t] \in {"run_once", "process"}

\* Only one task at a time reads the ISR queue.
LEMMA OneReaderInvariant == ASSUME ~Hasty PROVE Spec => []OneReader
<1>1. Init => OneReader
  BY DEF Init, OneReader
<1>2. ServerType /\ OneReader /\ [Next]_vars => OneReader'
  <2>. SUFFICES ASSUME ServerType, OneReader, [Next]_vars PROVE OneReader'
    OBVIOUS
  <2>0. /\ thread \in [Threads -> ThreadStates]
        /\ hand \in [Threads -> Keys \cup {NoEvent}] /\ todo \in [Threads -> Seq(TopicIds)]
    BY DEF ServerType, RelayType
  <2>1. CASE UNCHANGED <<thread, hand, todo>>
    BY <2>1 DEF OneReader
  <2>2. ASSUME NEW t \in Threads, Start(t) \/ ProcessIsrQueue(t) PROVE OneReader'
    BY <2>0, <2>2 DEF Start, ProcessIsrQueue, NoReader, relay, OneReader
  <2>3. ASSUME NEW t \in Threads, BeginTask(t) \/ TestRunning(t) \/ Wake(t) \/ ReadNothing(t)
        PROVE  OneReader'
    BY <2>0, <2>3 DEF BeginTask, TestRunning, Wake, ReadNothing, Reading, relay, OneReader
  <2>4. ASSUME NEW t \in Threads, ReadEvent(t) \/ PublishEvent(t) \/ Trigger(t) PROVE OneReader'
    BY <2>0, <2>4 DEF ReadEvent, Reading, PublishEvent, Trigger, server, OneReader
  <2>. QED
    BY <2>1, <2>2, <2>3, <2>4
       DEF Next, vars, InterruptStep, PublishIsr, Stop, server, relay, ThreadStep
<1>. QED  BY <1>1, <1>2, TypeInvariant, PTL DEF Spec

\* With one reader the events in hand are those of that reader.
HandSeen ==
    \A t \in Threads : thread[t] # "none" =>
        InHand = IF hand[t] = NoEvent THEN <<>> ELSE <<hand[t]>>

\* What is in hand is the event that task popped last.
LEMMA InHandIs == ServerType /\ OneReader => HandSeen
<1>. SUFFICES ASSUME ServerType, OneReader, NEW t \in Threads, thread[t] # "none"
              PROVE  InHand = IF hand[t] = NoEvent THEN <<>> ELSE <<hand[t]>>
  BY DEF HandSeen
<1>. DEFINE H == {hand[u] : u \in Threads} \ {NoEvent}
<1>1. H = IF hand[t] = NoEvent THEN {} ELSE {hand[t]}
  BY DEF OneReader
<1>2. (CHOOSE k \in {hand[t]} : TRUE) = hand[t]
  OBVIOUS
<1>3. CASE hand[t] = NoEvent
  BY <1>1, <1>3 DEF InHand
<1>4. CASE hand[t] # NoEvent
  <2>1. H = {hand[t]} /\ H # {}
    BY <1>1, <1>4
  <2>2. InHand = <<CHOOSE k \in H : TRUE>>
    BY <2>1 DEF InHand
  <2>. HIDE DEF H
  <2>. QED  BY <1>2, <1>4, <2>1, <2>2
<1>. QED  BY <1>3, <1>4

\* At most one event is in hand.
LEMMA InHandBound ==
    ASSUME ServerType, OneReader
    PROVE  InHand \in Seq(Keys) /\ Len(InHand) <= 1
<1>1. CASE \E t \in Threads : thread[t] # "none"
  <2>1. PICK t \in Threads : thread[t] # "none"
    BY <1>1
  <2>2. hand[t] \in Keys \cup {NoEvent}
    BY DEF ServerType, RelayType
  <2>3. InHand = IF hand[t] = NoEvent THEN <<>> ELSE <<hand[t]>>
    BY <2>1, InHandIs DEF HandSeen
  <2>4. <<>> \in Seq(Keys) /\ \A k \in Keys : <<k>> \in Seq(Keys) /\ Len(<<k>>) = 1
    OBVIOUS
  <2>. QED  BY <2>2, <2>3, <2>4
<1>2. CASE \A t \in Threads : thread[t] = "none"
  <2>1. {hand[u] : u \in Threads} \ {NoEvent} = {}
    BY <1>2 DEF OneReader
  <2>2. InHand = <<>>
    BY <2>1 DEF InHand
  <2>. QED  BY <2>2
<1>. QED  BY <1>1, <1>2

\* With one reader at a time, whoever it is and however often the server stops and starts,
\* ring, thread and bus implement a first-in-first-out queue of Capacity + 1 places.
THEOREM RelayImplementsFifo == ASSUME ~Hasty PROVE Spec => RelayInOrder
<1>0. Capacity \in Nat \ {0} /\ NoEvent \notin Keys
  BY ServerAssumption
<1>. DEFINE published == [c \in {"bus"} |-> relayed]
<1>1. Init => Relay!Init
  <2>. SUFFICES ASSUME Init PROVE InHand \o isr_queue = <<>> /\ relayed = NoEvent
    BY DEF Relay!Init
  <2>1. {hand[u] : u \in Threads} \ {NoEvent} = {}
    BY DEF Init
  <2>. QED  BY <2>1 DEF Init, InHand
<1>2. ServerType /\ OneReader /\ HandSeen' /\ [Next]_vars => [Relay!Next]_(Relay!vars)
  <2>. SUFFICES ASSUME ServerType, OneReader, HandSeen', [Next]_vars
                PROVE  [Relay!Next]_(Relay!vars)
    OBVIOUS
  <2>0. /\ hand \in [Threads -> Keys \cup {NoEvent}] /\ isr_queue \in Seq(Keys)
        /\ HandSeen
        /\ Len(isr_queue) <= Capacity /\ InHand \in Seq(Keys) /\ Len(InHand) <= 1
    BY InHandBound, InHandIs DEF ServerType, RelayType
  <2>1. CASE UNCHANGED <<hand, isr_queue, relayed>>
    BY <2>1 DEF Relay!vars, InHand
  <2>2. CASE InterruptStep
    <3>1. PICK k \in Keys : PublishIsr(k)
      BY <2>2 DEF InterruptStep
    <3>2. InHand' = InHand /\ published' = published
      BY <3>1 DEF PublishIsr, InHand
    <3>3. InHand \o Append(isr_queue, k) = Append(InHand \o isr_queue, k)
      BY <2>0, AppendProperties, ConcatProperties
    <3>4. Len(InHand \o isr_queue) < Capacity + 1
      BY <1>0, <2>0, <3>1, ConcatProperties, LenProperties DEF PublishIsr
    <3>. HIDE DEF published
    <3>5. Relay!Put
      BY <3>1, <3>2, <3>3, <3>4 DEF Relay!Put, PublishIsr, published
    <3>. QED  BY <3>5 DEF Relay!Next
  <2>3. ASSUME NEW t \in Threads, ReadEvent(t) PROVE UNCHANGED Relay!vars
    <3>1. thread[t] # "none" /\ thread'[t] # "none" /\ hand[t] = NoEvent /\ isr_queue # <<>>
      BY <2>3 DEF ReadEvent, Reading, server
    <3>2. Head(isr_queue) \in Keys /\ hand'[t] = Head(isr_queue)
      BY <2>0, <2>3, HeadTailProperties DEF ReadEvent
    <3>3. InHand = <<>>
      BY <2>0, <3>1 DEF HandSeen
    <3>4. InHand' = <<Head(isr_queue)>>
      <4>1. InHand' = IF hand'[t] = NoEvent THEN <<>> ELSE <<hand'[t]>>
        BY <2>0, <3>1 DEF HandSeen
      <4>. QED  BY <1>0, <3>2, <4>1
    <3>5. <<Head(isr_queue)>> \o Tail(isr_queue) = isr_queue
      BY <2>0, <3>1
    <3>. QED  BY <2>0, <2>3, <3>3, <3>4, <3>5 DEF ReadEvent, Relay!vars
  <2>4. ASSUME NEW t \in Threads, PublishEvent(t) PROVE Relay!Get("bus")
    <3>1. thread[t] # "none" /\ thread'[t] # "none" /\ hand[t] # NoEvent /\ hand'[t] = NoEvent
      BY <2>0, <2>4 DEF PublishEvent, OneReader, server
    <3>2. InHand = <<hand[t]>>
      BY <2>0, <3>1 DEF HandSeen
    <3>3. InHand' = <<>>
      BY <2>0, <3>1 DEF HandSeen
    <3>4. /\ <<hand[t]>> \o isr_queue # <<>> /\ Head(<<hand[t]>> \o isr_queue) = hand[t]
          /\ Tail(<<hand[t]>> \o isr_queue) = isr_queue /\ <<>> \o isr_queue = isr_queue
      BY <2>0, ConcatEmptySeq
    <3>5. isr_queue' = isr_queue /\ relayed' = hand[t]
      BY <2>4 DEF PublishEvent
    <3>. QED  BY <3>2, <3>3, <3>4, <3>5 DEF Relay!Get
  <2>. QED
    BY <2>1, <2>2, <2>3, <2>4
       DEF Next, vars, InterruptStep, PublishIsr, Start, ProcessIsrQueue, BeginTask, TestRunning,
           Wake, ReadNothing, Trigger, Stop, server, relay, ThreadStep, Relay!Next
<1>. QED  BY <1>1, <1>2, TypeInvariant, OneReaderInvariant, InHandIs, PTL DEF Spec, RelayInOrder, Relay!Spec
================================================================================
