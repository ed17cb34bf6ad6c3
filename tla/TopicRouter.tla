------------------------------ MODULE TopicRouter ------------------------------
(***************************************************************************)
(* zero_topic_core/topic_bus/topic_router.c: the table that forwards the   *)
(* topics the bus fires to callbacks.  Nothing locks it.  One manager task *)
(* adds and removes routes, one store at a time where a pass can see it,   *)
(* while passes (topic_router_route) go through the table.                 *)
(*                                                                         *)
(* TOPIC_ROUTER_TYPE_VFB is 0, the mark of an unused entry: a VFB route    *)
(* leaves its key and topic in an entry that still counts as free.         *)
(***************************************************************************)
EXTENDS Naturals, Sequences

CONSTANTS Passers,    \* the contexts that can be in topic_router_route
          MaxRouters,
          TopicIds,   \* uint16_t kept in a pointer: 0 reads as NULL
          Callbacks,
          TopicOf,    \* the topic each callback is added for
          Null,
          KeyAsPointer,  \* what u.custom_cb reads after a store to u.vfb_event_key
          Unguarded      \* whether routes are removed, or added over what a VFB route
                         \* left, while passes are under way

ASSUME RouterAssumption ==
    /\ MaxRouters \in Nat \ {0}
    /\ TopicIds \subseteq Nat
    /\ TopicOf \in [Callbacks -> TopicIds]
    /\ {Null, KeyAsPointer} \cap Callbacks = {} /\ Null # KeyAsPointer
    /\ Unguarded \in BOOLEAN

VARIABLES routers,       \* router->routers
          router_count,  \* router->router_count
          adding,        \* the topic_router_add_custom under way
          pass,          \* the topic_router_route of each passer
          owner          \* owner[i]: the callback last added to entry i (history)

table     == <<routers, router_count, adding, owner>>
routeVars == <<table, pass>>

Entries == 1 .. MaxRouters

Unused  == [custom |-> FALSE, topic |-> 0, custom_cb |-> Null, callback_user_data |-> Null]
NoAdd   == [entry |-> 0, callback |-> Null, next |-> "none", over |-> FALSE]
NotPassing == [topic |-> 0, at |-> 0, phase |-> "none", due |-> {}, called |-> <<>>]

RouterInit ==
    /\ routers = [i \in Entries |-> Unused]
    /\ router_count = 0
    /\ adding = NoAdd
    /\ pass = [p \in Passers |-> NotPassing]
    /\ owner = [i \in Entries |-> Null]

NobodyPasses == \A p \in Passers : pass[p] = NotPassing

Free == {i \in Entries : ~routers[i].custom}

FirstFree == CHOOSE i \in Free : \A j \in Free : i <= j

\* A check that lets the count run one past the table.
CanAddOneTooMany == adding = NoAdd /\ router_count <= MaxRouters /\ Free # {}

\* An add is let in when the count has room; it then takes the first free entry.
CanAdd == adding = NoAdd /\ router_count < MaxRouters /\ Free # {}

(***************************************************************************)
(* Changes of the table.                                                   *)
(***************************************************************************)
AddVfb(topic) ==
    /\ CanAdd
    /\ routers' = [routers EXCEPT ![FirstFree].custom_cb = KeyAsPointer,
                                  ![FirstFree].topic = topic]
    /\ router_count' = router_count + 1
    /\ UNCHANGED <<adding, pass, owner>>

\* An add that stores the topic along with the type, before the callback.
AddCustomTopicFirst(c) ==
    LET over == routers[FirstFree] # Unused
    IN /\ CanAdd
       /\ Unguarded \/ ~over \/ NobodyPasses
       /\ routers' = [routers EXCEPT ![FirstFree].custom = TRUE, ![FirstFree].topic = TopicOf[c]]
       /\ adding' = [entry |-> FirstFree, callback |-> c, next |-> "custom_cb", over |-> over]
       /\ owner' = [owner EXCEPT ![FirstFree] = c]
       /\ UNCHANGED <<router_count, pass>>

\* The search and the store of the type.
AddCustom(c) ==
    LET over == routers[FirstFree] # Unused
    IN /\ CanAdd
       /\ Unguarded \/ ~over \/ NobodyPasses
       /\ routers' = [routers EXCEPT ![FirstFree].custom = TRUE]
       /\ adding' = [entry |-> FirstFree, callback |-> c, next |-> "custom_cb", over |-> over]
       /\ owner' = [owner EXCEPT ![FirstFree] = c]
       /\ UNCHANGED <<router_count, pass>>

\* The stores that follow, in the order of the code.
StoreCallback ==
    /\ adding.next = "custom_cb"
    /\ routers' = [routers EXCEPT ![adding.entry].custom_cb = adding.callback]
    /\ adding' = [adding EXCEPT !.next = "topic"]
    /\ UNCHANGED <<router_count, pass, owner>>

StoreTopic ==
    /\ adding.next = "topic"
    /\ routers' = [routers EXCEPT ![adding.entry].topic = TopicOf[adding.callback]]
    /\ adding' = [adding EXCEPT !.next = "callback_user_data"]
    /\ UNCHANGED <<router_count, pass, owner>>

\* Each callback comes with user data of its own, named like it.
StoreUserData ==
    /\ adding.next = "callback_user_data"
    /\ routers' = [routers EXCEPT ![adding.entry].callback_user_data = adding.callback]
    /\ router_count' = router_count + 1
    /\ adding' = NoAdd
    /\ UNCHANGED <<pass, owner>>

Matching(topic) == {i \in Entries : routers[i].custom /\ routers[i].topic = topic}

Remove(topic) ==
    /\ adding = NoAdd
    /\ Unguarded \/ NobodyPasses
    /\ \E i \in Matching(topic) :
          /\ \A j \in Matching(topic) : i <= j
          /\ routers' = [routers EXCEPT ![i] = Unused]
          /\ owner' = [owner EXCEPT ![i] = Null]
          /\ pass' = [p \in Passers |-> [pass[p] EXCEPT !.due = @ \ {i}]]
    /\ router_count' = router_count - 1
    /\ UNCHANGED adding

Manage ==
    \/ \E t \in TopicIds : AddVfb(t) \/ Remove(t)
    \/ \E c \in Callbacks : AddCustom(c)
    \/ StoreCallback
    \/ StoreTopic
    \/ StoreUserData

(***************************************************************************)
(* topic_router_route.  An entry is looked at in two steps: its type and   *)
(* topic, then its callback and user data.                                 *)
(***************************************************************************)
\* The routes a pass has to follow: those there, and complete, from its start on.
Complete(topic) == {i \in Matching(topic) : topic # 0 /\ i # adding.entry}

BeginPass(p, topic) ==
    /\ pass[p] = NotPassing
    /\ Unguarded \/ ~adding.over
    /\ pass' = [pass EXCEPT ![p] = [topic |-> topic, at |-> 1, phase |-> "match",
                                    due |-> Complete(topic), called |-> <<>>]]
    /\ UNCHANGED table

\* A loop over the routes counted instead of the entries.
OnwardToCount(r) ==
    IF r.at >= router_count THEN [r EXCEPT !.phase = "end"]
    ELSE [r EXCEPT !.at = @ + 1, !.phase = "match"]

Onward(r) ==
    IF r.at = MaxRouters THEN [r EXCEPT !.phase = "end"]
    ELSE [r EXCEPT !.at = @ + 1, !.phase = "match"]

MatchEntry(p) ==
    LET r == pass[p] e == routers[r.at]
    IN /\ r.phase = "match"
       /\ pass' = [pass EXCEPT ![p] = IF e.custom /\ e.topic # 0 /\ e.topic = r.topic
                                      THEN [r EXCEPT !.phase = "call"] ELSE Onward(r)]
       /\ UNCHANGED table

CallEntry(p) ==
    LET r == pass[p]
    IN /\ r.phase = "call"
       /\ pass' = [pass EXCEPT ![p] = IF routers[r.at].custom_cb = Null THEN Onward(r)
                                      ELSE Onward([r EXCEPT !.called = Append(@, r.at)])]
       /\ UNCHANGED table

EndPass(p) ==
    /\ pass[p].phase = "end"
    /\ pass' = [pass EXCEPT ![p] = NotPassing]
    /\ UNCHANGED table

PassStep(p) == MatchEntry(p) \/ CallEntry(p) \/ EndPass(p)

--------------------------------------------------------------------------------
(***************************************************************************)
(* Correctness.                                                            *)
(***************************************************************************)
\* What the table, the add under way and the passes can hold.
RouterTypeOK ==
    /\ routers \in [Entries -> [custom : BOOLEAN, topic : TopicIds \cup {0},
                                custom_cb : Callbacks \cup {Null, KeyAsPointer},
                                callback_user_data : Callbacks \cup {Null}]]
    /\ router_count \in 0 .. MaxRouters
    /\ adding \in [entry : {0} \cup Entries, callback : Callbacks \cup {Null}, over : BOOLEAN,
                   next : {"none", "custom_cb", "topic", "callback_user_data"}]
    /\ \A p \in Passers :
          /\ pass[p].at \in {0} \cup Entries
          /\ pass[p].phase \in {"none", "match", "call", "end"}
          /\ pass[p].due \subseteq Entries
          /\ pass[p].called \in Seq(Entries)
    /\ owner \in [Entries -> Callbacks \cup {Null}]

\* A pass about to call finds the callback that was added to the entry, for the topic it
\* was added for, with its user data, which may still be NULL while the add is under way
\* ("may be NULL, the callback has to cope", topic_router.c:128).
RoutesAsAdded ==
    \A p \in Passers : pass[p].phase = "call" =>
        LET i == pass[p].at
            c == owner[i]
        IN /\ c \in Callbacks
           /\ routers[i].custom_cb = c
           /\ TopicOf[c] = pass[p].topic
           /\ routers[i].callback_user_data \in {c} \cup (IF adding.entry = i THEN {Null} ELSE {})

\* When a pass ends it has called every route that was complete when it began, and stayed,
\* exactly once, wherever removals left holes and adds filled them.
AllRoutesCalled ==
    \A p \in Passers : pass[p].phase = "end" =>
        \A i \in pass[p].due :
            \E n \in DOMAIN pass[p].called :
                /\ pass[p].called[n] = i
                /\ \A m \in DOMAIN pass[p].called : pass[p].called[m] = i => m = n
================================================================================
