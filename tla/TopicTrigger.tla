------------------------------ MODULE TopicTrigger ------------------------------
(***************************************************************************)
(* The delivery of one topic by zero_topic_core/topic_bus/topic_bus.c,     *)
(* composed with the object dictionary it reads from:                      *)
(* __trigger_topic_callbacks hands the pointer into the dictionary to      *)
(* every subscriber on the topic's list, without the lock of the           *)
(* dictionary, and without the lock of the bus when it runs for            *)
(* topic_publish_event.  Which events fire which topic is in TopicBus.     *)
(***************************************************************************)
EXTENDS ObjDict

CONSTANTS Publishers,         \* tasks that publish; the other tasks use the dictionary
          PublishOps,         \* "event" (topic_publish_event), "manual"
          Nodes, Nil,         \* subscription nodes os_malloc can return
          UnsubscribeAnytime  \* whether tasks unsubscribe during a delivery

ASSUME TriggerAssumption ==
    /\ Publishers \subseteq Tasks
    /\ PublishOps \subseteq {"event", "manual"}
    /\ Nil \notin Nodes
    /\ UnsubscribeAnytime \in BOOLEAN

VARIABLES subscribers,  \* entry->subscribers: the first node
          next,         \* the next field of each node
          allocated,    \* the nodes in use
          bus_lock,     \* the count of bus->lock
          pub           \* the delivery of each publisher

list == <<subscribers, next, allocated>>
bus  == <<list, bus_lock, pub>>
allVars == <<vars, bus>>

(***************************************************************************)
(* The subscriber list.                                                    *)
(***************************************************************************)
\* A set of nodes that is left by the end of the list only.
Closed(S) == \A m \in S : next[m] \in S \cup {Nil}

\* The nodes of the list that begins at node n: all that every closed set with n has.
From(n) == {m \in Nodes : \A S \in SUBSET Nodes : n \in S \cup {Nil} /\ Closed(S) => m \in S}

\* topic_subscribe and topic_unsubscribe hold bus->lock from end to end; a take that
\* times out goes on without it and gives it all the same.
WithBusLock ==
    \/ bus_lock > 0 /\ UNCHANGED bus_lock
    \/ bus_lock = 0 /\ LockTimesOut /\ bus_lock' = bus_lock + 1

Subscribe ==
    /\ WithBusLock
    /\ \E n \in Nodes \ allocated :
          /\ allocated' = allocated \cup {n}
          /\ next' = [next EXCEPT ![n] = subscribers]
          /\ subscribers' = n
    /\ UNCHANGED <<vars, pub>>

Delivering == {p \in Publishers : pub[p].pc # "idle"}

Unsubscribe ==
    /\ WithBusLock
    /\ UnsubscribeAnytime \/ Delivering = {}
    /\ \E n \in From(subscribers) :
          /\ allocated' = allocated \ {n}
          /\ IF n = subscribers
             THEN subscribers' = next[n] /\ UNCHANGED next
             ELSE /\ next' = [m \in Nodes |->
                        IF m \in From(subscribers) /\ next[m] = n THEN next[n] ELSE next[m]]
                  /\ UNCHANGED subscribers
    /\ UNCHANGED <<vars, pub>>

(***************************************************************************)
(* __trigger_topic_callbacks.                                              *)
(***************************************************************************)
Resting == [pc |-> "idle", op |-> "none", key |-> NoKey, at |-> 1, data |-> Null,
            node |-> Nil, due |-> {}, called |-> {}]

TriggerInit ==
    /\ Init
    /\ subscribers = Nil
    /\ next = [n \in Nodes |-> Nil]
    /\ allocated = {}
    /\ bus_lock = 1
    /\ pub = [p \in Publishers |-> Resting]

At(p, l) == pub[p].pc = l

Move(p, r) == pub' = [pub EXCEPT ![p] = r]

\* topic_publish_event holds the lock of the bus while it looks for the topics to
\* trigger, topic_publish_manual until the last subscriber has returned.
Publish(p) ==
    /\ At(p, "idle")
    /\ bus_lock > 0
    /\ \E op \in PublishOps, k \in Keys :
          /\ Move(p, [Resting EXCEPT !.pc = "scan", !.op = op, !.key = k])
          /\ bus_lock' = IF op = "manual" THEN bus_lock - 1 ELSE bus_lock
    /\ UNCHANGED <<vars, list>>

Onward(r) == IF r.at = MaxKeys THEN [r EXCEPT !.pc = "walk"]
             ELSE [r EXCEPT !.pc = "scan", !.at = @ + 1]

\* __find_dict_entry takes no lock: it reads the value of an entry, then its key.
ScanValue(p) ==
    /\ At(p, "scan")
    /\ Move(p, IF Live(pub[p].at) THEN [pub[p] EXCEPT !.pc = "match"] ELSE Onward(pub[p]))
    /\ UNCHANGED <<vars, list, bus_lock>>

ScanKey(p) ==
    /\ At(p, "match")
    /\ Move(p, IF entries[pub[p].at].key = pub[p].key
               THEN [pub[p] EXCEPT !.pc = "check"] ELSE Onward(pub[p]))
    /\ UNCHANGED <<vars, list, bus_lock>>

\* The value is tested once more and then read.
CheckValue(p) ==
    /\ At(p, "check")
    /\ Move(p, [pub[p] EXCEPT !.pc = IF Live(pub[p].at) THEN "load" ELSE "walk"])
    /\ UNCHANGED <<vars, list, bus_lock>>

\* A search that loses its position.
LoadValueOfFirst(p) ==
    /\ At(p, "load")
    /\ Move(p, [pub[p] EXCEPT !.pc = "retain", !.data = entries[1].value])
    /\ UNCHANGED <<vars, list, bus_lock>>

LoadValue(p) ==
    /\ At(p, "load")
    /\ Move(p, [pub[p] EXCEPT !.pc = "retain", !.data = entries[pub[p].at].value])
    /\ UNCHANGED <<vars, list, bus_lock>>

\* obj_dict_retain looks the key up again; its answer is ignored.
RetainData(p) ==
    /\ At(p, "retain")
    /\ Begin(p, [Idle EXCEPT !.op = "retain", !.key = pub[p].key])
    /\ Move(p, [pub[p] EXCEPT !.pc = "walk"])
    /\ UNCHANGED <<list, bus_lock>>

StartWalk(p) ==
    /\ At(p, "walk")
    /\ call[p].pc = "idle"
    /\ Move(p, [pub[p] EXCEPT !.pc = IF subscribers = Nil THEN "walked" ELSE "callback",
                              !.node = subscribers, !.due = From(subscribers)])
    /\ UNCHANGED <<vars, list, bus_lock>>

NextSubscriberStopsEarly(p) ==
    LET n == next[pub[p].node] IN
    /\ At(p, "callback")
    /\ Move(p, [pub[p] EXCEPT !.pc = IF n = Nil \/ next[n] = Nil THEN "walked" ELSE "callback",
                              !.node = n, !.called = @ \cup {pub[p].node}])
    /\ UNCHANGED <<vars, list, bus_lock>>

\* The callback has returned; sub->next is read only now.
NextSubscriber(p) ==
    LET n == next[pub[p].node] IN
    /\ At(p, "callback")
    /\ Move(p, [pub[p] EXCEPT !.pc = IF n = Nil THEN "walked" ELSE "callback",
                              !.node = n, !.called = @ \cup {pub[p].node}])
    /\ UNCHANGED <<vars, list, bus_lock>>

ReleaseDataNever(p) ==
    /\ At(p, "walked")
    /\ Move(p, [pub[p] EXCEPT !.pc = "route"])
    /\ UNCHANGED <<vars, list, bus_lock>>

\* The reference is given back whether or not it was obtained.
ReleaseData(p) ==
    /\ At(p, "walked")
    /\ IF pub[p].data = Null THEN UNCHANGED vars
       ELSE Begin(p, [Idle EXCEPT !.op = "release", !.key = pub[p].key])
    /\ Move(p, [pub[p] EXCEPT !.pc = "route"])
    /\ UNCHANGED <<list, bus_lock>>

\* The router works on the pointer after the release; then the publisher is done.
Routed(p) ==
    /\ At(p, "route")
    /\ call[p].pc = "idle"
    /\ Move(p, Resting)
    /\ bus_lock' = IF pub[p].op = "manual" THEN bus_lock + 1 ELSE bus_lock
    /\ UNCHANGED <<vars, list>>

\* The calls of a publisher into the dictionary run as any other.
PublisherCall(p) ==
    /\ Take(p) \/ Retain(p) \/ Release(p) \/ Give(p)
    /\ UNCHANGED bus

PublisherStep(p) ==
    \/ Publish(p)   \/ ScanValue(p)  \/ ScanKey(p)   \/ CheckValue(p)     \/ LoadValue(p)
    \/ RetainData(p) \/ PublisherCall(p) \/ StartWalk(p) \/ NextSubscriber(p)
    \/ ReleaseData(p) \/ Routed(p)

TriggerNext ==
    \/ \E p \in Publishers : PublisherStep(p)
    \/ \E t \in Tasks \ Publishers : TaskStep(t) /\ UNCHANGED bus
    \/ Subscribe
    \/ Unsubscribe

TriggerSpec == TriggerInit /\ [][TriggerNext]_allVars

(***************************************************************************)
(* Properties.                                                             *)
(***************************************************************************)
\* The pointer is what the dictionary holds for the key.
Valid(p) == \E s \in Holding(pub[p].key) : entries[s].value = pub[p].data

\* The data pointer a callback works on stays the value of its key until it returns.
CallbackDataValid ==
    \A p \in Publishers : At(p, "callback") /\ pub[p].data # Null => Valid(p)

\* So does the pointer the router copies from, after the reference was given back.
RouterDataValid ==
    \A p \in Publishers : At(p, "route") /\ pub[p].data # Null => Valid(p)

\* A delivery calls into no freed node, and when it is over every node that was on the
\* list when it began has been called, in spite of tasks subscribing meanwhile.
EverySubscriberCalled ==
    \A p \in Publishers :
        /\ At(p, "callback") => pub[p].node \in allocated \ pub[p].called
        /\ At(p, "walked") => pub[p].called = pub[p].due
================================================================================
