-------------------------------- MODULE TopicBus --------------------------------
(***************************************************************************)
(* The rules of zero_topic_core/topic_bus: topic_bus.c decides under       *)
(* bus->lock which topics an event fires (topic_rule.c: rule, trigger      *)
(* mask, cache of the last query, freshness of the events), gives the lock *)
(* back and delivers the topics one by one.  A delivery is a step here and *)
(* a module of its own in TopicTrigger.                                    *)
(*                                                                         *)
(* No call is assumed to hold bus->lock beyond its 100 ms.                 *)
(***************************************************************************)
EXTENDS Integers, Sequences, FiniteSets

CONSTANTS Publishers,  \* tasks that publish
          MaxTopics,   \* entries in bus->topics
          TopicIds, NoTopic,   \* 0xFFFF marks a free entry
          Keys,        \* the event keys, as numbers: 0 is a legal one
          Rules        \* the rules tasks create: [type, events, timed]

RuleTypes == {"or", "and", "manual"}

ASSUME BusAssumption ==
    /\ MaxTopics \in Nat \ {0}
    /\ NoTopic \notin TopicIds
    /\ Keys \subseteq Nat
    /\ \A r \in Rules : /\ r.type \in RuleTypes /\ r.timed \in BOOLEAN
                        /\ r.events \in Seq(Keys) /\ Len(r.events) \in 1 .. 31

VARIABLES topics,  \* bus->topics
          fresh,   \* the keys the dictionary holds a recent value for
          lock,    \* whether bus->lock is free
          pub,     \* the call of each publisher
          heard    \* heard[s]: the events of the AND rule of entry s published in time
                   \* since the rule was made or last complete (history)

vars == <<topics, fresh, lock, pub, heard>>

Entries == 1 .. MaxTopics

EventsOf(e) == {e.events[i] : i \in DOMAIN e.events}

(***************************************************************************)
(* topic_rule.c, on an entry e.  No events stands for events == NULL.      *)
(***************************************************************************)
\* The cache answers for the last key asked about; it starts out as "key 0: no".
CanTriggerUncached(e, k) == e.type # "manual" /\ k \in EventsOf(e)

CanTrigger(e, k) ==
    IF e.cached_key = k THEN e.cached_hit ELSE CanTriggerUncached(e, k)

Remembered(e, k) ==
    IF e.type = "manual" \/ e.cached_key = k THEN e
    ELSE [e EXCEPT !.cached_key = k, !.cached_hit = k \in EventsOf(e)]

\* topic_rule_check_timeout: a rule is timed unless its timeouts are all
\* TOPIC_BUS_EVENT_TIMEOUT_MAX.
InTime(e, k) == k \in EventsOf(e) /\ (e.timed => k \in fresh)

FirstIndex(e, k) == CHOOSE i \in DOMAIN e.events :
    e.events[i] = k /\ \A j \in DOMAIN e.events : e.events[j] = k => i <= j

UpdateMask(e, k) == [e EXCEPT !.mask = @ \cup {FirstIndex(e, k)}]

Matches(e) == e.mask = DOMAIN e.events

ResetMask(e) == [e EXCEPT !.mask = {}]

(***************************************************************************)
(* topic_rule_create, under bus->lock from end to end.  malloc can fail    *)
(* for the events, or for the timeouts, which then takes the events along. *)
(***************************************************************************)
Unused == [id |-> NoTopic, type |-> "or", events |-> <<>>, timed |-> TRUE,
           mask |-> {}, cached_key |-> 0, cached_hit |-> FALSE]

\* Rules made anew that keep the cache, or the mask, of the former rule.
WithRuleKeepsCache(e, id, rule, stored) ==
    [e EXCEPT !.id = id, !.type = rule.type, !.mask = {},
              !.events = IF stored THEN rule.events ELSE <<>>,
              !.timed = IF stored THEN rule.timed ELSE TRUE]

WithRuleKeepsMask(e, id, rule, stored) ==
    [Unused EXCEPT !.id = id, !.type = rule.type, !.mask = e.mask,
                   !.events = IF stored THEN rule.events ELSE <<>>,
                   !.timed = IF stored THEN rule.timed ELSE TRUE]

WithRule(e, id, rule, stored) ==
    [Unused EXCEPT !.id = id, !.type = rule.type,
                   !.events = IF stored THEN rule.events ELSE <<>>,
                   !.timed = IF stored THEN rule.timed ELSE TRUE]

FindTopic(id) == {s \in Entries : topics[s].id = id}

FirstOf(S) == CHOOSE s \in S : \A r \in S : s <= r

PlacesFreeFirst(id) == IF FindTopic(NoTopic) # {} THEN FindTopic(NoTopic) ELSE FindTopic(id)

Places(id) == IF FindTopic(id) # {} THEN FindTopic(id) ELSE FindTopic(NoTopic)

RuleCreate(id) ==
    LET s == FirstOf(Places(id)) IN
    /\ lock
    /\ Places(id) # {}
    /\ \E rule \in Rules, stored \in BOOLEAN :
          topics' = [topics EXCEPT ![s] = WithRule(@, id, rule, stored)]
    /\ heard' = [heard EXCEPT ![s] = {}]
    /\ UNCHANGED <<fresh, lock, pub>>

(***************************************************************************)
(* The dictionary: obj_dict_set makes a key fresh; it ages, or is cleaned  *)
(* up, at any time.                                                        *)
(***************************************************************************)
SetKey(k) == /\ fresh' = fresh \cup {k}
             /\ UNCHANGED <<topics, lock, pub, heard>>

KeyAges(k) == /\ fresh' = fresh \ {k}
              /\ UNCHANGED <<topics, lock, pub, heard>>

(***************************************************************************)
(* topic_publish_event.                                                    *)
(***************************************************************************)
Silent == [pc |-> "idle", key |-> 0, at |-> 1, fire |-> <<>>]

Init == /\ topics = [s \in Entries |-> Unused]
        /\ fresh = {}
        /\ lock = TRUE
        /\ pub = [p \in Publishers |-> Silent]
        /\ heard = [s \in Entries |-> {}]

PublishEvent(p) ==
    /\ pub[p].pc = "idle"
    /\ lock
    /\ lock' = FALSE
    /\ \E k \in Keys : pub' = [pub EXCEPT ![p] = [Silent EXCEPT !.pc = "scan", !.key = k]]
    /\ UNCHANGED <<topics, fresh, heard>>

\* What an entry becomes when the loop of topic_publish_event comes to it with key k,
\* and whether it is collected.  (The array of the collected has TOPIC_BUS_MAX_TOPICS = 64
\* places, and max_topics is not larger.)
Visited(e, k) ==
    LET asked == Remembered(e, k)   marked == UpdateMask(asked, k) IN
    IF e.id = NoTopic \/ e.events = <<>>         THEN [entry |-> e, fires |-> FALSE]
    ELSE IF ~CanTrigger(e, k) \/ ~InTime(e, k)   THEN [entry |-> asked, fires |-> FALSE]
    ELSE IF e.type = "or"                        THEN [entry |-> asked, fires |-> TRUE]
    ELSE IF ~Matches(marked)                     THEN [entry |-> marked, fires |-> FALSE]
    ELSE [entry |-> ResetMask(marked), fires |-> \A x \in EventsOf(e) : InTime(e, x)]

\* The events an AND rule has heard, event k added: none when that completes them.
HeardWith(s, k) ==
    LET e == topics[s] IN
    IF e.type = "and" /\ InTime(e, k)
    THEN IF heard[s] \cup {k} = EventsOf(e) THEN {} ELSE heard[s] \cup {k}
    ELSE heard[s]

VisitTopic(p) ==
    LET s == pub[p].at   k == pub[p].key   visit == Visited(topics[s], k)
        onward == [pub[p] EXCEPT !.fire = IF visit.fires THEN Append(@, s) ELSE @,
                                 !.at = IF s = MaxTopics THEN @ ELSE s + 1,
                                 !.pc = IF s = MaxTopics THEN "unlock" ELSE "scan"]
    IN
    /\ pub[p].pc = "scan"
    /\ topics' = [topics EXCEPT ![s] = visit.entry]
    /\ heard' = [heard EXCEPT ![s] = HeardWith(s, k)]
    /\ pub' = [pub EXCEPT ![p] = onward]
    /\ UNCHANGED <<fresh, lock>>

Unlock(p) ==
    /\ pub[p].pc = "unlock"
    /\ lock' = TRUE
    /\ pub' = [pub EXCEPT ![p] = [@ EXCEPT !.pc = "fire"]]
    /\ UNCHANGED <<topics, fresh, heard>>

\* Without the lock, one delivery (TopicTrigger) after the other.
Deliver(p) ==
    /\ pub[p].pc = "fire"
    /\ LET onward == [pub[p] EXCEPT !.fire = Tail(@)]
       IN pub' = [pub EXCEPT ![p] = IF Len(@.fire) <= 1 THEN Silent ELSE onward]
    /\ UNCHANGED <<topics, fresh, lock, heard>>

(***************************************************************************)
(* topic_publish_manual delivers before it gives the lock back.            *)
(***************************************************************************)
PublishManual(p) ==
    /\ pub[p].pc = "idle"
    /\ lock
    /\ \E s \in Entries :
          /\ topics[s].id # NoTopic /\ topics[s].type = "manual"
          /\ lock' = FALSE
          /\ pub' = [pub EXCEPT ![p] = [Silent EXCEPT !.pc = "manual", !.at = s,
                       !.key = IF topics[s].events # <<>> THEN topics[s].events[1] ELSE 0]]
    /\ UNCHANGED <<topics, fresh, heard>>

DeliverManual(p) ==
    /\ pub[p].pc = "manual"
    /\ lock' = TRUE
    /\ pub' = [pub EXCEPT ![p] = Silent]
    /\ UNCHANGED <<topics, fresh, heard>>

Next ==
    \/ \E p \in Publishers : \/ PublishEvent(p)  \/ VisitTopic(p) \/ Unlock(p) \/ Deliver(p)
                             \/ PublishManual(p) \/ DeliverManual(p)
    \/ \E id \in TopicIds : RuleCreate(id)
    \/ \E k \in Keys : SetKey(k) \/ KeyAges(k)

Spec == Init /\ [][Next]_vars

(***************************************************************************)
(* Properties.                                                             *)
(***************************************************************************)
TopicEntry == [id : TopicIds \cup {NoTopic}, type : RuleTypes, timed : BOOLEAN,
               events : {<<>>} \cup {r.events : r \in Rules}, mask : SUBSET (1 .. 31),
               cached_key : Keys \cup {0}, cached_hit : BOOLEAN]

TypeOK ==
    /\ topics \in [Entries -> TopicEntry]
    /\ \A s \in Entries : topics[s].mask \subseteq DOMAIN topics[s].events
    /\ fresh \subseteq Keys
    /\ lock \in BOOLEAN
    /\ \A p \in Publishers :
          /\ pub[p].pc \in {"idle", "scan", "unlock", "fire", "manual"}
          /\ pub[p].key \in Keys \cup {0} /\ pub[p].at \in Entries
          /\ pub[p].fire \in Seq(Entries)
    /\ heard \in [Entries -> SUBSET Keys]

\* The topics an event ought to fire: an OR rule on any of its events, an AND rule on the
\* event that completes them, and only while the values are recent.
OughtToFire(s, k) ==
    LET e == topics[s] IN
    /\ e.type # "manual" /\ InTime(e, k)
    /\ e.type = "and" => /\ heard[s] \cup {k} = EventsOf(e)
                         /\ \A x \in EventsOf(e) : InTime(e, x)

\* An event fires exactly the topics whose rule it satisfies, whatever the mask and the
\* cache went through before: rules made anew, events that aged, other publishers.
RulesFireExactly ==
    [][\A p \in Publishers : pub[p].pc = "scan" =>
          \/ pub'[p] = pub[p]
          \/ pub'[p].fire = IF OughtToFire(pub[p].at, pub[p].key)
                            THEN Append(pub[p].fire, pub[p].at) ELSE pub[p].fire]_vars

\* No topic id has two entries, and a publisher fires a topic once per event at most.
TopicsUnique ==
    /\ \A s, r \in Entries : topics[s].id = topics[r].id /\ topics[s].id # NoTopic => s = r
    /\ \A p \in Publishers : \A i, j \in DOMAIN pub[p].fire :
          i < j => pub[p].fire[i] < pub[p].fire[j]

================================================================================
