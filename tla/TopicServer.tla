------------------------------ MODULE TopicServer ------------------------------
(***************************************************************************)
(* From an interrupt to the routes: topic_publish_isr puts an event into   *)
(* the ring of the bus; the thread of topic_server.c, or a task in         *)
(* topic_bus_process_isr_queue, takes it out and publishes it; each topic  *)
(* it fires goes through the router.                                       *)
(*                                                                         *)
(* The ring is the bounded queue that module RingBuffer shows it to be for *)
(* one writer and one reader at a time.  Rules are OR rules here, an event *)
(* always fires the same topics; their state is the matter of TopicBus.    *)
(***************************************************************************)
EXTENDS TopicRouter

CONSTANTS Keys,      \* event keys
          TopicsFor, \* the topics each event fires, in the order of the entries
          Capacity,  \* TOPIC_BUS_ISR_QUEUE_SIZE
          NoEvent,
          Hasty      \* whether topic_server_stop may come before the thread has begun,
                     \* and a second reader before the former has ended

\* The threads and tasks that read the ring are the ones that go through the router.
Threads == Passers

ASSUME ServerAssumption ==
    /\ TopicsFor \in [Keys -> Seq(TopicIds)]
    /\ Capacity \in Nat \ {0}
    /\ NoEvent \notin Keys
    /\ Hasty \in BOOLEAN

VARIABLES isr_queue,  \* bus->isr_queue, oldest event first
          running,    \* server->running
          wanted,     \* whether the last request was a start (history)
          thread,     \* where each thread is
          hand,       \* the event it has read and not published yet
          todo,       \* entries_to_trigger of its topic_publish_event
          relayed     \* the event published last (history)

server == <<running, wanted, thread>>
relay  == <<isr_queue, hand, todo, relayed>>
vars   == <<routeVars, server, relay>>

Init ==
    /\ RouterInit
    /\ isr_queue = <<>>
    /\ running = FALSE
    /\ wanted = FALSE
    /\ thread = [t \in Threads |-> "none"]
    /\ hand = [t \in Threads |-> NoEvent]
    /\ todo = [t \in Threads |-> <<>>]
    /\ relayed = NoEvent

(***************************************************************************)
(* Interrupts and the task that controls the server.                       *)
(***************************************************************************)
\* A publish that makes room by dropping the oldest event.
PublishIsrOverwrites(k) ==
    /\ isr_queue' = Append(IF Len(isr_queue) < Capacity THEN isr_queue ELSE Tail(isr_queue), k)
    /\ UNCHANGED <<routeVars, server, hand, todo, relayed>>

\* With a full ring the answer is -1 and nothing changes.
PublishIsr(k) ==
    /\ Len(isr_queue) < Capacity
    /\ isr_queue' = Append(isr_queue, k)
    /\ UNCHANGED <<routeVars, server, hand, todo, relayed>>

NoReader == \A t \in Threads : thread[t] = "none"

\* The new thread sets running itself.
Start(t) ==
    /\ ~running
    /\ thread[t] = "none"
    /\ Hasty \/ NoReader
    /\ thread' = [thread EXCEPT ![t] = "created"]
    /\ wanted' = TRUE
    /\ UNCHANGED <<routeVars, relay, running>>

Stop ==
    /\ Hasty \/ running
    /\ running' = FALSE
    /\ wanted' = FALSE
    /\ UNCHANGED <<routeVars, relay, thread>>

\* A task calls topic_bus_process_isr_queue.
ProcessIsrQueue(t) ==
    /\ thread[t] = "none"
    /\ Hasty \/ NoReader
    /\ thread' = [thread EXCEPT ![t] = "process"]
    /\ UNCHANGED <<routeVars, relay, running, wanted>>

(***************************************************************************)
(* topic_server_task and topic_server_run_once.                            *)
(***************************************************************************)
BeginTask(t) ==
    /\ thread[t] = "created"
    /\ running' = TRUE
    /\ thread' = [thread EXCEPT ![t] = "test"]
    /\ UNCHANGED <<routeVars, relay, wanted>>

\* while (server->running)
TestRunning(t) ==
    /\ thread[t] = "test"
    /\ thread' = [thread EXCEPT ![t] = IF running THEN "run_once" ELSE "none"]
    /\ UNCHANGED <<routeVars, relay, running, wanted>>

\* A task that says it is running each time it wakes.
WakeAndRun(t) ==
    /\ thread[t] = "sleep"
    /\ running' = TRUE
    /\ thread' = [thread EXCEPT ![t] = "test"]
    /\ UNCHANGED <<routeVars, relay, wanted>>

Wake(t) ==
    /\ thread[t] = "sleep"
    /\ thread' = [thread EXCEPT ![t] = "test"]
    /\ UNCHANGED <<routeVars, relay, running, wanted>>

\* Both loops read until the ring is empty; neither looks at running.
Reading(t) == thread[t] \in {"run_once", "process"} /\ hand[t] = NoEvent /\ todo[t] = <<>>
              /\ pass[t] = NotPassing

ReadEvent(t) ==
    /\ Reading(t)
    /\ isr_queue # <<>>
    /\ hand' = [hand EXCEPT ![t] = Head(isr_queue)]
    /\ isr_queue' = Tail(isr_queue)
    /\ UNCHANGED <<routeVars, server, todo, relayed>>

\* A run that ends the thread when there is nothing to read.
ReadNothingEnds(t) ==
    /\ Reading(t)
    /\ isr_queue = <<>>
    /\ thread' = [thread EXCEPT ![t] = "none"]
    /\ UNCHANGED <<routeVars, relay, running, wanted>>

ReadNothing(t) ==
    /\ Reading(t)
    /\ isr_queue = <<>>
    /\ thread' = [thread EXCEPT ![t] = IF @ = "run_once" THEN "sleep" ELSE "none"]
    /\ UNCHANGED <<routeVars, relay, running, wanted>>

\* topic_publish_event, under bus->lock.
PublishEvent(t) ==
    /\ hand[t] # NoEvent
    /\ relayed' = hand[t]
    /\ todo' = [todo EXCEPT ![t] = TopicsFor[hand[t]]]
    /\ hand' = [hand EXCEPT ![t] = NoEvent]
    /\ UNCHANGED <<routeVars, server, isr_queue>>

\* __trigger_topic_callbacks: a topic goes to the router if the dictionary has data for the
\* event.
Trigger(t) ==
    /\ todo[t] # <<>>
    /\ pass[t] = NotPassing
    /\ todo' = [todo EXCEPT ![t] = Tail(@)]
    /\ BeginPass(t, Head(todo[t])) \/ UNCHANGED routeVars
    /\ UNCHANGED <<server, isr_queue, hand, relayed>>

ThreadStep(t) ==
    \/ BeginTask(t)
    \/ TestRunning(t)
    \/ Wake(t)
    \/ ReadEvent(t)
    \/ ReadNothing(t)
    \/ PublishEvent(t)
    \/ Trigger(t)
    \/ PassStep(t) /\ UNCHANGED <<server, relay>>

InterruptStep == \E k \in Keys : PublishIsr(k)

Next ==
    \/ InterruptStep
    \/ \E t \in Threads : Start(t) \/ ProcessIsrQueue(t) \/ ThreadStep(t)
    \/ Stop
    \/ Manage /\ UNCHANGED <<server, relay>>

Spec == Init /\ [][Next]_vars

\* The scheduler runs every thread and every sleep ends.  Nobody has to publish, start,
\* stop or change routes.
FairSpec == Spec /\ \A t \in Threads : WF_vars(ThreadStep(t))

--------------------------------------------------------------------------------
(***************************************************************************)
(* Correctness.                                                            *)
(***************************************************************************)
\* What the ring, the threads and the table can hold.
TypeOK ==
    /\ RouterTypeOK
    /\ isr_queue \in Seq(Keys) /\ Len(isr_queue) <= Capacity
    /\ running \in BOOLEAN /\ wanted \in BOOLEAN
    /\ thread \in [Threads -> {"none", "created", "test", "run_once", "sleep", "process"}]
    /\ hand \in [Threads -> Keys \cup {NoEvent}]
    /\ \A t \in Threads : todo[t] \in Seq(TopicIds)
    /\ relayed \in Keys \cup {NoEvent}

\* The events read and not yet published; two at a time would be in no order.
InHand == LET H == {hand[t] : t \in Threads} \ {NoEvent}
          IN IF H = {} THEN <<>> ELSE <<CHOOSE k \in H : TRUE>>

Relay == INSTANCE BoundedFifo
             WITH Capacity <- Capacity + 1, Items <- Keys, Readers <- {"bus"},
                  NoItem <- NoEvent, queue <- InHand \o isr_queue,
                  got <- [c \in {"bus"} |-> relayed]

\* Interrupts and bus are joined by a first-in-first-out queue of one place more than the
\* ring: every event accepted is published once and in order, across stops, restarts and
\* tasks that empty the ring themselves.
RelayInOrder == Relay!Spec

\* An event accepted while the server is wanted is published sooner or later, unless the
\* server is stopped first.
AcceptedAreRelayed ==
    \A k \in Keys : (wanted /\ \E i \in DOMAIN isr_queue : isr_queue[i] = k)
                        ~> (relayed = k \/ ~wanted)

\* After a stop the thread ends ("no longer runs after the stop", vfb.plan.md 4.3), unless
\* interrupts publish for ever, which keeps run_once in its loop, or it is started again.
StopEnds ==
    <>[][~InterruptStep]_vars =>
        \A t \in Threads : (thread[t] # "none" /\ ~wanted) ~> (thread[t] = "none" \/ wanted)
================================================================================
