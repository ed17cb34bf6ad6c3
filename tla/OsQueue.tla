------------------------------- MODULE OsQueue -------------------------------
(***************************************************************************)
(* The message queue of the POSIX port, Rte/src/posix/os_queue.c, over the *)
(* ring of Middlewares/common/ringbuf.c.  A mutex guards every function; a *)
(* task that finds the ring full (empty) waits on send_cond (recv_cond).   *)
(* What a thread does between taking the mutex and giving it back, or      *)
(* waiting, is one step; os_queue_destroy ends the queue's life and is not *)
(* a step.                                                                 *)
(***************************************************************************)
EXTENDS Naturals, FiniteSets

CONSTANTS Capacity,   \* queue_length
          Items,
          Senders,    \* tasks that call os_queue_send
          Receivers,  \* tasks that call os_queue_receive
          Limits,     \* the time limits used: "none" (0), "timed", "forever" (UINT32_MAX)
          NoItem

Tasks == Senders \cup Receivers

ASSUME QueueAssumption ==
    /\ Capacity \in Nat \ {0}
    /\ Senders \cap Receivers = {}
    /\ IsFiniteSet(Tasks)
    /\ Limits \subseteq {"none", "timed", "forever"}
    /\ NoItem \notin Items

VARIABLES pBuffer, uxHead, uxTail, uxCount,  \* ringbuf_t
          call,  \* where each task is: idle, entered (at the mutex), waiting on its
                 \* condition, or woken (at the mutex again)
          limit, \* the time limit of its call
          item,  \* what a sender sends, what a receiver received last
          missed \* Senders, Receivers: whether a wait that timed out has taken a signal
                 \* away from others that wait (history)

ringbuf == <<pBuffer, uxHead, uxTail, uxCount>>
vars    == <<ringbuf, call, limit, item, missed>>

Places == 0 .. Capacity - 1

Init ==
    /\ pBuffer = [p \in Places |-> NoItem]
    /\ uxHead = 0
    /\ uxTail = 0
    /\ uxCount = 0
    /\ call = [t \in Tasks |-> "idle"]
    /\ limit = [t \in Tasks |-> "none"]
    /\ item = [t \in Tasks |-> NoItem]
    /\ missed = {}

(***************************************************************************)
(* The ring.                                                               *)
(***************************************************************************)
Full  == uxCount = Capacity
Empty == uxCount = 0

\* A place that runs past the end of the buffer.
AfterNoWrap(p) == p + 1

After(p) == (p + 1) % Capacity

RingPush(v) ==
    /\ pBuffer' = [pBuffer EXCEPT ![uxHead] = v]
    /\ uxHead' = After(uxHead)
    /\ uxCount' = uxCount + 1
    /\ UNCHANGED uxTail

RingPop ==
    /\ uxTail' = After(uxTail)
    /\ uxCount' = uxCount - 1
    /\ UNCHANGED <<pBuffer, uxHead>>

\* A clear that leaves the tail where it is.
RingClearKeepsTail ==
    /\ uxHead' = 0
    /\ uxCount' = 0
    /\ UNCHANGED <<pBuffer, uxTail>>

RingClear ==
    /\ uxHead' = 0
    /\ uxTail' = 0
    /\ uxCount' = 0
    /\ UNCHANGED pBuffer

(***************************************************************************)
(* The conditions.                                                         *)
(***************************************************************************)
Waiting(S) == {t \in S : call[t] = "waiting"}
Woken(S)   == {t \in S : call[t] = "woken"}

\* Task t returns from its call; nothing is left of its time limit.
Return(t) ==
    /\ call' = [call EXCEPT ![t] = "idle"]
    /\ limit' = [limit EXCEPT ![t] = "none"]

\* The tasks in done return, and one of S that waits is woken.
ReturnAndSignal(done, S) ==
    LET back == [u \in Tasks |-> IF u \in done THEN "idle" ELSE call[u]]
    IN /\ IF Waiting(S) = {} THEN call' = back
          ELSE \E u \in Waiting(S) : call' = [back EXCEPT ![u] = "woken"]
       /\ limit' = [u \in Tasks |-> IF u \in done THEN "none" ELSE limit[u]]
       /\ UNCHANGED missed

AtMutex(t) == call[t] \in {"entered", "woken"}

(***************************************************************************)
(* The functions.                                                          *)
(***************************************************************************)
Send(t, v, l) ==
    /\ call[t] = "idle"
    /\ call' = [call EXCEPT ![t] = "entered"]
    /\ limit' = [limit EXCEPT ![t] = l]
    /\ item' = [item EXCEPT ![t] = v]
    /\ UNCHANGED <<ringbuf, missed>>

Receive(t, l) ==
    /\ call[t] = "idle"
    /\ call' = [call EXCEPT ![t] = "entered"]
    /\ limit' = [limit EXCEPT ![t] = l]
    /\ UNCHANGED <<ringbuf, item, missed>>

\* A send that signals only when the ring was empty.
PushSignalsFirst(t) ==
    /\ AtMutex(t)
    /\ ~Full
    /\ RingPush(item[t])
    /\ ReturnAndSignal({t}, IF Empty THEN Receivers ELSE {})
    /\ item' = [item EXCEPT ![t] = NoItem]

Push(t) ==
    /\ AtMutex(t)
    /\ ~Full
    /\ RingPush(item[t])
    /\ ReturnAndSignal({t}, Receivers)
    /\ item' = [item EXCEPT ![t] = NoItem]

\* A receive that wakes no sender.
PopSilently(t) ==
    /\ AtMutex(t)
    /\ ~Empty
    /\ item' = [item EXCEPT ![t] = pBuffer[uxTail]]
    /\ RingPop
    /\ ReturnAndSignal({t}, {})

Pop(t) ==
    /\ AtMutex(t)
    /\ ~Empty
    /\ item' = [item EXCEPT ![t] = pBuffer[uxTail]]
    /\ RingPop
    /\ ReturnAndSignal({t}, Senders)

\* A call that fails takes nothing in or out; what was to be sent stays with the caller.
Fail(t) ==
    /\ Return(t)
    /\ item' = IF t \in Senders THEN [item EXCEPT ![t] = NoItem] ELSE item
    /\ UNCHANGED ringbuf

\* The ring does not allow the call: with limit 0 it fails at once, else it waits.
Block(t, closed) ==
    /\ AtMutex(t)
    /\ closed
    /\ \/ limit[t] = "none" /\ Fail(t)
       \/ /\ limit[t] # "none"
          /\ call' = [call EXCEPT ![t] = "waiting"]
          /\ UNCHANGED <<ringbuf, limit, item>>
    /\ UNCHANGED missed

Kind(t) == IF t \in Senders THEN Senders ELSE Receivers

\* A wait that reaches its limit returns -1 and does not look at the ring again, not even
\* when a signal has come at the same moment: that signal is gone.
TimeOut(t) ==
    /\ call[t] \in {"waiting", "woken"}
    /\ limit[t] = "timed"
    /\ Fail(t)
    /\ missed' = IF call[t] = "woken" /\ Waiting(Kind(t)) # {}
                 THEN missed \cup {Kind(t)} ELSE missed

\* A condition variable may wake without a signal.
SpuriousWakeup(t) ==
    /\ call[t] = "waiting"
    /\ call' = [call EXCEPT ![t] = "woken"]
    /\ UNCHANGED <<ringbuf, limit, item, missed>>

SendIsr(v) ==
    /\ ~Full
    /\ RingPush(v)
    /\ ReturnAndSignal({}, Receivers)
    /\ UNCHANGED item

Reset ==
    /\ RingClear
    /\ call' = [t \in Tasks |-> IF call[t] = "waiting" THEN "woken" ELSE call[t]]
    /\ UNCHANGED <<limit, item, missed>>

SenderGoes(t)   == Push(t) \/ Block(t, Full)
ReceiverGoes(t) == Pop(t) \/ Block(t, Empty)

Next ==
    \/ \E t \in Senders : \/ \E v \in Items, l \in Limits : Send(t, v, l)
                          \/ SenderGoes(t)
    \/ \E t \in Receivers : \/ \E l \in Limits : Receive(t, l)
                            \/ ReceiverGoes(t)
    \/ \E t \in Tasks : TimeOut(t) \/ SpuriousWakeup(t)
    \/ \E v \in Items : SendIsr(v)
    \/ Reset

Spec == Init /\ [][Next]_vars

\* A thread that can have the mutex gets it.  Nothing makes a task call, a wait end at
\* its limit, or a condition wake by itself.
FairSpec ==
    /\ Spec
    /\ \A t \in Senders : WF_vars(SenderGoes(t))
    /\ \A t \in Receivers : WF_vars(ReceiverGoes(t))

--------------------------------------------------------------------------------
(***************************************************************************)
(* Correctness.                                                            *)
(***************************************************************************)
\* Head and tail stay inside the buffer, the count within the capacity.
TypeOK ==
    /\ pBuffer \in [Places -> Items \cup {NoItem}]
    /\ uxHead \in Places
    /\ uxTail \in Places
    /\ uxCount \in 0 .. Capacity
    /\ call \in [Tasks -> {"idle", "entered", "waiting", "woken"}]
    /\ limit \in [Tasks -> Limits \cup {"none"}]
    /\ item \in [Tasks -> Items \cup {NoItem}]
    /\ missed \subseteq {Senders, Receivers}

\* No wakeup is lost, but by a wait that times out as it is signalled: while receivers
\* wait there are no more items than receivers already woken for them, and while senders
\* wait no more free places than senders woken, although signals wake one thread at a
\* time, are not remembered, and a task that comes by may take what another was woken for.
NoWakeupLost ==
    /\ Waiting(Receivers) # {} /\ Receivers \notin missed =>
          uxCount <= Cardinality(Woken(Receivers))
    /\ Waiting(Senders) # {} /\ Senders \notin missed =>
          Capacity - uxCount <= Cardinality(Woken(Senders))

\* The items in the ring, oldest first.
Contents == [i \in 1 .. uxCount |-> pBuffer[(uxTail + i - 1) % Capacity]]

Fifo == INSTANCE BoundedFifo
            WITH Readers <- Receivers, queue <- Contents,
                 got <- [t \in Receivers |-> item[t]]

\* The queue is a bounded first-in-first-out queue whatever mix of send, send_isr,
\* receive and reset its callers use and however their waits end.
QueueIsFifo == Fifo!Spec

\* An item does not lie in the queue while its receivers sleep, nor does a free place
\* while senders sleep: sooner or later it is used or everybody has been woken, unless a
\* signal has been missed.
SleepersServed ==
    /\ (~Empty /\ Waiting(Receivers) # {})
           ~> (Empty \/ Waiting(Receivers) = {} \/ Receivers \in missed)
    /\ (~Full /\ Waiting(Senders) # {})
           ~> (Full \/ Waiting(Senders) = {} \/ Senders \in missed)
================================================================================
