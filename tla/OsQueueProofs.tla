----------------------------- MODULE OsQueueProofs -----------------------------
(***************************************************************************)
(* Proofs about os_queue.c for every queue length and any number of        *)
(* senders and receivers: TypeCorrect, SignalsSuffice and                  *)
(* QueueImplementsFifo.                                                    *)
(***************************************************************************)
EXTENDS OsQueue, FiniteSetTheorems, SequenceTheorems, TLAPS

CallStates == {"idle", "entered", "waiting", "woken"}

\* Places follow places; the ring moves one place at a time.
LEMMA AfterType ==
    ASSUME NEW p \in Places PROVE After(p) \in Places
  BY QueueAssumption DEF After, Places

\* The first place.
LEMMA FirstPlace == 0 \in Places /\ 0 \in 0 .. Capacity /\ Capacity \in Nat \ {0}
  BY QueueAssumption DEF Places

\* A task that returns, and one that is woken, leave call and limit well typed.
LEMMA ReturnType ==
    ASSUME TypeOK, NEW t \in Tasks, Return(t)
    PROVE  call' \in [Tasks -> CallStates] /\ limit' \in [Tasks -> Limits \cup {"none"}]
  BY DEF TypeOK, Return, CallStates

\* Returning calls and posted waits keep the types of the calls.
LEMMA ReturnAndSignalType ==
    ASSUME TypeOK, NEW done \in SUBSET Tasks, NEW S \in SUBSET Tasks, ReturnAndSignal(done, S)
    PROVE  /\ call' \in [Tasks -> CallStates]
           /\ limit' \in [Tasks -> Limits \cup {"none"}]
           /\ missed' = missed
<1>. DEFINE back == [u \in Tasks |-> IF u \in done THEN "idle" ELSE call[u]]
<1>1. back \in [Tasks -> CallStates]
  BY DEF TypeOK, CallStates
<1>2. \/ call' = back
      \/ \E u \in Waiting(S) : call' = [back EXCEPT ![u] = "woken"]
  BY DEF ReturnAndSignal
<1>3. call' \in [Tasks -> CallStates]
  <2>. HIDE DEF back
  <2>. QED  BY <1>1, <1>2 DEF CallStates
<1>. QED  BY <1>3 DEF ReturnAndSignal, TypeOK

\* The ring keeps its indices and its count in range.
LEMMA RingPushType ==
    ASSUME TypeOK, NEW v \in Items, ~Full, RingPush(v)
    PROVE  /\ pBuffer' \in [Places -> Items \cup {NoItem}]
           /\ uxHead' \in Places /\ uxTail' \in Places /\ uxCount' \in 0 .. Capacity
  BY AfterType, FirstPlace DEF TypeOK, RingPush, Full

\* A pop keeps the ring of the queue well-typed.
LEMMA RingPopType ==
    ASSUME TypeOK, ~Empty, RingPop
    PROVE  /\ pBuffer' \in [Places -> Items \cup {NoItem}]
           /\ uxHead' \in Places /\ uxTail' \in Places /\ uxCount' \in 0 .. Capacity
  BY AfterType, FirstPlace DEF TypeOK, RingPop, Empty

-----------------------------------------------------------------------------
(***************************************************************************)
(* Type correctness.                                                       *)
(***************************************************************************)
\* A sender inside a call has something to send.
HasItem == \A t \in Senders : call[t] # "idle" => item[t] \in Items

QueueType == TypeOK /\ HasItem

\* A step of a call that ends keeps the others' items.
LEMMA OthersHaveItems ==
    ASSUME TypeOK, HasItem, NEW done \in SUBSET Tasks, NEW S \in SUBSET Tasks,
           S \cap done = {}, ReturnAndSignal(done, S),
           \A t \in Senders \ done : item'[t] = item[t]
    PROVE  HasItem'
<1>. DEFINE back == [u \in Tasks |-> IF u \in done THEN "idle" ELSE call[u]]
<1>1. \/ call' = back
      \/ \E u \in Waiting(S) : call' = [back EXCEPT ![u] = "woken"]
  BY DEF ReturnAndSignal
<1>2. ASSUME NEW t \in Senders, call'[t] # "idle"
      PROVE  item'[t] \in Items
  <2>1. t \in Tasks
    BY DEF Tasks
  <2>2. call[t] # "idle"
    BY <1>1, <1>2, <2>1 DEF Waiting
  <2>3. CASE t \in done
    BY <1>1, <1>2, <2>1, <2>3 DEF Waiting
  <2>4. CASE t \notin done
    BY <2>2, <2>4 DEF HasItem
  <2>. QED  BY <2>3, <2>4
<1>. QED  BY <1>2 DEF HasItem

\* What each step does to what TypeOK and HasItem speak of.
LEMMA StepType ==
    ASSUME QueueType, Next PROVE QueueType'
<1>. USE DEF QueueType
<1>0. \A t \in Tasks : t \in Senders \/ t \in Receivers
  BY DEF Tasks
<1>1. ASSUME NEW t \in Senders, NEW v \in Items, NEW l \in Limits, Send(t, v, l)
      PROVE  QueueType'
  BY <1>1 DEF Send, TypeOK, HasItem, ringbuf, Tasks
<1>2. ASSUME NEW t \in Receivers, NEW l \in Limits, Receive(t, l)
      PROVE  QueueType'
  BY <1>2, QueueAssumption DEF Receive, TypeOK, HasItem, ringbuf, Tasks
<1>3. ASSUME NEW t \in Senders, Push(t)
      PROVE  QueueType'
  <2>1. t \in Tasks /\ {t} \in SUBSET Tasks /\ Receivers \in SUBSET Tasks
        /\ Receivers \cap {t} = {}
    BY QueueAssumption DEF Tasks
  <2>2. item[t] \in Items
    BY <1>3 DEF Push, AtMutex, HasItem
  <2>3. item' = [item EXCEPT ![t] = NoItem]
    BY <1>3 DEF Push
  <2>4. HasItem'
    BY <1>3, <2>1, <2>3, OthersHaveItems DEF Push, TypeOK, Tasks
  <2>5. TypeOK'
    BY <1>3, <2>1, <2>2, <2>3, RingPushType, ReturnAndSignalType DEF Push, TypeOK, CallStates
  <2>. QED  BY <2>4, <2>5
<1>4. ASSUME NEW t \in Receivers, Pop(t)
      PROVE  QueueType'
  <2>1. t \in Tasks /\ {t} \in SUBSET Tasks /\ Senders \in SUBSET Tasks
        /\ Senders \cap {t} = {}
    BY QueueAssumption DEF Tasks
  <2>2. item' = [item EXCEPT ![t] = pBuffer[uxTail]]
    BY <1>4 DEF Pop
  <2>3. HasItem'
    BY <1>4, <2>1, <2>2, OthersHaveItems DEF Pop, TypeOK, Tasks
  <2>4. item' \in [Tasks -> Items \cup {NoItem}]
    BY <2>2 DEF TypeOK
  <2>5. /\ pBuffer' \in [Places -> Items \cup {NoItem}]
        /\ uxHead' \in Places /\ uxTail' \in Places /\ uxCount' \in 0 .. Capacity
    BY <1>4, RingPopType DEF Pop
  <2>6. /\ call' \in [Tasks -> CallStates] /\ limit' \in [Tasks -> Limits \cup {"none"}]
        /\ missed' = missed
    BY <1>4, <2>1, ReturnAndSignalType DEF Pop
  <2>7. TypeOK'
    BY <2>4, <2>5, <2>6 DEF TypeOK, CallStates
  <2>. QED  BY <2>3, <2>7
<1>5. ASSUME NEW t \in Tasks, Fail(t), missed' \subseteq {Senders, Receivers}
      PROVE  QueueType'
  <2>1. HasItem'
    BY <1>5 DEF Fail, Return, TypeOK, HasItem, Tasks
  <2>2. TypeOK'
    BY <1>5, ReturnType DEF Fail, TypeOK, ringbuf, CallStates
  <2>. QED  BY <2>1, <2>2
<1>6. ASSUME NEW t \in Tasks, NEW closed \in BOOLEAN, Block(t, closed)
      PROVE  QueueType'
  <2>1. CASE Fail(t)
    BY <1>5, <1>6, <2>1 DEF Block, TypeOK
  <2>2. CASE ~Fail(t)
    BY <1>6, <2>2 DEF Block, AtMutex, TypeOK, HasItem, ringbuf, Tasks
  <2>. QED  BY <2>1, <2>2
<1>7. ASSUME NEW t \in Tasks, TimeOut(t)
      PROVE  QueueType'
  <2>1. Kind(t) \in {Senders, Receivers}
    BY DEF Kind
  <2>. QED  BY <1>5, <1>7, <2>1 DEF TimeOut, TypeOK
<1>8. ASSUME NEW t \in Tasks, SpuriousWakeup(t)
      PROVE  QueueType'
  BY <1>8 DEF SpuriousWakeup, TypeOK, HasItem, ringbuf, Tasks
<1>9. ASSUME NEW v \in Items, SendIsr(v)
      PROVE  QueueType'
  <2>1. Receivers \in SUBSET Tasks
    BY DEF Tasks
  <2>2. HasItem'
    BY <1>9, <2>1, OthersHaveItems DEF SendIsr
  <2>3. TypeOK'
    BY <1>9, <2>1, RingPushType, ReturnAndSignalType DEF SendIsr, TypeOK, CallStates
  <2>. QED  BY <2>2, <2>3
<1>10. CASE Reset
  BY <1>10, FirstPlace DEF Reset, RingClear, TypeOK, HasItem, Tasks
<1>11. Full \in BOOLEAN /\ Empty \in BOOLEAN
  BY DEF Full, Empty
<1>. QED
  BY <1>0, <1>1, <1>2, <1>3, <1>4, <1>6, <1>7, <1>8, <1>9, <1>10, <1>11
     DEF Next, SenderGoes, ReceiverGoes, Tasks

\* The queue starts well typed.
LEMMA InitType == Init => QueueType
  BY FirstPlace DEF Init, QueueType, TypeOK, HasItem, Tasks

\* The conjunction is kept by every step; the first part needs the second, for what is
\* pushed comes from the sender's item.
LEMMA TypeInvariant == Spec => []QueueType
<1>1. QueueType /\ UNCHANGED vars => QueueType'
  BY DEF QueueType, TypeOK, HasItem, vars, ringbuf
<1>. QED  BY <1>1, InitType, StepType, PTL DEF Spec

\* Head, tail and count of ringbuf.c stay in range, and calls, limits and items are what
\* they can be, in every behaviour of the queue.
THEOREM TypeCorrect == Spec => []TypeOK
<1>1. QueueType => TypeOK
  BY DEF QueueType
<1>. QED  BY <1>1, TypeInvariant, PTL

-----------------------------------------------------------------------------
(***************************************************************************)
(* No wakeup is lost.                                                      *)
(***************************************************************************)
\* Enough tasks of S are woken for n items, or places.
Enough(S, n) == Waiting(S) # {} /\ S \notin missed => n <= Cardinality(Woken(S))

\* Woken tasks can be counted.
LEMMA WokenFinite ==
    ASSUME NEW S \in SUBSET Tasks
    PROVE  /\ IsFiniteSet(Woken(S)) /\ Cardinality(Woken(S)) \in Nat
           /\ IsFiniteSet(Woken(S)') /\ Cardinality(Woken(S)') \in Nat
<1>1. Woken(S) \in SUBSET Tasks /\ Woken(S)' \in SUBSET Tasks
  BY DEF Woken
<1>. QED  BY <1>1, QueueAssumption, FS_Subset, FS_CardinalityType

\* The signal that goes with an item, or place, makes up for it.
LEMMA SignalledEnough ==
    ASSUME TypeOK, NEW S \in SUBSET Tasks, NEW done \in SUBSET Tasks, S \cap done = {},
           ReturnAndSignal(done, S), NEW n \in Int, Enough(S, n)
    PROVE  Waiting(S)' # {} /\ S \notin missed' => n + 1 <= Cardinality(Woken(S)')
<1>. DEFINE back == [u \in Tasks |-> IF u \in done THEN "idle" ELSE call[u]]
<1>. SUFFICES ASSUME Waiting(S)' # {}, S \notin missed'
              PROVE  n + 1 <= Cardinality(Woken(S)')
  OBVIOUS
<1>1. S \notin missed
  BY DEF ReturnAndSignal
<1>2. Waiting(S) # {}
  <2>1. CASE Waiting(S) = {}
    <3>1. call' = back
      BY <2>1 DEF ReturnAndSignal
    <3>. QED  BY <2>1, <3>1 DEF Waiting
  <2>. QED  BY <2>1
<1>3. PICK u \in Waiting(S) : call' = [back EXCEPT ![u] = "woken"]
  BY <1>2 DEF ReturnAndSignal
<1>4. Woken(S)' = Woken(S) \cup {u} /\ u \notin Woken(S)
  <2>1. \A t \in S : t \in Tasks /\ back[t] = call[t]
    OBVIOUS
  <2>2. back \in [Tasks -> CallStates]
    BY DEF TypeOK, CallStates
  <2>. HIDE DEF back
  <2>. QED  BY <1>3, <2>1, <2>2 DEF Woken, Waiting
<1>5. Cardinality(Woken(S)') = Cardinality(Woken(S)) + 1
  BY <1>4, WokenFinite, FS_AddElement
<1>. QED  BY <1>1, <1>2, <1>5, WokenFinite DEF Enough

\* Those of the other kind stay as they are, but for the task that returns, which was
\* not waiting.
LEMMA ReturnedEnough ==
    ASSUME TypeOK, NEW S \in SUBSET Tasks, NEW R \in SUBSET Tasks, S \cap R = {},
           NEW t \in R, AtMutex(t), ReturnAndSignal({t}, S), NEW n \in Int, Enough(R, n)
    PROVE  Waiting(R)' # {} /\ R \notin missed' => n - 1 <= Cardinality(Woken(R)')
<1>. DEFINE back == [u \in Tasks |-> IF u \in {t} THEN "idle" ELSE call[u]]
<1>1. \A u \in R : call'[u] = IF u = t THEN "idle" ELSE call[u]
  <2>1. \/ call' = back
        \/ \E u \in Waiting(S) : call' = [back EXCEPT ![u] = "woken"]
    BY DEF ReturnAndSignal
  <2>. QED  BY <2>1 DEF Waiting
<1>2. Waiting(R)' = Waiting(R) /\ Woken(R)' = Woken(R) \ {t}
  BY <1>1 DEF Waiting, Woken, AtMutex
<1>3. Cardinality(Woken(R)') >= Cardinality(Woken(R)) - 1
  BY <1>2, WokenFinite, FS_RemoveElement
<1>4. missed' = missed
  BY DEF ReturnAndSignal
<1>. QED  BY <1>2, <1>3, <1>4, WokenFinite DEF Enough

\* A step that leaves the tasks of S, or only wakes some of them, needs no signal.
LEMMA SameEnough ==
    ASSUME NEW S \in SUBSET Tasks, NEW n \in Int, NEW m \in Int, Enough(S, n), m <= n,
           Waiting(S)' \subseteq Waiting(S), Woken(S) \subseteq Woken(S)',
           S \in missed => S \in missed'
    PROVE  Waiting(S)' # {} /\ S \notin missed' => m <= Cardinality(Woken(S)')
<1>1. Cardinality(Woken(S)) <= Cardinality(Woken(S)')
  BY WokenFinite, FS_Subset
<1>. QED  BY <1>1, WokenFinite DEF Enough

\* A call at the mutex that cannot go on is no worse than one that never came: nothing is
\* there for its kind.
LEMMA NothingForIt ==
    ASSUME NEW S \in SUBSET Tasks, NEW m \in Int, m <= 0
    PROVE  Waiting(S)' # {} /\ S \notin missed' => m <= Cardinality(Woken(S)')
  BY WokenFinite

\* The signals of os_queue.c are enough: while tasks wait, no more items (places) are there
\* than tasks already woken for them, unless a wait that timed out took a signal along.
\* NoWakeupLost is inductive relative to TypeOK.
THEOREM SignalsSuffice == Spec => []NoWakeupLost
<1>1. Init => NoWakeupLost
  BY DEF Init, NoWakeupLost, Waiting, Tasks
<1>2. TypeOK /\ NoWakeupLost /\ [Next]_vars => NoWakeupLost'
  <2>. SUFFICES ASSUME TypeOK, NoWakeupLost, [Next]_vars PROVE NoWakeupLost'
    OBVIOUS
  <2>0. /\ Senders \in SUBSET Tasks /\ Receivers \in SUBSET Tasks
        /\ Senders \cap Receivers = {} /\ Receivers \cap Senders = {}
        /\ uxCount \in 0 .. Capacity /\ Capacity \in Nat
        /\ Enough(Receivers, uxCount) /\ Enough(Senders, Capacity - uxCount)
        /\ call \in [Tasks -> CallStates]
    BY QueueAssumption DEF Tasks, TypeOK, NoWakeupLost, Enough, CallStates
  <2>. SUFFICES /\ Waiting(Receivers)' # {} /\ Receivers \notin missed' =>
                       uxCount' <= Cardinality(Woken(Receivers)')
                /\ Waiting(Senders)' # {} /\ Senders \notin missed' =>
                       Capacity - uxCount' <= Cardinality(Woken(Senders)')
    BY DEF NoWakeupLost
  <2>2. CASE UNCHANGED <<uxCount, call, missed>>
    BY <2>0, <2>2, SameEnough DEF Waiting, Woken
  <2>3. ASSUME NEW t \in Senders, NEW v \in Items, NEW l \in Limits, Send(t, v, l)
        PROVE  NoWakeupLost'
    <3>1. \A u \in Tasks : call'[u] = IF u = t THEN "entered" ELSE call[u]
      BY <2>0, <2>3 DEF Send
    <3>. QED  BY <2>0, <2>3, <3>1, SameEnough DEF Send, ringbuf, Waiting, Woken, NoWakeupLost
  <2>4. ASSUME NEW t \in Receivers, NEW l \in Limits, Receive(t, l)
        PROVE  NoWakeupLost'
    <3>1. \A u \in Tasks : call'[u] = IF u = t THEN "entered" ELSE call[u]
      BY <2>0, <2>4 DEF Receive
    <3>. QED  BY <2>0, <2>4, <3>1, SameEnough DEF Receive, ringbuf, Waiting, Woken, NoWakeupLost
  <2>5. ASSUME NEW t \in Senders, Push(t)
        PROVE  NoWakeupLost'
    <3>1. {t} \in SUBSET Tasks /\ Receivers \cap {t} = {} /\ uxCount' = uxCount + 1
      BY <2>0, <2>5 DEF Push, RingPush
    <3>2. Waiting(Receivers)' # {} /\ Receivers \notin missed' =>
              uxCount + 1 <= Cardinality(Woken(Receivers)')
      BY <2>0, <2>5, <3>1, SignalledEnough DEF Push
    <3>3. Waiting(Senders)' # {} /\ Senders \notin missed' =>
              (Capacity - uxCount) - 1 <= Cardinality(Woken(Senders)')
      BY <2>0, <2>5, ReturnedEnough DEF Push
    <3>. QED  BY <2>0, <3>1, <3>2, <3>3 DEF NoWakeupLost
  <2>6. ASSUME NEW t \in Receivers, Pop(t)
        PROVE  NoWakeupLost'
    <3>1. {t} \in SUBSET Tasks /\ Senders \cap {t} = {} /\ uxCount' = uxCount - 1
      BY <2>0, <2>6 DEF Pop, RingPop
    <3>2. Waiting(Senders)' # {} /\ Senders \notin missed' =>
              (Capacity - uxCount) + 1 <= Cardinality(Woken(Senders)')
      BY <2>0, <2>6, <3>1, SignalledEnough DEF Pop
    <3>3. Waiting(Receivers)' # {} /\ Receivers \notin missed' =>
              uxCount - 1 <= Cardinality(Woken(Receivers)')
      BY <2>0, <2>6, ReturnedEnough DEF Pop
    <3>4. Capacity - uxCount' = (Capacity - uxCount) + 1
      BY <2>0, <3>1
    <3>. QED  BY <3>1, <3>2, <3>3, <3>4 DEF NoWakeupLost
  <2>7. ASSUME NEW t \in Senders, Block(t, Full)
        PROVE  NoWakeupLost'
    <3>1. /\ \A u \in Tasks \ {t} : call'[u] = call[u]
          /\ Capacity - uxCount <= 0 /\ UNCHANGED <<uxCount, missed>>
      BY <2>0, <2>7 DEF Block, Fail, Return, ringbuf, Full
    <3>2. Waiting(Receivers)' = Waiting(Receivers) /\ Woken(Receivers)' = Woken(Receivers)
      BY <2>0, <3>1 DEF Waiting, Woken
    <3>. QED  BY <2>0, <3>1, <3>2, SameEnough, NothingForIt DEF NoWakeupLost
  <2>8. ASSUME NEW t \in Receivers, Block(t, Empty)
        PROVE  NoWakeupLost'
    <3>1. /\ \A u \in Tasks \ {t} : call'[u] = call[u]
          /\ uxCount <= 0 /\ UNCHANGED <<uxCount, missed>>
      BY <2>0, <2>8 DEF Block, Fail, Return, ringbuf, Empty
    <3>2. Waiting(Senders)' = Waiting(Senders) /\ Woken(Senders)' = Woken(Senders)
      BY <2>0, <3>1 DEF Waiting, Woken
    <3>. QED  BY <2>0, <3>1, <3>2, SameEnough, NothingForIt DEF NoWakeupLost
  <2>9. ASSUME NEW t \in Tasks, TimeOut(t)
        PROVE  NoWakeupLost'
    <3>1. /\ \A u \in Tasks : call'[u] = IF u = t THEN "idle" ELSE call[u]
          /\ UNCHANGED uxCount /\ missed \subseteq missed'
      BY <2>0, <2>9 DEF TimeOut, Fail, Return, ringbuf
    <3>2. ASSUME NEW S \in {Senders, Receivers}
          PROVE  \/ S \in missed' \/ Waiting(S)' = {}
                 \/ Waiting(S)' \subseteq Waiting(S) /\ Woken(S) \subseteq Woken(S)'
      <4>1. CASE t \notin S \/ call[t] = "waiting"
        BY <2>0, <3>1, <4>1 DEF Waiting, Woken
      <4>2. CASE t \in S /\ call[t] # "waiting"
        <5>1. call[t] = "woken" /\ Kind(t) = S
          BY <2>0, <2>9, <4>2 DEF TimeOut, Kind
        <5>2. Waiting(S) # {} => S \in missed'
          BY <2>9, <5>1 DEF TimeOut
        <5>3. Waiting(S)' \subseteq Waiting(S)
          BY <2>0, <3>1 DEF Waiting
        <5>. QED  BY <5>2, <5>3
      <4>. QED  BY <4>1, <4>2
    <3>. QED  BY <2>0, <3>1, <3>2, SameEnough DEF NoWakeupLost
  <2>10. ASSUME NEW t \in Tasks, SpuriousWakeup(t)
         PROVE  NoWakeupLost'
    <3>1. /\ \A u \in Tasks : call'[u] = IF u = t THEN "woken" ELSE call[u]
          /\ UNCHANGED <<uxCount, missed>>
      BY <2>0, <2>10 DEF SpuriousWakeup, ringbuf
    <3>2. ASSUME NEW S \in {Senders, Receivers}
          PROVE  Waiting(S)' \subseteq Waiting(S) /\ Woken(S) \subseteq Woken(S)'
      BY <2>0, <3>1 DEF Waiting, Woken
    <3>. QED  BY <2>0, <3>1, <3>2, SameEnough DEF NoWakeupLost
  <2>11. ASSUME NEW v \in Items, SendIsr(v)
         PROVE  NoWakeupLost'
    <3>1. {} \in SUBSET Tasks /\ Receivers \cap {} = {} /\ uxCount' = uxCount + 1
      BY <2>11 DEF SendIsr, RingPush
    <3>2. Waiting(Receivers)' # {} /\ Receivers \notin missed' =>
              uxCount + 1 <= Cardinality(Woken(Receivers)')
      BY <2>0, <2>11, <3>1, SignalledEnough DEF SendIsr
    <3>3. missed' = missed /\ \A u \in Senders : call'[u] = call[u]
      <4>1. \/ call' = [u \in Tasks |-> call[u]]
            \/ \E u \in Waiting(Receivers) :
                  call' = [[w \in Tasks |-> call[w]] EXCEPT ![u] = "woken"]
        BY <2>11 DEF SendIsr, ReturnAndSignal
      <4>. QED  BY <2>0, <2>11, <4>1 DEF SendIsr, ReturnAndSignal, Waiting
    <3>4. Waiting(Senders)' = Waiting(Senders) /\ Woken(Senders)' = Woken(Senders)
      BY <3>3 DEF Waiting, Woken
    <3>5. Capacity - uxCount' <= Capacity - uxCount /\ Capacity - uxCount' \in Int
          /\ Capacity - uxCount \in Int
      BY <2>0, <3>1
    <3>6. Waiting(Senders)' # {} /\ Senders \notin missed' =>
              Capacity - uxCount' <= Cardinality(Woken(Senders)')
      BY <2>0, <3>3, <3>4, <3>5, SameEnough
    <3>. QED  BY <3>1, <3>2, <3>6 DEF NoWakeupLost
  <2>12. CASE Reset
    <3>1. Waiting(Senders)' = {} /\ Waiting(Receivers)' = {}
      BY <2>0, <2>12 DEF Reset, Waiting
    <3>. QED  BY <3>1
  <2>13. CASE UNCHANGED vars
    BY <2>2, <2>13 DEF vars, ringbuf
  <2>. QED
    BY <2>3, <2>4, <2>5, <2>6, <2>7, <2>8, <2>9, <2>10, <2>11, <2>12, <2>13
       DEF Next, SenderGoes, ReceiverGoes, NoWakeupLost
<1>. QED  BY <1>1, <1>2, TypeCorrect, PTL DEF Spec

-----------------------------------------------------------------------------
(***************************************************************************)
(* The queue implements the bounded FIFO queue.                            *)
(***************************************************************************)
\* The remainder of what is less than twice the divisor.
LEMMA ModOnce ==
    ASSUME NEW n \in Nat \ {0}, NEW x \in 0 .. n - 1
    PROVE  x % n = x /\ (x + n) % n = x
<1>1. ASSUME NEW q \in Int PROVE (n * q + x) % n = x
  OBVIOUS
<1>2. n * 0 + x = x /\ n * 1 + x = x + n
  OBVIOUS
<1>. QED  BY <1>1, <1>2

\* A remainder may stand for its number in a sum.
LEMMA RemainderAdds ==
    ASSUME NEW x \in Nat, NEW y \in Nat
    PROVE  ((x % Capacity) + y) % Capacity = (x + y) % Capacity
<1>1. PICK q \in Nat : x = Capacity * q + (x % Capacity)
  <2>1. x \div Capacity \in Nat /\ x = Capacity * (x \div Capacity) + (x % Capacity)
    BY QueueAssumption
  <2>. QED  BY <2>1
<1>2. PICK k \in Nat : /\ (x % Capacity) + y = Capacity * k + (((x % Capacity) + y) % Capacity)
                       /\ ((x % Capacity) + y) % Capacity \in 0 .. Capacity - 1
  <2>. DEFINE z == (x % Capacity) + y
  <2>1. z \in Nat
    BY QueueAssumption
  <2>2. /\ z \div Capacity \in Nat /\ z = Capacity * (z \div Capacity) + (z % Capacity)
        /\ z % Capacity \in 0 .. Capacity - 1
    <3>. HIDE DEF z
    <3>. QED  BY <2>1, QueueAssumption
  <2>. QED  BY <2>2
<1>. DEFINE r == ((x % Capacity) + y) % Capacity
<1>3. x + y = Capacity * (q + k) + r /\ q + k \in Int
  <2>1. Capacity * (q + k) = Capacity * q + Capacity * k
    BY QueueAssumption
  <2>2. x % Capacity \in Int /\ Capacity * q \in Int /\ Capacity * k \in Int /\ r \in Int
    BY <1>2, QueueAssumption
  <2>3. (x % Capacity) + y = Capacity * k + r
    BY <1>2
  <2>. HIDE DEF r
  <2>. QED  BY <1>1, <2>1, <2>2, <2>3
<1>4. (Capacity * (q + k) + r) % Capacity = r
  <2>1. \A m \in Int, w \in 0 .. Capacity - 1 : (Capacity * m + w) % Capacity = w
    BY QueueAssumption
  <2>2. r \in 0 .. Capacity - 1
    BY <1>2
  <2>. HIDE DEF r
  <2>. QED  BY <1>3, <2>1, <2>2
<1>. QED  BY <1>3, <1>4

\* The place i items behind the tail.
Place(i) == (uxTail + i - 1) % Capacity

\* The next item goes behind the last.
HeadAfterLast == uxHead = Place(uxCount + 1)

\* The places of the items, and of the next one, are distinct places of the buffer.
LEMMA PlaceFacts ==
    ASSUME TypeOK
    PROVE  /\ \A i \in 1 .. Capacity : Place(i) \in Places
           /\ \A i, j \in 1 .. Capacity : i # j => Place(i) # Place(j)
           /\ Place(1) = uxTail
<1>1. uxTail \in 0 .. Capacity - 1 /\ Capacity \in Nat \ {0}
  BY QueueAssumption DEF TypeOK, Places
<1>2. ASSUME NEW i \in 1 .. Capacity
      PROVE  Place(i) = IF uxTail + i - 1 < Capacity THEN uxTail + i - 1
                                                    ELSE uxTail + i - 1 - Capacity
  <2>1. CASE uxTail + i - 1 < Capacity
    <3>1. uxTail + i - 1 \in 0 .. Capacity - 1
      BY <1>1, <2>1
    <3>. QED  BY <1>1, <2>1, <3>1, ModOnce DEF Place
  <2>2. CASE ~(uxTail + i - 1 < Capacity)
    <3>. DEFINE x == uxTail + i - 1 - Capacity
    <3>1. x \in 0 .. Capacity - 1 /\ uxTail + i - 1 = x + Capacity
      BY <1>1, <2>2
    <3>2. (x + Capacity) % Capacity = x
      <4>. HIDE DEF x
      <4>. QED  BY <1>1, <3>1, ModOnce
    <3>. QED  BY <2>2, <3>1, <3>2 DEF Place
  <2>. QED  BY <2>1, <2>2
<1>. QED  BY <1>1, <1>2 DEF Places

\* The place that follows a place, also over the end of the buffer.
LEMMA PlaceAfter ==
    ASSUME NEW x \in Nat
    PROVE  After(x % Capacity) = (x + 1) % Capacity
<1>1. PICK q \in Nat : x = Capacity * q + (x % Capacity) /\ x % Capacity \in 0 .. Capacity - 1
  <2>1. /\ x \div Capacity \in Nat /\ x = Capacity * (x \div Capacity) + (x % Capacity)
        /\ x % Capacity \in 0 .. Capacity - 1
    BY QueueAssumption
  <2>. QED  BY <2>1
<1>. DEFINE r == x % Capacity
<1>2. ASSUME NEW k \in Int, NEW y \in 0 .. Capacity - 1 PROVE (Capacity * k + y) % Capacity = y
  BY QueueAssumption
<1>3. CASE r + 1 < Capacity
  <2>1. r + 1 \in 0 .. Capacity - 1 /\ x + 1 = Capacity * q + (r + 1)
    BY <1>1, <1>3, QueueAssumption
  <2>2. (Capacity * q + (r + 1)) % Capacity = r + 1
    <3>. HIDE DEF r
    <3>. QED  BY <1>2, <2>1
  <2>3. (r + 1) % Capacity = r + 1
    <3>. HIDE DEF r
    <3>. QED  BY <2>1, ModOnce, QueueAssumption
  <2>. QED  BY <2>1, <2>2, <2>3 DEF After
<1>4. CASE ~(r + 1 < Capacity)
  <2>1. r + 1 = Capacity /\ x + 1 = Capacity * (q + 1) + 0 /\ 0 \in 0 .. Capacity - 1
        /\ q + 1 \in Int
    BY <1>1, <1>4, QueueAssumption
  <2>2. (Capacity * (q + 1) + 0) % Capacity = 0
    <3>. HIDE DEF r
    <3>. QED  BY <1>2, <2>1
  <2>3. (r + 1) % Capacity = 0
    <3>1. (0 + Capacity) % Capacity = 0
      BY <2>1, ModOnce, QueueAssumption
    <3>. HIDE DEF r
    <3>. QED  BY <2>1, <3>1, QueueAssumption
  <2>. QED  BY <2>1, <2>2, <2>3 DEF After
<1>. QED  BY <1>3, <1>4

\* A push, a pop and a clear keep the head behind the last item.
LEMMA HeadKept ==
    ASSUME TypeOK, HeadAfterLast, NEW v,
           (~Full /\ RingPush(v)) \/ (~Empty /\ RingPop) \/ RingClear
    PROVE  HeadAfterLast'
<1>0. uxTail \in Nat /\ uxCount \in Nat /\ uxTail \in Places /\ Capacity \in Nat \ {0}
  BY FirstPlace DEF TypeOK, Places
<1>1. CASE ~Full /\ RingPush(v)
  <2>1. uxHead' = After((uxTail + uxCount) % Capacity)
    <3>1. uxTail + (uxCount + 1) - 1 = uxTail + uxCount
      BY <1>0
    <3>. QED  BY <1>1, <3>1 DEF RingPush, HeadAfterLast, Place
  <2>2. uxHead' = (uxTail + uxCount + 1) % Capacity
    <3>. DEFINE x == uxTail + uxCount
    <3>1. x \in Nat
      BY <1>0
    <3>. HIDE DEF x
    <3>2. After(x % Capacity) = (x + 1) % Capacity
      BY <3>1, PlaceAfter
    <3>. QED  BY <2>1, <3>2 DEF x
  <2>3. uxTail' = uxTail /\ uxTail + ((uxCount + 1) + 1) - 1 = uxTail + uxCount + 1
    BY <1>0, <1>1 DEF RingPush
  <2>. QED  BY <1>1, <2>2, <2>3 DEF RingPush, HeadAfterLast, Place
<1>2. CASE ~Empty /\ RingPop
  <2>1. uxTail' = (uxTail + 1) % Capacity /\ uxCount' = uxCount - 1 /\ uxHead' = uxHead
    BY <1>2 DEF RingPop, After
  <2>2. uxCount - 1 \in Nat
    BY <1>0, <1>2 DEF Empty
  <2>3. (((uxTail + 1) % Capacity) + (uxCount - 1)) % Capacity
            = (uxTail + 1 + (uxCount - 1)) % Capacity
    <3>. DEFINE x == uxTail + 1   y == uxCount - 1
    <3>1. x \in Nat /\ y \in Nat
      BY <1>0, <2>2
    <3>. HIDE DEF x, y
    <3>2. ((x % Capacity) + y) % Capacity = (x + y) % Capacity
      BY <3>1, RemainderAdds
    <3>. QED  BY <3>2 DEF x, y
  <2>. QED  BY <1>0, <2>1, <2>2, <2>3 DEF HeadAfterLast, Place
<1>3. CASE RingClear
  <2>1. (0 + (0 + 1) - 1) % Capacity = 0
    BY <1>0, ModOnce
  <2>. QED  BY <1>3, <2>1 DEF RingClear, HeadAfterLast, Place
<1>. QED  BY <1>1, <1>2, <1>3

\* The items in the ring as a sequence.
LEMMA ContentsFacts ==
    ASSUME TypeOK
    PROVE  /\ Contents \in Seq(Items \cup {NoItem}) /\ Len(Contents) = uxCount
           /\ \A i \in 1 .. uxCount : Contents[i] = pBuffer[Place(i)]
<1>1. uxCount \in Nat /\ \A i \in 1 .. uxCount : Place(i) \in Places
  BY PlaceFacts, FirstPlace DEF TypeOK
<1>2. \A i \in 1 .. uxCount : pBuffer[Place(i)] \in Items \cup {NoItem}
  BY <1>1 DEF TypeOK
<1>. QED  BY <1>1, <1>2 DEF Contents, Place

\* What Tail leaves, place by place.
LEMMA TailIs ==
    ASSUME NEW S, NEW s \in Seq(S), s # <<>>
    PROVE  Tail(s) = [i \in 1 .. Len(s) - 1 |-> s[i + 1]]
<1>1. /\ Tail(s) \in Seq(S) /\ Len(Tail(s)) = Len(s) - 1
      /\ \A i \in 1 .. Len(Tail(s)) : Tail(s)[i] = s[i + 1]
  BY HeadTailProperties
<1>2. Tail(s) = [i \in 1 .. Len(Tail(s)) |-> Tail(s)[i]]
  BY <1>1, LenProperties
<1>. QED  BY <1>1, <1>2

\* What Append makes, place by place.
LEMMA AppendIs ==
    ASSUME NEW S, NEW s \in Seq(S), NEW v \in S
    PROVE  Append(s, v) = [i \in 1 .. Len(s) + 1 |-> IF i = Len(s) + 1 THEN v ELSE s[i]]
<1>. DEFINE a == Append(s, v)
<1>1. /\ a \in Seq(S) /\ Len(a) = Len(s) + 1 /\ Len(s) \in Nat
      /\ \A i \in 1 .. Len(s) : a[i] = s[i]
      /\ a[Len(s) + 1] = v
  BY AppendProperties, LenProperties
<1>. HIDE DEF a
<1>2. a = [i \in 1 .. Len(s) + 1 |-> a[i]]
  BY <1>1, LenProperties
<1>3. \A i \in 1 .. Len(s) + 1 : a[i] = IF i = Len(s) + 1 THEN v ELSE s[i]
  BY <1>1
<1>. QED  BY <1>2, <1>3 DEF a

\* A push appends to the contents.
LEMMA PushAppends ==
    ASSUME TypeOK, HeadAfterLast, NEW v \in Items, ~Full, RingPush(v)
    PROVE  Contents' = Append(Contents, v) /\ Len(Contents) < Capacity
<1>1. uxCount \in Nat /\ uxCount + 1 \in 1 .. Capacity /\ uxCount < Capacity
  BY FirstPlace DEF TypeOK, Full
<1>2. uxCount' = uxCount + 1 /\ pBuffer' = [pBuffer EXCEPT ![Place(uxCount + 1)] = v]
  BY DEF RingPush, HeadAfterLast
<1>3. \A i \in 1 .. uxCount + 1 : Place(i)' = Place(i)
  BY DEF RingPush, Place
<1>4. \A i \in 1 .. uxCount + 1 :
          pBuffer'[Place(i)] = IF i = uxCount + 1 THEN v ELSE Contents[i]
  <2>. SUFFICES ASSUME NEW i \in 1 .. uxCount + 1
                PROVE  pBuffer'[Place(i)] = IF i = uxCount + 1 THEN v ELSE Contents[i]
    OBVIOUS
  <2>0. i \in 1 .. Capacity
    BY <1>1, FirstPlace
  <2>1. i \in 1 .. Capacity /\ Place(i) \in Places /\ Place(uxCount + 1) \in Places
    BY <1>1, <2>0, PlaceFacts
  <2>2. i # uxCount + 1 => i \in 1 .. uxCount /\ Place(i) # Place(uxCount + 1)
    BY <1>1, <2>1, PlaceFacts
  <2>. QED  BY <1>2, <2>1, <2>2, ContentsFacts DEF TypeOK
<1>5. Contents' = [i \in 1 .. uxCount + 1 |-> pBuffer'[Place(i)]]
  BY <1>2, <1>3 DEF Contents, Place
<1>6. Append(Contents, v) = [i \in 1 .. uxCount + 1 |-> IF i = uxCount + 1 THEN v ELSE Contents[i]]
  BY ContentsFacts, AppendIs
<1>. QED  BY <1>1, <1>4, <1>5, <1>6, ContentsFacts

\* A pop takes the head off the contents.
LEMMA PopTakesHead ==
    ASSUME TypeOK, ~Empty, RingPop
    PROVE  /\ Contents # <<>> /\ Head(Contents) = pBuffer[uxTail]
           /\ Contents' = Tail(Contents)
<1>1. uxCount \in Nat /\ uxCount > 0 /\ uxCount - 1 \in Nat /\ 1 \in 1 .. uxCount
      /\ uxTail \in Nat
  BY FirstPlace DEF TypeOK, Empty, Places
<1>2. Contents # <<>> /\ Head(Contents) = pBuffer[uxTail]
  BY <1>1, ContentsFacts, PlaceFacts
<1>3. uxCount' = uxCount - 1 /\ uxTail' = (uxTail + 1) % Capacity /\ pBuffer' = pBuffer
  BY DEF RingPop, After
<1>4. ASSUME NEW i \in 1 .. uxCount - 1
      PROVE  pBuffer[(uxTail' + i - 1) % Capacity] = Contents[i + 1]
  <2>. DEFINE x == uxTail + 1   y == i - 1
  <2>1. x \in Nat /\ y \in Nat /\ x + y = uxTail + (i + 1) - 1 /\ i + 1 \in 1 .. uxCount
    BY <1>1
  <2>2. uxTail' \in Nat /\ uxTail' + i - 1 = uxTail' + y
    BY <1>1, <1>3, FirstPlace
  <2>3. ((x % Capacity) + y) % Capacity = (x + y) % Capacity
    <3>. HIDE DEF x, y
    <3>. QED  BY <2>1, RemainderAdds
  <2>4. (uxTail' + i - 1) % Capacity = Place(i + 1)
    BY <1>3, <2>1, <2>2, <2>3 DEF Place
  <2>. QED  BY <2>1, <2>4, ContentsFacts
<1>5. Contents' = [i \in 1 .. uxCount - 1 |-> pBuffer[(uxTail' + i - 1) % Capacity]]
  BY <1>3 DEF Contents
<1>6. Tail(Contents) = [i \in 1 .. uxCount - 1 |-> Contents[i + 1]]
  BY <1>2, ContentsFacts, TailIs
<1>. QED  BY <1>2, <1>4, <1>5, <1>6

\* Every behaviour of the queue is a behaviour of the bounded FIFO queue, however many
\* tasks and interrupts use it: no item lost, doubled, reordered or taken by two.  The
\* inductive invariant adds to the types that the head is behind the last item.
THEOREM QueueImplementsFifo == Spec => QueueIsFifo
<1>1. Init => HeadAfterLast /\ Fifo!Init
  <2>. SUFFICES ASSUME Init PROVE HeadAfterLast /\ Fifo!Init
    OBVIOUS
  <2>1. (0 + (0 + 1) - 1) % Capacity = 0
    BY ModOnce, FirstPlace
  <2>2. \A t \in Receivers : t \in Tasks
    BY DEF Tasks
  <2>. QED  BY <2>1, <2>2 DEF Init, HeadAfterLast, Place, Fifo!Init, Contents
<1>2. QueueType /\ HeadAfterLast /\ [Next]_vars => HeadAfterLast' /\ [Fifo!Next]_(Fifo!vars)
  <2>. SUFFICES ASSUME QueueType, HeadAfterLast, [Next]_vars
                PROVE  HeadAfterLast' /\ [Fifo!Next]_(Fifo!vars)
    OBVIOUS
  <2>. USE DEF QueueType
  <2>. DEFINE got == [t \in Receivers |-> item[t]]
  <2>0. /\ Senders \in SUBSET Tasks /\ Receivers \in SUBSET Tasks
        /\ Senders \cap Receivers = {} /\ item \in [Tasks -> Items \cup {NoItem}]
    BY QueueAssumption DEF Tasks, TypeOK
  <2>1. ASSUME UNCHANGED ringbuf, \A t \in Receivers : item'[t] = item[t]
        PROVE  HeadAfterLast' /\ [Fifo!Next]_(Fifo!vars)
    BY <2>1 DEF ringbuf, HeadAfterLast, Place, Fifo!vars, Contents
  <2>2. ASSUME NEW v \in Items, ~Full, RingPush(v), \A t \in Receivers : item'[t] = item[t]
        PROVE  HeadAfterLast' /\ [Fifo!Next]_(Fifo!vars)
    BY <2>2, HeadKept, PushAppends DEF Fifo!Next, Fifo!Put
  <2>3. ASSUME NEW t \in Senders, NEW v \in Items, NEW l \in Limits, Send(t, v, l)
        PROVE  HeadAfterLast' /\ [Fifo!Next]_(Fifo!vars)
    BY <2>0, <2>1, <2>3 DEF Send
  <2>4. ASSUME NEW t \in Receivers, NEW l \in Limits, Receive(t, l)
        PROVE  HeadAfterLast' /\ [Fifo!Next]_(Fifo!vars)
    BY <2>1, <2>4 DEF Receive
  <2>5. ASSUME NEW t \in Senders, Push(t)
        PROVE  HeadAfterLast' /\ [Fifo!Next]_(Fifo!vars)
    <3>1. item[t] \in Items /\ item' = [item EXCEPT ![t] = NoItem]
      BY <2>5 DEF Push, AtMutex, HasItem
    <3>2. \A r \in Receivers : item'[r] = item[r]
      BY <2>0, <3>1
    <3>. QED  BY <2>2, <2>5, <3>1, <3>2 DEF Push
  <2>6. ASSUME NEW t \in Receivers, Pop(t)
        PROVE  HeadAfterLast' /\ [Fifo!Next]_(Fifo!vars)
    <3>1. ~Empty /\ RingPop /\ item' = [item EXCEPT ![t] = pBuffer[uxTail]]
      BY <2>6 DEF Pop
    <3>2. got' = [got EXCEPT ![t] = Head(Contents)]
      BY <2>0, <3>1, PopTakesHead
    <3>. QED  BY <3>1, <3>2, HeadKept, PopTakesHead DEF Fifo!Next, Fifo!Get
  <2>7. ASSUME NEW t \in Tasks, Fail(t)
        PROVE  UNCHANGED ringbuf /\ \A r \in Receivers : item'[r] = item[r]
    BY <2>0, <2>7 DEF Fail
  <2>8. ASSUME NEW t \in Tasks, NEW closed, Block(t, closed)
        PROVE  HeadAfterLast' /\ [Fifo!Next]_(Fifo!vars)
    <3>1. UNCHANGED ringbuf /\ \A r \in Receivers : item'[r] = item[r]
      BY <2>7, <2>8 DEF Block
    <3>. QED  BY <2>1, <3>1
  <2>9. ASSUME NEW t \in Tasks, TimeOut(t) \/ SpuriousWakeup(t)
        PROVE  HeadAfterLast' /\ [Fifo!Next]_(Fifo!vars)
    <3>1. UNCHANGED ringbuf /\ \A r \in Receivers : item'[r] = item[r]
      BY <2>7, <2>9 DEF TimeOut, SpuriousWakeup
    <3>. QED  BY <2>1, <3>1
  <2>10. ASSUME NEW v \in Items, SendIsr(v)
         PROVE  HeadAfterLast' /\ [Fifo!Next]_(Fifo!vars)
    BY <2>2, <2>10 DEF SendIsr
  <2>11. CASE Reset
    <3>1. Contents' = <<>> /\ got' = got
      BY <2>11 DEF Reset, RingClear, Contents
    <3>. QED  BY <2>11, <3>1, HeadKept DEF Reset, Fifo!Next, Fifo!Clear
  <2>12. CASE UNCHANGED vars
    BY <2>1, <2>12 DEF vars
  <2>. QED
    BY <2>0, <2>3, <2>4, <2>5, <2>6, <2>8, <2>9, <2>10, <2>11, <2>12
       DEF Next, SenderGoes, ReceiverGoes
<1>. QED  BY <1>1, <1>2, TypeInvariant, PTL DEF Spec, QueueIsFifo, Fifo!Spec
================================================================================
