------------------------------ MODULE VfbProofs ------------------------------
(***************************************************************************)
(* Proofs about vfb.c for any number of senders, receivers, events, frames *)
(* and messages, and queues of any length.                                 *)
(***************************************************************************)
EXTENDS Vfb, FiniteSetTheorems, FunctionTheorems, SequenceTheorems, TLAPS

\* use_cnt has 16 bits.
LEMMA Sixteen ==
    /\ 2^16 \in Nat /\ 2^16 > 0
    /\ \A v \in 0 .. 2^16 - 1 : /\ (v - 1) % 2^16 \in 0 .. 2^16 - 1
                                /\ v > 0 => (v - 1) % 2^16 = v - 1
<1>1. 2^16 \in Nat /\ 2^16 > 0
  OBVIOUS
<1>2. ASSUME NEW M \in Nat \ {0}, NEW v \in 0 .. M - 1
      PROVE  (v - 1) % M \in 0 .. M - 1 /\ (v > 0 => (v - 1) % M = v - 1)
  OBVIOUS
<1>. DEFINE m == 2^16
<1>3. m \in Nat \ {0}
  BY <1>1
<1>4. \A v \in 0 .. m - 1 : (v - 1) % m \in 0 .. m - 1 /\ (v > 0 => (v - 1) % m = v - 1)
  <2>. HIDE DEF m
  <2>. QED  BY <1>2, <1>3
<1>. QED  BY <1>1, <1>4

\* Event lists are shorter than use_cnt can count.
FewReceivers == Cardinality(Receivers) < 2^16

-----------------------------------------------------------------------------
(***************************************************************************)
(* Type correctness.                                                       *)
(***************************************************************************)
SendType == [pc : {"idle", "loop", "waiting", "failed"}, sent : Nat, frame : Frames \cup {Nothing},
             msg : Messages \cup {Nothing}, item : Nat, i : Nat, failures : Nat]

RecvType == [pc : {"new", "receive", "callback", "expired", "ended"},
             copy : Copies \cup {Nothing}, timeouts : Nat]

CountType == [pc : {"no", "store", "test", "free"}, frame : Frames \cup {Nothing},
              value : 0 .. 2^16 - 1]

\* A list has each receiver once, and those only that have subscribed.
ListFits(e) ==
    /\ queue_list[e] \in Seq(Receivers)
    /\ \A i, j \in 1 .. Len(queue_list[e]) : queue_list[e][i] = queue_list[e][j] => i = j
    /\ \A i \in 1 .. Len(queue_list[e]) : recv[queue_list[e][i]].pc # "new"

\* A failed try costs a turn of the loop but not an item of the list.
SendFits(s, c) ==
    IF c.pc = "idle" THEN c.frame = Nothing /\ c.failures = 0
    ELSE LET last == Len(queue_list[c.msg.event]) IN
         /\ c.frame \in Frames /\ c.msg \in Messages /\ c.msg.from = s /\ c.msg.number = c.sent
         /\ c.item > 0 /\ c.i + 1 = c.item + c.failures /\ c.i <= last
         /\ c.pc # "loop" => c.i < last

RecvFits(c) ==
    /\ c.pc = "callback" => c.copy \in Copies
    /\ c.timeouts <= MaxTimeouts
    /\ c.pc # "ended" => c.timeouts < MaxTimeouts

CountFits(c) == IF c.pc = "no" THEN c.frame = Nothing ELSE c.frame \in Frames

QueueType ==
    /\ queue_list \in [Events -> Seq(Receivers)] /\ \A e \in Events : ListFits(e)
    /\ queue \in [Receivers -> Seq(Copies)] /\ \A r \in Receivers : Len(queue[r]) <= QueueNum

FrameType ==
    /\ heap \subseteq Frames
    /\ content \in [Frames -> Messages \cup {Nothing}]
    /\ use_cnt \in [Frames -> 0 .. 2^16 - 1]

TaskType ==
    /\ send \in [Senders -> SendType] /\ \A s \in Senders : SendFits(s, send[s])
    /\ recv \in [Receivers -> RecvType] /\ \A r \in Receivers : RecvFits(recv[r])
    /\ count \in [Tasks -> CountType] /\ \A t \in Tasks : CountFits(count[t])
    /\ seen \in [Receivers -> [Senders -> Nat]]

VfbType == QueueType /\ FrameType /\ TaskType

\* What a message is, and who may send or receive it.
LEMMA MessageFields ==
    ASSUME NEW m \in Messages
    PROVE  m.from \in Senders /\ m.event \in Events /\ m.number \in Nat \ {0}
<1>1. PICK s \in Senders : m \in [from : {s}, event : Events, number : 1 .. MaxSends[s]]
  BY DEF Messages
<1>. QED  BY <1>1, VfbAssumption

\* Senders and receivers are tasks.
LEMMA TasksAre == Senders \subseteq Tasks /\ Receivers \subseteq Tasks
BY DEF Tasks

\* A list has no more items than there are receivers.
LEMMA ListIsShort ==
    ASSUME VfbType, NEW e \in Events
    PROVE  /\ IsFiniteSet(Receivers) /\ Cardinality(Receivers) \in Nat
           /\ Len(queue_list[e]) \in Nat /\ Len(queue_list[e]) <= Cardinality(Receivers)
<1>1. IsFiniteSet(Receivers) /\ Cardinality(Receivers) \in Nat
  BY VfbAssumption, TasksAre, FS_Subset, FS_CardinalityType
<1>. DEFINE q == queue_list[e]
<1>2. q \in Seq(Receivers) /\ \A i, j \in 1 .. Len(q) : q[i] = q[j] => i = j
  BY DEF VfbType, QueueType, ListFits
<1>. HIDE DEF q
<1>3. Len(q) \in Nat /\ q \in [1 .. Len(q) -> Receivers]
  BY <1>2, LenProperties
<1>4. q \in Injection(1 .. Len(q), Receivers)
  BY <1>2, <1>3, Fun_IsInj
<1>5. Cardinality(1 .. Len(q)) <= Cardinality(Receivers)
  BY <1>1, <1>4, FS_Injection
<1>6. Cardinality(1 .. Len(q)) = Len(q)
  BY <1>3, FS_Interval, SMTT(30)
<1>. QED  BY <1>1, <1>3, <1>5, <1>6 DEF q

\* The receiver a send has come to.
LEMMA ItemIs ==
    ASSUME VfbType, NEW s \in Senders, send[s].pc # "idle"
    PROVE  /\ send[s].msg \in Messages /\ send[s].msg.event \in Events /\ send[s].frame \in Frames
           /\ List(s) \in Seq(Receivers) /\ Len(List(s)) \in Nat
           /\ send[s].i \in Nat /\ send[s].item \in Nat \ {0} /\ send[s].failures \in Nat
           /\ send[s].i < Len(List(s)) => /\ send[s].item \in 1 .. Len(List(s))
                                          /\ List(s)[send[s].item] \in Receivers
<1>1. send[s].msg \in Messages /\ send[s].msg.event \in Events /\ send[s].frame \in Frames
  BY MessageFields DEF VfbType, TaskType, SendFits
<1>2. List(s) \in Seq(Receivers)
  BY <1>1 DEF VfbType, QueueType, List
<1>3. Len(List(s)) \in Nat
  BY <1>2, LenProperties
<1>4. /\ send[s].i \in Nat /\ send[s].item \in Nat \ {0} /\ send[s].failures \in Nat
      /\ send[s].i + 1 = send[s].item + send[s].failures
  BY DEF VfbType, TaskType, SendFits, SendType
<1>5. ASSUME send[s].i < Len(List(s))
      PROVE  send[s].item \in 1 .. Len(List(s)) /\ List(s)[send[s].item] \in Receivers
  <2>1. send[s].item \in 1 .. Len(List(s))
    BY <1>3, <1>4, <1>5
  <2>. QED  BY <1>2, <2>1, ElementOfSeq
<1>. QED  BY <1>1, <1>2, <1>3, <1>4, <1>5

\* Steps of one send, one receiver, one countdown.
LEMMA SendMoves ==
    ASSUME VfbType, UNCHANGED queue_list, NEW s \in Senders, NEW c \in SendType, SendFits(s, c),
           send' = [send EXCEPT ![s] = c]
    PROVE  send' \in [Senders -> SendType] /\ \A u \in Senders : SendFits(u, send[u])'
<1>1. send' \in [Senders -> SendType] /\ \A u \in Senders : send'[u] = IF u = s THEN c ELSE send[u]
  BY DEF VfbType, TaskType
<1>2. ASSUME NEW u \in Senders PROVE SendFits(u, send'[u])
  BY <1>1 DEF VfbType, TaskType
<1>. QED  BY <1>1, <1>2 DEF SendFits

\* Calls of senders keep fitting while neither they nor the lists change.
LEMMA SendStays ==
    ASSUME VfbType, UNCHANGED <<queue_list, send>>
    PROVE  send' \in [Senders -> SendType] /\ \A u \in Senders : SendFits(u, send[u])'
BY DEF VfbType, TaskType, SendFits

\* One receiver's move keeps the receivers and the lists fitting.
LEMMA RecvMoves ==
    ASSUME VfbType, UNCHANGED queue_list, NEW r \in Receivers, NEW c \in RecvType, RecvFits(c),
           c.pc # "new", recv' = [recv EXCEPT ![r] = c]
    PROVE  /\ recv' \in [Receivers -> RecvType] /\ \A x \in Receivers : RecvFits(recv[x])'
           /\ \A e \in Events : ListFits(e)'
<1>1. /\ recv' \in [Receivers -> RecvType]
      /\ \A x \in Receivers : recv'[x] = IF x = r THEN c ELSE recv[x]
  BY DEF VfbType, TaskType
<1>2. \A x \in Receivers : RecvFits(recv[x])'
  BY <1>1 DEF VfbType, TaskType, RecvFits
<1>3. ASSUME NEW e \in Events PROVE ListFits(e)'
  <2>1. ListFits(e)
    BY DEF VfbType, QueueType
  <2>2. \A i \in 1 .. Len(queue_list[e]) : queue_list[e][i] \in Receivers
    BY <2>1, ElementOfSeq DEF ListFits
  <2>. QED  BY <1>1, <2>1, <2>2 DEF ListFits
<1>. QED  BY <1>1, <1>2, <1>3

\* Receivers and lists keep fitting while neither changes.
LEMMA ListsStay ==
    ASSUME VfbType, UNCHANGED <<queue_list, recv>>
    PROVE  /\ recv' \in [Receivers -> RecvType] /\ \A x \in Receivers : RecvFits(recv[x])'
           /\ \A e \in Events : ListFits(e)'
BY DEF VfbType, TaskType, QueueType, RecvFits, ListFits

\* One task's move in the count keeps the counts in progress fitting.
LEMMA CountMoves ==
    ASSUME VfbType, NEW t \in Tasks, NEW c \in CountType, CountFits(c),
           count' = [count EXCEPT ![t] = c]
    PROVE  count' \in [Tasks -> CountType] /\ \A u \in Tasks : CountFits(count[u])'
BY DEF VfbType, TaskType, CountFits

\* The beginning of a countdown.
LEMMA LoadCountMoves ==
    ASSUME VfbType, NEW t \in Tasks, NEW f \in Frames, LoadCount(t, f)
    PROVE  count' \in [Tasks -> CountType] /\ \A u \in Tasks : CountFits(count[u])'
<1>. DEFINE v == (use_cnt[f] - 1) % 2^16
            c == [pc |-> IF use_cnt[f] = 0 /\ t \in Receivers THEN "test" ELSE "store",
                  frame |-> f, value |-> v]
<1>1. v \in 0 .. 2^16 - 1
  BY Sixteen DEF VfbType, FrameType
<1>2. count' = [count EXCEPT ![t] = c]
  BY DEF LoadCount
<1>3. c \in CountType /\ CountFits(c)
  <2>. HIDE DEF v
  <2>. QED  BY <1>1 DEF CountType, CountFits
<1>. HIDE DEF c
<1>. QED  BY <1>2, <1>3, CountMoves

\* The rest of it.
LEMMA CountStepType ==
    ASSUME VfbType, NEW t \in Tasks, CountStep(t) PROVE VfbType'
<1>0. /\ UNCHANGED <<queue_list, queue, send, recv, seen>>
      /\ count[t] \in CountType /\ CountFits(count[t]) /\ 0 \in 0 .. 2^16 - 1
  <2>1. \A n \in Nat : n > 0 => 0 \in 0 .. n - 1
    OBVIOUS
  <2>2. 0 \in 0 .. 2^16 - 1
    BY <2>1, Sixteen
  <2>. QED  BY <2>2 DEF CountStep, VfbType, TaskType
<1>1. send' \in [Senders -> SendType] /\ \A u \in Senders : SendFits(u, send[u])'
  BY <1>0, SendStays
<1>2. /\ recv' \in [Receivers -> RecvType] /\ \A x \in Receivers : RecvFits(recv[x])'
      /\ \A e \in Events : ListFits(e)'
  BY <1>0, ListsStay
<1>3. NoCount \in CountType /\ CountFits(NoCount)
  BY <1>0 DEF CountType, CountFits, NoCount
<1>4. FrameType' /\ count' \in [Tasks -> CountType] /\ \A u \in Tasks : CountFits(count[u])'
  <2>1. CASE StoreCount(t)
    <3>. DEFINE c == [count[t] EXCEPT !.pc = "test", !.value = 0]
    <3>1. count' = [count EXCEPT ![t] = c] /\ count[t].pc = "store"
      BY <2>1 DEF StoreCount, Counting, VfbType, TaskType
    <3>2. c \in CountType /\ CountFits(c)
      BY <1>0, <3>1 DEF CountType, CountFits
    <3>3. FrameType'
      BY <1>0, <2>1 DEF StoreCount, VfbType, FrameType, CountType
    <3>. HIDE DEF c
    <3>. QED  BY <3>1, <3>2, <3>3, CountMoves
  <2>2. CASE TestCount(t)
    <3>. DEFINE c == [count[t] EXCEPT !.pc = "free"]
    <3>1. count' = [count EXCEPT ![t] = c] \/ count' = [count EXCEPT ![t] = NoCount]
      BY <2>2 DEF TestCount, EndCount, VfbType, TaskType
    <3>2. c \in CountType /\ CountFits(c)
      BY <1>0, <2>2 DEF CountType, CountFits, TestCount, Counting
    <3>3. FrameType'
      BY <2>2 DEF TestCount, VfbType, FrameType
    <3>. HIDE DEF c
    <3>. QED  BY <1>3, <3>1, <3>2, <3>3, CountMoves
  <2>3. CASE FreeFrame(t)
    <3>1. count' = [count EXCEPT ![t] = NoCount]
      BY <2>3 DEF FreeFrame, EndCount
    <3>2. FrameType'
      BY <2>3 DEF FreeFrame, VfbType, FrameType
    <3>. QED  BY <1>3, <3>1, <3>2, CountMoves
  <2>. QED  BY <2>1, <2>2, <2>3 DEF CountStep
<1>. QED  BY <1>0, <1>1, <1>2, <1>4 DEF VfbType, QueueType, TaskType

\* A task subscribes to lists that it is not yet on.
LEMMA SubscribeType ==
    ASSUME VfbType, NEW r \in Receivers, Subscribe(r) PROVE VfbType'
<1>0. UNCHANGED <<heap, content, use_cnt, queue, send, count, seen>> /\ recv[r].pc = "new"
  BY DEF Subscribe
<1>1. /\ recv' \in [Receivers -> RecvType] /\ \A x \in Receivers : RecvFits(recv[x])'
      /\ \A x \in Receivers : recv'[x].pc # "new" <=> recv[x].pc # "new" \/ x = r
  BY DEF Subscribe, VfbType, TaskType, RecvType, RecvFits
<1>2. PICK got \in SUBSET EventsOf[r] :
        queue_list' = [e \in Events |-> IF e \in got THEN Append(queue_list[e], r) ELSE queue_list[e]]
  BY DEF Subscribe
<1>3. ASSUME NEW e \in Events
      PROVE  /\ queue_list'[e] \in Seq(Receivers) /\ ListFits(e)'
             /\ Len(queue_list[e]) \in Nat /\ Len(queue_list'[e]) >= Len(queue_list[e])
  <2>. DEFINE q == queue_list[e]   n == Len(q)
  <2>1. /\ q \in Seq(Receivers) /\ n \in Nat /\ DOMAIN q = 1 .. n
        /\ \A i, j \in 1 .. n : q[i] = q[j] => i = j
        /\ \A i \in 1 .. n : q[i] \in Receivers /\ recv[q[i]].pc # "new"
    BY LenProperties, ElementOfSeq DEF VfbType, QueueType, ListFits
  <2>2. CASE e \notin got
    BY <1>1, <1>2, <2>1, <2>2 DEF ListFits
  <2>3. CASE e \in got
    <3>1. /\ queue_list'[e] = Append(q, r) /\ Append(q, r) \in Seq(Receivers)
          /\ Len(Append(q, r)) = n + 1 /\ Append(q, r)[n + 1] = r
          /\ \A i \in 1 .. n : Append(q, r)[i] = q[i]
      BY <1>2, <2>1, <2>3, AppendProperties
    <3>. DEFINE a == Append(q, r)
    <3>2. \A i \in 1 .. n + 1 : i \in 1 .. n \/ i = n + 1
      BY <2>1
    <3>3. \A i \in 1 .. n : a[i] # r
      BY <1>0, <2>1, <3>1
    <3>4. \A i, j \in 1 .. n + 1 : a[i] = a[j] => i = j
      <4>. HIDE DEF a, q
      <4>. QED  BY <2>1, <3>1, <3>2, <3>3 DEF a
    <3>5. \A i \in 1 .. n + 1 : recv'[a[i]].pc # "new"
      BY <1>1, <2>1, <3>1, <3>2
    <3>. QED  BY <2>1, <3>1, <3>4, <3>5 DEF ListFits
  <2>. QED  BY <2>2, <2>3
<1>4. queue_list' \in [Events -> Seq(Receivers)]
  BY <1>2, <1>3
<1>5. ASSUME NEW s \in Senders PROVE SendFits(s, send[s])'
  <2>1. SendFits(s, send[s]) /\ send[s] \in SendType
    BY DEF VfbType, TaskType
  <2>2. CASE send[s].pc = "idle"
    BY <1>0, <2>1, <2>2 DEF SendFits
  <2>3. CASE send[s].pc # "idle"
    <3>1. send[s].msg.event \in Events /\ send[s].i \in Nat
      BY <2>3, ItemIs
    <3>2. /\ Len(queue_list'[send[s].msg.event]) \in Nat
          /\ Len(queue_list'[send[s].msg.event]) >= Len(queue_list[send[s].msg.event])
          /\ Len(queue_list[send[s].msg.event]) \in Nat
      BY <1>3, <3>1, LenProperties
    <3>3. \A i \in Nat : \A m, n \in Nat :
             m >= n => (i <= n => i <= m) /\ (i < n => i < m)
      OBVIOUS
    <3>. DEFINE c == send[s]   old == Len(queue_list[c.msg.event])
                new == Len(queue_list'[c.msg.event])
    <3>4. /\ c.frame \in Frames /\ c.msg \in Messages /\ c.msg.from = s /\ c.msg.number = c.sent
          /\ c.item > 0 /\ c.i + 1 = c.item + c.failures /\ c.i <= old
          /\ c.pc # "loop" => c.i < old
      BY <2>1, <2>3 DEF SendFits
    <3>5. c.i <= new /\ (c.pc # "loop" => c.i < new)
      <4>. HIDE DEF c, old, new
      <4>1. c.i \in Nat /\ old \in Nat /\ new \in Nat /\ new >= old
        BY <3>1, <3>2 DEF c, old, new
      <4>. QED  BY <3>3, <3>4, <4>1
    <3>. QED  BY <1>0, <2>3, <3>4, <3>5 DEF SendFits
  <2>. QED  BY <2>2, <2>3
<1>. QED  BY <1>0, <1>1, <1>3, <1>4, <1>5 DEF VfbType, QueueType, FrameType, TaskType, CountFits
\* A send begins: the frame counts one use for each item of the list.
LEMMA BeginSendType ==
    ASSUME VfbType, FewReceivers, NEW s \in Senders, BeginSend(s) PROVE VfbType'
<1>0. UNCHANGED <<queue_list, queue, recv, count, seen>> /\ send[s].sent < MaxSends[s]
  BY DEF BeginSend
<1>. DEFINE M(e) == [from |-> s, event |-> e, number |-> send[s].sent + 1]
<1>1. PICK e \in Events, f \in Frames \ heap :
         /\ queue_list[e] # <<>>
         /\ heap' = heap \cup {f}
         /\ content' = [content EXCEPT ![f] = M(e)]
         /\ use_cnt' = [use_cnt EXCEPT ![f] = Len(queue_list[e])]
         /\ send' = [send EXCEPT ![s] = [pc |-> "loop", sent |-> M(e).number, frame |-> f,
                                         msg |-> M(e), item |-> 1, i |-> 0, failures |-> 0]]
  BY DEF BeginSend
<1>2. send[s].sent \in Nat /\ MaxSends[s] \in Nat /\ send[s].sent + 1 \in 1 .. MaxSends[s]
  BY <1>0, VfbAssumption DEF VfbType, TaskType, SendType
<1>3. M(e) \in Messages
  BY <1>2 DEF Messages
<1>4. Len(queue_list[e]) \in Nat /\ Len(queue_list[e]) \in 0 .. 2^16 - 1
  <2>1. \A n, k, c \in Nat : n <= c /\ c < k => n \in 0 .. k - 1
    OBVIOUS
  <2>. QED  BY <2>1, ListIsShort, Sixteen DEF FewReceivers
<1>5. FrameType'
  BY <1>1, <1>3, <1>4 DEF VfbType, FrameType
<1>. DEFINE c == [pc |-> "loop", sent |-> M(e).number, frame |-> f,
                  msg |-> M(e), item |-> 1, i |-> 0, failures |-> 0]
<1>6. c \in SendType /\ SendFits(s, c)
  BY <1>2, <1>3, <1>4 DEF SendType, SendFits
<1>7. send' \in [Senders -> SendType] /\ \A u \in Senders : SendFits(u, send[u])'
  <2>1. send' = [send EXCEPT ![s] = c]
    BY <1>1
  <2>. HIDE DEF c
  <2>. QED  BY <1>0, <1>6, <2>1, SendMoves
<1>8. /\ recv' \in [Receivers -> RecvType] /\ \A x \in Receivers : RecvFits(recv[x])'
      /\ \A x \in Events : ListFits(x)'
  BY <1>0, ListsStay
<1>. QED  BY <1>0, <1>5, <1>7, <1>8 DEF VfbType, QueueType, TaskType, CountFits

\* The rest of a send.
LEMMA SendGoesOnType ==
    ASSUME VfbType, NEW s \in Senders, NEW c \in SendType, SendFits(s, c),
           send' = [send EXCEPT ![s] = c],
           UNCHANGED <<queue_list, heap, content, use_cnt, queue, recv, seen>>,
           count' \in [Tasks -> CountType] /\ \A u \in Tasks : CountFits(count[u])'
    PROVE  VfbType'
<1>1. send' \in [Senders -> SendType] /\ \A u \in Senders : SendFits(u, send[u])'
  BY SendMoves
<1>2. /\ recv' \in [Receivers -> RecvType] /\ \A x \in Receivers : RecvFits(recv[x])'
      /\ \A x \in Events : ListFits(x)'
  BY ListsStay
<1>. QED  BY <1>1, <1>2 DEF VfbType, QueueType, FrameType, TaskType

\* Putting one copy in one queue keeps the types.
LEMMA SendQueueType ==
    ASSUME VfbType, NEW s \in Senders, SendQueue(s) PROVE VfbType'
<1>0. /\ UNCHANGED <<queue_list, heap, content, use_cnt, recv, count, seen>>
      /\ send[s].pc \in {"loop", "waiting"} /\ send[s].i < Len(List(s))
  BY DEF SendQueue, Sending
<1>1. /\ send[s].msg \in Messages /\ send[s].frame \in Frames
      /\ Len(List(s)) \in Nat /\ send[s].i \in Nat /\ List(s)[send[s].item] \in Receivers
  BY <1>0, ItemIs
<1>. DEFINE r == List(s)[send[s].item]
            x == [frame |-> send[s].frame, msg |-> send[s].msg]
            c == [send[s] EXCEPT !.pc = "loop", !.item = @ + 1, !.i = @ + 1]
<1>2. x \in Copies /\ r \in Receivers
  BY <1>1 DEF Copies
<1>3. Len(queue[r]) < QueueNum /\ queue' = [queue EXCEPT ![r] = Append(@, x)]
  BY DEF SendQueue
<1>4. send' = [send EXCEPT ![s] = c]
  BY DEF SendQueue, VfbType, TaskType
<1>5. c \in SendType /\ SendFits(s, c)
  <2>1. send[s] \in SendType /\ SendFits(s, send[s])
    BY DEF VfbType, TaskType
  <2>4. /\ send[s].item \in Nat \ {0} /\ send[s].failures \in Nat
        /\ send[s].item + 1 \in Nat /\ send[s].i + 1 \in Nat
    BY <1>0, ItemIs
  <2>2. c \in SendType
    BY <2>1, <2>4 DEF SendType
  <2>5. /\ c.pc = "loop" /\ c.frame = send[s].frame /\ c.msg = send[s].msg /\ c.sent = send[s].sent
        /\ c.item = send[s].item + 1 /\ c.i = send[s].i + 1 /\ c.failures = send[s].failures
    BY <2>1 DEF SendType
  <2>6. /\ send[s].msg.from = s /\ send[s].msg.number = send[s].sent
        /\ send[s].i + 1 = send[s].item + send[s].failures
    BY <1>0, <2>1 DEF SendFits
  <2>7. send[s].i + 1 <= Len(List(s)) /\ (send[s].i + 1) + 1 = (send[s].item + 1) + send[s].failures
    <3>. DEFINE i == send[s].i   m == send[s].item   k == send[s].failures   n == Len(List(s))
    <3>1. i \in Nat /\ m \in Nat /\ k \in Nat /\ n \in Nat /\ i < n /\ i + 1 = m + k
      BY <1>0, <1>1, <2>4, <2>6
    <3>. HIDE DEF i, m, k, n
    <3>2. i + 1 <= n /\ (i + 1) + 1 = (m + 1) + k
      BY <3>1
    <3>. QED  BY <3>2 DEF i, m, k, n
  <2>8. send[s].item + 1 > 0
    BY <2>4
  <2>. HIDE DEF c
  <2>. QED  BY <1>1, <2>2, <2>5, <2>6, <2>7, <2>8 DEF SendFits, List
<1>6. queue' \in [Receivers -> Seq(Copies)] /\ \A y \in Receivers : Len(queue'[y]) <= QueueNum
  <2>. HIDE DEF x, r
  <2>1. queue[r] \in Seq(Copies)
    BY <1>2 DEF VfbType, QueueType
  <2>2. /\ Append(queue[r], x) \in Seq(Copies) /\ Len(queue[r]) \in Nat
        /\ Len(Append(queue[r], x)) = Len(queue[r]) + 1
    BY <1>2, <2>1, AppendProperties, LenProperties
  <2>3. Len(Append(queue[r], x)) <= QueueNum
    BY <1>3, <2>2, VfbAssumption
  <2>. QED  BY <1>2, <1>3, <2>2, <2>3 DEF VfbType, QueueType
<1>7. send' \in [Senders -> SendType] /\ \A u \in Senders : SendFits(u, send[u])'
  <2>. HIDE DEF c
  <2>. QED  BY <1>0, <1>4, <1>5, SendMoves
<1>8. /\ recv' \in [Receivers -> RecvType] /\ \A y \in Receivers : RecvFits(recv[y])'
      /\ \A y \in Events : ListFits(y)'
  BY <1>0, ListsStay
<1>. QED  BY <1>0, <1>6, <1>7, <1>8 DEF VfbType, QueueType, FrameType, TaskType, CountFits

\* Every step of a sender keeps the types.
LEMMA SenderType ==
    ASSUME VfbType, FewReceivers, NEW s \in Senders, SenderStep(s) PROVE VfbType'
<1>0. /\ send[s] \in SendType /\ SendFits(s, send[s])
      /\ count \in [Tasks -> CountType] /\ \A u \in Tasks : CountFits(count[u])
  BY DEF VfbType, TaskType
<1>1. CASE QueueFull(s)
  <2>. DEFINE c == [send[s] EXCEPT !.pc = IF s \in Interrupts THEN "failed" ELSE "waiting"]
  <2>1. send' = [send EXCEPT ![s] = c]
    BY <1>1 DEF QueueFull, VfbType, TaskType
  <2>2. c \in SendType /\ SendFits(s, c)
    BY <1>0, <1>1 DEF QueueFull, Sending, SendType, SendFits, List
  <2>. HIDE DEF c
  <2>. QED  BY <1>0, <1>1, <2>1, <2>2, SendGoesOnType DEF QueueFull, CountFits
<1>2. CASE WaitOver(s)
  <2>. DEFINE c == [send[s] EXCEPT !.pc = "failed"]
  <2>1. send' = [send EXCEPT ![s] = c]
    BY <1>2 DEF WaitOver, VfbType, TaskType
  <2>2. c \in SendType /\ SendFits(s, c)
    BY <1>0, <1>2 DEF WaitOver, Sending, SendType, SendFits
  <2>. HIDE DEF c
  <2>. QED  BY <1>0, <1>2, <2>1, <2>2, SendGoesOnType DEF WaitOver, CountFits
<1>3. CASE SendFails(s)
  <2>. DEFINE c == [send[s] EXCEPT !.pc = "loop", !.i = @ + 1, !.failures = @ + 1]
  <2>1. send' = [send EXCEPT ![s] = c]
    BY <1>3 DEF SendFails, VfbType, TaskType
  <2>2. /\ send[s].pc = "failed" /\ send[s].frame \in Frames /\ Len(List(s)) \in Nat
        /\ send[s].i \in Nat /\ send[s].item \in Nat /\ send[s].failures \in Nat
    BY <1>3, ItemIs DEF SendFails, Sending
  <2>3. c \in SendType /\ SendFits(s, c)
    <3>1. c \in SendType
      <4>1. send[s].i + 1 \in Nat /\ send[s].failures + 1 \in Nat
        BY <2>2
      <4>. QED  BY <1>0, <4>1 DEF SendType
    <3>2. \A i, n, m, k \in Nat : i < n /\ i + 1 = m + k => i + 1 <= n /\ (i + 1) + 1 = m + (k + 1)
      OBVIOUS
    <3>. QED  BY <1>0, <2>2, <3>1, <3>2, SMTT(30) DEF SendFits, List
  <2>4. count' \in [Tasks -> CountType] /\ \A u \in Tasks : CountFits(count[u])'
    BY <1>3, <2>2, LoadCountMoves, TasksAre DEF SendFails
  <2>. HIDE DEF c
  <2>. QED  BY <1>3, <2>1, <2>3, <2>4, SendGoesOnType DEF SendFails
<1>4. CASE EndSend(s)
  <2>. DEFINE c == [pc |-> "idle", sent |-> send[s].sent, frame |-> Nothing,
                    msg |-> Nothing, item |-> 0, i |-> 0, failures |-> 0]
  <2>1. send' = [send EXCEPT ![s] = c]
    BY <1>4 DEF EndSend, VfbType, TaskType
  <2>2. c \in SendType /\ SendFits(s, c)
    BY <1>0 DEF SendType, SendFits
  <2>. HIDE DEF c
  <2>. QED  BY <1>0, <1>4, <2>1, <2>2, SendGoesOnType DEF EndSend, CountFits
<1>5. CASE CountStep(s)
  BY <1>5, CountStepType, TasksAre
<1>. QED  BY <1>1, <1>2, <1>3, <1>4, <1>5, BeginSendType, SendQueueType DEF SenderStep

\* A receiver that goes on in its loop keeps the types.
LEMMA RecvGoesOnType ==
    ASSUME VfbType, NEW r \in Receivers, NEW c \in RecvType, RecvFits(c), c.pc # "new",
           recv' = [recv EXCEPT ![r] = c], UNCHANGED <<queue_list, heap, content, use_cnt, send>>,
           queue' \in [Receivers -> Seq(Copies)], \A x \in Receivers : Len(queue[x])' <= QueueNum,
           count' \in [Tasks -> CountType] /\ \A u \in Tasks : CountFits(count[u])',
           seen' \in [Receivers -> [Senders -> Nat]]
    PROVE  VfbType'
<1>1. send' \in [Senders -> SendType] /\ \A u \in Senders : SendFits(u, send[u])'
  BY SendStays
<1>2. /\ recv' \in [Receivers -> RecvType] /\ \A x \in Receivers : RecvFits(recv[x])'
      /\ \A x \in Events : ListFits(x)'
  BY RecvMoves
<1>. QED  BY <1>1, <1>2 DEF VfbType, QueueType, FrameType, TaskType

\* Every step of a receiver keeps the types.
LEMMA ReceiverType ==
    ASSUME VfbType, NEW r \in Receivers, ReceiverStep(r) \/ WaitEnds(r) PROVE VfbType'
<1>0. /\ recv[r] \in RecvType /\ RecvFits(recv[r]) /\ seen \in [Receivers -> [Senders -> Nat]]
      /\ count \in [Tasks -> CountType] /\ \A u \in Tasks : CountFits(count[u])
      /\ queue \in [Receivers -> Seq(Copies)] /\ \A x \in Receivers : Len(queue[x]) <= QueueNum
  BY DEF VfbType, TaskType, QueueType
<1>1. CASE MsgReceive(r)
  <2>. DEFINE x == Head(queue[r])   c == [pc |-> "callback", copy |-> x, timeouts |-> 0]
  <2>1. /\ queue[r] # <<>> /\ queue[r] \in Seq(Copies)
        /\ recv' = [recv EXCEPT ![r] = c] /\ seen' = [seen EXCEPT ![r][x.msg.from] = x.msg.number]
        /\ queue' = [queue EXCEPT ![r] = Tail(@)]
    BY <1>0, <1>1 DEF MsgReceive
  <2>2. /\ x \in Copies /\ Tail(queue[r]) \in Seq(Copies) /\ Len(Tail(queue[r])) <= QueueNum
    <3>1. /\ x \in Copies /\ Tail(queue[r]) \in Seq(Copies) /\ Len(queue[r]) \in Nat
          /\ Len(Tail(queue[r])) = Len(queue[r]) - 1
      BY <2>1, HeadTailProperties, LenProperties
    <3>. QED  BY <1>0, <3>1, VfbAssumption
  <2>3. x.msg \in Messages /\ x.msg.from \in Senders /\ x.msg.number \in Nat
    BY <2>2, MessageFields DEF Copies
  <2>4. seen' \in [Receivers -> [Senders -> Nat]]
    BY <1>0, <2>1, <2>3
  <2>5. /\ queue' \in [Receivers -> Seq(Copies)] /\ \A y \in Receivers : Len(queue'[y]) <= QueueNum
    BY <1>0, <2>1, <2>2
  <2>6. c \in RecvType /\ RecvFits(c) /\ c.pc # "new"
    BY <2>2, VfbAssumption DEF RecvType, RecvFits
  <2>. HIDE DEF c, x
  <2>. QED  BY <1>0, <1>1, <2>1, <2>4, <2>5, <2>6, RecvGoesOnType DEF MsgReceive, CountFits
<1>2. CASE CallbackReturns(r)
  <2>. DEFINE c == [recv[r] EXCEPT !.pc = "receive", !.copy = Nothing]
  <2>1. recv' = [recv EXCEPT ![r] = c] /\ recv[r].pc = "callback"
    BY <1>2 DEF CallbackReturns, Receiving, VfbType, TaskType
  <2>2. recv[r].copy.frame \in Frames
    BY <1>0, <2>1 DEF RecvFits, Copies
  <2>3. c \in RecvType /\ RecvFits(c) /\ c.pc # "new"
    BY <1>0, <2>1 DEF RecvType, RecvFits
  <2>4. count' \in [Tasks -> CountType] /\ \A u \in Tasks : CountFits(count[u])'
    BY <1>2, <2>2, LoadCountMoves, TasksAre DEF CallbackReturns
  <2>. HIDE DEF c
  <2>. QED  BY <1>0, <1>2, <2>1, <2>3, <2>4, RecvGoesOnType DEF CallbackReturns
<1>3. CASE WaitEnds(r)
  <2>. DEFINE c == [recv[r] EXCEPT !.pc = "expired"]
  <2>1. recv' = [recv EXCEPT ![r] = c] /\ recv[r].pc = "receive"
    BY <1>3 DEF WaitEnds, Receiving, VfbType, TaskType
  <2>2. c \in RecvType /\ RecvFits(c) /\ c.pc # "new"
    BY <1>0, <2>1 DEF RecvType, RecvFits
  <2>. HIDE DEF c
  <2>. QED  BY <1>0, <1>3, <2>1, <2>2, RecvGoesOnType DEF WaitEnds, CountFits
<1>4. CASE NoteTimeout(r)
  <2>. DEFINE c == [recv[r] EXCEPT !.timeouts = @ + 1,
                                   !.pc = IF recv[r].timeouts + 1 >= MaxTimeouts
                                          THEN "ended" ELSE "receive"]
  <2>1. recv' = [recv EXCEPT ![r] = c] /\ recv[r].pc = "expired"
    BY <1>4 DEF NoteTimeout, Receiving, VfbType, TaskType
  <2>2. c \in RecvType /\ RecvFits(c) /\ c.pc # "new"
    <3>1. recv[r].timeouts \in Nat /\ recv[r].timeouts < MaxTimeouts /\ MaxTimeouts \in Nat
      BY <1>0, <2>1, VfbAssumption DEF RecvType, RecvFits
    <3>2. recv[r].timeouts + 1 \in Nat /\ recv[r].timeouts + 1 <= MaxTimeouts
      BY <3>1
    <3>3. c \in RecvType
      BY <1>0, <3>2 DEF RecvType
    <3>4. RecvFits(c)
      <4>1. CASE recv[r].timeouts + 1 >= MaxTimeouts
        BY <3>1, <3>2, <4>1 DEF RecvFits
      <4>2. CASE ~(recv[r].timeouts + 1 >= MaxTimeouts)
        BY <3>1, <3>2, <4>2 DEF RecvFits
      <4>. QED  BY <4>1, <4>2
    <3>. QED  BY <3>3, <3>4 DEF RecvType
  <2>. HIDE DEF c
  <2>. QED  BY <1>0, <1>4, <2>1, <2>2, RecvGoesOnType DEF NoteTimeout, CountFits
<1>5. CASE CountStep(r)
  BY <1>5, CountStepType, TasksAre
<1>. QED  BY <1>1, <1>2, <1>3, <1>4, <1>5 DEF ReceiverStep

\* The types hold at the start.
LEMMA TypeInit == ASSUME Init PROVE VfbType
<1>1. QueueType
  BY VfbAssumption DEF Init, QueueType, ListFits
<1>2. 0 \in 0 .. 2^16 - 1
  <2>1. \A n \in Nat : n > 0 => 0 \in 0 .. n - 1
    OBVIOUS
  <2>. QED  BY <2>1, Sixteen
<1>3. FrameType
  BY <1>2 DEF Init, FrameType
<1>4. TaskType
  BY <1>2, VfbAssumption DEF Init, TaskType, SendType, SendFits, RecvType, RecvFits,
     CountType, CountFits, NoCount
<1>. QED  BY <1>1, <1>3, <1>4 DEF VfbType

\* Every step keeps the types.
LEMMA TypeInductive == ASSUME VfbType, FewReceivers, [Next]_vars PROVE VfbType'
<1>1. CASE UNCHANGED vars
  BY <1>1 DEF vars, VfbType, QueueType, FrameType, TaskType, ListFits, SendFits, RecvFits, CountFits
<1>2. CASE Next
  BY <1>2, SenderType, SubscribeType, ReceiverType DEF Next
<1>. QED  BY <1>1, <1>2

\* The strengthened types give the type invariant.
LEMMA TypeImplies == ASSUME VfbType PROVE TypeOK
<1>1. \A e \in Events : Entries(queue_list[e]) \subseteq Receivers
  BY ElementOfSeq DEF VfbType, QueueType, Entries
<1>2. \A r \in Receivers : Entries(queue[r]) \subseteq Copies /\ Len(queue[r]) <= QueueNum
  BY ElementOfSeq DEF VfbType, QueueType, Entries
<1>3. \A s \in Senders : send[s].failures <= send[s].i
  <2>. SUFFICES ASSUME NEW s \in Senders PROVE send[s].failures <= send[s].i
    OBVIOUS
  <2>. QED  BY DEF VfbType, TaskType, SendType, SendFits
<1>. QED  BY <1>1, <1>2, <1>3 DEF TypeOK, VfbType, FrameType, TaskType, RecvType, RecvFits, CountType

\* The frames, queues and counters of the bus stay within their types: no queue gets longer
\* than queue_num, and use_cnt never needs more than its 16 bits.
THEOREM TypeCorrect == ASSUME FewReceivers PROVE Spec => []TypeOK
<1>. USE DEF FewReceivers
<1>1. Init => VfbType
  BY TypeInit
<1>2. VfbType /\ [Next]_vars => VfbType'
  BY TypeInductive
<1>3. VfbType => TypeOK
  BY TypeImplies
<1>. QED  BY <1>1, <1>2, <1>3, PTL DEF Spec
-----------------------------------------------------------------------------
(***************************************************************************)
(* Order.  What a receiver has still to get from a send is newer than      *)
(* anything it has or has in its queue.                                    *)
(***************************************************************************)
InOrder(r) ==
    \A i \in 1 .. Len(queue[r]) :
        LET m == queue[r][i].msg
        IN /\ seen[r][m.from] < m.number
           /\ \A j \in 1 .. i - 1 : queue[r][j].msg.from = m.from =>
                                        queue[r][j].msg.number < m.number

\* All that receiver r has of sender s is older than message n.
Below(r, s, n) ==
    /\ seen[r][s] < n
    /\ \A i \in 1 .. Len(queue[r]) : queue[r][i].msg.from = s => queue[r][i].msg.number < n

\* The items of the list before that of the send have its message, the others lack it.
Progress(s) ==
    send[s].pc # "idle" =>
        \A k \in 1 .. Len(List(s)) :
            IF k < send[s].item THEN Reached(List(s)[k], send[s].msg)
                                ELSE Below(List(s)[k], s, send[s].sent)

OrderKept ==
    /\ \A r \in Receivers : InOrder(r)
    /\ \A r \in Receivers, s \in Senders : Below(r, s, send[s].sent + 1)
    /\ \A r \in Receivers, s \in Senders : recv[r].pc = "new" => Below(r, s, 1)
    /\ \A s \in Senders : Progress(s)

\* What a queue holds are copies of messages of known senders.
LEMMA CopyIs ==
    ASSUME VfbType, NEW r \in Receivers
    PROVE  /\ queue[r] \in Seq(Copies) /\ Len(queue[r]) \in Nat
           /\ \A s \in Senders : seen[r][s] \in Nat
           /\ \A i \in 1 .. Len(queue[r]) :
                 /\ queue[r][i] \in Copies /\ queue[r][i].msg \in Messages
                 /\ queue[r][i].msg.from \in Senders /\ queue[r][i].msg.number \in Nat
<1>1. queue[r] \in Seq(Copies) /\ \A s \in Senders : seen[r][s] \in Nat
  BY DEF VfbType, QueueType, TaskType
<1>2. Len(queue[r]) \in Nat
  BY <1>1, LenProperties
<1>3. ASSUME NEW i \in 1 .. Len(queue[r])
      PROVE  /\ queue[r][i] \in Copies /\ queue[r][i].msg \in Messages
             /\ queue[r][i].msg.from \in Senders /\ queue[r][i].msg.number \in Nat
  <2>1. queue[r][i] \in Copies
    BY <1>1, ElementOfSeq
  <2>2. queue[r][i].msg \in Messages
    BY <2>1 DEF Copies
  <2>. QED  BY <2>1, <2>2, MessageFields
<1>. QED  BY <1>1, <1>2, <1>3

\* What a message put into a queue changes.
LEMMA QueueGrows ==
    ASSUME VfbType, NEW r \in Receivers, NEW x \in Copies, InOrder(r),
           Below(r, x.msg.from, x.msg.number),
           queue' = [queue EXCEPT ![r] = Append(@, x)], UNCHANGED seen
    PROVE  /\ \A y \in Receivers : InOrder(y) => InOrder(y)'
           /\ \A y \in Receivers, s \in Senders, n \in Nat :
                 Below(y, s, n) /\ (y = r /\ s = x.msg.from => x.msg.number < n) => Below(y, s, n)'
           /\ \A y \in Receivers, m \in Messages : Reached(y, m) => Reached(y, m)'
           /\ Reached(r, x.msg)'
<1>. DEFINE q == queue[r]   n == Len(q)   a == Append(q, x)
<1>1. /\ q \in Seq(Copies) /\ n \in Nat
      /\ \A i \in 1 .. n : q[i].msg.from \in Senders /\ q[i].msg.number \in Nat
  BY CopyIs
<1>2. /\ x.msg \in Messages /\ x.msg.from \in Senders /\ x.msg.number \in Nat
      /\ seen[r][x.msg.from] \in Nat
  BY MessageFields, CopyIs DEF Copies
<1>3. Len(a) = n + 1 /\ a[n + 1] = x /\ \A i \in 1 .. n : a[i] = q[i]
  BY <1>1, AppendProperties
<1>4. queue'[r] = a /\ \A y \in Receivers : y # r => queue'[y] = queue[y]
  BY DEF VfbType, QueueType
<1>5. \A i \in 1 .. n + 1 : i = n + 1 \/ i \in 1 .. n
  BY <1>1
<1>6. n + 1 \in 1 .. n + 1 /\ (n + 1) - 1 = n /\ \A i \in 1 .. n : i \in 1 .. n + 1 /\ 1 .. i - 1 \subseteq 1 .. n
  BY <1>1
<1>7. InOrder(r)'
  <2>1. ASSUME NEW i \in 1 .. n + 1
        PROVE  /\ seen[r][a[i].msg.from] < a[i].msg.number
               /\ \A j \in 1 .. i - 1 : a[j].msg.from = a[i].msg.from => a[j].msg.number < a[i].msg.number
    <3>1. CASE i = n + 1
      <4>1. a[i] = x /\ i - 1 = n
        BY <1>1, <1>3, <3>1
      <4>2. seen[r][x.msg.from] < x.msg.number
        BY DEF Below
      <4>3. \A j \in 1 .. n : q[j].msg.from = x.msg.from => q[j].msg.number < x.msg.number
        BY DEF Below
      <4>. HIDE DEF a, q, n
      <4>. QED  BY <1>3, <4>1, <4>2, <4>3
    <3>2. CASE i \in 1 .. n
      <4>1. /\ seen[r][q[i].msg.from] < q[i].msg.number
            /\ \A j \in 1 .. i - 1 : q[j].msg.from = q[i].msg.from => q[j].msg.number < q[i].msg.number
        BY <3>2 DEF InOrder
      <4>. HIDE DEF a, q, n
      <4>. QED  BY <1>3, <1>6, <3>2, <4>1
    <3>. QED  BY <1>5, <3>1, <3>2
  <2>. HIDE DEF a, q, n
  <2>. QED  BY <1>3, <1>4, <2>1, SMTT(30) DEF InOrder
<1>8. ASSUME NEW y \in Receivers, InOrder(y) PROVE InOrder(y)'
  <2>1. CASE y = r
    BY <1>7, <2>1
  <2>2. CASE y # r
    BY <1>4, <1>8, <2>2 DEF InOrder
  <2>. QED  BY <2>1, <2>2
<1>9. ASSUME NEW y \in Receivers, NEW s \in Senders, NEW k \in Nat, Below(y, s, k),
             y = r /\ s = x.msg.from => x.msg.number < k
      PROVE  Below(y, s, k)'
  <2>1. CASE y = r
    <3>1. seen[r][s] < k /\ \A i \in 1 .. n : q[i].msg.from = s => q[i].msg.number < k
      BY <1>9, <2>1 DEF Below
    <3>2. \A i \in 1 .. n + 1 : a[i].msg.from = s => a[i].msg.number < k
      <4>. HIDE DEF a, q, n
      <4>. QED  BY <1>3, <1>5, <1>9, <2>1, <3>1
    <3>. HIDE DEF a, q, n
    <3>. QED  BY <1>3, <1>4, <2>1, <3>1, <3>2, SMTT(30) DEF Below
  <2>2. CASE y # r
    BY <1>4, <1>9, <2>2 DEF Below
  <2>. QED  BY <2>1, <2>2
<1>10. Entries(q) \subseteq Entries(a) /\ x \in Entries(a)
  <2>. HIDE DEF a, q, n
  <2>1. \A i \in 1 .. n : i \in 1 .. Len(a) /\ a[i] = q[i]
    BY <1>3, <1>6
  <2>2. n + 1 \in 1 .. Len(a) /\ a[n + 1] = x
    BY <1>3, <1>6
  <2>. QED  BY <2>1, <2>2 DEF Entries, n
<1>11. ASSUME NEW y \in Receivers, NEW m \in Messages, Reached(y, m) PROVE Reached(y, m)'
  <2>1. Entries(queue[y]) \subseteq Entries(queue'[y])
    BY <1>4, <1>10
  <2>. QED  BY <1>11, <2>1 DEF Reached, Entries
<1>12. Reached(r, x.msg)'
  <2>1. x \in Entries(queue'[r])
    BY <1>4, <1>10
  <2>. QED  BY <2>1 DEF Reached, Entries
<1>. QED  BY <1>8, <1>9, <1>11, <1>12

\* What a message taken out of a queue changes.
LEMMA QueueTakes ==
    ASSUME VfbType, NEW r \in Receivers, queue[r] # <<>>, InOrder(r),
           queue' = [queue EXCEPT ![r] = Tail(@)],
           seen' = [seen EXCEPT ![r][Head(queue[r]).msg.from] = Head(queue[r]).msg.number]
    PROVE  /\ \A y \in Receivers : InOrder(y) => InOrder(y)'
           /\ \A y \in Receivers, s \in Senders, n \in Nat : Below(y, s, n) => Below(y, s, n)'
           /\ \A y \in Receivers, m \in Messages : Reached(y, m) => Reached(y, m)'
<1>. DEFINE q == queue[r]   n == Len(q)   a == Tail(q)   h == Head(q).msg
<1>1. /\ q \in Seq(Copies) /\ n \in Nat \ {0} /\ Head(q) = q[1]
      /\ \A i \in 1 .. n : q[i].msg.from \in Senders /\ q[i].msg.number \in Nat
  <2>1. q \in Seq(Copies) /\ \A i \in 1 .. n : q[i].msg.from \in Senders /\ q[i].msg.number \in Nat
    BY CopyIs
  <2>. QED  BY <2>1, EmptySeq
<1>2. Len(a) = n - 1 /\ \A i \in 1 .. n - 1 : a[i] = q[i + 1]
  BY <1>1, HeadTailProperties
<1>3. 1 \in 1 .. n /\ \A i \in 1 .. n - 1 : i + 1 \in 1 .. n /\ 1 \in 1 .. (i + 1) - 1
  BY <1>1
<1>4. /\ queue'[r] = a /\ \A y \in Receivers : y # r => queue'[y] = queue[y]
      /\ \A y \in Receivers : y # r => seen'[y] = seen[y]
      /\ \A s \in Senders : seen'[r][s] = IF s = h.from THEN h.number ELSE seen[r][s]
  BY DEF VfbType, QueueType, TaskType
<1>5. h = q[1].msg /\ h.from \in Senders /\ h.number \in Nat /\ seen[r][h.from] < h.number
  <2>1. h = q[1].msg /\ h.from \in Senders /\ h.number \in Nat
    BY <1>1, <1>3
  <2>2. seen[r][q[1].msg.from] < q[1].msg.number
    BY <1>3 DEF InOrder
  <2>. QED  BY <2>1, <2>2
<1>6. InOrder(r)'
  <2>1. ASSUME NEW i \in 1 .. n - 1
        PROVE  /\ seen'[r][a[i].msg.from] < a[i].msg.number
               /\ \A j \in 1 .. i - 1 : a[j].msg.from = a[i].msg.from => a[j].msg.number < a[i].msg.number
    <3>1. /\ seen[r][q[i + 1].msg.from] < q[i + 1].msg.number
          /\ \A j \in 1 .. (i + 1) - 1 : q[j].msg.from = q[i + 1].msg.from => q[j].msg.number < q[i + 1].msg.number
      BY <1>3 DEF InOrder
    <3>2. a[i] = q[i + 1] /\ q[i + 1].msg.from \in Senders
      BY <1>1, <1>2, <1>3
    <3>3. seen'[r][a[i].msg.from] < a[i].msg.number
      <4>1. CASE a[i].msg.from = h.from
        <5>1. q[1].msg.number < q[i + 1].msg.number
          BY <1>3, <1>5, <3>1, <3>2, <4>1
        <5>. HIDE DEF a, q, n, h
        <5>. QED  BY <1>4, <1>5, <3>2, <4>1, <5>1
      <4>2. CASE a[i].msg.from # h.from
        <5>. HIDE DEF a, q, n, h
        <5>. QED  BY <1>4, <3>1, <3>2, <4>2
      <4>. QED  BY <4>1, <4>2
    <3>4. ASSUME NEW j \in 1 .. i - 1, a[j].msg.from = a[i].msg.from PROVE a[j].msg.number < a[i].msg.number
      <4>1. j \in 1 .. n - 1 /\ j + 1 \in 1 .. (i + 1) - 1
        BY <1>1
      <4>. HIDE DEF a, q, n
      <4>. QED  BY <1>2, <3>1, <3>2, <3>4, <4>1
    <3>. QED  BY <3>3, <3>4
  <2>. HIDE DEF a, q, n
  <2>. QED  BY <1>2, <1>4, <2>1, SMTT(30) DEF InOrder
<1>7. ASSUME NEW y \in Receivers, InOrder(y) PROVE InOrder(y)'
  <2>1. CASE y = r
    BY <1>6, <2>1
  <2>2. CASE y # r
    BY <1>4, <1>7, <2>2 DEF InOrder
  <2>. QED  BY <2>1, <2>2
<1>8. ASSUME NEW y \in Receivers, NEW s \in Senders, NEW k \in Nat, Below(y, s, k) PROVE Below(y, s, k)'
  <2>1. CASE y = r
    <3>1. seen[r][s] < k /\ \A i \in 1 .. n : q[i].msg.from = s => q[i].msg.number < k
      BY <1>8, <2>1 DEF Below
    <3>2. \A i \in 1 .. n - 1 : a[i].msg.from = s => a[i].msg.number < k
      <4>. HIDE DEF a, q, n
      <4>. QED  BY <1>2, <1>3, <3>1
    <3>3. seen'[r][s] < k
      <4>. HIDE DEF a, q, n, h
      <4>. QED  BY <1>3, <1>4, <1>5, <3>1
    <3>. HIDE DEF a, q, n
    <3>. QED  BY <1>2, <1>4, <2>1, <3>2, <3>3 DEF Below
  <2>2. CASE y # r
    BY <1>4, <1>8, <2>2 DEF Below
  <2>. QED  BY <2>1, <2>2
<1>9. ASSUME NEW y \in Receivers, NEW m \in Messages, Reached(y, m) PROVE Reached(y, m)'
  <2>1. CASE y = r
    <3>0. m.from \in Senders /\ m.number \in Nat /\ \A s \in Senders : seen[r][s] \in Nat
      BY MessageFields, CopyIs
    <3>1. CASE seen[r][m.from] >= m.number
      <4>1. seen'[r][m.from] >= m.number
        <5>. HIDE DEF a, q, n, h
        <5>. QED  BY <1>4, <1>5, <3>0, <3>1
      <4>. QED  BY <2>1, <4>1 DEF Reached
    <3>2. CASE \E c \in Entries(q) : c.msg = m
      <4>1. PICK i \in 1 .. n : q[i].msg = m
        BY <3>2 DEF Entries
      <4>2. CASE i = 1
        <5>1. seen'[r][m.from] >= m.number
          <6>. HIDE DEF a, q, n, h
          <6>. QED  BY <1>4, <1>5, <3>0, <4>1, <4>2
        <5>. QED  BY <2>1, <5>1 DEF Reached
      <4>3. CASE i # 1
        <5>1. i - 1 \in 1 .. n - 1 /\ (i - 1) + 1 = i
          BY <1>1, <4>3
        <5>2. a[i - 1] \in Entries(a) /\ a[i - 1].msg = m
          <6>. HIDE DEF a, q, n
          <6>. QED  BY <1>2, <4>1, <5>1 DEF Entries
        <5>3. \E c \in Entries(queue'[r]) : c.msg = m
          <6>. HIDE DEF a
          <6>. QED  BY <1>4, <5>2
        <5>. QED  BY <2>1, <5>3 DEF Reached, Entries
      <4>. QED  BY <4>2, <4>3
    <3>. QED  BY <1>9, <2>1, <3>1, <3>2 DEF Reached
  <2>2. CASE y # r
    BY <1>4, <1>9, <2>2 DEF Reached, Entries
  <2>. QED  BY <2>1, <2>2
<1>. QED  BY <1>7, <1>8, <1>9
\* Order is kept by whatever leaves the queues and what was seen alone.
LEMMA QueuesStay ==
    ASSUME UNCHANGED <<queue, seen>>
    PROVE  /\ \A y \in Receivers : InOrder(y) => InOrder(y)'
           /\ \A y \in Receivers, s \in Senders, n \in Nat : Below(y, s, n) => Below(y, s, n)'
           /\ \A y \in Receivers, m \in Messages : Reached(y, m) => Reached(y, m)'
BY DEF InOrder, Below, Reached, Entries

\* What a step leaves of a send that neither moves on in its list nor ends.
LEMMA ProgressCarried ==
    ASSUME VfbType, VfbType', NEW s \in Senders, Progress(s), UNCHANGED queue_list,
           \A y \in Receivers, n \in Nat : Below(y, s, n) => Below(y, s, n)',
           \A y \in Receivers, m \in Messages : Reached(y, m) => Reached(y, m)',
           send'[s].sent = send[s].sent,
           send'[s].pc # "idle" => /\ send[s].pc # "idle" /\ send'[s].item = send[s].item
                                   /\ send'[s].msg = send[s].msg
    PROVE  Progress(s)'
<1>. SUFFICES ASSUME send'[s].pc # "idle" PROVE Progress(s)'
  BY DEF Progress
<1>1. /\ send[s].pc # "idle" /\ List(s)' = List(s) /\ List(s) \in Seq(Receivers)
      /\ send[s].msg \in Messages /\ send[s].sent \in Nat
  BY ItemIs DEF List, VfbType, TaskType, SendType
<1>2. ASSUME NEW k \in 1 .. Len(List(s))
      PROVE  IF k < send[s].item THEN Reached(List(s)[k], send[s].msg)'
                                 ELSE Below(List(s)[k], s, send[s].sent)'
  <2>1. PICK y \in Receivers : y = List(s)[k]
    BY <1>1, ElementOfSeq
  <2>2. PICK m \in Messages, n \in Nat : m = send[s].msg /\ n = send[s].sent
    BY <1>1
  <2>3. CASE k < send[s].item
    <3>1. Reached(y, m)
      BY <1>1, <2>1, <2>2, <2>3 DEF Progress
    <3>2. Reached(y, m)'
      BY <3>1
    <3>3. y = List(s)'[k] /\ m = send'[s].msg
      BY <1>1, <2>1, <2>2
    <3>. QED  BY <2>3, <3>2, <3>3 DEF Reached
  <2>4. CASE ~(k < send[s].item)
    <3>1. Below(y, s, n)
      BY <1>1, <2>1, <2>2, <2>4 DEF Progress
    <3>2. Below(y, s, n)'
      BY <3>1
    <3>3. y = List(s)'[k] /\ n = send'[s].sent
      BY <1>1, <2>1, <2>2
    <3>. QED  BY <2>4, <3>2, <3>3 DEF Below
  <2>. QED  BY <2>3, <2>4
<1>. QED  BY <1>1, <1>2 DEF Progress

\* A step that disturbs no queue's order and advances no send keeps OrderKept.
LEMMA OrderCarried ==
    ASSUME VfbType, VfbType', OrderKept, UNCHANGED queue_list,
           \A y \in Receivers : InOrder(y) => InOrder(y)',
           \A y \in Receivers, s \in Senders, n \in Nat : Below(y, s, n) => Below(y, s, n)',
           \A y \in Receivers, m \in Messages : Reached(y, m) => Reached(y, m)',
           \A y \in Receivers : recv'[y].pc = "new" => recv[y].pc = "new",
           \A s \in Senders : /\ send'[s].sent = send[s].sent
                              /\ send'[s].pc # "idle" => /\ send[s].pc # "idle"
                                                         /\ send'[s].item = send[s].item
                                                         /\ send'[s].msg = send[s].msg
    PROVE  OrderKept'
<1>1. ASSUME NEW y \in Receivers, NEW s \in Senders
      PROVE  Below(y, s, send[s].sent + 1)' /\ (recv'[y].pc = "new" => Below(y, s, 1)')
  <2>1. send[s].sent + 1 \in Nat
    BY DEF VfbType, TaskType, SendType
  <2>2. PICK n \in Nat : n = send[s].sent + 1
    BY <2>1
  <2>3. Below(y, s, n)
    BY <2>2 DEF OrderKept
  <2>4. Below(y, s, n)'
    BY <2>3
  <2>5. n = send'[s].sent + 1
    BY <2>2
  <2>6. recv[y].pc = "new" => Below(y, s, 1)
    BY DEF OrderKept
  <2>. QED  BY <2>4, <2>5, <2>6 DEF Below
<1>2. ASSUME NEW s \in Senders PROVE Progress(s)'
  BY ProgressCarried DEF OrderKept
<1>. QED  BY <1>1, <1>2 DEF OrderKept

\* A message that is sent last is newer than all those of its sender.
LEMMA BeginSendOrder ==
    ASSUME VfbType, VfbType', OrderKept, NEW s \in Senders, BeginSend(s) PROVE OrderKept'
<1>1. UNCHANGED <<queue_list, queue, recv, count, seen>> /\ send[s].sent \in Nat
  BY DEF BeginSend, VfbType, TaskType, SendType
<1>2. /\ send'[s].sent = send[s].sent + 1 /\ send'[s].item = 1
      /\ \A u \in Senders : u # s => send'[u] = send[u]
  BY DEF BeginSend, VfbType, TaskType
<1>3. ASSUME NEW y \in Receivers, NEW u \in Senders
      PROVE  Below(y, u, send[u].sent + 1)' /\ (recv'[y].pc = "new" => Below(y, u, 1)')
  <2>1. send[u].sent \in Nat /\ send'[u].sent \in Nat /\ send'[u].sent >= send[u].sent
    BY <1>1, <1>2 DEF VfbType, TaskType, SendType
  <2>2. /\ Below(y, u, send[u].sent + 1) /\ (recv[y].pc = "new" => Below(y, u, 1))
        /\ \A r \in Receivers : Len(queue[r]) \in Nat
    BY CopyIs DEF OrderKept
  <2>3. \A i \in 1 .. Len(queue[y]) : queue[y][i].msg.number \in Nat
    BY CopyIs
  <2>4. \A v \in Nat : \A a, b \in Nat : b >= a /\ v < a + 1 => v < b + 1
    OBVIOUS
  <2>5. seen[y][u] \in Nat
    BY CopyIs
  <2>. QED  BY <1>1, <2>1, <2>2, <2>3, <2>4, <2>5 DEF Below
<1>4. ASSUME NEW u \in Senders PROVE Progress(u)'
  <2>1. CASE u = s
    <3>1. send'[s].pc # "idle"
      BY DEF BeginSend, VfbType, TaskType
    <3>2. List(s)' \in Seq(Receivers) /\ Len(List(s)') \in Nat
      <4>1. send'[s].msg.event \in Events
        BY DEF BeginSend, VfbType, TaskType
      <4>2. List(s)' \in Seq(Receivers)
        BY <1>1, <4>1 DEF List, VfbType, QueueType
      <4>. QED  BY <4>2, LenProperties
    <3>3. ASSUME NEW k \in 1 .. Len(List(s)') PROVE ~(k < send'[s].item) /\ Below(List(s)[k], s, send[s].sent)'
      <4>1. ~(k < send'[s].item)
        BY <1>2, <3>2
      <4>2. PICK y \in Receivers : y = List(s)'[k]
        BY <3>2, ElementOfSeq
      <4>3. Below(y, s, send[s].sent + 1)
        BY DEF OrderKept
      <4>. QED  BY <1>1, <1>2, <4>1, <4>2, <4>3 DEF Below
    <3>. QED  BY <2>1, <3>3 DEF Progress
  <2>2. CASE u # s
    BY <1>1, <1>2, <2>2, QueuesStay, ProgressCarried DEF OrderKept
  <2>. QED  BY <2>1, <2>2
<1>. QED  BY <1>1, <1>3, <1>4, QueuesStay DEF OrderKept

\* A copy enters a queue behind all earlier messages of its sender.
LEMMA SendQueueOrder ==
    ASSUME VfbType, VfbType', OrderKept, NEW s \in Senders, SendQueue(s) PROVE OrderKept'
<1>1. /\ UNCHANGED <<queue_list, heap, content, use_cnt, recv, count, seen>>
      /\ send[s].pc # "idle" /\ send[s].i < Len(List(s))
  BY DEF SendQueue, Sending
<1>2. PICK p \in 1 .. Len(List(s)) : p = send[s].item
  BY <1>1, ItemIs
<1>3. List(s) \in Seq(Receivers) /\ Len(List(s)) \in Nat /\ send[s].msg \in Messages /\ send[s].frame \in Frames
  BY <1>1, ItemIs
<1>4. PICK r \in Receivers : r = List(s)[p]
  BY <1>3, ElementOfSeq
<1>5. PICK x \in Copies : x = [frame |-> send[s].frame, msg |-> send[s].msg]
  BY <1>3 DEF Copies
<1>6. x.msg = send[s].msg /\ x.msg.from = s /\ x.msg.number = send[s].sent /\ x.msg.number \in Nat
  BY <1>1, <1>3, <1>5, MessageFields DEF VfbType, TaskType, SendFits
<1>7. queue' = [queue EXCEPT ![r] = Append(@, x)]
  BY <1>2, <1>4, <1>5 DEF SendQueue
<1>8. /\ send'[s].item = p + 1 /\ send'[s].sent = send[s].sent /\ send'[s].msg = send[s].msg
      /\ \A u \in Senders : u # s => send'[u] = send[u]
  BY <1>2 DEF SendQueue, VfbType, TaskType, SendType
<1>9. InOrder(r) /\ Below(r, x.msg.from, x.msg.number)
  <2>1. Below(List(s)[p], s, send[s].sent)
    BY <1>1, <1>2 DEF OrderKept, Progress
  <2>. QED  BY <1>4, <1>6, <2>1 DEF OrderKept
<1>10. /\ \A y \in Receivers : InOrder(y) => InOrder(y)'
       /\ \A y \in Receivers, u \in Senders, n \in Nat :
             Below(y, u, n) /\ (y = r /\ u = x.msg.from => x.msg.number < n) => Below(y, u, n)'
       /\ \A y \in Receivers, m \in Messages : Reached(y, m) => Reached(y, m)'
       /\ Reached(r, x.msg)'
  BY <1>1, <1>7, <1>9, QueueGrows
<1>11. ASSUME NEW y \in Receivers, NEW u \in Senders
       PROVE  Below(y, u, send[u].sent + 1)' /\ (recv'[y].pc = "new" => Below(y, u, 1)')
  <2>1. send[u].sent + 1 \in Nat /\ send'[u].sent = send[u].sent
    <3>1. send[u].sent \in Nat
      BY DEF VfbType, TaskType, SendType
    <3>. QED  BY <1>8, <3>1
  <2>2. PICK n \in Nat : n = send[u].sent + 1
    BY <2>1
  <2>3. Below(y, u, n) /\ (u = s => x.msg.number < n)
    BY <1>6, <2>2 DEF OrderKept
  <2>4. Below(y, u, n)'
    BY <1>6, <1>10, <2>3
  <2>5. ASSUME recv[y].pc = "new" PROVE Below(y, u, 1)'
    <3>1. y # r
      BY <1>2, <1>3, <1>4, <2>5, ItemIs, <1>1 DEF VfbType, QueueType, ListFits, List
    <3>. QED  BY <1>10, <2>5, <3>1 DEF OrderKept
  <2>. QED  BY <1>1, <2>1, <2>2, <2>4, <2>5 DEF Below
<1>12. Progress(s)'
  <2>1. List(s)' = List(s)
    BY <1>1, <1>8 DEF List
  <2>2. ASSUME NEW k \in 1 .. Len(List(s))
        PROVE  IF k < p + 1 THEN Reached(List(s)[k], send[s].msg)'
                            ELSE Below(List(s)[k], s, send[s].sent)'
    <3>1. PICK y \in Receivers : y = List(s)[k]
      BY <1>3, ElementOfSeq
    <3>2. PICK n \in Nat : n = send[s].sent
      BY DEF VfbType, TaskType, SendType
    <3>3. y = List(s)'[k] /\ x.msg = send'[s].msg /\ n = send'[s].sent
      BY <1>6, <1>8, <2>1, <3>1, <3>2
    <3>4. CASE k < p
      <4>1. Reached(y, x.msg)
        BY <1>1, <1>2, <1>6, <3>1, <3>4 DEF OrderKept, Progress
      <4>2. Reached(y, x.msg)'
        BY <1>3, <1>6, <1>10, <4>1
      <4>. QED  BY <3>3, <3>4, <4>2 DEF Reached
    <3>5. CASE k = p
      <4>1. y = r /\ k < p + 1
        BY <1>3, <1>4, <3>1, <3>5
      <4>. QED  BY <1>10, <3>3, <4>1 DEF Reached
    <3>6. CASE k > p
      <4>1. Below(y, s, n)
        BY <1>1, <1>2, <3>1, <3>2, <3>6 DEF OrderKept, Progress
      <4>2. y # r
        <5>1. send[s].msg.event \in Events
          BY <1>1, ItemIs
        <5>2. List(s)[k] = List(s)[p] => k = p
          BY <5>1 DEF VfbType, QueueType, ListFits, List
        <5>3. k # p
          BY <1>3, <3>6
        <5>. QED  BY <1>4, <3>1, <5>2, <5>3
      <4>3. Below(y, s, n)'
        BY <1>10, <4>1, <4>2
      <4>. QED  BY <3>3, <3>6, <4>3 DEF Below
    <3>. QED  BY <3>4, <3>5, <3>6
  <2>. QED  BY <1>8, <2>1, <2>2 DEF Progress
<1>13. ASSUME NEW u \in Senders PROVE Progress(u)'
  <2>1. CASE u = s
    BY <1>12, <2>1
  <2>2. CASE u # s
    <3>1. \A y \in Receivers, n \in Nat : Below(y, u, n) => Below(y, u, n)'
      BY <1>6, <1>10, <2>2
    <3>. QED  BY <1>1, <1>8, <1>10, <2>2, <3>1, ProgressCarried DEF OrderKept
  <2>. QED  BY <2>1, <2>2
<1>. QED  BY <1>10, <1>11, <1>13 DEF OrderKept
\* A subscription starts with an empty queue, which is in order.
LEMMA SubscribeOrder ==
    ASSUME VfbType, VfbType', OrderKept, NEW r \in Receivers, Subscribe(r) PROVE OrderKept'
<1>1. /\ UNCHANGED <<heap, content, use_cnt, queue, send, count, seen>> /\ recv[r].pc = "new"
      /\ \A y \in Receivers : recv'[y].pc = "new" => recv[y].pc = "new"
  BY DEF Subscribe, VfbType, TaskType, RecvType
<1>2. PICK got \in SUBSET EventsOf[r] :
        queue_list' = [e \in Events |-> IF e \in got THEN Append(queue_list[e], r) ELSE queue_list[e]]
  BY DEF Subscribe
<1>3. ASSUME NEW s \in Senders PROVE Progress(s)'
  <2>. SUFFICES ASSUME send[s].pc # "idle" PROVE Progress(s)'
    BY <1>1 DEF Progress
  <2>1. /\ send[s].msg \in Messages /\ send[s].msg.event \in Events /\ List(s) \in Seq(Receivers)
        /\ Len(List(s)) \in Nat /\ send[s].item \in Nat \ {0}
        /\ send[s].i \in Nat /\ send[s].failures \in Nat
    BY ItemIs
  <2>2. send[s].i + 1 = send[s].item + send[s].failures /\ send[s].i <= Len(List(s))
    BY DEF VfbType, TaskType, SendFits, List
  <2>3. /\ send[s].msg.number = send[s].sent /\ send[s].msg.number \in Nat \ {0}
    BY <2>1, MessageFields DEF VfbType, TaskType, SendFits
  <2>. DEFINE q == List(s)   n == Len(q)   a == Append(q, r)
  <2>4. List(s)' = q \/ List(s)' = a
    BY <1>1, <1>2, <2>1 DEF List
  <2>5. /\ Len(a) = n + 1 /\ a[n + 1] = r /\ \A k \in 1 .. n : a[k] = q[k]
        /\ \A k \in 1 .. n + 1 : k \in 1 .. n \/ k = n + 1
    BY <2>1, AppendProperties
  <2>6. \A k \in 1 .. n : IF k < send[s].item THEN Reached(q[k], send[s].msg)
                                              ELSE Below(q[k], s, send[s].sent)
    BY DEF OrderKept, Progress
  <2>7. ASSUME NEW k \in 1 .. Len(List(s)')
        PROVE  IF k < send[s].item THEN Reached(List(s)'[k], send[s].msg)
                                   ELSE Below(List(s)'[k], s, send[s].sent)
    <3>1. CASE k \in 1 .. n /\ List(s)'[k] = q[k]
      BY <2>6, <3>1
    <3>2. CASE k = n + 1 /\ List(s)'[k] = r
      <4>1. ~(k < send[s].item)
        BY <2>1, <2>2, <3>2
      <4>2. Below(r, s, 1) /\ seen[r][s] \in Nat
        BY <1>1, CopyIs DEF OrderKept
      <4>3. \A i \in 1 .. Len(queue[r]) : queue[r][i].msg.number \in Nat
        BY CopyIs
      <4>4. Below(r, s, send[s].sent)
        <5>1. send[s].sent \in Nat \ {0}
          BY <2>3
        <5>. QED  BY <4>2, <4>3, <5>1 DEF Below
      <4>. QED  BY <3>2, <4>1, <4>4
    <3>3. (k \in 1 .. n /\ List(s)'[k] = q[k]) \/ (k = n + 1 /\ List(s)'[k] = r)
      <4>1. CASE List(s)' = q
        <5>. HIDE DEF q, a
        <5>. QED  BY <4>1 DEF n
      <4>2. CASE List(s)' = a
        <5>. HIDE DEF q, a, n
        <5>. QED  BY <2>5, <4>2
      <4>. QED  BY <2>4, <4>1, <4>2
    <3>. QED  BY <3>1, <3>2, <3>3
  <2>8. send' = send /\ queue' = queue /\ seen' = seen
    BY <1>1
  <2>. HIDE DEF q, a, n
  <2>. QED  BY <2>7, <2>8 DEF Progress, Below, Reached, Entries
<1>4. ASSUME NEW y \in Receivers, NEW s \in Senders
      PROVE  Below(y, s, send[s].sent + 1)' /\ (recv'[y].pc = "new" => Below(y, s, 1)')
  BY <1>1 DEF OrderKept, Below
<1>. QED  BY <1>1, <1>3, <1>4, QueuesStay DEF OrderKept

\* Every step keeps the order.
LEMMA OrderInductive ==
    ASSUME VfbType, VfbType', OrderKept, [Next]_vars PROVE OrderKept'
<1>. DEFINE Still == /\ UNCHANGED <<queue_list, queue, seen>>
                     /\ \A y \in Receivers : recv'[y].pc = "new" => recv[y].pc = "new"
                     /\ \A s \in Senders : /\ send'[s].sent = send[s].sent
                                           /\ send'[s].pc # "idle" => /\ send[s].pc # "idle"
                                                                      /\ send'[s].item = send[s].item
                                                                      /\ send'[s].msg = send[s].msg
<1>0. send \in [Senders -> SendType] /\ recv \in [Receivers -> RecvType]
  BY DEF VfbType, TaskType
<1>1. ASSUME Still PROVE OrderKept'
  BY <1>1, QueuesStay, OrderCarried
<1>2. CASE UNCHANGED vars
  BY <1>1, <1>2 DEF vars
<1>3. ASSUME NEW s \in Senders, SenderStep(s) PROVE OrderKept'
  <2>1. CASE QueueFull(s)
    <3>1. PICK l \in {"failed", "waiting"} : send' = [send EXCEPT ![s].pc = l]
      BY <2>1 DEF QueueFull
    <3>2. Still
      BY <1>0, <2>1, <3>1 DEF QueueFull, Sending, SendType
    <3>. QED  BY <1>1, <3>2
  <2>5. CASE WaitOver(s)
    <3>1. Still
      BY <1>0, <2>5 DEF WaitOver, Sending, SendType
    <3>. QED  BY <1>1, <3>1
  <2>4. CASE SendFails(s)
    <3>1. Still
      BY <1>0, <2>4 DEF SendFails, Sending, SendType
    <3>. QED  BY <1>1, <3>1
  <2>2. CASE EndSend(s)
    <3>1. Still
      BY <1>0, <2>2 DEF EndSend, SendType
    <3>. QED  BY <1>1, <3>1
  <2>3. CASE CountStep(s)
    BY <1>1, <2>3 DEF CountStep
  <2>. QED  BY <1>3, <2>1, <2>2, <2>3, <2>4, <2>5, BeginSendOrder, SendQueueOrder DEF SenderStep
<1>4. ASSUME NEW r \in Receivers, ReceiverStep(r) \/ WaitEnds(r) PROVE OrderKept'
  <2>1. CASE MsgReceive(r)
    <3>1. /\ queue[r] # <<>> /\ queue' = [queue EXCEPT ![r] = Tail(@)] /\ UNCHANGED <<queue_list, send>>
          /\ seen' = [seen EXCEPT ![r][Head(queue[r]).msg.from] = Head(queue[r]).msg.number]
          /\ \A y \in Receivers : recv'[y].pc = "new" => recv[y].pc = "new"
      BY <1>0, <2>1 DEF MsgReceive, RecvType
    <3>2. InOrder(r)
      BY DEF OrderKept
    <3>. QED  BY <3>1, <3>2, QueueTakes, OrderCarried
  <2>2. CASE CallbackReturns(r) \/ WaitEnds(r) \/ NoteTimeout(r)
    <3>1. Still
      BY <1>0, <2>2, SMTT(30) DEF CallbackReturns, WaitEnds, NoteTimeout, Receiving, RecvType
    <3>. QED  BY <1>1, <3>1
  <2>3. CASE CountStep(r)
    BY <1>1, <2>3 DEF CountStep
  <2>. QED  BY <1>4, <2>1, <2>2, <2>3 DEF ReceiverStep
<1>. QED  BY <1>2, <1>3, <1>4, SubscribeOrder DEF Next

\* The order holds at the start: nothing is queued and nothing was seen.
LEMMA OrderInit == ASSUME Init PROVE OrderKept
BY DEF Init, OrderKept, InOrder, Below, Progress

\* What a send that is over has missed.
LEMMA MissedIsFailures ==
    ASSUME VfbType, OrderKept, NEW s \in Senders, Sending(s, "loop"), send[s].i >= Len(List(s))
    PROVE  Cardinality({r \in Entries(List(s)) : ~Reached(r, send[s].msg)}) = send[s].failures
<1>. DEFINE q == List(s)   n == Len(q)   m == send[s].msg   p == send[s].item
            missed == {r \in Entries(q) : ~Reached(r, m)}
<1>1. /\ m \in Messages /\ m.event \in Events /\ q \in Seq(Receivers) /\ n \in Nat
      /\ p \in Nat \ {0} /\ send[s].i \in Nat /\ send[s].failures \in Nat
  BY ItemIs DEF Sending
<1>2. /\ send[s].i = n /\ n + 1 = p + send[s].failures /\ m.from = s /\ m.number = send[s].sent
      /\ m.number \in Nat
  <2>1. /\ send[s].i + 1 = p + send[s].failures /\ send[s].i <= n /\ m.from = s /\ m.number = send[s].sent
    BY DEF Sending, VfbType, TaskType, SendFits, List
  <2>. QED  BY <1>1, <2>1, MessageFields
<1>3. \A k \in 1 .. n : q[k] \in Receivers /\ \A j \in 1 .. n : q[k] = q[j] => k = j
  BY <1>1, ElementOfSeq, SMTT(30) DEF VfbType, QueueType, ListFits, List
<1>4. \A k \in 1 .. n : IF k < p THEN Reached(q[k], m) ELSE Below(q[k], s, m.number)
  BY <1>2 DEF OrderKept, Progress, Sending
<1>5. ASSUME NEW r \in Receivers, Below(r, s, m.number) PROVE ~Reached(r, m)
  <2>1. seen[r][m.from] \in Nat /\ seen[r][m.from] < m.number
    BY <1>2, <1>5, CopyIs DEF Below
  <2>2. ~(seen[r][m.from] >= m.number)
    BY <1>2, <2>1
  <2>3. \A i \in 1 .. Len(queue[r]) : queue[r][i].msg # m
    BY <1>2, <1>5 DEF Below
  <2>. QED  BY <2>2, <2>3 DEF Reached, Entries
<1>6. p .. n \subseteq 1 .. n /\ \A k \in 1 .. n : k \in p .. n <=> ~(k < p)
  BY <1>1
<1>7. missed = {q[k] : k \in p .. n}
  <2>. HIDE DEF q, n, m, p
  <2>. QED  BY <1>3, <1>4, <1>5, <1>6 DEF Entries, n
<1>. DEFINE F == [k \in p .. n |-> q[k]]
<1>8. F \in Bijection(p .. n, missed)
  <2>1. F \in [p .. n -> missed]
    <3>. HIDE DEF q, n, m, p, missed
    <3>. QED  BY <1>7
  <2>2. \A a, b \in p .. n : F[a] = F[b] => a = b
    <3>. HIDE DEF q, n, m, p, missed
    <3>. QED  BY <1>3, <1>6
  <2>3. \A r \in missed : \E k \in p .. n : F[k] = r
    <3>. HIDE DEF q, n, m, p, missed
    <3>. QED  BY <1>7
  <2>. HIDE DEF F, missed
  <2>. QED  BY <2>1, <2>2, <2>3, Fun_IsBij
<1>9. IsFiniteSet(p .. n) /\ Cardinality(p .. n) = send[s].failures
  <2>1. /\ p \in Int /\ n \in Int /\ n - p + 1 = send[s].failures
        /\ (p > n => send[s].failures = 0)
    BY <1>1, <1>2
  <2>. QED  BY <2>1, FS_Interval
<1>10. Cardinality(missed) = Cardinality(p .. n)
  <2>. HIDE DEF F, missed, p, n
  <2>. QED  BY <1>8, <1>9, FS_Bijection DEF ExistsBijection
<1>. QED  BY <1>9, <1>10

\* The order of queues gives the order of callbacks, and failed sends all the gaps.
LEMMA OrderImplies == ASSUME VfbType, OrderKept PROVE DeliveredInOrder /\ MissedByFailures
<1>1. DeliveredInOrder
  BY DEF OrderKept, InOrder, DeliveredInOrder
<1>. QED  BY <1>1, MissedIsFailures DEF MissedByFailures

\* However sends, failed tries, late subscriptions and receivers interleave: each receiver
\* gets the messages of each sender in the order they were sent, none of them twice.
THEOREM MessagesInOrder == ASSUME FewReceivers PROVE Spec => []DeliveredInOrder
<1>. USE DEF FewReceivers
<1>1. Init => VfbType /\ OrderKept
  BY TypeInit, OrderInit
<1>2. VfbType /\ OrderKept /\ [Next]_vars => VfbType' /\ OrderKept'
  BY TypeInductive, OrderInductive
<1>3. VfbType /\ OrderKept => DeliveredInOrder
  BY OrderImplies
<1>. QED  BY <1>1, <1>2, <1>3, PTL DEF Spec

\* A send that is over has missed as many of its event's subscribers as its tries failed.
THEOREM FailuresAreMisses == ASSUME FewReceivers PROVE Spec => []MissedByFailures
<1>. USE DEF FewReceivers
<1>1. Init => VfbType /\ OrderKept
  BY TypeInit, OrderInit
<1>2. VfbType /\ OrderKept /\ [Next]_vars => VfbType' /\ OrderKept'
  BY TypeInductive, OrderInductive
<1>3. VfbType /\ OrderKept => MissedByFailures
  BY OrderImplies
<1>. QED  BY <1>1, <1>2, <1>3, PTL DEF Spec
-----------------------------------------------------------------------------
(***************************************************************************)
(* Counting.  The uses of a frame are copies in queues, callbacks, counts  *)
(* not yet stored and queues not yet tried; every step moves one of them   *)
(* from one of these sets to another, or takes it out and counts it.       *)
(***************************************************************************)
Queued(f) == {p \in Receivers \X (1 .. QueueNum) :
                 p[2] <= Len(queue[p[1]]) /\ queue[p[1]][p[2]].frame = f}
Held(f)   == {r \in Receivers : Receiving(r, "callback") /\ recv[r].copy.frame = f}
Taken(f)  == {t \in Tasks : Counting(t, "store") /\ count[t].frame = f}
ToTry(f)  == {p \in Senders \X (1 .. Cardinality(Receivers)) :
                 send[p[1]].frame = f /\ send[p[1]].i < p[2] /\ p[2] <= Len(List(p[1]))}

\* The uses of a frame counted by kind, in this state and in the next.
LEMMA UsesAre ==
    ASSUME NEW f
    PROVE  /\ UsesOf(f) = Cardinality(Queued(f)) + Cardinality(Held(f)) + Cardinality(Taken(f))
                              + Cardinality(ToTry(f))
           /\ UsesOf(f)' = Cardinality(Queued(f)') + Cardinality(Held(f)') + Cardinality(Taken(f)')
                              + Cardinality(ToTry(f)')
BY DEF UsesOf, Queued, Held, Taken, ToTry

\* Each kind of use is finite in number.
LEMMA UsesFinite ==
    ASSUME NEW f
    PROVE  /\ IsFiniteSet(Queued(f)) /\ Cardinality(Queued(f)) \in Nat
           /\ IsFiniteSet(Held(f)) /\ Cardinality(Held(f)) \in Nat
           /\ IsFiniteSet(Taken(f)) /\ Cardinality(Taken(f)) \in Nat
           /\ IsFiniteSet(ToTry(f)) /\ Cardinality(ToTry(f)) \in Nat
           /\ IsFiniteSet(Queued(f)') /\ Cardinality(Queued(f)') \in Nat
           /\ IsFiniteSet(Held(f)') /\ Cardinality(Held(f)') \in Nat
           /\ IsFiniteSet(Taken(f)') /\ Cardinality(Taken(f)') \in Nat
           /\ IsFiniteSet(ToTry(f)') /\ Cardinality(ToTry(f)') \in Nat
<1>1. /\ IsFiniteSet(Tasks) /\ IsFiniteSet(Senders) /\ IsFiniteSet(Receivers)
      /\ Cardinality(Receivers) \in Nat
  BY VfbAssumption, TasksAre, FS_Subset, FS_CardinalityType
<1>2. IsFiniteSet(1 .. QueueNum) /\ IsFiniteSet(1 .. Cardinality(Receivers))
  BY <1>1, VfbAssumption, FS_Interval
<1>3. IsFiniteSet(Receivers \X (1 .. QueueNum)) /\ IsFiniteSet(Senders \X (1 .. Cardinality(Receivers)))
  BY <1>1, <1>2, FS_Product
<1>4. \A S, T : IsFiniteSet(S) /\ T \subseteq S => IsFiniteSet(T) /\ Cardinality(T) \in Nat
  BY FS_Subset, FS_CardinalityType
<1>5. /\ Queued(f) \subseteq Receivers \X (1 .. QueueNum) /\ Held(f) \subseteq Receivers
      /\ Taken(f) \subseteq Tasks /\ ToTry(f) \subseteq Senders \X (1 .. Cardinality(Receivers))
      /\ Queued(f)' \subseteq Receivers \X (1 .. QueueNum) /\ Held(f)' \subseteq Receivers
      /\ Taken(f)' \subseteq Tasks /\ ToTry(f)' \subseteq Senders \X (1 .. Cardinality(Receivers))
  BY DEF Queued, Held, Taken, ToTry
<1>. QED  BY <1>1, <1>3, <1>4, <1>5

\* A frame is in use exactly when its uses are not 0.
LEMMA UsesPositive ==
    ASSUME NEW f
    PROVE  /\ UsesOf(f) \in Nat
           /\ Queued(f) # {} \/ Held(f) # {} \/ Taken(f) # {} \/ ToTry(f) # {} <=> UsesOf(f) > 0
<1>1. \A S : IsFiniteSet(S) => (Cardinality(S) = 0 <=> S = {})
  BY FS_EmptySet
<1>2. \A a, b, c, d \in Nat : /\ a + b + c + d \in Nat
                              /\ a + b + c + d > 0 <=> a # 0 \/ b # 0 \/ c # 0 \/ d # 0
  OBVIOUS
<1>. QED  BY <1>1, <1>2, UsesAre, UsesFinite, SMTT(30)

\* One element more, one element less.
LEMMA OneMore ==
    ASSUME NEW S, IsFiniteSet(S), NEW x, x \notin S
    PROVE  IsFiniteSet(S \cup {x}) /\ Cardinality(S \cup {x}) = Cardinality(S) + 1
BY FS_AddElement

\* A set without one of its members has one less.
LEMMA OneLess ==
    ASSUME NEW S, IsFiniteSet(S), NEW x \in S
    PROVE  IsFiniteSet(S \ {x}) /\ Cardinality(S \ {x}) = Cardinality(S) - 1
BY FS_RemoveElement

\* A send that goes on to the next turn of its loop.
LEMMA ToTryLess ==
    ASSUME VfbType, UNCHANGED queue_list, NEW s \in Senders, send[s].pc # "idle",
           send[s].i < Len(List(s)), send'[s].i = send[s].i + 1, send'[s].frame = send[s].frame,
           send'[s].msg = send[s].msg, \A u \in Senders : u # s => send'[u] = send[u]
    PROVE  /\ \A g \in Frames : g # send[s].frame => ToTry(g)' = ToTry(g)
           /\ Cardinality(ToTry(send[s].frame)) > 0
           /\ \A g \in Frames : g = send[s].frame => Cardinality(ToTry(g)') = Cardinality(ToTry(g)) - 1
<1>1. /\ send[s].msg.event \in Events /\ Len(List(s)) \in Nat /\ send[s].i \in Nat
      /\ send[s].frame \in Frames
  BY ItemIs
<1>2. List(s)' = List(s) /\ \A u \in Senders : u # s => List(u)' = List(u)
  BY DEF List
<1>3. Len(List(s)) <= Cardinality(Receivers) /\ Cardinality(Receivers) \in Nat
  BY <1>1, ListIsShort DEF List
<1>. DEFINE x == <<s, send[s].i + 1>>
<1>4. send[s].i + 1 \in 1 .. Cardinality(Receivers) /\ send[s].i + 1 <= Len(List(s))
  BY <1>1, <1>3
<1>6. ASSUME NEW g \in Frames, g # send[s].frame PROVE ToTry(g)' = ToTry(g)
  <2>1. ASSUME NEW p \in Senders \X (1 .. Cardinality(Receivers)) PROVE p \in ToTry(g)' <=> p \in ToTry(g)
    <3>1. CASE p[1] = s
      BY <1>6, <3>1 DEF ToTry
    <3>2. CASE p[1] # s
      BY <1>2, <3>2 DEF ToTry
    <3>. QED  BY <3>1, <3>2
  <2>. QED  BY <2>1 DEF ToTry
<1>7. ASSUME NEW g \in Frames, g = send[s].frame PROVE ToTry(g)' = ToTry(g) \ {x}
  <2>1. ASSUME NEW p \in Senders \X (1 .. Cardinality(Receivers))
        PROVE  p \in ToTry(g)' <=> p \in ToTry(g) /\ p # x
    <3>1. CASE p[1] = s
      <4>1. p = <<s, p[2]>> /\ p[2] \in 1 .. Cardinality(Receivers)
        BY <3>1
      <4>2. p # x <=> p[2] # send[s].i + 1
        BY <4>1
      <4>3. send[s].i + 1 < p[2] <=> send[s].i < p[2] /\ p[2] # send[s].i + 1
        BY <1>1, <1>3, <4>1
      <4>. QED  BY <1>2, <1>7, <3>1, <4>2, <4>3 DEF ToTry
    <3>2. CASE p[1] # s
      BY <1>2, <3>2 DEF ToTry
    <3>. QED  BY <3>1, <3>2
  <2>. QED  BY <2>1 DEF ToTry
<1>8. PICK f \in Frames : f = send[s].frame
  BY <1>1
<1>9. IsFiniteSet(ToTry(f)) /\ x \in ToTry(f)
  <2>1. x \in ToTry(f)
    BY <1>1, <1>4, <1>8 DEF ToTry
  <2>. QED  BY <2>1, UsesFinite
<1>10. Cardinality(ToTry(f)) > 0
  <2>1. Cardinality(ToTry(f)) \in Nat /\ Cardinality(ToTry(f)) # 0
    BY <1>9, UsesFinite, FS_EmptySet
  <2>. QED  BY <2>1
<1>11. Cardinality(ToTry(f)') = Cardinality(ToTry(f)) - 1
  BY <1>7, <1>8, <1>9, OneLess
<1>. QED  BY <1>6, <1>8, <1>10, <1>11, ZenonT(30) DEF ToTry

\* The queues still to try are the same while lists and sends are.
LEMMA ToTrySame ==
    ASSUME UNCHANGED queue_list,
           \A u \in Senders : /\ send'[u].i = send[u].i /\ send'[u].frame = send[u].frame
                              /\ send'[u].msg = send[u].msg
    PROVE  \A g \in Frames : ToTry(g)' = ToTry(g)
<1>1. \A u \in Senders : List(u)' = List(u)
  BY DEF List
<1>. QED  BY <1>1 DEF ToTry

\* A copy that is put into a queue.
LEMMA QueuedMore ==
    ASSUME VfbType, NEW r \in Receivers, NEW x \in Copies, Len(queue[r]) < QueueNum,
           queue' = [queue EXCEPT ![r] = Append(@, x)]
    PROVE  \A g \in Frames : Cardinality(Queued(g)') =
                                 IF g = x.frame THEN Cardinality(Queued(g)) + 1 ELSE Cardinality(Queued(g))
<1>. DEFINE q == queue[r]   n == Len(q)   a == Append(q, x)   y == <<r, n + 1>>
<1>1. q \in Seq(Copies) /\ n \in Nat /\ n < QueueNum /\ QueueNum \in Nat
  BY CopyIs, VfbAssumption
<1>2. Len(a) = n + 1 /\ a[n + 1] = x /\ \A i \in 1 .. n : a[i] = q[i]
  BY <1>1, AppendProperties
<1>3. queue'[r] = a /\ \A u \in Receivers : u # r => queue'[u] = queue[u]
  BY DEF VfbType, QueueType
<1>4. n + 1 \in 1 .. QueueNum
  BY <1>1
<1>5. ASSUME NEW g \in Frames
      PROVE  /\ Queued(g)' = IF g = x.frame THEN Queued(g) \cup {y} ELSE Queued(g)
             /\ y \notin Queued(g)
  <2>1. ASSUME NEW p \in Receivers \X (1 .. QueueNum)
        PROVE  p \in Queued(g)' <=> p \in Queued(g) \/ (p = y /\ g = x.frame)
    <3>1. CASE p[1] = r
      <4>1. p = <<r, p[2]>> /\ p[2] \in 1 .. QueueNum
        BY <3>1
      <4>2. p = y <=> p[2] = n + 1
        BY <4>1
      <4>3. (p[2] <= n + 1 <=> p[2] <= n \/ p[2] = n + 1) /\ (p[2] <= n <=> p[2] \in 1 .. n) /\ ~(n + 1 <= n)
        BY <1>1, <4>1
      <4>4. p \in Queued(g)' <=> p[2] <= n + 1 /\ a[p[2]].frame = g
        <5>. HIDE DEF a
        <5>. QED  BY <1>2, <1>3, <3>1 DEF Queued
      <4>5. p \in Queued(g) <=> p[2] <= n /\ q[p[2]].frame = g
        BY <3>1 DEF Queued
      <4>. HIDE DEF a, q, n, y
      <4>. QED  BY <1>2, <4>2, <4>3, <4>4, <4>5
    <3>2. CASE p[1] # r
      BY <1>3, <3>2 DEF Queued
    <3>. QED  BY <3>1, <3>2
  <2>2. y \notin Queued(g)
    BY <1>1 DEF Queued
  <2>3. y \in Receivers \X (1 .. QueueNum)
    BY <1>4
  <2>. HIDE DEF y
  <2>. QED  BY <2>1, <2>2, <2>3 DEF Queued
<1>. HIDE DEF y
<1>. QED  BY <1>5, OneMore, UsesFinite

\* A copy that is taken out of a queue: the others move up.
LEMMA QueuedLess ==
    ASSUME VfbType, NEW r \in Receivers, queue[r] # <<>>, queue' = [queue EXCEPT ![r] = Tail(@)]
    PROVE  /\ \A g \in Frames : Cardinality(Queued(g)') =
                                 IF g = Head(queue[r]).frame THEN Cardinality(Queued(g)) - 1
                                 ELSE Cardinality(Queued(g))
           /\ \A g \in Frames : g = Head(queue[r]).frame => Cardinality(Queued(g)) > 0
<1>. DEFINE q == queue[r]   n == Len(q)   a == Tail(q)   y == <<r, 1>>
<1>1. q \in Seq(Copies) /\ n \in Nat \ {0} /\ n <= QueueNum /\ QueueNum \in Nat /\ Head(q) = q[1]
  <2>1. q \in Seq(Copies) /\ n <= QueueNum
    BY CopyIs DEF VfbType, QueueType
  <2>. QED  BY <2>1, EmptySeq, VfbAssumption
<1>2. Len(a) = n - 1 /\ \A i \in 1 .. n - 1 : a[i] = q[i + 1]
  BY <1>1, HeadTailProperties
<1>3. queue'[r] = a /\ \A u \in Receivers : u # r => queue'[u] = queue[u]
  BY DEF VfbType, QueueType
<1>4. y \in Receivers \X (1 .. QueueNum)
  BY <1>1
<1>5. ASSUME NEW g \in Frames PROVE y \in Queued(g) <=> g = Head(q).frame
  <2>1. y[1] = r /\ y[2] = 1 /\ 1 <= n
    BY <1>1
  <2>. HIDE DEF y
  <2>. QED  BY <1>1, <1>4, <2>1 DEF Queued
<1>6. ASSUME NEW g \in Frames
      PROVE  Cardinality(Queued(g)') = Cardinality(Queued(g) \ {y})
  <2>. DEFINE F == [p \in Queued(g)' |-> IF p[1] = r THEN <<r, p[2] + 1>> ELSE p]
              T == Queued(g) \ {y}
  <2>1. ASSUME NEW p \in Queued(g)' PROVE F[p] \in T
    <3>1. p \in Receivers \X (1 .. QueueNum)
      BY DEF Queued
    <3>2. CASE p[1] = r
      <4>1. p[2] \in 1 .. QueueNum /\ p[2] <= n - 1 /\ a[p[2]].frame = g
        <5>. HIDE DEF a
        <5>. QED  BY <1>2, <1>3, <3>1, <3>2 DEF Queued
      <4>2. p[2] \in 1 .. n - 1 /\ p[2] + 1 \in 1 .. QueueNum /\ p[2] + 1 <= n /\ p[2] + 1 # 1
        BY <1>1, <4>1
      <4>3. q[p[2] + 1].frame = g
        <5>. HIDE DEF a, q, n
        <5>. QED  BY <1>2, <4>1, <4>2
      <4>4. <<r, p[2] + 1>> \in Queued(g)
        BY <4>2, <4>3 DEF Queued
      <4>. QED  BY <3>2, <4>2, <4>4
    <3>3. CASE p[1] # r
      <4>1. p \in Queued(g) /\ p # y
        BY <1>3, <3>1, <3>3 DEF Queued
      <4>. QED  BY <3>3, <4>1
    <3>. QED  BY <3>2, <3>3
  <2>2. ASSUME NEW p \in Queued(g)', NEW u \in Queued(g)', F[p] = F[u] PROVE p = u
    <3>1. p \in Receivers \X (1 .. QueueNum) /\ u \in Receivers \X (1 .. QueueNum)
      BY DEF Queued
    <3>2. p = <<p[1], p[2]>> /\ u = <<u[1], u[2]>> /\ p[2] \in Nat /\ u[2] \in Nat
      BY <3>1
    <3>3. CASE p[1] = r /\ u[1] = r
      <4>1. p[2] + 1 = u[2] + 1
        BY <2>2, <3>3
      <4>. QED  BY <3>2, <3>3, <4>1
    <3>4. CASE ~(p[1] = r /\ u[1] = r)
      BY <2>2, <3>2, <3>4
    <3>. QED  BY <3>3, <3>4
  <2>3. ASSUME NEW u \in T PROVE \E p \in Queued(g)' : F[p] = u
    <3>1. u \in Receivers \X (1 .. QueueNum) /\ u \in Queued(g) /\ u # y
      BY DEF Queued
    <3>2. u = <<u[1], u[2]>> /\ u[2] \in 1 .. QueueNum
      BY <3>1
    <3>3. CASE u[1] = r
      <4>1. u[2] # 1 /\ u[2] <= n /\ q[u[2]].frame = g
        BY <3>1, <3>2, <3>3 DEF Queued
      <4>2. u[2] - 1 \in 1 .. n - 1 /\ u[2] - 1 \in 1 .. QueueNum /\ (u[2] - 1) + 1 = u[2] /\ u[2] - 1 <= n - 1
        BY <1>1, <3>2, <4>1
      <4>3. a[u[2] - 1].frame = g
        <5>. HIDE DEF a, q, n
        <5>. QED  BY <1>2, <4>1, <4>2
      <4>4. <<r, u[2] - 1>> \in Queued(g)'
        <5>. HIDE DEF a
        <5>. QED  BY <1>2, <1>3, <4>2, <4>3 DEF Queued
      <4>5. F[<<r, u[2] - 1>>] = u
        BY <3>2, <3>3, <4>2, <4>4
      <4>. QED  BY <4>4, <4>5
    <3>4. CASE u[1] # r
      <4>1. u \in Queued(g)'
        BY <1>3, <3>1, <3>4 DEF Queued
      <4>. QED  BY <3>4, <4>1
    <3>. QED  BY <3>3, <3>4
  <2>4. F \in Bijection(Queued(g)', T)
    <3>1. F \in [Queued(g)' -> T]
      <4>. DEFINE H(p) == IF p[1] = r THEN <<r, p[2] + 1>> ELSE p
      <4>1. \A p \in Queued(g)' : H(p) \in T
        BY <2>1
      <4>. HIDE DEF H, T
      <4>2. [p \in Queued(g)' |-> H(p)] \in [Queued(g)' -> T]
        BY <4>1
      <4>. QED  BY <4>2 DEF H
    <3>. HIDE DEF F, T
    <3>. QED  BY <2>2, <2>3, <3>1, Fun_IsBij
  <2>5. IsFiniteSet(Queued(g)')
    BY UsesFinite
  <2>. HIDE DEF F, T
  <2>6. Cardinality(T) = Cardinality(Queued(g)')
    BY <2>4, <2>5, FS_Bijection DEF ExistsBijection
  <2>. QED  BY <2>6 DEF T
<1>7. ASSUME NEW g \in Frames, y \in Queued(g)
      PROVE  Cardinality(Queued(g) \ {y}) = Cardinality(Queued(g)) - 1 /\ Cardinality(Queued(g)) > 0
  <2>1. Cardinality(Queued(g)) \in Nat /\ Cardinality(Queued(g)) # 0 /\ IsFiniteSet(Queued(g))
    BY <1>7, UsesFinite, FS_EmptySet
  <2>. HIDE DEF y
  <2>. QED  BY <1>7, <2>1, OneLess
<1>8. ASSUME NEW g \in Frames, y \notin Queued(g) PROVE Queued(g) \ {y} = Queued(g)
  BY <1>8
<1>. HIDE DEF y
<1>. QED  BY <1>5, <1>6, <1>7, <1>8
\* The callbacks holding a frame are the same while receivers stay in theirs.
LEMMA HeldSame ==
    ASSUME \A r \in Receivers :
              /\ Receiving(r, "callback")' <=> Receiving(r, "callback")
              /\ Receiving(r, "callback") => recv'[r].copy = recv[r].copy
    PROVE  \A g \in Frames : Held(g)' = Held(g)
BY DEF Held

\* The counts in progress on a frame are the same while tasks stay in theirs.
LEMMA TakenSame ==
    ASSUME \A t \in Tasks : /\ Counting(t, "store")' <=> Counting(t, "store")
                            /\ Counting(t, "store") => count'[t].frame = count[t].frame
    PROVE  \A g \in Frames : Taken(g)' = Taken(g)
BY DEF Taken

\* The queued copies of a frame are the same while the queues are.
LEMMA QueuedSame == ASSUME UNCHANGED queue PROVE \A g \in Frames : Queued(g)' = Queued(g)
BY DEF Queued

\* A frame is counted down by one task at a time.
OneCounter == \A t, u \in Tasks : count[t].frame = count[u].frame /\ count[t].frame # Nothing => t = u

\* A frame is allocated exactly while it has uses to come or is still counted down.
FrameKept(f) ==
    /\ UsesOf(f) > 0 => f \in heap
    /\ f \in heap => use_cnt[f] = UsesOf(f)
    /\ f \in heap /\ UsesOf(f) = 0 => \E t \in Tasks : count[t].frame = f

CounterKept(t) ==
    /\ count[t].pc = "store" => count[t].value = use_cnt[count[t].frame] - 1
    /\ count[t].pc # "no" => count[t].frame \in heap
    /\ \A f \in Frames : count[t].pc = "free" /\ count[t].frame = f => UsesOf(f) = 0

CallbacksWait == \A r \in Receivers : recv[r].pc = "callback" => count[r].pc = "no"

\* Every use to come finds the message in the frame.
ContentKept ==
    /\ \A r \in Receivers : \A i \in 1 .. Len(queue[r]) :
          content[queue[r][i].frame] = queue[r][i].msg
    /\ \A r \in Receivers : recv[r].pc = "callback" => content[recv[r].copy.frame] = recv[r].copy.msg
    /\ \A s \in Senders : send[s].pc # "idle" /\ send[s].i < Len(List(s)) =>
          content[send[s].frame] = send[s].msg

CountKept ==
    /\ OneCounter
    /\ \A f \in Frames : FrameKept(f)
    /\ \A t \in Tasks : CounterKept(t)
    /\ CallbacksWait
    /\ ContentKept

\* Copies, callbacks and queues to try are uses.
LEMMA Used ==
    ASSUME VfbType, CallbacksWait, NEW f \in Frames, UsesOf(f) = 0
    PROVE  /\ \A r \in Receivers : \A i \in 1 .. Len(queue[r]) : queue[r][i].frame # f
           /\ \A r \in Receivers : recv[r].pc = "callback" => recv[r].copy.frame # f
           /\ \A s \in Senders : send[s].pc # "idle" /\ send[s].i < Len(List(s)) => send[s].frame # f
           /\ \A t \in Tasks : count[t].pc = "store" => count[t].frame # f
<1>1. Queued(f) = {} /\ Held(f) = {} /\ Taken(f) = {} /\ ToTry(f) = {}
  BY UsesPositive
<1>2. ASSUME NEW r \in Receivers, NEW i \in 1 .. Len(queue[r]) PROVE queue[r][i].frame # f
  <2>1. <<r, i>> \in Receivers \X (1 .. QueueNum) /\ i <= Len(queue[r])
    BY CopyIs, VfbAssumption DEF VfbType, QueueType
  <2>2. <<r, i>> \notin Queued(f)
    BY <1>1
  <2>. QED  BY <2>1, <2>2 DEF Queued
<1>3. ASSUME NEW s \in Senders, send[s].pc # "idle", send[s].i < Len(List(s)) PROVE send[s].frame # f
  <2>1. Len(List(s)) \in Nat /\ send[s].i \in Nat /\ send[s].msg.event \in Events
    BY <1>3, ItemIs
  <2>2. Len(List(s)) <= Cardinality(Receivers) /\ Cardinality(Receivers) \in Nat
    BY <2>1, ListIsShort DEF List
  <2>3. <<s, send[s].i + 1>> \in Senders \X (1 .. Cardinality(Receivers))
    BY <1>3, <2>1, <2>2
  <2>4. send[s].i < send[s].i + 1 /\ send[s].i + 1 <= Len(List(s))
    BY <1>3, <2>1
  <2>5. <<s, send[s].i + 1>> \notin ToTry(f)
    BY <1>1
  <2>. QED  BY <2>3, <2>4, <2>5 DEF ToTry
<1>4. ASSUME NEW r \in Receivers, recv[r].pc = "callback" PROVE recv[r].copy.frame # f
  BY <1>1, <1>4 DEF Held, CallbacksWait, Receiving, Counting
<1>5. ASSUME NEW t \in Tasks, count[t].pc = "store" PROVE count[t].frame # f
  BY <1>1, <1>5 DEF Taken, Counting
<1>. QED  BY <1>2, <1>3, <1>4, <1>5

\* While the uses stay as many, no countdown but one that begins changes anything.
LEMMA Balanced ==
    ASSUME VfbType, VfbType', CountKept, UNCHANGED <<heap, use_cnt>>,
           \A f \in Frames : UsesOf(f)' = UsesOf(f),
           \A t \in Tasks : \/ count'[t] = count[t]
                            \/ /\ count[t].pc = "no" /\ count'[t].pc = "store"
                               /\ count'[t].frame \in heap
                               /\ count'[t].value = use_cnt[count'[t].frame] - 1
    PROVE  (\A f \in Frames : FrameKept(f)') /\ (\A t \in Tasks : CounterKept(t)')
<1>1. ASSUME NEW f \in Frames PROVE FrameKept(f)'
  <2>1. FrameKept(f) /\ UsesOf(f)' = UsesOf(f)
    BY DEF CountKept
  <2>2. ASSUME NEW t \in Tasks, count[t].frame = f PROVE count'[t].frame = f
    <3>1. count[t].pc # "no"
      BY <2>2, VfbAssumption DEF VfbType, TaskType, CountFits
    <3>. QED  BY <2>2, <3>1
  <2>. QED  BY <2>1, <2>2 DEF FrameKept
<1>2. ASSUME NEW t \in Tasks PROVE CounterKept(t)'
  <2>1. CounterKept(t)
    BY DEF CountKept
  <2>2. CASE count'[t] = count[t]
    BY <2>1, <2>2 DEF CounterKept
  <2>3. CASE count'[t] # count[t]
    BY <2>3 DEF CounterKept
  <2>. QED  BY <2>2, <2>3
<1>. QED  BY <1>1, <1>2

\* A task that begins to count a frame down is the only one to do so.
LEMMA CountBegins ==
    ASSUME VfbType, CountKept, ~Preempted, NEW t \in Tasks, count[t].pc = "no",
           NEW f \in Frames, LoadCount(t, f), UsesOf(f) > 0
    PROVE  /\ OneCounter' /\ f \in heap
           /\ count'[t] = [pc |-> "store", frame |-> f, value |-> use_cnt[f] - 1]
           /\ \A u \in Tasks : u # t => count'[u] = count[u]
           /\ \A g \in Frames : Cardinality(Taken(g)') =
                                    IF g = f THEN Cardinality(Taken(g)) + 1 ELSE Cardinality(Taken(g))
<1>1. f \in heap /\ use_cnt[f] = UsesOf(f) /\ use_cnt[f] \in 0 .. 2^16 - 1 /\ use_cnt[f] > 0
  BY UsesPositive DEF CountKept, FrameKept, VfbType, FrameType
<1>2. (use_cnt[f] - 1) % 2^16 = use_cnt[f] - 1 /\ use_cnt[f] # 0
  <2>1. PICK v \in 0 .. 2^16 - 1 : v = use_cnt[f]
    BY <1>1
  <2>2. v > 0 /\ v # 0
    BY <1>1, <2>1
  <2>. QED  BY <2>1, <2>2, Sixteen
<1>3. count'[t] = [pc |-> "store", frame |-> f, value |-> use_cnt[f] - 1]
  BY <1>2 DEF LoadCount, VfbType, TaskType
<1>4. \A u \in Tasks : u # t => count'[u] = count[u]
  BY DEF LoadCount, VfbType, TaskType
<1>5. \A u \in Tasks : count[u].frame # f
  BY DEF LoadCount
<1>6. OneCounter'
  BY <1>3, <1>4, <1>5 DEF CountKept, OneCounter
<1>7. ASSUME NEW g \in Frames
      PROVE  Taken(g)' = (IF g = f THEN Taken(g) \cup {t} ELSE Taken(g)) /\ t \notin Taken(g)
  BY <1>3, <1>4 DEF Taken, Counting
<1>8. ASSUME NEW g \in Frames
      PROVE  Cardinality(Taken(g)') = IF g = f THEN Cardinality(Taken(g)) + 1 ELSE Cardinality(Taken(g))
  BY <1>7, OneMore, UsesFinite
<1>. QED  BY <1>1, <1>3, <1>4, <1>6, <1>8
\* Steps that leave the uses of every frame as they are.
LEMMA QuietKept ==
    ASSUME VfbType, VfbType', CountKept, UNCHANGED <<heap, content, use_cnt, queue, count>>,
           \A g \in Frames : ToTry(g)' = ToTry(g),
           \A r \in Receivers : /\ recv'[r].pc = "callback" <=> recv[r].pc = "callback"
                                /\ recv[r].pc = "callback" => recv'[r].copy = recv[r].copy,
           \A s \in Senders : send'[s].pc # "idle" /\ send'[s].i < Len(List(s))' =>
              /\ send[s].pc # "idle" /\ send[s].i < Len(List(s))
              /\ send'[s].frame = send[s].frame /\ send'[s].msg = send[s].msg
    PROVE  CountKept'
<1>1. ASSUME NEW g \in Frames
      PROVE  Queued(g)' = Queued(g) /\ Held(g)' = Held(g) /\ Taken(g)' = Taken(g) /\ ToTry(g)' = ToTry(g)
  <2>1. Held(g)' = Held(g)
    BY HeldSame DEF Receiving, Counting
  <2>2. Taken(g)' = Taken(g)
    BY TakenSame DEF Counting
  <2>. QED  BY <2>1, <2>2, QueuedSame
<1>2. \A g \in Frames : UsesOf(g)' = UsesOf(g)
  BY <1>1, UsesAre
<1>3. (\A f \in Frames : FrameKept(f)') /\ (\A t \in Tasks : CounterKept(t)')
  BY <1>2, Balanced
<1>4. OneCounter' /\ CallbacksWait'
  BY DEF CountKept, OneCounter, CallbacksWait
<1>5. ContentKept'
  BY DEF CountKept, ContentKept
<1>. QED  BY <1>3, <1>4, <1>5 DEF CountKept

\* A send fills a new frame whose count is the queues it will try.
LEMMA BeginSendCounts ==
    ASSUME VfbType, VfbType', CountKept, NEW s \in Senders, BeginSend(s) PROVE CountKept'
<1>. DEFINE M(e) == [from |-> s, event |-> e, number |-> send[s].sent + 1]
<1>0. UNCHANGED <<queue_list, queue, recv, count, seen>> /\ send[s].pc = "idle"
  BY DEF BeginSend, Sending
<1>1. PICK e \in Events, f \in Frames \ heap :
         /\ queue_list[e] # <<>>
         /\ heap' = heap \cup {f}
         /\ content' = [content EXCEPT ![f] = M(e)]
         /\ use_cnt' = [use_cnt EXCEPT ![f] = Len(queue_list[e])]
         /\ send' = [send EXCEPT ![s] = [pc |-> "loop", sent |-> M(e).number, frame |-> f,
                                         msg |-> M(e), item |-> 1, i |-> 0, failures |-> 0]]
  BY DEF BeginSend
<1>2. PICK n \in Nat : n = Len(queue_list[e]) /\ n > 0 /\ n <= Cardinality(Receivers)
  <2>1. queue_list[e] \in Seq(Receivers)
    BY DEF VfbType, QueueType
  <2>. QED  BY <1>1, <2>1, ListIsShort, EmptySeq
<1>3. /\ send'[s].frame = f /\ send'[s].i = 0 /\ send'[s].msg = M(e) /\ List(s)' = queue_list[e]
      /\ send[s].frame = Nothing
      /\ \A u \in Senders : u # s => send'[u] = send[u] /\ List(u)' = List(u)
  BY <1>0, <1>1 DEF VfbType, TaskType, SendFits, List
<1>4. UsesOf(f) = 0
  <2>1. ~(UsesOf(f) > 0) /\ UsesOf(f) \in Nat
    BY UsesPositive DEF CountKept, FrameKept
  <2>. QED  BY <2>1
<1>5. ASSUME NEW g \in Frames
      PROVE  Queued(g)' = Queued(g) /\ Held(g)' = Held(g) /\ Taken(g)' = Taken(g)
  <2>1. Held(g)' = Held(g)
    BY <1>0, HeldSame DEF Receiving, Counting
  <2>2. Taken(g)' = Taken(g)
    BY <1>0, TakenSame DEF Counting
  <2>. QED  BY <1>0, <2>1, <2>2, QueuedSame
<1>6. ASSUME NEW g \in Frames, g # f PROVE ToTry(g)' = ToTry(g)
  <2>1. ASSUME NEW p \in Senders \X (1 .. Cardinality(Receivers)) PROVE p \in ToTry(g)' <=> p \in ToTry(g)
    <3>1. CASE p[1] = s
      BY <1>3, <1>6, <3>1, VfbAssumption DEF ToTry
    <3>2. CASE p[1] # s
      BY <1>3, <3>2 DEF ToTry
    <3>. QED  BY <3>1, <3>2
  <2>. QED  BY <2>1 DEF ToTry
<1>7. ToTry(f)' = {s} \X (1 .. n)
  <2>1. Cardinality(Receivers) \in Nat
    BY ListIsShort
  <2>2. ToTry(f) = {}
    BY <1>4, UsesPositive
  <2>3. ASSUME NEW p \in Senders \X (1 .. Cardinality(Receivers)) PROVE p \in ToTry(f)' <=> p \in {s} \X (1 .. n)
    <3>0. p = <<p[1], p[2]>> /\ p[1] \in Senders /\ p[2] \in 1 .. Cardinality(Receivers)
      OBVIOUS
    <3>1. CASE p[1] = s
      BY <1>2, <1>3, <3>0, <3>1 DEF ToTry
    <3>2. CASE p[1] # s
      BY <1>3, <2>2, <3>0, <3>2 DEF ToTry
    <3>. QED  BY <3>1, <3>2
  <2>4. {s} \X (1 .. n) \subseteq Senders \X (1 .. Cardinality(Receivers))
    BY <1>2, <2>1
  <2>5. ToTry(f)' \subseteq Senders \X (1 .. Cardinality(Receivers))
    BY DEF ToTry
  <2>. QED  BY <2>3, <2>4, <2>5
<1>8. UsesOf(f)' = n
  <2>1. Cardinality(ToTry(f)') = n
    <3>1. IsFiniteSet({s}) /\ Cardinality({s}) = 1
      BY FS_Singleton
    <3>2. IsFiniteSet(1 .. n) /\ Cardinality(1 .. n) = n
      <4>1. 1 \in Int /\ n \in Int /\ ~(1 > n) /\ n - 1 + 1 = n
        BY <1>2
      <4>. QED  BY <4>1, FS_Interval
    <3>3. \A A, B : /\ IsFiniteSet(A) /\ Cardinality(A) = 1
                   /\ IsFiniteSet(B) /\ Cardinality(B) = n
                   => Cardinality(A \X B) = n
      <4>1. 1 * n = n
        BY <1>2
      <4>. QED  BY <4>1, FS_Product
    <3>. QED  BY <1>7, <3>1, <3>2, <3>3
  <2>2. Queued(f) = {} /\ Held(f) = {} /\ Taken(f) = {}
    BY <1>4, UsesPositive
  <2>3. Queued(f)' = {} /\ Held(f)' = {} /\ Taken(f)' = {}
    BY <1>5, <2>2
  <2>4. Cardinality(Queued(f)') = 0 /\ Cardinality(Held(f)') = 0 /\ Cardinality(Taken(f)') = 0
    BY <2>3, FS_EmptySet
  <2>5. UsesOf(f)' = 0 + 0 + 0 + n
    BY <2>1, <2>4, UsesAre
  <2>. QED  BY <2>5, <1>2
<1>9. \A g \in Frames : g # f => UsesOf(g)' = UsesOf(g)
  BY <1>5, <1>6, UsesAre
<1>10. ASSUME NEW g \in Frames PROVE FrameKept(g)'
  <2>1. CASE g = f
    <3>1. f \in heap' /\ use_cnt'[f] = n
      BY <1>1, <1>2 DEF VfbType, FrameType
    <3>2. UsesOf(f)' = n /\ n # 0
      BY <1>2, <1>8
    <3>3. FrameKept(f)'
      BY <3>1, <3>2 DEF FrameKept
    <3>. QED  BY <2>1, <3>3
  <2>2. CASE g # f
    <3>1. use_cnt'[g] = use_cnt[g] /\ (g \in heap' <=> g \in heap)
      BY <1>1, <2>2 DEF VfbType, FrameType
    <3>2. FrameKept(g) /\ UsesOf(g)' = UsesOf(g)
      BY <1>9, <2>2 DEF CountKept
    <3>3. \A t \in Tasks : count'[t] = count[t]
      BY <1>0
    <3>. QED  BY <3>1, <3>2, <3>3 DEF FrameKept
  <2>. QED  BY <2>1, <2>2
<1>11. ASSUME NEW t \in Tasks PROVE CounterKept(t)'
  <2>1. CounterKept(t) /\ (count[t].pc # "no" => count[t].frame # f /\ count[t].frame \in Frames)
    BY DEF CountKept, CounterKept, VfbType, TaskType, CountFits
  <2>2. \A g \in Frames : count[t].pc = "free" /\ count[t].frame = g => UsesOf(g)' = 0
    BY <1>9, <2>1 DEF CounterKept
  <2>. QED  BY <1>0, <1>1, <2>1, <2>2 DEF CounterKept, VfbType, FrameType
<1>12. OneCounter' /\ CallbacksWait'
  BY <1>0 DEF CountKept, OneCounter, CallbacksWait
<1>13. ContentKept'
  <2>0. CallbacksWait
    BY DEF CountKept
  <2>1. \A g : g # f => content'[g] = content[g] \/ g \notin Frames
    BY <1>1 DEF VfbType, FrameType
  <2>2. content'[f] = M(e)
    BY <1>1 DEF VfbType, FrameType
  <2>3. ASSUME NEW r \in Receivers, NEW i \in 1 .. Len(queue[r]) PROVE content'[queue[r][i].frame] = queue[r][i].msg
    <3>1. queue[r][i].frame # f /\ queue[r][i].frame \in Frames
      BY <1>4, <2>0, Used, CopyIs DEF Copies
    <3>. QED  BY <2>1, <3>1 DEF CountKept, ContentKept
  <2>4. ASSUME NEW r \in Receivers, recv[r].pc = "callback" PROVE content'[recv[r].copy.frame] = recv[r].copy.msg
    <3>1. recv[r].copy.frame # f /\ recv[r].copy.frame \in Frames
      BY <1>4, <2>0, <2>4, Used DEF VfbType, TaskType, RecvFits, Copies
    <3>. QED  BY <2>1, <2>4, <3>1 DEF CountKept, ContentKept
  <2>5. ASSUME NEW u \in Senders, send'[u].pc # "idle", send'[u].i < Len(List(u))'
        PROVE  content'[send'[u].frame] = send'[u].msg
    <3>1. CASE u = s
      BY <1>3, <2>2, <3>1
    <3>2. CASE u # s
      <4>1. send[u].pc # "idle" /\ send[u].i < Len(List(u)) /\ send'[u] = send[u]
        BY <1>3, <2>5, <3>2
      <4>2. send[u].frame # f /\ send[u].frame \in Frames
        BY <1>4, <2>0, <4>1, Used, ItemIs
      <4>. QED  BY <2>1, <4>1, <4>2 DEF CountKept, ContentKept
    <3>. QED  BY <3>1, <3>2
  <2>. QED  BY <1>0, <2>3, <2>4, <2>5 DEF ContentKept
<1>. QED  BY <1>10, <1>11, <1>12, <1>13 DEF CountKept

\* A copy moves from the queues to try into a queue.
LEMMA SendQueueCounts ==
    ASSUME VfbType, VfbType', CountKept, NEW s \in Senders, SendQueue(s) PROVE CountKept'
<1>0. /\ UNCHANGED <<queue_list, heap, content, use_cnt, recv, count, seen>>
      /\ send[s].pc # "idle" /\ send[s].i < Len(List(s))
  BY DEF SendQueue, Sending
<1>1. /\ send[s].msg \in Messages /\ send[s].frame \in Frames /\ List(s)[send[s].item] \in Receivers
  BY <1>0, ItemIs
<1>2. PICK r \in Receivers : r = List(s)[send[s].item]
  BY <1>1
<1>3. PICK x \in Copies : x = [frame |-> send[s].frame, msg |-> send[s].msg]
  BY <1>1 DEF Copies
<1>4. queue' = [queue EXCEPT ![r] = Append(@, x)] /\ Len(queue[r]) < QueueNum
  BY <1>2, <1>3 DEF SendQueue
<1>5. /\ send'[s].i = send[s].i + 1 /\ send'[s].frame = send[s].frame /\ send'[s].msg = send[s].msg
      /\ \A u \in Senders : u # s => send'[u] = send[u]
  BY DEF SendQueue, VfbType, TaskType, SendType
<1>6. PICK f \in Frames : f = send[s].frame /\ f = x.frame
  BY <1>1, <1>3
<1>7. ASSUME NEW g \in Frames PROVE UsesOf(g)' = UsesOf(g)
  <2>1. Held(g)' = Held(g) /\ Taken(g)' = Taken(g)
    BY <1>0, HeldSame, TakenSame DEF Receiving, Counting
  <2>2. Cardinality(Queued(g)') = IF g = f THEN Cardinality(Queued(g)) + 1 ELSE Cardinality(Queued(g))
    BY <1>4, <1>6, QueuedMore
  <2>3. Cardinality(ToTry(g)') = IF g = f THEN Cardinality(ToTry(g)) - 1 ELSE Cardinality(ToTry(g))
    BY <1>0, <1>5, <1>6, ToTryLess
  <2>. QED  BY <2>1, <2>2, <2>3, UsesAre, UsesFinite
<1>8. (\A g \in Frames : FrameKept(g)') /\ (\A t \in Tasks : CounterKept(t)')
  BY <1>0, <1>7, Balanced
<1>9. OneCounter' /\ CallbacksWait'
  BY <1>0 DEF CountKept, OneCounter, CallbacksWait
<1>10. ContentKept'
  <2>1. content[x.frame] = x.msg
    BY <1>0, <1>3 DEF CountKept, ContentKept
  <2>2. ASSUME NEW y \in Receivers, NEW i \in 1 .. Len(queue'[y])
        PROVE  content[queue'[y][i].frame] = queue'[y][i].msg
    <3>1. CASE y = r
      <4>. DEFINE q == queue[r]   a == Append(q, x)
      <4>1. q \in Seq(Copies) /\ Len(q) \in Nat
        BY CopyIs
      <4>2. queue'[y] = a /\ Len(a) = Len(q) + 1 /\ a[Len(q) + 1] = x /\ \A k \in 1 .. Len(q) : a[k] = q[k]
        BY <1>4, <3>1, <4>1, AppendProperties DEF VfbType, QueueType
      <4>3. i = Len(q) + 1 \/ i \in 1 .. Len(q)
        BY <4>1, <4>2
      <4>4. \A k \in 1 .. Len(q) : content[q[k].frame] = q[k].msg
        BY DEF CountKept, ContentKept
      <4>. HIDE DEF a, q
      <4>. QED  BY <2>1, <4>2, <4>3, <4>4
    <3>2. CASE y # r
      BY <1>4, <3>2 DEF CountKept, ContentKept, VfbType, QueueType
    <3>. QED  BY <3>1, <3>2
  <2>3. ASSUME NEW u \in Senders, send'[u].pc # "idle", send'[u].i < Len(List(u))'
        PROVE  content[send'[u].frame] = send'[u].msg
    <3>1. CASE u = s
      BY <1>0, <1>5, <3>1 DEF CountKept, ContentKept
    <3>2. CASE u # s
      BY <1>0, <1>5, <2>3, <3>2 DEF CountKept, ContentKept, List
    <3>. QED  BY <3>1, <3>2
  <2>. QED  BY <1>0, <2>2, <2>3 DEF CountKept, ContentKept
<1>. QED  BY <1>8, <1>9, <1>10 DEF CountKept

\* A failed send starts the count-down for the queue it did not get into.
LEMMA SendFailsCounts ==
    ASSUME VfbType, VfbType', CountKept, ~Preempted, NEW s \in Senders, SendFails(s) PROVE CountKept'
<1>0. /\ UNCHANGED <<queue_list, heap, content, use_cnt, queue, recv, seen>>
      /\ send[s].pc = "failed" /\ count[s].pc = "no" /\ LoadCount(s, send[s].frame) /\ s \in Tasks
  BY TasksAre DEF SendFails, Sending, Counting
<1>1. send[s].i < Len(List(s)) /\ send[s].frame \in Frames
  BY <1>0, ItemIs DEF VfbType, TaskType, SendFits, List
<1>2. /\ send'[s].i = send[s].i + 1 /\ send'[s].frame = send[s].frame /\ send'[s].msg = send[s].msg
      /\ \A u \in Senders : u # s => send'[u] = send[u]
  BY DEF SendFails, VfbType, TaskType, SendType
<1>3. PICK f \in Frames : f = send[s].frame /\ LoadCount(s, f)
  BY <1>0, <1>1
<1>4. UsesOf(f) > 0
  <2>1. UsesOf(f) # 0
    BY <1>0, <1>1, <1>3, Used DEF CountKept
  <2>. QED  BY <2>1, UsesPositive
<1>5. /\ OneCounter' /\ f \in heap
      /\ count'[s] = [pc |-> "store", frame |-> f, value |-> use_cnt[f] - 1]
      /\ \A u \in Tasks : u # s => count'[u] = count[u]
      /\ \A g \in Frames : Cardinality(Taken(g)') =
                               IF g = f THEN Cardinality(Taken(g)) + 1 ELSE Cardinality(Taken(g))
  BY <1>0, <1>3, <1>4, CountBegins
<1>6. \A r \in Receivers : count'[r] = count[r]
  BY <1>5, TasksAre, VfbAssumption
<1>7. ASSUME NEW g \in Frames PROVE UsesOf(g)' = UsesOf(g)
  <2>1. Held(g)' = Held(g) /\ Queued(g)' = Queued(g)
    BY <1>0, <1>6, HeldSame, QueuedSame DEF Receiving, Counting
  <2>2. Cardinality(ToTry(g)') = IF g = f THEN Cardinality(ToTry(g)) - 1 ELSE Cardinality(ToTry(g))
    BY <1>0, <1>1, <1>2, <1>3, ToTryLess
  <2>. QED  BY <1>5, <2>1, <2>2, UsesAre, UsesFinite
<1>8. (\A g \in Frames : FrameKept(g)') /\ (\A t \in Tasks : CounterKept(t)')
  BY <1>0, <1>5, <1>7, Balanced
<1>9. CallbacksWait'
  BY <1>0, <1>6 DEF CountKept, CallbacksWait
<1>10. ContentKept'
  <2>1. ASSUME NEW u \in Senders, send'[u].pc # "idle", send'[u].i < Len(List(u))'
        PROVE  content[send'[u].frame] = send'[u].msg
    <3>1. CASE u = s
      BY <1>0, <1>1, <1>2, <3>1 DEF CountKept, ContentKept
    <3>2. CASE u # s
      BY <1>0, <1>2, <2>1, <3>2 DEF CountKept, ContentKept, List
    <3>. QED  BY <3>1, <3>2
  <2>. QED  BY <1>0, <2>1 DEF CountKept, ContentKept
<1>. QED  BY <1>5, <1>8, <1>9, <1>10 DEF CountKept
\* Waiting for room and ending a send touch no count.
LEMMA SendWaitsCounts ==
    ASSUME VfbType, VfbType', CountKept, NEW s \in Senders, QueueFull(s) \/ WaitOver(s) \/ EndSend(s)
    PROVE  CountKept'
<1>0. /\ UNCHANGED <<queue_list, heap, content, use_cnt, queue, recv, count, seen>>
      /\ send \in [Senders -> SendType]
  BY DEF QueueFull, WaitOver, EndSend, VfbType, TaskType
<1>1. CASE QueueFull(s) \/ WaitOver(s)
  <2>1. /\ send[s].pc # "idle"
        /\ \A u \in Senders : /\ send'[u].i = send[u].i /\ send'[u].frame = send[u].frame
                              /\ send'[u].msg = send[u].msg
                              /\ send'[u].pc # "idle" => send[u].pc # "idle"
    <3>1. PICK l \in {"failed", "waiting"} : send' = [send EXCEPT ![s].pc = l]
      BY <1>1 DEF QueueFull, WaitOver
    <3>2. send[s].pc # "idle"
      BY <1>1 DEF QueueFull, WaitOver, Sending
    <3>. QED  BY <1>0, <3>1, <3>2 DEF SendType
  <2>2. \A u \in Senders : List(u)' = List(u)
    BY <1>0, <2>1 DEF List
  <2>. QED  BY <1>0, <2>1, <2>2, ToTrySame, QuietKept
<1>2. CASE EndSend(s)
  <2>1. /\ send[s].pc # "idle" /\ ~(send[s].i < Len(List(s))) /\ send'[s].pc = "idle" /\ send'[s].frame = Nothing
        /\ \A u \in Senders : u # s => send'[u] = send[u]
    <3>1. send[s].pc # "idle" /\ send[s].i >= Len(List(s))
      BY <1>2 DEF EndSend, Sending
    <3>2. Len(List(s)) \in Nat /\ send[s].i \in Nat
      BY <3>1, ItemIs
    <3>. QED  BY <1>0, <1>2, <3>1, <3>2 DEF EndSend
  <2>2. \A u \in Senders : u # s => List(u)' = List(u)
    BY <1>0, <2>1 DEF List
  <2>3. ASSUME NEW g \in Frames PROVE ToTry(g)' = ToTry(g)
    <3>1. ASSUME NEW p \in Senders \X (1 .. Cardinality(Receivers)) PROVE p \in ToTry(g)' <=> p \in ToTry(g)
      <4>1. CASE p[1] = s
        <5>1. Len(List(s)) \in Nat /\ send[s].i \in Nat /\ p[2] \in Int
          BY <2>1, ItemIs
        <5>2. ~(send[s].i < p[2] /\ p[2] <= Len(List(s)))
          BY <2>1, <5>1
        <5>. QED  BY <2>1, <4>1, <5>2, VfbAssumption DEF ToTry
      <4>2. CASE p[1] # s
        BY <2>1, <2>2, <4>2 DEF ToTry
      <4>. QED  BY <4>1, <4>2
    <3>. QED  BY <3>1 DEF ToTry
  <2>. QED  BY <1>0, <2>1, <2>2, <2>3, QuietKept
<1>. QED  BY <1>1, <1>2

\* A subscription on time meets no send in progress and changes no use.
LEMMA SubscribeCounts ==
    ASSUME VfbType, VfbType', CountKept, ~LateSubscribe, NEW r \in Receivers, Subscribe(r)
    PROVE  CountKept'
<1>0. /\ UNCHANGED <<heap, content, use_cnt, queue, send, count, seen>>
      /\ recv' = [recv EXCEPT ![r].pc = "receive"] /\ recv[r].pc = "new"
      /\ \A s \in Senders : send[s].pc = "idle" /\ send'[s].pc = "idle"
  BY DEF Subscribe
<1>1. \A s \in Senders : send[s].frame = Nothing /\ send'[s].frame = Nothing
  BY <1>0 DEF VfbType, TaskType, SendFits
<1>2. \A g \in Frames : ToTry(g) = {} /\ ToTry(g)' = {}
  BY <1>1, VfbAssumption DEF ToTry
<1>3. \A y \in Receivers : /\ recv'[y].pc = "callback" <=> recv[y].pc = "callback"
                           /\ recv[y].pc = "callback" => recv'[y].copy = recv[y].copy
  BY <1>0 DEF VfbType, TaskType, RecvType
<1>. QED  BY <1>0, <1>2, <1>3, QuietKept

\* Waiting receivers touch no count.
LEMMA ReceiverWaitsCounts ==
    ASSUME VfbType, VfbType', CountKept, NEW r \in Receivers, WaitEnds(r) \/ NoteTimeout(r)
    PROVE  CountKept'
<1>0. UNCHANGED <<queue_list, heap, content, use_cnt, queue, send, count, seen>>
  BY DEF WaitEnds, NoteTimeout
<1>1. \A y \in Receivers : /\ recv'[y].pc = "callback" <=> recv[y].pc = "callback"
                           /\ recv[y].pc = "callback" => recv'[y].copy = recv[y].copy
  <2>1. CASE WaitEnds(r)
    BY <2>1 DEF WaitEnds, Receiving, VfbType, TaskType, RecvType
  <2>2. CASE NoteTimeout(r)
    <3>1. PICK l \in {"ended", "receive"} : recv' = [recv EXCEPT ![r].timeouts = @ + 1, ![r].pc = l]
      BY <2>2 DEF NoteTimeout
    <3>2. recv[r].pc = "expired"
      BY <2>2 DEF NoteTimeout, Receiving
    <3>. QED  BY <3>1, <3>2 DEF VfbType, TaskType, RecvType
  <2>. QED  BY <2>1, <2>2
<1>2. \A s \in Senders : List(s)' = List(s)
  BY <1>0 DEF List
<1>. QED  BY <1>0, <1>1, <1>2, ToTrySame, QuietKept

\* A copy moves from a queue into the callback.
LEMMA MsgReceiveCounts ==
    ASSUME VfbType, VfbType', CountKept, NEW r \in Receivers, MsgReceive(r) PROVE CountKept'
<1>. DEFINE x == Head(queue[r])
<1>0. /\ UNCHANGED <<queue_list, heap, content, use_cnt, send, count>>
      /\ recv[r].pc = "receive" /\ count[r].pc = "no" /\ queue[r] # <<>>
      /\ queue' = [queue EXCEPT ![r] = Tail(@)]
      /\ recv' = [recv EXCEPT ![r] = [pc |-> "callback", copy |-> x, timeouts |-> 0]]
  BY DEF MsgReceive, Receiving, Counting
<1>1. /\ recv'[r].pc = "callback" /\ recv'[r].copy = x
      /\ \A y \in Receivers : y # r => recv'[y] = recv[y]
  BY <1>0 DEF VfbType, TaskType
<1>2. queue[r] \in Seq(Copies) /\ Len(queue[r]) \in Nat \ {0} /\ x = queue[r][1] /\ x \in Copies
  <2>1. queue[r] \in Seq(Copies)
    BY CopyIs
  <2>. QED  BY <1>0, <2>1, EmptySeq, HeadTailProperties
<1>3. PICK f \in Frames : f = x.frame
  BY <1>2 DEF Copies
<1>4. ASSUME NEW g \in Frames
      PROVE  Held(g)' = (IF g = f THEN Held(g) \cup {r} ELSE Held(g)) /\ r \notin Held(g)
  BY <1>0, <1>1, <1>3 DEF Held, Receiving, Counting
<1>5. ASSUME NEW g \in Frames PROVE UsesOf(g)' = UsesOf(g)
  <2>1. Taken(g)' = Taken(g) /\ ToTry(g)' = ToTry(g)
    BY <1>0, TakenSame, ToTrySame DEF Counting
  <2>2. Cardinality(Held(g)') = IF g = f THEN Cardinality(Held(g)) + 1 ELSE Cardinality(Held(g))
    BY <1>4, OneMore, UsesFinite
  <2>3. Cardinality(Queued(g)') = IF g = f THEN Cardinality(Queued(g)) - 1 ELSE Cardinality(Queued(g))
    BY <1>0, <1>3, QueuedLess
  <2>. QED  BY <2>1, <2>2, <2>3, UsesAre, UsesFinite
<1>6. (\A g \in Frames : FrameKept(g)') /\ (\A t \in Tasks : CounterKept(t)')
  BY <1>0, <1>5, Balanced
<1>7. OneCounter' /\ CallbacksWait'
  BY <1>0, <1>1 DEF CountKept, OneCounter, CallbacksWait
<1>8. ContentKept'
  <2>0. \A i \in 1 .. Len(queue[r]) : content[queue[r][i].frame] = queue[r][i].msg
    BY DEF CountKept, ContentKept
  <2>1. content[x.frame] = x.msg
    <3>1. 1 \in 1 .. Len(queue[r])
      BY <1>2
    <3>. QED  BY <1>2, <2>0, <3>1
  <2>2. ASSUME NEW y \in Receivers, NEW i \in 1 .. Len(queue'[y])
        PROVE  content[queue'[y][i].frame] = queue'[y][i].msg
    <3>1. CASE y = r
      <4>1. queue'[y] = Tail(queue[r])
        BY <1>0, <3>1 DEF VfbType, QueueType
      <4>2. Len(Tail(queue[r])) = Len(queue[r]) - 1 /\ \A k \in 1 .. Len(Tail(queue[r])) : Tail(queue[r])[k] = queue[r][k + 1]
        BY <1>0, <1>2, HeadTailProperties
      <4>3. i + 1 \in 1 .. Len(queue[r]) /\ queue'[y][i] = queue[r][i + 1]
        BY <1>2, <4>1, <4>2
      <4>. QED  BY <2>0, <4>3
    <3>2. CASE y # r
      BY <1>0, <3>2 DEF CountKept, ContentKept, VfbType, QueueType
    <3>. QED  BY <3>1, <3>2
  <2>3. ASSUME NEW y \in Receivers, recv'[y].pc = "callback"
        PROVE  content[recv'[y].copy.frame] = recv'[y].copy.msg
    <3>1. CASE y = r
      BY <1>1, <2>1, <3>1
    <3>2. CASE y # r
      BY <1>1, <2>3, <3>2 DEF CountKept, ContentKept
    <3>. QED  BY <3>1, <3>2
  <2>. QED  BY <1>0, <2>2, <2>3 DEF CountKept, ContentKept, List
<1>. QED  BY <1>6, <1>7, <1>8 DEF CountKept

\* The callback hands its use to the count-down.
LEMMA CallbackReturnsCounts ==
    ASSUME VfbType, VfbType', CountKept, ~Preempted, NEW r \in Receivers, CallbackReturns(r)
    PROVE  CountKept'
<1>0. /\ UNCHANGED <<queue_list, heap, content, use_cnt, queue, send, seen>>
      /\ recv[r].pc = "callback" /\ count[r].pc = "no" /\ LoadCount(r, recv[r].copy.frame) /\ r \in Tasks
      /\ recv' = [recv EXCEPT ![r].pc = "receive", ![r].copy = Nothing]
  BY TasksAre DEF CallbackReturns, Receiving, Counting
<1>1. recv'[r].pc = "receive" /\ \A y \in Receivers : y # r => recv'[y] = recv[y]
  BY <1>0 DEF VfbType, TaskType, RecvType
<1>2. PICK f \in Frames : f = recv[r].copy.frame /\ LoadCount(r, f)
  BY <1>0 DEF VfbType, TaskType, RecvFits, Copies
<1>3. UsesOf(f) > 0
  <2>1. UsesOf(f) # 0
    BY <1>0, <1>2, Used DEF CountKept
  <2>. QED  BY <2>1, UsesPositive
<1>4. /\ OneCounter' /\ f \in heap
      /\ count'[r] = [pc |-> "store", frame |-> f, value |-> use_cnt[f] - 1]
      /\ \A u \in Tasks : u # r => count'[u] = count[u]
      /\ \A g \in Frames : Cardinality(Taken(g)') =
                               IF g = f THEN Cardinality(Taken(g)) + 1 ELSE Cardinality(Taken(g))
  BY <1>0, <1>2, <1>3, CountBegins
<1>5. \A y \in Receivers : y # r => count'[y] = count[y]
  BY <1>4, TasksAre
<1>6. ASSUME NEW g \in Frames
      PROVE  Cardinality(Held(g)') = IF g = f THEN Cardinality(Held(g)) - 1 ELSE Cardinality(Held(g))
  <2>1. Held(g)' = Held(g) \ {r} /\ (r \in Held(g) <=> g = f)
    BY <1>0, <1>1, <1>2, <1>5, ZenonT(30) DEF Held, Receiving, Counting
  <2>2. CASE g = f
    BY <2>1, <2>2, OneLess, UsesFinite
  <2>3. CASE g # f
    <3>1. Held(g)' = Held(g)
      BY <2>1, <2>3
    <3>. QED  BY <2>3, <3>1
  <2>. QED  BY <2>2, <2>3
<1>7. ASSUME NEW g \in Frames PROVE UsesOf(g)' = UsesOf(g)
  <2>1. Queued(g)' = Queued(g) /\ ToTry(g)' = ToTry(g)
    BY <1>0, QueuedSame, ToTrySame
  <2>. QED  BY <1>4, <1>6, <2>1, UsesAre, UsesFinite
<1>8. (\A g \in Frames : FrameKept(g)') /\ (\A t \in Tasks : CounterKept(t)')
  BY <1>0, <1>4, <1>7, Balanced
<1>9. CallbacksWait'
  BY <1>1, <1>5 DEF CountKept, CallbacksWait
<1>10. ContentKept'
  <2>1. \A y \in Receivers : recv'[y].pc = "callback" => recv'[y] = recv[y]
    BY <1>1
  <2>. QED  BY <1>0, <2>1, ZenonT(30) DEF CountKept, ContentKept, List
<1>. QED  BY <1>4, <1>8, <1>9, <1>10 DEF CountKept

\* The steps of the countdown itself.
LEMMA StoreCounts ==
    ASSUME VfbType, VfbType', CountKept, NEW t \in Tasks, CountStep(t), StoreCount(t) PROVE CountKept'
<1>0. /\ UNCHANGED <<queue_list, queue, send, recv, seen, heap, content>> /\ count[t].pc = "store"
      /\ use_cnt' = [use_cnt EXCEPT ![count[t].frame] = count[t].value]
      /\ count' = [count EXCEPT ![t].pc = "test", ![t].value = 0]
  BY DEF CountStep, StoreCount, Counting
<1>1. PICK f \in Frames : f = count[t].frame
  BY <1>0 DEF VfbType, TaskType, CountFits
<1>2. /\ count'[t].pc = "test" /\ count'[t].frame = f
      /\ \A u \in Tasks : u # t => count'[u] = count[u]
  BY <1>0, <1>1 DEF VfbType, TaskType, CountType
<1>3. /\ f \in heap /\ use_cnt[f] = UsesOf(f) /\ use_cnt'[f] = use_cnt[f] - 1
      /\ \A g \in Frames : g # f => use_cnt'[g] = use_cnt[g]
  BY <1>0, <1>1 DEF CountKept, CounterKept, FrameKept, VfbType, FrameType
<1>4. \A u \in Tasks : u # t => count[u].frame # f
  BY <1>1, VfbAssumption DEF CountKept, OneCounter
<1>5. ASSUME NEW g \in Frames
      PROVE  UsesOf(g)' = IF g = f THEN UsesOf(g) - 1 ELSE UsesOf(g)
  <2>1. Queued(g)' = Queued(g) /\ ToTry(g)' = ToTry(g)
    BY <1>0, QueuedSame, ToTrySame
  <2>2. Held(g)' = Held(g)
    <3>1. \A r \in Receivers : count'[r].pc = "no" <=> count[r].pc = "no"
      BY <1>0, <1>2, TasksAre
    <3>. QED  BY <1>0, <3>1, HeldSame DEF Receiving, Counting
  <2>3. Taken(g)' = Taken(g) \ {t} /\ (t \in Taken(g) <=> g = f)
    BY <1>0, <1>1, <1>2 DEF Taken, Counting
  <2>4. Cardinality(Taken(g)') = IF g = f THEN Cardinality(Taken(g)) - 1 ELSE Cardinality(Taken(g))
    <3>1. CASE g = f
      BY <2>3, <3>1, OneLess, UsesFinite
    <3>2. CASE g # f
      <4>1. Taken(g)' = Taken(g)
        BY <2>3, <3>2
      <4>. QED  BY <3>2, <4>1
    <3>. QED  BY <3>1, <3>2
  <2>. QED  BY <2>1, <2>2, <2>4, UsesAre, UsesFinite
<1>6. ASSUME NEW g \in Frames PROVE FrameKept(g)'
  <2>1. CASE g = f
    BY <1>0, <1>2, <1>3, <1>5, <2>1, ZenonT(30) DEF FrameKept
  <2>2. CASE g # f
    <3>1. FrameKept(g) /\ UsesOf(g)' = UsesOf(g) /\ use_cnt'[g] = use_cnt[g]
      BY <1>3, <1>5, <2>2 DEF CountKept
    <3>2. \A u \in Tasks : count[u].frame = g => count'[u].frame = g
      BY <1>1, <1>2, <2>2
    <3>. QED  BY <1>0, <3>1, <3>2 DEF FrameKept
  <2>. QED  BY <2>1, <2>2
<1>7. ASSUME NEW u \in Tasks PROVE CounterKept(u)'
  <2>1. CASE u = t
    <3>1. CounterKept(t)'
      BY <1>0, <1>2, <1>3 DEF CounterKept
    <3>. QED  BY <2>1, <3>1
  <2>2. CASE u # t
    <3>1. CounterKept(u) /\ count'[u] = count[u] /\ count[u].frame # f
      BY <1>2, <1>4, <2>2 DEF CountKept
    <3>2. count[u].pc # "no" => count[u].frame \in Frames
      BY DEF VfbType, TaskType, CountFits
    <3>3. \A g \in Frames : count'[u].pc = "free" /\ count'[u].frame = g => UsesOf(g)' = 0
      BY <1>5, <3>1 DEF CounterKept
    <3>4. count'[u].pc # "no" => count'[u].frame \in heap'
      BY <1>0, <3>1 DEF CounterKept
    <3>5. count'[u].pc = "store" => count'[u].value = use_cnt'[count'[u].frame] - 1
      BY <1>3, <3>1, <3>2 DEF CounterKept
    <3>. QED  BY <3>3, <3>4, <3>5 DEF CounterKept
  <2>. QED  BY <2>1, <2>2
<1>8. OneCounter'
  <2>1. \A u \in Tasks : count'[u].frame = count[u].frame
    BY <1>1, <1>2
  <2>. QED  BY <2>1 DEF CountKept, OneCounter
<1>9. CallbacksWait'
  BY <1>0, <1>2, TasksAre DEF CountKept, CallbacksWait
<1>10. ContentKept'
  BY <1>0 DEF CountKept, ContentKept, List
<1>. QED  BY <1>6, <1>7, <1>8, <1>9, <1>10 DEF CountKept
\* Leaving the countdown does not change the uses of any frame.
LEMMA CountLeftUses ==
    ASSUME VfbType, CountKept, NEW t \in Tasks, count[t].pc \in {"test", "free"},
           count'[t].pc \in {"free", "no"}, \A u \in Tasks : u # t => count'[u] = count[u],
           UNCHANGED <<queue_list, queue, send, recv>>
    PROVE  \A g \in Frames : UsesOf(g)' = UsesOf(g)
<1>1. ASSUME NEW g \in Frames PROVE UsesOf(g)' = UsesOf(g)
  <2>1. Queued(g)' = Queued(g) /\ ToTry(g)' = ToTry(g)
    BY QueuedSame, ToTrySame
  <2>2. Held(g)' = Held(g)
    <3>1. \A r \in Receivers : recv[r].pc = "callback" => count'[r] = count[r]
      BY TasksAre DEF CountKept, CallbacksWait
    <3>. QED  BY <3>1, HeldSame DEF Receiving, Counting
  <2>3. Taken(g)' = Taken(g)
    BY TakenSame DEF Counting
  <2>. QED  BY <2>1, <2>2, <2>3, UsesAre
<1>. QED  BY <1>1

\* A count that is tested as 0 has no use left, any other goes on.
LEMMA TestCounts ==
    ASSUME VfbType, VfbType', CountKept, NEW t \in Tasks, CountStep(t), TestCount(t) PROVE CountKept'
<1>0. /\ UNCHANGED <<queue_list, queue, send, recv, seen, heap, content, use_cnt>>
      /\ count[t].pc = "test"
  BY DEF CountStep, TestCount, Counting
<1>1. PICK f \in Frames : f = count[t].frame
  BY <1>0 DEF VfbType, TaskType, CountFits
<1>2. f \in heap /\ use_cnt[f] = UsesOf(f) /\ UsesOf(f) \in Nat
  BY <1>0, <1>1, UsesPositive DEF CountKept, CounterKept, FrameKept
<1>. DEFINE c == IF use_cnt[f] = 0 THEN [count[t] EXCEPT !.pc = "free"] ELSE NoCount
<1>3. count' = [count EXCEPT ![t] = c] /\ c.pc = (IF use_cnt[f] = 0 THEN "free" ELSE "no")
  <2>1. count[t] \in CountType
    BY DEF VfbType, TaskType
  <2>2. [count[t] EXCEPT !.pc = "free"].pc = "free" /\ NoCount.pc = "no"
    BY <2>1 DEF CountType, NoCount
  <2>3. CASE use_cnt[f] = 0
    BY <1>1, <2>2, <2>3 DEF TestCount
  <2>4. CASE use_cnt[f] # 0
    BY <1>1, <2>2, <2>4 DEF TestCount, EndCount
  <2>. QED  BY <2>3, <2>4
<1>4. /\ count'[t] = c /\ \A u \in Tasks : u # t => count'[u] = count[u]
      /\ (use_cnt[f] = 0 => c.frame = f) /\ (use_cnt[f] # 0 => c.frame = Nothing)
  BY <1>1, <1>3 DEF NoCount, VfbType, TaskType, CountType
<1>5. \A g \in Frames : UsesOf(g)' = UsesOf(g)
  <2>. HIDE DEF c
  <2>1. count'[t].pc \in {"free", "no"} /\ count[t].pc \in {"test", "free"}
    BY <1>0, <1>3, <1>4
  <2>. QED  BY <1>0, <1>4, <2>1, CountLeftUses
<1>6. ASSUME NEW g \in Frames PROVE FrameKept(g)'
  <2>1. FrameKept(g) /\ UsesOf(g)' = UsesOf(g)
    BY <1>5 DEF CountKept
  <2>2. ASSUME NEW u \in Tasks, count[u].frame = g, UsesOf(g) = 0 PROVE count'[u].frame = g
    <3>1. CASE u = t
      BY <1>1, <1>2, <1>4, <2>2, <3>1
    <3>2. CASE u # t
      BY <1>4, <2>2, <3>2
    <3>. QED  BY <3>1, <3>2
  <2>. QED  BY <1>0, <2>1, <2>2 DEF FrameKept
<1>7. ASSUME NEW u \in Tasks PROVE CounterKept(u)'
  <2>1. CASE u = t
    <3>1. CASE use_cnt[f] = 0
      <4>1. count'[t].pc = "free" /\ count'[t].frame = f /\ f \in heap' /\ UsesOf(f)' = 0
        BY <1>0, <1>2, <1>3, <1>5, <1>4, <3>1
      <4>2. CounterKept(t)'
        BY <4>1 DEF CounterKept
      <4>. QED  BY <2>1, <4>2
    <3>2. CASE use_cnt[f] # 0
      <4>1. CounterKept(t)'
        BY <1>3, <1>4, <3>2 DEF CounterKept
      <4>. QED  BY <2>1, <4>1
    <3>. QED  BY <3>1, <3>2
  <2>2. CASE u # t
    <3>1. CounterKept(u) /\ count'[u] = count[u]
      BY <1>4, <2>2 DEF CountKept
    <3>. QED  BY <1>0, <1>5, <3>1 DEF CounterKept
  <2>. QED  BY <2>1, <2>2
<1>8. OneCounter'
  <2>1. \A u \in Tasks : count'[u].frame # Nothing => count'[u].frame = count[u].frame
    BY <1>1, <1>4
  <2>. QED  BY <2>1 DEF CountKept, OneCounter
<1>9. CallbacksWait'
  <2>1. \A r \in Receivers : recv[r].pc = "callback" => count'[r] = count[r]
    BY <1>0, <1>4, TasksAre DEF CountKept, CallbacksWait
  <2>. QED  BY <1>0, <2>1 DEF CountKept, CallbacksWait
<1>10. ContentKept'
  BY <1>0 DEF CountKept, ContentKept, List
<1>. QED  BY <1>6, <1>7, <1>8, <1>9, <1>10 DEF CountKept

\* A frame is freed only when nothing uses it.
LEMMA FreeCounts ==
    ASSUME VfbType, VfbType', CountKept, NEW t \in Tasks, CountStep(t), FreeFrame(t) PROVE CountKept'
<1>0. /\ UNCHANGED <<queue_list, queue, send, recv, seen, use_cnt>> /\ count[t].pc = "free"
      /\ heap' = heap \ {count[t].frame} /\ content' = [content EXCEPT ![count[t].frame] = Nothing]
      /\ count' = [count EXCEPT ![t] = NoCount]
  BY DEF CountStep, FreeFrame, EndCount, Counting
<1>1. PICK f \in Frames : f = count[t].frame
  BY <1>0 DEF VfbType, TaskType, CountFits
<1>2. UsesOf(f) = 0 /\ CallbacksWait
  BY <1>0, <1>1 DEF CountKept, CounterKept
<1>3. /\ count'[t].pc = "no" /\ count'[t].frame = Nothing
      /\ \A u \in Tasks : u # t => count'[u] = count[u]
  BY <1>0 DEF NoCount, VfbType, TaskType
<1>4. \A g \in Frames : UsesOf(g)' = UsesOf(g)
  <2>1. count'[t].pc \in {"free", "no"} /\ count[t].pc \in {"test", "free"}
    BY <1>0, <1>3
  <2>. QED  BY <1>0, <1>3, <2>1, CountLeftUses
<1>5. \A u \in Tasks : u # t => count[u].frame # f
  BY <1>1, VfbAssumption DEF CountKept, OneCounter
<1>6. ASSUME NEW g \in Frames PROVE FrameKept(g)'
  <2>1. FrameKept(g) /\ UsesOf(g)' = UsesOf(g)
    BY <1>4 DEF CountKept
  <2>2. CASE g = f
    <3>1. UsesOf(f)' = 0 /\ f \notin heap'
      BY <1>0, <1>1, <1>2, <1>4
    <3>2. FrameKept(f)'
      BY <3>1 DEF FrameKept
    <3>. QED  BY <2>2, <3>2
  <2>3. CASE g # f
    <3>1. \A u \in Tasks : count[u].frame = g => count'[u].frame = g
      BY <1>1, <1>3, <2>3
    <3>2. g \in heap' <=> g \in heap
      BY <1>0, <1>1, <2>3
    <3>. QED  BY <1>0, <2>1, <3>1, <3>2 DEF FrameKept
  <2>. QED  BY <2>2, <2>3
<1>7. ASSUME NEW u \in Tasks PROVE CounterKept(u)'
  <2>1. CASE u = t
    <3>1. CounterKept(t)'
      BY <1>3 DEF CounterKept
    <3>. QED  BY <2>1, <3>1
  <2>2. CASE u # t
    <3>1. CounterKept(u) /\ count'[u] = count[u] /\ count[u].frame # f
      BY <1>3, <1>5, <2>2 DEF CountKept
    <3>. QED  BY <1>0, <1>1, <1>4, <3>1 DEF CounterKept
  <2>. QED  BY <2>1, <2>2
<1>8. OneCounter'
  <2>1. \A u \in Tasks : count'[u].frame # Nothing => count'[u].frame = count[u].frame
    BY <1>3
  <2>. QED  BY <2>1 DEF CountKept, OneCounter
<1>9. CallbacksWait'
  <2>1. \A r \in Receivers : recv[r].pc = "callback" => count'[r] = count[r]
    BY <1>0, <1>3, TasksAre DEF CountKept, CallbacksWait
  <2>. QED  BY <1>0, <2>1 DEF CountKept, CallbacksWait
<1>10. ContentKept'
  <2>1. \A g \in Frames : g # f => content'[g] = content[g]
    BY <1>0, <1>1 DEF VfbType, FrameType
  <2>2. ASSUME NEW r \in Receivers, NEW i \in 1 .. Len(queue[r]) PROVE content'[queue[r][i].frame] = queue[r][i].msg
    <3>1. queue[r][i].frame # f /\ queue[r][i].frame \in Frames
      BY <1>2, Used, CopyIs DEF Copies
    <3>. QED  BY <2>1, <3>1 DEF CountKept, ContentKept
  <2>3. ASSUME NEW r \in Receivers, recv[r].pc = "callback" PROVE content'[recv[r].copy.frame] = recv[r].copy.msg
    <3>1. recv[r].copy.frame # f /\ recv[r].copy.frame \in Frames
      BY <1>2, <2>3, Used DEF VfbType, TaskType, RecvFits, Copies
    <3>. QED  BY <2>1, <2>3, <3>1 DEF CountKept, ContentKept
  <2>4. ASSUME NEW s \in Senders, send[s].pc # "idle", send[s].i < Len(List(s))
        PROVE  content'[send[s].frame] = send[s].msg
    <3>1. send[s].frame # f /\ send[s].frame \in Frames
      BY <1>2, <2>4, Used, ItemIs
    <3>. QED  BY <2>1, <2>4, <3>1 DEF CountKept, ContentKept
  <2>. QED  BY <1>0, <2>2, <2>3, <2>4 DEF ContentKept, List
<1>. QED  BY <1>6, <1>7, <1>8, <1>9, <1>10 DEF CountKept

\* Types and counts hold at the start: no frame is in use.
LEMMA CountInit == ASSUME Init PROVE VfbType /\ CountKept
<1>1. VfbType
  BY TypeInit
<1>2. OneCounter /\ CallbacksWait /\ ContentKept /\ \A t \in Tasks : CounterKept(t)
  BY DEF Init, OneCounter, CallbacksWait, ContentKept, CounterKept, NoCount
<1>3. ASSUME NEW f \in Frames PROVE FrameKept(f)
  <2>1. Queued(f) = {} /\ Held(f) = {} /\ Taken(f) = {} /\ ToTry(f) = {}
    <3>1. ToTry(f) = {} /\ Held(f) = {} /\ Taken(f) = {}
      BY VfbAssumption DEF Init, ToTry, Held, Taken, Receiving, Counting, NoCount
    <3>2. \A p \in Receivers \X (1 .. QueueNum) : ~(p[2] <= Len(queue[p[1]]))
      BY VfbAssumption DEF Init
    <3>. QED  BY <3>1, <3>2 DEF Queued
  <2>2. ~(UsesOf(f) > 0)
    BY <2>1, UsesPositive
  <2>3. heap = {}
    BY DEF Init
  <2>. QED  BY <2>2, <2>3 DEF FrameKept
<1>. QED  BY <1>1, <1>2, <1>3 DEF CountKept

\* Every step keeps the counts.
LEMMA CountInductive ==
    ASSUME VfbType, VfbType', CountKept, ~Preempted, ~LateSubscribe, [Next]_vars PROVE CountKept'
<1>1. CASE UNCHANGED vars
  <2>1. \A s \in Senders : List(s)' = List(s)
    BY <1>1 DEF vars, List
  <2>. QED  BY <1>1, <2>1, ToTrySame, QuietKept DEF vars
<1>2. ASSUME NEW t \in Tasks, CountStep(t) PROVE CountKept'
  BY <1>2, StoreCounts, TestCounts, FreeCounts DEF CountStep
<1>3. ASSUME NEW s \in Senders, SenderStep(s) PROVE CountKept'
  BY <1>2, <1>3, BeginSendCounts, SendQueueCounts, SendFailsCounts, SendWaitsCounts, TasksAre DEF SenderStep
<1>4. ASSUME NEW r \in Receivers, Subscribe(r) \/ ReceiverStep(r) \/ WaitEnds(r) PROVE CountKept'
  BY <1>2, <1>4, SubscribeCounts, MsgReceiveCounts, CallbackReturnsCounts, ReceiverWaitsCounts, TasksAre
     DEF ReceiverStep
<1>. QED  BY <1>1, <1>3, <1>4 DEF Next

\* Exact counts mean that no frame in use is freed and no copy is overwritten.
LEMMA CountImplies == ASSUME VfbType, CountKept PROVE FramesCounted /\ CopiesIntact
<1>1. CallbacksWait /\ ContentKept /\ OneCounter
  BY DEF CountKept
<1>2. ASSUME NEW f \in Frames
      PROVE  /\ UsesOf(f) > 0 => f \in heap /\ use_cnt[f] = UsesOf(f)
             /\ f \in heap /\ UsesOf(f) = 0 => Cardinality({t \in Tasks : count[t].frame = f}) = 1
  <2>1. FrameKept(f)
    BY DEF CountKept
  <2>2. ASSUME f \in heap, UsesOf(f) = 0 PROVE Cardinality({t \in Tasks : count[t].frame = f}) = 1
    <3>1. PICK t \in Tasks : count[t].frame = f
      BY <2>1, <2>2 DEF FrameKept
    <3>2. {u \in Tasks : count[u].frame = f} = {t}
      BY <1>1, <3>1, VfbAssumption DEF OneCounter
    <3>. QED  BY <3>2, FS_Singleton
  <2>. QED  BY <2>1, <2>2 DEF FrameKept
<1>3. ASSUME NEW f \in Frames, UsesOf(f) # 0 PROVE f \in heap
  BY <1>3, UsesPositive DEF CountKept, FrameKept
<1>4. ASSUME NEW r \in Receivers, NEW i \in 1 .. Len(queue[r]) PROVE Intact(queue[r][i])
  <2>1. PICK f \in Frames : f = queue[r][i].frame
    BY CopyIs DEF Copies
  <2>2. UsesOf(f) # 0
    BY <1>1, <2>1, Used
  <2>. QED  BY <1>1, <1>3, <2>1, <2>2 DEF ContentKept, Intact
<1>5. ASSUME NEW r \in Receivers, recv[r].pc = "callback" PROVE Intact(recv[r].copy)
  <2>1. PICK f \in Frames : f = recv[r].copy.frame
    BY <1>5 DEF VfbType, TaskType, RecvFits, Copies
  <2>2. UsesOf(f) # 0
    BY <1>1, <1>5, <2>1, Used
  <2>. QED  BY <1>1, <1>3, <1>5, <2>1, <2>2 DEF ContentKept, Intact
<1>. QED  BY <1>2, <1>4, <1>5 DEF FramesCounted, CopiesIntact, Entries, Receiving

\* While no task is preempted in a countdown, use_cnt of a frame in use is the number of its
\* uses still to come, and a frame with none is being freed, by one task.
THEOREM FramesAreCounted ==
    ASSUME FewReceivers, ~Preempted, ~LateSubscribe PROVE Spec => []FramesCounted
<1>. USE DEF FewReceivers
<1>1. Init => VfbType /\ CountKept
  BY CountInit
<1>2. VfbType /\ CountKept /\ [Next]_vars => VfbType' /\ CountKept'
  BY TypeInductive, CountInductive
<1>3. VfbType /\ CountKept => FramesCounted
  BY CountImplies
<1>. QED  BY <1>1, <1>2, <1>3, PTL DEF Spec

\* Under the same conditions every pointer in a queue or a callback points to an allocated
\* frame that holds the message it was queued for.
THEOREM CopiesStayIntact ==
    ASSUME FewReceivers, ~Preempted, ~LateSubscribe PROVE Spec => []CopiesIntact
<1>. USE DEF FewReceivers
<1>1. Init => VfbType /\ CountKept
  BY CountInit
<1>2. VfbType /\ CountKept /\ [Next]_vars => VfbType' /\ CountKept'
  BY TypeInductive, CountInductive
<1>3. VfbType /\ CountKept => CopiesIntact
  BY CountImplies
<1>. QED  BY <1>1, <1>2, <1>3, PTL DEF Spec
================================================================================
