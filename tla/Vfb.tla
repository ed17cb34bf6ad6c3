--------------------------------- MODULE Vfb ---------------------------------
(***************************************************************************)
(* The message bus of Middlewares/vfb/vfb.c.  A send allocates one frame   *)
(* and puts a pointer to it into the queue of every task subscribed to its *)
(* event; the frame counts in use_cnt the uses still to come, and whoever  *)
(* counts it down to 0 frees it.  The queues are those of OsQueue, taken   *)
(* for the bounded FIFO they are shown to be there.  xFDSemaphore excludes *)
(* nobody: vfb_server_init creates it with count 1 and gives it once more, *)
(* and a take that times out answers 0, which passes for success.          *)
(***************************************************************************)
EXTENDS Integers, Sequences, FiniteSets

CONSTANTS Senders,       \* tasks and interrupts that send
          Interrupts,    \* those of them that use vfb_send_from_isr
          Receivers,     \* tasks running VFBTaskFrame, each with a queue of its own
          Events,
          EventsOf,      \* event_list of each receiver
          QueueNum,      \* queue_num, the length of every queue
          Frames,        \* the memory os_malloc can give out for frames
          Nothing,       \* no frame, no message
          MaxSends,      \* bound: how many messages each sender sends
          MaxTimeouts,   \* max_timeouts of VFB_MsgReceive
          LateSubscribe, \* whether a task may subscribe while another sends
          Preempted      \* whether a task may be preempted while it counts a frame down

Tasks == Senders \cup Receivers

ASSUME VfbAssumption ==
    /\ Interrupts \subseteq Senders
    /\ Senders \cap Receivers = {}
    /\ EventsOf \in [Receivers -> SUBSET Events]
    /\ QueueNum \in Nat \ {0}
    /\ MaxSends \in [Senders -> Nat]
    /\ MaxTimeouts \in Nat \ {0}
    /\ IsFiniteSet(Tasks)
    /\ Nothing \notin Frames
    /\ LateSubscribe \in BOOLEAN
    /\ Preempted \in BOOLEAN

VARIABLES queue_list, \* the receivers subscribed to each event, in order
          heap,       \* the frames allocated
          content,    \* the message in each frame
          use_cnt,    \* head.use_cnt of each frame
          queue,      \* the queue of each receiver
          send,       \* the vfb_send of each sender
          recv,       \* the VFB_MsgReceive of each receiver
          count,      \* the countdown of a frame by each task
          seen        \* for the properties: the number of the last message of each
                      \* sender each receiver's callback was given

vars == <<queue_list, heap, content, use_cnt, queue, send, recv, count, seen>>

\* What a sender puts into a frame: event, data and payload.  Numbers tell its messages apart.
Messages == UNION {[from : {s}, event : Events, number : 1 .. MaxSends[s]] : s \in Senders}

\* A copy in a queue is a pointer.  The message it was queued for is there for the
\* properties only.
Copies == [frame : Frames, msg : Messages]

NoCount == [pc |-> "no", frame |-> Nothing, value |-> 0]

Init ==
    /\ queue_list = [e \in Events |-> <<>>]
    /\ heap = {}
    /\ content = [f \in Frames |-> Nothing]
    /\ use_cnt = [f \in Frames |-> 0]
    /\ queue = [r \in Receivers |-> <<>>]
    /\ send = [s \in Senders |-> [pc |-> "idle", sent |-> 0, frame |-> Nothing,
                                  msg |-> Nothing, item |-> 0, i |-> 0, failures |-> 0]]
    /\ recv = [r \in Receivers |-> [pc |-> "new", copy |-> Nothing, timeouts |-> 0]]
    /\ count = [t \in Tasks |-> NoCount]
    /\ seen = [r \in Receivers |-> [s \in Senders |-> 0]]

(***************************************************************************)
(* Counting a frame down: use_cnt is read, written and read again, and the *)
(* frame freed if it is 0 by then.  Until then the task does nothing else. *)
(***************************************************************************)
Counting(t, l) == count[t].pc = l

\* A receiver leaves a count of 0 alone; a sender decrements it all the same, and the
\* 16 bits wrap.
LoadCount(t, f) ==
    /\ Preempted \/ \A u \in Tasks : count[u].frame # f
    /\ count' = [count EXCEPT ![t] =
                    [pc |-> IF use_cnt[f] = 0 /\ t \in Receivers THEN "test" ELSE "store",
                     frame |-> f, value |-> (use_cnt[f] - 1) % 2^16]]

EndCount(t) == count' = [count EXCEPT ![t] = NoCount]

StoreCount(t) ==
    /\ Counting(t, "store")
    /\ use_cnt' = [use_cnt EXCEPT ![count[t].frame] = count[t].value]
    /\ count' = [count EXCEPT ![t].pc = "test", ![t].value = 0]
    /\ UNCHANGED <<heap, content>>

\* A task that waits for the others to count the frame down, too.
TestCountWaits(t) ==
    /\ Counting(t, "test")
    /\ use_cnt[count[t].frame] = 0
    /\ count' = [count EXCEPT ![t].pc = "free"]
    /\ UNCHANGED <<heap, content, use_cnt>>

TestCount(t) ==
    /\ Counting(t, "test")
    /\ IF use_cnt[count[t].frame] = 0
       THEN count' = [count EXCEPT ![t].pc = "free"]
       ELSE EndCount(t)
    /\ UNCHANGED <<heap, content, use_cnt>>

FreeFrame(t) ==
    /\ Counting(t, "free")
    /\ heap' = heap \ {count[t].frame}
    /\ content' = [content EXCEPT ![count[t].frame] = Nothing]
    /\ EndCount(t)
    /\ UNCHANGED use_cnt

CountStep(t) ==
    /\ StoreCount(t) \/ TestCount(t) \/ FreeFrame(t)
    /\ UNCHANGED <<queue_list, queue, send, recv, seen>>

(***************************************************************************)
(* vfb_subscribe: once for each task, before its first message.            *)
(***************************************************************************)
\* The events in got are those for which the memory of a list item was found.
Subscribe(r) ==
    /\ recv[r].pc = "new"
    /\ LateSubscribe \/ \A s \in Senders : send[s].pc = "idle"
    /\ \E got \in SUBSET EventsOf[r] :
          queue_list' = [e \in Events |-> IF e \in got THEN Append(queue_list[e], r)
                                                       ELSE queue_list[e]]
    /\ recv' = [recv EXCEPT ![r].pc = "receive"]
    /\ UNCHANGED <<heap, content, use_cnt, queue, send, count, seen>>

(***************************************************************************)
(* __vfb_send_core.                                                        *)
(***************************************************************************)
Sending(s, l) == send[s].pc = l /\ Counting(s, "no")

List(s) == queue_list[send[s].msg.event]

\* A send that counts itself for one of the uses.
BeginSendCountsOneLess(s) ==
    /\ Sending(s, "idle")
    /\ send[s].sent < MaxSends[s]
    /\ \E e \in Events, f \in Frames \ heap :
          LET m == [from |-> s, event |-> e, number |-> send[s].sent + 1]
          IN /\ queue_list[e] # <<>>
             /\ heap' = heap \cup {f}
             /\ content' = [content EXCEPT ![f] = m]
             /\ use_cnt' = [use_cnt EXCEPT ![f] = Len(queue_list[e]) - 1]
             /\ send' = [send EXCEPT ![s] = [pc |-> "loop", sent |-> m.number, frame |-> f,
                                             msg |-> m, item |-> 1, i |-> 0, failures |-> 0]]
    /\ UNCHANGED <<queue_list, queue, recv, count, seen>>

\* Without a subscriber or without memory the send answers FD_FAIL and leaves all as it was.
BeginSend(s) ==
    /\ Sending(s, "idle")
    /\ send[s].sent < MaxSends[s]
    /\ \E e \in Events, f \in Frames \ heap :
          LET m == [from |-> s, event |-> e, number |-> send[s].sent + 1]
          IN /\ queue_list[e] # <<>>
             /\ heap' = heap \cup {f}
             /\ content' = [content EXCEPT ![f] = m]
             /\ use_cnt' = [use_cnt EXCEPT ![f] = Len(queue_list[e])]
             /\ send' = [send EXCEPT ![s] = [pc |-> "loop", sent |-> m.number, frame |-> f,
                                             msg |-> m, item |-> 1, i |-> 0, failures |-> 0]]
    /\ UNCHANGED <<queue_list, queue, recv, count, seen>>

\* A queue that takes one message too many.
SendQueueOneTooMany(s) ==
    /\ Sending(s, "loop") \/ Sending(s, "waiting")
    /\ send[s].i < Len(List(s))
    /\ LET r == List(s)[send[s].item]
       IN /\ Len(queue[r]) <= QueueNum
          /\ queue' = [queue EXCEPT ![r] = Append(@, [frame |-> send[s].frame,
                                                      msg |-> send[s].msg])]
    /\ send' = [send EXCEPT ![s].pc = "loop", ![s].item = @ + 1, ![s].i = @ + 1]
    /\ UNCHANGED <<queue_list, heap, content, use_cnt, recv, count, seen>>

\* A loop that stays at the same queue when it has sent, too.
SendQueueStays(s) ==
    /\ Sending(s, "loop") \/ Sending(s, "waiting")
    /\ send[s].i < Len(List(s))
    /\ LET r == List(s)[send[s].item]
       IN /\ Len(queue[r]) < QueueNum
          /\ queue' = [queue EXCEPT ![r] = Append(@, [frame |-> send[s].frame,
                                                      msg |-> send[s].msg])]
    /\ send' = [send EXCEPT ![s].pc = "loop", ![s].i = @ + 1]
    /\ UNCHANGED <<queue_list, heap, content, use_cnt, recv, count, seen>>

\* __vfb_send_queue finds room, at once or within its 100 ms.
SendQueue(s) ==
    /\ Sending(s, "loop") \/ Sending(s, "waiting")
    /\ send[s].i < Len(List(s))
    /\ LET r == List(s)[send[s].item]
       IN /\ Len(queue[r]) < QueueNum
          /\ queue' = [queue EXCEPT ![r] = Append(@, [frame |-> send[s].frame,
                                                      msg |-> send[s].msg])]
    /\ send' = [send EXCEPT ![s].pc = "loop", ![s].item = @ + 1, ![s].i = @ + 1]
    /\ UNCHANGED <<queue_list, heap, content, use_cnt, recv, count, seen>>

\* It finds none: a task waits, an interrupt fails at once.
QueueFull(s) ==
    /\ Sending(s, "loop")
    /\ send[s].i < Len(List(s))
    /\ Len(queue[List(s)[send[s].item]]) = QueueNum
    /\ send' = [send EXCEPT ![s].pc = IF s \in Interrupts THEN "failed" ELSE "waiting"]
    /\ UNCHANGED <<queue_list, heap, content, use_cnt, queue, recv, count, seen>>

\* A wait that ends does not look for room again.
WaitOver(s) ==
    /\ Sending(s, "waiting")
    /\ send' = [send EXCEPT ![s].pc = "failed"]
    /\ UNCHANGED <<queue_list, heap, content, use_cnt, queue, recv, count, seen>>

\* A failure that is not counted.
SendFailsUncounted(s) ==
    /\ Sending(s, "failed")
    /\ send' = [send EXCEPT ![s].pc = "loop", ![s].i = @ + 1, ![s].failures = @ + 1]
    /\ UNCHANGED <<queue_list, heap, content, use_cnt, queue, recv, count, seen>>

\* A failure that ends the loop.
SendFailsBreaks(s) ==
    /\ Sending(s, "failed")
    /\ LoadCount(s, send[s].frame)
    /\ send' = [send EXCEPT ![s].pc = "loop", ![s].i = Len(List(s)), ![s].failures = @ + 1]
    /\ UNCHANGED <<queue_list, heap, content, use_cnt, queue, recv, seen>>

\* The loop goes on with the next i, but with the same item of the list.
SendFails(s) ==
    /\ Sending(s, "failed")
    /\ LoadCount(s, send[s].frame)
    /\ send' = [send EXCEPT ![s].pc = "loop", ![s].i = @ + 1, ![s].failures = @ + 1]
    /\ UNCHANGED <<queue_list, heap, content, use_cnt, queue, recv, seen>>

EndSend(s) ==
    /\ Sending(s, "loop")
    /\ send[s].i >= Len(List(s))
    /\ send' = [send EXCEPT ![s] = [pc |-> "idle", sent |-> @.sent, frame |-> Nothing,
                                    msg |-> Nothing, item |-> 0, i |-> 0, failures |-> 0]]
    /\ UNCHANGED <<queue_list, heap, content, use_cnt, queue, recv, count, seen>>

SenderStep(s) == \/ BeginSend(s) \/ SendQueue(s) \/ QueueFull(s) \/ WaitOver(s)
                 \/ SendFails(s) \/ EndSend(s) \/ CountStep(s)

(***************************************************************************)
(* VFB_MsgReceive.                                                         *)
(***************************************************************************)
Receiving(r, l) == recv[r].pc = l /\ Counting(r, "no")

MsgReceive(r) ==
    /\ Receiving(r, "receive")
    /\ queue[r] # <<>>
    /\ LET c == Head(queue[r])
       IN /\ recv' = [recv EXCEPT ![r] = [pc |-> "callback", copy |-> c, timeouts |-> 0]]
          /\ seen' = [seen EXCEPT ![r][c.msg.from] = c.msg.number]
    /\ queue' = [queue EXCEPT ![r] = Tail(@)]
    /\ UNCHANGED <<queue_list, heap, content, use_cnt, send, count>>

CallbackReturns(r) ==
    /\ Receiving(r, "callback")
    /\ LoadCount(r, recv[r].copy.frame)
    /\ recv' = [recv EXCEPT ![r].pc = "receive", ![r].copy = Nothing]
    /\ UNCHANGED <<queue_list, heap, content, use_cnt, queue, send, seen>>

\* xTicksToWait passes with the queue empty; a message may still come before the
\* timeout is taken note of.
WaitEnds(r) ==
    /\ Receiving(r, "receive")
    /\ queue[r] = <<>>
    /\ recv' = [recv EXCEPT ![r].pc = "expired"]
    /\ UNCHANGED <<queue_list, heap, content, use_cnt, queue, send, count, seen>>

NoteTimeout(r) ==
    /\ Receiving(r, "expired")
    /\ recv' = [recv EXCEPT ![r].timeouts = @ + 1,
                            ![r].pc = IF recv[r].timeouts + 1 >= MaxTimeouts
                                      THEN "ended" ELSE "receive"]
    /\ UNCHANGED <<queue_list, heap, content, use_cnt, queue, send, count, seen>>

ReceiverStep(r) == MsgReceive(r) \/ CallbackReturns(r) \/ NoteTimeout(r)
                       \/ CountStep(r)

Next ==
    \/ \E s \in Senders : SenderStep(s)
    \/ \E r \in Receivers : Subscribe(r) \/ ReceiverStep(r) \/ WaitEnds(r)

Spec == Init /\ [][Next]_vars

\* A receiver that has something to do goes on; nobody has to send, to subscribe or to
\* time out, but a send that has begun goes on.
FairSpec ==
    /\ Spec
    /\ \A r \in Receivers : WF_vars(ReceiverStep(r))
    /\ \A s \in Senders : WF_vars(send[s].pc # "idle" /\ SenderStep(s))

--------------------------------------------------------------------------------
(***************************************************************************)
(* Correctness.                                                            *)
(***************************************************************************)
Entries(q) == {q[i] : i \in 1 .. Len(q)}

\* Queues and counters stay within their bounds.
TypeOK ==
    /\ \A e \in Events : Entries(queue_list[e]) \subseteq Receivers
    /\ heap \subseteq Frames
    /\ content \in [Frames -> Messages \cup {Nothing}]
    /\ use_cnt \in [Frames -> 0 .. 2^16 - 1]
    /\ \A r \in Receivers : /\ Entries(queue[r]) \subseteq Copies
                            /\ Len(queue[r]) <= QueueNum
    /\ \A s \in Senders : send[s].failures <= send[s].i
    /\ \A r \in Receivers : recv[r].timeouts <= MaxTimeouts
    /\ \A t \in Tasks : count[t].frame \in Frames \cup {Nothing}

Intact(c) == c.frame \in heap /\ content[c.frame] = c.msg

\* The pointers in the queues and in the callbacks point to allocated frames that still
\* hold the message they were queued for: what a callback checks is what was sent.
CopiesIntact ==
    \A r \in Receivers :
        /\ \A c \in Entries(queue[r]) : Intact(c)
        /\ Receiving(r, "callback") => Intact(recv[r].copy)

\* The uses of frame f still to come: copies in queues, callbacks, tasks that have not
\* yet stored the count, queues the sender has not yet tried.
UsesOf(f) ==
    LET queued == {p \in Receivers \X (1 .. QueueNum) :
                      p[2] <= Len(queue[p[1]]) /\ queue[p[1]][p[2]].frame = f}
        held   == {r \in Receivers : Receiving(r, "callback") /\ recv[r].copy.frame = f}
        taken  == {t \in Tasks : Counting(t, "store") /\ count[t].frame = f}
        to_try == {p \in Senders \X (1 .. Cardinality(Receivers)) :
                      send[p[1]].frame = f /\ send[p[1]].i < p[2] /\ p[2] <= Len(List(p[1]))}
    IN Cardinality(queued) + Cardinality(held) + Cardinality(taken) + Cardinality(to_try)

\* Full queues and slow receivers notwithstanding, use_cnt of a frame in use is the number
\* of its uses still to come, and a frame with none is freed, by one task.
FramesCounted ==
    \A f \in Frames :
        /\ UsesOf(f) > 0 => f \in heap /\ use_cnt[f] = UsesOf(f)
        /\ f \in heap /\ UsesOf(f) = 0 =>
              Cardinality({t \in Tasks : count[t].frame = f}) = 1

\* Each receiver gets the messages of each sender in the order they were sent, none of
\* them twice, however often a send tries a queue again.
DeliveredInOrder ==
    \A r \in Receivers : \A i \in 1 .. Len(queue[r]) :
        LET m == queue[r][i].msg
        IN /\ seen[r][m.from] < m.number
           /\ \A j \in 1 .. i - 1 : queue[r][j].msg.from = m.from =>
                                        queue[r][j].msg.number < m.number

Reached(r, m) ==
    \/ seen[r][m.from] >= m.number
    \/ \E c \in Entries(queue[r]) : c.msg = m

\* When a send is over, as many subscribers lack its message as tries failed: none if
\* every queue had room.  (A full queue does not cost its own task the message but the
\* last one on the list.)
MissedByFailures ==
    \A s \in Senders : Sending(s, "loop") /\ send[s].i >= Len(List(s)) =>
        Cardinality({r \in Entries(List(s)) : ~Reached(r, send[s].msg)}) = send[s].failures

\* A receiver empties its queue again and again, unless it has ended for want of
\* messages: what is queued reaches the callback.  (The number of sends is bounded.)
QueuesDrain ==
    \A r \in Receivers : queue[r] # <<>> ~> (queue[r] = <<>> \/ Receiving(r, "ended"))
================================================================================
