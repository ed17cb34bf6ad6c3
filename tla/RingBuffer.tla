------------------------------- MODULE RingBuffer -------------------------------
(***************************************************************************)
(* zero_topic_core/ring_buffer/ring_buffer.c, built with its default       *)
(* configuration (blocking API, ISR write and power-of-two capacity), over *)
(* the semaphores of Rte/src/linux/os_semaphore.c.                         *)
(*                                                                         *)
(* Every access to shared memory is a step of its own: the two index loads *)
(* of ring_buffer_get_count, the reload of the own index, the memcpy, the  *)
(* release store and the semaphore operations.  The loads and stores are   *)
(* taken to be sequentially consistent.                                    *)
(***************************************************************************)
EXTENDS Integers, Sequences

CONSTANTS Capacity,   \* items the ring holds, a power of two in the code
          IndexMod,   \* 2^(width of size_t): where write_idx and read_idx wrap
          SemMax,     \* SEM_VALUE_MAX: sem_post fails there and the code ignores it
          Items,      \* what a slot can hold
          NoItem,     \* the uninitialised contents of a slot
          Writers,    \* contexts (tasks, ISRs) that call a write function
          Readers,    \* tasks that call a read function
          WriteOps,   \* which write functions the writers call
          ReadOps     \* which read functions the readers call

AllWriteOps == {"write", "isr", "poll", "timed", "forever"}
AllReadOps  == {"read", "poll", "timed", "forever"}

ASSUME RingAssumption ==
    /\ Capacity \in Nat \ {0}
    /\ \E k \in 2 .. IndexMod : IndexMod = k * Capacity
    /\ IndexMod \in Nat
    /\ SemMax \in Nat /\ SemMax >= Capacity
    /\ NoItem \notin Items
    /\ WriteOps \subseteq AllWriteOps
    /\ ReadOps \subseteq AllReadOps

VARIABLES slots,       \* rb->buffer
          write_idx,   \* rb->write_idx
          read_idx,    \* rb->read_idx
          sem_items,   \* rb->sem_items
          sem_spaces,  \* rb->sem_spaces
          wr, rd,      \* the call of each writer and reader: where it is, which
                       \* function, the item it carries, the index it loaded last
          got          \* what item_out held when the last read returned 0

sems == <<sem_items, sem_spaces>>
vars == <<slots, write_idx, read_idx, sems, wr, rd, got>>

Slots == 0 .. Capacity - 1
Index == 0 .. IndexMod - 1

(***************************************************************************)
(* Index arithmetic on size_t.                                             *)
(***************************************************************************)
\* Masking with capacity - 1 is the remainder, the capacity being a power of two.
Mask(v) == v % Capacity

WrapIncNever(v) == v + 1
WrapInc(v) == IF v + 1 = IndexMod THEN 0 ELSE v + 1

\* w - r on size_t: a difference below zero wraps around.
WrapSub(w, r) == IF w >= r THEN w - r ELSE w - r + IndexMod

\* ring_buffer_get_count on the two index values it loaded.
CountOf(w, r) == WrapSub(w, r)

\* ring_buffer_get_space on the same two values: also a size_t subtraction.
SpaceOf(w, r) == WrapSub(Capacity, CountOf(w, r))

HasSpaceOneTooMany(w, r) == WrapSub(Capacity + 1, CountOf(w, r)) # 0
HasSpace(w, r) == SpaceOf(w, r) # 0

HasItem(w, r) == CountOf(w, r) # 0

(***************************************************************************)
(* The semaphores.  os_semaphore_take answers 1 when it decremented, 0 on  *)
(* a timeout, and for a wait of 0 ms it only reads the value; the ring     *)
(* tests the answer with "< 0", so all of these count as taken.            *)
(***************************************************************************)
Take(sem, op) ==
    CASE op = "poll"    -> {sem}
      [] op = "timed"   -> {IF sem > 0 THEN sem - 1 ELSE 0}
      [] OTHER          -> IF sem > 0 THEN {sem - 1} ELSE {}   \* "forever"

Give(sem) == IF sem < SemMax THEN sem + 1 ELSE sem

Blocking(op)  == op \in {"poll", "timed", "forever"}

\* ring_buffer_write_isr signals sem_items but has taken no space for it.
SignalsItem(op) == Blocking(op) \/ op = "isr"

(***************************************************************************)
(* ring_buffer_create: both indices 0, no item, Capacity spaces; the       *)
(* buffer comes from malloc.                                               *)
(***************************************************************************)
Idle == [pc |-> "idle", op |-> "none", item |-> NoItem, idx |-> 0]
Called(op, v) == [pc |-> IF Blocking(op) THEN "take" ELSE "load",
                  op |-> op, item |-> v, idx |-> 0]
Giving(op) == [Idle EXCEPT !.pc = "give", !.op = op]

Init ==
    /\ slots = [s \in Slots |-> NoItem]
    /\ write_idx = 0
    /\ read_idx = 0
    /\ sem_items = 0
    /\ sem_spaces = Capacity
    /\ wr = [p \in Writers |-> Idle]
    /\ rd = [c \in Readers |-> Idle]
    /\ got = [c \in Readers |-> NoItem]

(***************************************************************************)
(* Writing.                                                                *)
(***************************************************************************)
BeginWrite(p) ==
    /\ wr[p].pc = "idle"
    /\ \E op \in WriteOps, v \in Items :
          wr' = [wr EXCEPT ![p] = Called(op, v)]
    /\ UNCHANGED <<slots, write_idx, read_idx, sems, rd, got>>

TakeSpace(p) ==
    /\ wr[p].pc = "take"
    /\ sem_spaces' \in Take(sem_spaces, wr[p].op)
    /\ wr' = [wr EXCEPT ![p] = [@ EXCEPT !.pc = "load"]]
    /\ UNCHANGED <<slots, write_idx, read_idx, sem_items, rd, got>>

\* ring_buffer_get_count loads write_idx first.
PushLoad(p) ==
    /\ wr[p].pc = "load"
    /\ wr' = [wr EXCEPT ![p] = [@ EXCEPT !.pc = "check", !.idx = write_idx]]
    /\ UNCHANGED <<slots, write_idx, read_idx, sems, rd, got>>

\* It then loads read_idx, and the push goes on or gives up.
PushCheck(p) ==
    /\ wr[p].pc = "check"
    /\ wr' = [wr EXCEPT ![p] =
          IF HasSpace(@.idx, read_idx) THEN [@ EXCEPT !.pc = "index"]
          ELSE IF Blocking(@.op)     THEN [@ EXCEPT !.pc = "refund"]
          ELSE Idle]
    /\ UNCHANGED <<slots, write_idx, read_idx, sems, rd, got>>

\* A failed push of ring_buffer_write_blocking gives the space back.
RefundSpace(p) ==
    /\ wr[p].pc = "refund"
    /\ sem_spaces' = Give(sem_spaces)
    /\ wr' = [wr EXCEPT ![p] = Idle]
    /\ UNCHANGED <<slots, write_idx, read_idx, sem_items, rd, got>>

PushIndex(p) ==
    /\ wr[p].pc = "index"
    /\ wr' = [wr EXCEPT ![p] = [@ EXCEPT !.pc = "copy", !.idx = write_idx]]
    /\ UNCHANGED <<slots, write_idx, read_idx, sems, rd, got>>

\* The memcpy lasts as long as the writer is at "copy"; its effect is complete here.
PushCopy(p) ==
    /\ wr[p].pc = "copy"
    /\ slots' = [slots EXCEPT ![Mask(wr[p].idx)] = wr[p].item]
    /\ wr' = [wr EXCEPT ![p] = [@ EXCEPT !.pc = "store"]]
    /\ UNCHANGED <<write_idx, read_idx, sems, rd, got>>

PushStore(p) ==
    /\ wr[p].pc = "store"
    /\ write_idx' = WrapInc(wr[p].idx)
    /\ wr' = [wr EXCEPT ![p] = IF SignalsItem(@.op) THEN Giving(@.op) ELSE Idle]
    /\ UNCHANGED <<slots, read_idx, sems, rd, got>>

GiveItemForgotten(p) ==
    /\ wr[p].pc = "give"
    /\ wr' = [wr EXCEPT ![p] = Idle]
    /\ UNCHANGED <<slots, write_idx, read_idx, sems, rd, got>>

GiveItem(p) ==
    /\ wr[p].pc = "give"
    /\ sem_items' = Give(sem_items)
    /\ wr' = [wr EXCEPT ![p] = Idle]
    /\ UNCHANGED <<slots, write_idx, read_idx, sem_spaces, rd, got>>

WriterStep(p) ==
    \/ BeginWrite(p) \/ TakeSpace(p)   \/ PushLoad(p) \/ PushCheck(p) \/ RefundSpace(p)
    \/ PushIndex(p)  \/ PushCopy(p)    \/ PushStore(p) \/ GiveItem(p)

(***************************************************************************)
(* Reading.                                                                *)
(***************************************************************************)
BeginRead(c) ==
    /\ rd[c].pc = "idle"
    /\ \E op \in ReadOps :
          rd' = [rd EXCEPT ![c] = Called(op, NoItem)]
    /\ UNCHANGED <<slots, write_idx, read_idx, sems, wr, got>>

TakeItem(c) ==
    /\ rd[c].pc = "take"
    /\ sem_items' \in Take(sem_items, rd[c].op)
    /\ rd' = [rd EXCEPT ![c] = [@ EXCEPT !.pc = "load"]]
    /\ UNCHANGED <<slots, write_idx, read_idx, sem_spaces, wr, got>>

PopLoad(c) ==
    /\ rd[c].pc = "load"
    /\ rd' = [rd EXCEPT ![c] = [@ EXCEPT !.pc = "check", !.idx = write_idx]]
    /\ UNCHANGED <<slots, write_idx, read_idx, sems, wr, got>>

PopCheck(c) ==
    /\ rd[c].pc = "check"
    /\ rd' = [rd EXCEPT ![c] =
          IF HasItem(@.idx, read_idx) THEN [@ EXCEPT !.pc = "index"]
          ELSE IF Blocking(@.op)    THEN [@ EXCEPT !.pc = "refund"]
          ELSE Idle]
    /\ UNCHANGED <<slots, write_idx, read_idx, sems, wr, got>>

RefundItem(c) ==
    /\ rd[c].pc = "refund"
    /\ sem_items' = Give(sem_items)
    /\ rd' = [rd EXCEPT ![c] = Idle]
    /\ UNCHANGED <<slots, write_idx, read_idx, sem_spaces, wr, got>>

PopIndex(c) ==
    /\ rd[c].pc = "index"
    /\ rd' = [rd EXCEPT ![c] = [@ EXCEPT !.pc = "copy", !.idx = read_idx]]
    /\ UNCHANGED <<slots, write_idx, read_idx, sems, wr, got>>

\* A pop that frees the slot before it has copied it out.
PopCopyAfterRelease(c) ==
    /\ rd[c].pc = "copy"
    /\ read_idx' = WrapInc(rd[c].idx)
    /\ rd' = [rd EXCEPT ![c] = [@ EXCEPT !.pc = "store", !.item = slots[Mask(rd[c].idx)]]]
    /\ UNCHANGED <<slots, write_idx, sems, wr, got>>

PopCopy(c) ==
    /\ rd[c].pc = "copy"
    /\ rd' = [rd EXCEPT ![c] = [@ EXCEPT !.pc = "store", !.item = slots[Mask(rd[c].idx)]]]
    /\ UNCHANGED <<slots, write_idx, read_idx, sems, wr, got>>

PopStore(c) ==
    /\ rd[c].pc = "store"
    /\ read_idx' = WrapInc(rd[c].idx)
    /\ got' = [got EXCEPT ![c] = rd[c].item]
    /\ rd' = [rd EXCEPT ![c] = IF Blocking(@.op) THEN Giving(@.op) ELSE Idle]
    /\ UNCHANGED <<slots, write_idx, sems, wr>>

\* A pop that returns its token to the readers instead of the writers.
GiveSpaceToReaders(c) ==
    /\ rd[c].pc = "give"
    /\ sem_items' = Give(sem_items)
    /\ rd' = [rd EXCEPT ![c] = Idle]
    /\ UNCHANGED <<slots, write_idx, read_idx, sem_spaces, wr, got>>

GiveSpace(c) ==
    /\ rd[c].pc = "give"
    /\ sem_spaces' = Give(sem_spaces)
    /\ rd' = [rd EXCEPT ![c] = Idle]
    /\ UNCHANGED <<slots, write_idx, read_idx, sem_items, wr, got>>

ReaderStep(c) ==
    \/ BeginRead(c) \/ TakeItem(c) \/ PopLoad(c)  \/ PopCheck(c) \/ RefundItem(c)
    \/ PopIndex(c)  \/ PopCopy(c)  \/ PopStore(c) \/ GiveSpace(c)

(***************************************************************************)
(* ring_buffer_reset takes no lock: the owner calls it while nobody else   *)
(* uses the ring.  It destroys and creates both semaphores.                *)
(***************************************************************************)
Quiescent == /\ \A p \in Writers : wr[p].pc = "idle"
             /\ \A c \in Readers : rd[c].pc = "idle"

Reset ==
    /\ Quiescent
    /\ write_idx' = 0
    /\ read_idx' = 0
    /\ sem_items' = 0
    /\ sem_spaces' = Capacity
    /\ UNCHANGED <<slots, wr, rd, got>>

Next ==
    \/ \E p \in Writers : WriterStep(p)
    \/ \E c \in Readers : ReaderStep(c)
    \/ Reset

Spec == Init /\ [][Next]_vars

(***************************************************************************)
(* Fairness: every task inside a call keeps being scheduled, and a reader  *)
(* is a consumer loop that calls again.  A writer need not call at all.    *)
(***************************************************************************)
WriterMoves(p) == wr[p].pc # "idle" /\ WriterStep(p)

FairSpec == /\ Spec
            /\ \A p \in Writers : WF_vars(WriterMoves(p))
            /\ \A c \in Readers : WF_vars(ReaderStep(c))

(***************************************************************************)
(* Properties.                                                             *)
(***************************************************************************)
CallState == [pc : {"idle", "take", "load", "check", "refund", "index", "copy", "store", "give"},
              op : AllWriteOps \cup AllReadOps \cup {"none"},
              item : Items \cup {NoItem}, idx : Index]

\* Types; in particular both indices stay within size_t and both semaphores below
\* their maximum.
TypeOK ==
    /\ slots \in [Slots -> Items \cup {NoItem}]
    /\ write_idx \in Index
    /\ read_idx \in Index
    /\ sem_items \in 0 .. SemMax
    /\ sem_spaces \in 0 .. SemMax
    /\ wr \in [Writers -> CallState]
    /\ rd \in [Readers -> CallState]
    /\ got \in [Readers -> Items \cup {NoItem}]

Count == CountOf(write_idx, read_idx)

\* The usage the lock-free paths are written for: one context writes, one reads.
SPSC == /\ \A p, q \in Writers : p = q
        /\ \A c, d \in Readers : c = d

\* What a call relies on between its check and its store, although both sides move
\* meanwhile: the room (or the item) it saw is still there, its index is current, and
\* the slot holds what it copied.
WriterInv(p) ==
    /\ wr[p].pc \notin {"idle", "give"} => wr[p].item \in Items
    /\ wr[p].pc \in {"check", "copy", "store"} => wr[p].idx = write_idx
    /\ wr[p].pc \in {"index", "copy", "store"} => Count < Capacity
    /\ wr[p].pc = "store" => slots[Mask(write_idx)] = wr[p].item

ReaderInv(c) ==
    /\ rd[c].pc = "check" => CountOf(rd[c].idx, read_idx) <= Count
    /\ rd[c].pc \in {"index", "copy", "store"} => Count > 0
    /\ rd[c].pc \in {"copy", "store"} => rd[c].idx = read_idx
    /\ rd[c].pc = "store" => slots[Mask(read_idx)] = rd[c].item

CallsInv == /\ Count <= Capacity
            /\ \A p \in Writers : WriterInv(p)
            /\ \A c \in Readers : ReaderInv(c)

\* No memcpy into a slot overlaps a memcpy out of it or another one into it
\* (__rb_push and __rb_pop take no lock around theirs).
NoSlotRace ==
    \A p \in Writers : wr[p].pc = "copy" =>
        /\ \A c \in Readers : rd[c].pc = "copy" => Mask(rd[c].idx) # Mask(wr[p].idx)
        /\ \A q \in Writers \ {p} : wr[q].pc = "copy" => Mask(wr[q].idx) # Mask(wr[p].idx)

\* The items in the ring, oldest first.
Contents == [i \in 1 .. Count |-> slots[Mask(read_idx + i - 1)]]

Fifo == INSTANCE BoundedFifo WITH queue <- Contents

\* The ring is a bounded FIFO queue: nothing is lost, duplicated, reordered or
\* read uninitialised, whatever mix of write, write_isr, write_blocking, read and
\* read_blocking the two sides call and whatever the semaphores count by then.
RingIsFifo == Fifo!Spec

Holders(threads, states) == {t \in DOMAIN threads : threads[t].pc \in states}

\* With only unbounded blocking calls each of the Capacity tokens is in exactly one
\* place: in sem_spaces, with the writer, in sem_items or with the reader.
TokensConserved ==
    LET one(S) == IF S = {} THEN 0 ELSE 1 IN
    /\ sem_items + one(Holders(rd, {"load", "check", "refund", "index", "copy", "store"}))
                 + one(Holders(wr, {"give"})) = Count
    /\ sem_spaces + one(Holders(wr, {"load", "check", "refund", "index", "copy", "store"}))
                  + one(Holders(rd, {"give"})) = Capacity - Count

\* A call that waits without a time limit never fails: it waits until it is done.
UnboundedWaitNeverFails ==
    /\ \A p \in Writers : wr[p].op = "forever" => wr[p].pc # "refund"
    /\ \A c \in Readers : rd[c].op = "forever" => rd[c].pc # "refund"

\* A writer waiting for space gets it and returns, as long as the reader keeps
\* reading: no wakeup is lost between the semaphores and the indices.
BlockedWriterReturns == \A p \in Writers : wr[p].pc = "take" ~> wr[p].pc = "idle"
================================================================================
