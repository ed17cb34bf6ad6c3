---------------------------- MODULE RingBufferProofs ----------------------------
(***************************************************************************)
(* Proofs about ring_buffer.c for every capacity, index width and set of   *)
(* items: TypeCorrect for any number of tasks; CallsConsistent,            *)
(* SlotsNotShared and RingImplementsFifo for one writer and one reader     *)
(* (SPSC), the usage the lock-free paths are written for; with calls that  *)
(* wait without a limit only, TokensAreConserved and UnboundedWaitsSucceed *)
(* as well.                                                                *)
(***************************************************************************)
EXTENDS RingBuffer, SequenceTheorems, TLAPS

\* Division with remainder: the remainder is unique.
LEMMA ModUnique ==
    ASSUME NEW n \in Nat \ {0}, NEW q \in Int, NEW r \in 0 .. n - 1
    PROVE  (n * q + r) % n = r
  OBVIOUS

\* Division with remainder: the quotient exists.
LEMMA DivMod ==
    ASSUME NEW n \in Nat \ {0}, NEW x \in Nat
    PROVE  \E q \in Nat : x = n * q + (x % n) /\ x % n \in 0 .. n - 1
<1>1. x \div n \in Nat /\ x = n * (x \div n) + (x % n) /\ x % n \in 0 .. n - 1
  OBVIOUS
<1>. QED  BY <1>1

\* A position and the one IndexMod later share a slot: indices may wrap.
LEMMA MaskPeriodic ==
    ASSUME NEW x \in Nat
    PROVE  Mask(x + IndexMod) = Mask(x)
<1>1. PICK k \in 2 .. IndexMod : IndexMod = k * Capacity
  BY RingAssumption
<1>2. PICK q \in Nat : x = Capacity * q + (x % Capacity) /\ x % Capacity \in 0 .. Capacity - 1
  BY DivMod, RingAssumption
<1>. DEFINE r == x % Capacity
<1>3. x + IndexMod = Capacity * (q + k) + r
  BY <1>1, <1>2, RingAssumption
<1>4. (Capacity * (q + k) + r) % Capacity = r
  <2>1. q + k \in Int /\ r \in 0 .. Capacity - 1 /\ Capacity \in Nat \ {0}
    BY <1>2, RingAssumption
  <2>2. HIDE DEF r
  <2>. QED  BY <2>1, ModUnique
<1>. QED  BY <1>3, <1>4 DEF Mask

\* Capacity consecutive positions have distinct slots.
LEMMA MaskDistinct ==
    ASSUME NEW x \in Nat, NEW y \in Nat, x < y, y < x + Capacity
    PROVE  Mask(x) # Mask(y)
<1>. SUFFICES ASSUME x % Capacity = y % Capacity PROVE FALSE
  BY DEF Mask
<1>1. PICK q \in Nat : x = Capacity * q + (x % Capacity)
  BY DivMod, RingAssumption
<1>2. PICK k \in Nat : y = Capacity * k + (x % Capacity)
  BY DivMod, RingAssumption
<1>3. y - x = Capacity * (k - q) /\ 0 < y - x /\ y - x < Capacity
  BY <1>1, <1>2, RingAssumption
<1>4. CASE k - q <= 0
  BY <1>3, <1>4, RingAssumption
<1>5. CASE k - q >= 1
  <2>1. Capacity * (k - q) >= Capacity
    BY <1>5, RingAssumption
  <2>. QED  BY <1>3, <2>1, RingAssumption
<1>. QED  BY <1>4, <1>5

-----------------------------------------------------------------------------
(***************************************************************************)
(* Index arithmetic.                                                       *)
(***************************************************************************)
\* The indices count further than the ring is long.
LEMMA IndexModLarge == IndexMod \in Nat /\ IndexMod > Capacity /\ Capacity \in Nat \ {0}
<1>1. PICK k \in 2 .. IndexMod : IndexMod = k * Capacity
  BY RingAssumption
<1>2. k * Capacity >= 2 * Capacity
  BY RingAssumption
<1>. QED  BY <1>1, <1>2, RingAssumption

\* A push counts one more, also when write_idx wraps.
LEMMA CountAfterWrite ==
    ASSUME NEW w \in Index, NEW r \in Index, CountOf(w, r) < Capacity
    PROVE  WrapInc(w) \in Index /\ CountOf(WrapInc(w), r) = CountOf(w, r) + 1
  BY IndexModLarge DEF Index, WrapInc, CountOf, WrapSub

\* A pop counts one less, also when read_idx wraps.
LEMMA CountAfterRead ==
    ASSUME NEW w \in Index, NEW r \in Index, CountOf(w, r) > 0
    PROVE  WrapInc(r) \in Index /\ CountOf(w, WrapInc(r)) = CountOf(w, r) - 1
  BY IndexModLarge DEF Index, WrapInc, CountOf, WrapSub

\* Counts, successor indices and slots are of their types.
LEMMA CountType ==
    ASSUME NEW w \in Index, NEW r \in Index
    PROVE  CountOf(w, r) \in Nat /\ WrapInc(w) \in Index /\ Mask(w) \in Slots
<1>1. CountOf(w, r) \in Nat /\ WrapInc(w) \in Index
  BY IndexModLarge DEF Index, WrapInc, CountOf, WrapSub
<1>2. Mask(w) \in Slots
  BY IndexModLarge DEF Index, Mask, Slots
<1>. QED  BY <1>1, <1>2

\* The space test of the push is exact as long as the ring is not overfull.
LEMMA SpaceWhenNotFull ==
    ASSUME NEW w \in Index, NEW r \in Index, CountOf(w, r) <= Capacity
    PROVE  HasSpace(w, r) <=> CountOf(w, r) < Capacity
<1>. DEFINE n == CountOf(w, r)
<1>1. n \in Nat
  BY CountType
<1>2. HasSpace(w, r) <=> WrapSub(Capacity, n) # 0
  BY DEF HasSpace, SpaceOf
<1>. HIDE DEF n
<1>3. n <= Capacity => (WrapSub(Capacity, n) # 0 <=> n < Capacity)
  BY <1>1, IndexModLarge DEF WrapSub
<1>. QED  BY <1>2, <1>3 DEF n

\* The slot i places after the oldest item; at i = Count it is the slot to write.
LEMMA MaskWrites ==
    ASSUME NEW w \in Index, NEW r \in Index
    PROVE  Mask(r + CountOf(w, r)) = Mask(w)
<1>1. CASE w >= r
  BY <1>1 DEF CountOf, WrapSub, Index
<1>2. CASE ~(w >= r)
  <2>1. r + CountOf(w, r) = w + IndexMod
    BY <1>2, IndexModLarge DEF CountOf, WrapSub, Index
  <2>. QED  BY <2>1, MaskPeriodic DEF Index
<1>. QED  BY <1>1, <1>2

\* After a pop the remaining items are where they were.
LEMMA MaskAfterRead ==
    ASSUME NEW r \in Index, NEW i \in Nat
    PROVE  Mask(WrapInc(r) + i) = Mask(r + i + 1)
<1>1. CASE r + 1 = IndexMod
  <2>1. WrapInc(r) + i = i /\ r + i + 1 = i + IndexMod
    BY <1>1, IndexModLarge DEF WrapInc, Index
  <2>. QED  BY <2>1, MaskPeriodic
<1>2. CASE r + 1 # IndexMod
  BY <1>2 DEF WrapInc, Index
<1>. QED  BY <1>1, <1>2

\* The slot to write is none of those that hold items.
LEMMA HeadNotTail ==
    ASSUME NEW w \in Index, NEW r \in Index, NEW i \in Nat,
           i < CountOf(w, r), CountOf(w, r) < Capacity
    PROVE  Mask(r + i) # Mask(w)
<1>1. r + i \in Nat /\ r + CountOf(w, r) \in Nat
  BY CountType DEF Index
<1>2. Mask(r + i) # Mask(r + CountOf(w, r))
  BY <1>1, CountType, MaskDistinct, IndexModLarge DEF Index
<1>. QED  BY <1>2, MaskWrites

\* The initial counts are counts.
LEMMA InitialCounts == 0 \in Index /\ 0 \in 0 .. SemMax /\ Capacity \in 0 .. SemMax
<1>1. SemMax \in Nat /\ SemMax >= Capacity
  BY RingAssumption
<1>. QED  BY <1>1, IndexModLarge DEF Index

-----------------------------------------------------------------------------
(***************************************************************************)
(* Types.                                                                  *)
(***************************************************************************)
\* Semaphores keep their counts in range.
LEMMA SemTypes ==
    ASSUME NEW s \in 0 .. SemMax
    PROVE  /\ Give(s) \in 0 .. SemMax
           /\ \A op : Take(s, op) \subseteq 0 .. SemMax
  BY RingAssumption DEF Give, Take

Pcs == {"idle", "take", "load", "check", "refund", "index", "copy", "store", "give"}

\* The updates the actions make to a call keep it a call.
LEMMA CallTypes ==
    /\ Idle \in CallState
    /\ \A x \in CallState :
          /\ x.pc \in Pcs /\ x.item \in Items \cup {NoItem} /\ x.idx \in Index
          /\ Giving(x.op) \in CallState
          /\ \A l \in Pcs : [x EXCEPT !.pc = l] \in CallState
          /\ \A l \in Pcs, i \in Index : [x EXCEPT !.pc = l, !.idx = i] \in CallState
          /\ \A l \in Pcs, v \in Items \cup {NoItem} : [x EXCEPT !.pc = l, !.item = v] \in CallState
    /\ \A op \in AllWriteOps \cup AllReadOps, v \in Items \cup {NoItem} : Called(op, v) \in CallState
<1>. USE DEF CallState, Pcs
<1>1. 0 \in Index
  BY IndexModLarge DEF Index
<1>2. Idle \in CallState
  BY <1>1 DEF Idle
<1>3. ASSUME NEW x \in CallState PROVE Giving(x.op) \in CallState
  BY <1>1 DEF Giving, Idle
<1>4. ASSUME NEW op \in AllWriteOps \cup AllReadOps, NEW v \in Items \cup {NoItem}
      PROVE  Called(op, v) \in CallState
  BY <1>1 DEF Called
<1>. QED  BY <1>2, <1>3, <1>4, ZenonT(30)

\* Type correctness of the ring: both indices stay in the range of size_t and both
\* semaphore counts in theirs, for any number of writers and readers.
THEOREM TypeCorrect == Spec => []TypeOK
<1>1. Init => TypeOK
  BY RingAssumption, IndexModLarge DEF Init, TypeOK, Idle, CallState, Index, Slots
<1>2. TypeOK /\ [Next]_vars => TypeOK'
  <2>. SUFFICES ASSUME TypeOK, [Next]_vars PROVE TypeOK'
    OBVIOUS
  <2>. USE CallTypes DEF TypeOK, sems, Pcs
  <2>1. ASSUME NEW p \in Writers, WriterStep(p) PROVE TypeOK'
    <3>1. CASE BeginWrite(p)
      <4>1. PICK op \in WriteOps, v \in Items : wr' = [wr EXCEPT ![p] = Called(op, v)]
        BY <3>1 DEF BeginWrite
      <4>2. Called(op, v) \in CallState
        BY RingAssumption
      <4>. QED  BY <3>1, <4>1, <4>2 DEF BeginWrite
    <3>2. CASE TakeSpace(p)
      <4>1. sem_spaces' \in 0 .. SemMax
        BY <3>2, SemTypes DEF TakeSpace
      <4>. QED  BY <3>2, <4>1 DEF TakeSpace
    <3>3. CASE PushLoad(p)
      BY <3>3 DEF PushLoad
    <3>4. CASE PushCheck(p)
      BY <3>4 DEF PushCheck
    <3>5. CASE RefundSpace(p)
      BY <3>5, SemTypes DEF RefundSpace
    <3>6. CASE PushIndex(p)
      BY <3>6 DEF PushIndex
    <3>7. CASE PushCopy(p)
      BY <3>7, CountType DEF PushCopy
    <3>8. CASE PushStore(p)
      BY <3>8, CountType DEF PushStore
    <3>9. CASE GiveItem(p)
      BY <3>9, SemTypes DEF GiveItem
    <3>. QED  BY <2>1, <3>1, <3>2, <3>3, <3>4, <3>5, <3>6, <3>7, <3>8, <3>9 DEF WriterStep
  <2>2. ASSUME NEW c \in Readers, ReaderStep(c) PROVE TypeOK'
    <3>1. CASE BeginRead(c)
      <4>1. PICK op \in ReadOps : rd' = [rd EXCEPT ![c] = Called(op, NoItem)]
        BY <3>1 DEF BeginRead
      <4>2. Called(op, NoItem) \in CallState
        BY RingAssumption
      <4>. QED  BY <3>1, <4>1, <4>2 DEF BeginRead
    <3>2. CASE TakeItem(c)
      <4>1. sem_items' \in 0 .. SemMax
        BY <3>2, SemTypes DEF TakeItem
      <4>. QED  BY <3>2, <4>1 DEF TakeItem
    <3>3. CASE PopLoad(c)
      BY <3>3 DEF PopLoad
    <3>4. CASE PopCheck(c)
      BY <3>4 DEF PopCheck
    <3>5. CASE RefundItem(c)
      BY <3>5, SemTypes DEF RefundItem
    <3>6. CASE PopIndex(c)
      BY <3>6 DEF PopIndex
    <3>7. CASE PopCopy(c)
      BY <3>7, CountType, ZenonT(30) DEF PopCopy
    <3>8. CASE PopStore(c)
      BY <3>8, CountType DEF PopStore
    <3>9. CASE GiveSpace(c)
      BY <3>9, SemTypes DEF GiveSpace
    <3>. QED  BY <2>2, <3>1, <3>2, <3>3, <3>4, <3>5, <3>6, <3>7, <3>8, <3>9 DEF ReaderStep
  <2>3. CASE Reset
    BY <2>3, InitialCounts DEF Reset
  <2>4. CASE UNCHANGED vars
    BY <2>4 DEF vars
  <2>. QED  BY <2>1, <2>2, <2>3, <2>4 DEF Next
<1>. QED  BY <1>1, <1>2, PTL DEF Spec

-----------------------------------------------------------------------------
(***************************************************************************)
(* One writer and one reader.                                              *)
(***************************************************************************)
\* A step that moves one call and no shared variable the other calls look at.
LEMMA WriterAlone ==
    ASSUME SPSC, CallsInv, NEW p \in Writers, WriterInv(p)',
           UNCHANGED <<slots, write_idx, read_idx, rd>>
    PROVE  CallsInv'
<1>1. \A q \in Writers : q = p
  BY DEF SPSC
<1>2. \A c \in Readers : ReaderInv(c)'
  BY DEF CallsInv, ReaderInv, Count
<1>3. Count' <= Capacity
  BY DEF CallsInv, Count
<1>. QED  BY <1>1, <1>2, <1>3 DEF CallsInv

\* The same for the reader.
LEMMA ReaderAlone ==
    ASSUME SPSC, CallsInv, NEW c \in Readers, ReaderInv(c)',
           UNCHANGED <<slots, write_idx, read_idx, wr>>
    PROVE  CallsInv'
<1>1. \A d \in Readers : d = c
  BY DEF SPSC
<1>2. \A p \in Writers : WriterInv(p)'
  BY DEF CallsInv, WriterInv, Count
<1>3. Count' <= Capacity
  BY DEF CallsInv, Count
<1>. QED  BY <1>1, <1>2, <1>3 DEF CallsInv

\* The room or the item a call saw is still there when it uses it, its index is
\* current, and the slot holds what it copied, whatever the other side does meanwhile.
THEOREM CallsConsistent ==
    ASSUME SPSC PROVE Spec => []CallsInv
<1>1. Init => CallsInv
  BY IndexModLarge DEF Init, CallsInv, WriterInv, ReaderInv, Idle, Count, CountOf, WrapSub
<1>2. TypeOK /\ TypeOK' /\ CallsInv /\ [Next]_vars => CallsInv'
  <2>. SUFFICES ASSUME TypeOK, TypeOK', CallsInv, [Next]_vars PROVE CallsInv'
    OBVIOUS
  <2>0. /\ \A p \in Writers : wr[p] \in CallState
        /\ \A c \in Readers : rd[c] \in CallState
        /\ write_idx \in Index /\ read_idx \in Index /\ Count \in Nat /\ Capacity \in Nat
    BY CountType, IndexModLarge DEF TypeOK, Count
  <2>1. ASSUME NEW p \in Writers, WriterStep(p) PROVE CallsInv'
    <3>. USE DEF WriterInv, sems
    <3>0. WriterInv(p) /\ wr[p].pc \in Pcs /\ wr \in [Writers -> CallState]
      BY <2>0, CallTypes DEF CallsInv, TypeOK
    <3>1. CASE BeginWrite(p)
      <4>1. PICK op \in WriteOps, v \in Items : wr' = [wr EXCEPT ![p] = Called(op, v)]
        BY <3>1 DEF BeginWrite
      <4>2. wr'[p].pc \in {"take", "load"} /\ wr'[p].item \in Items
        BY <3>0, <4>1 DEF Called
      <4>. QED  BY <3>1, <4>2, WriterAlone DEF BeginWrite
    <3>2. CASE TakeSpace(p)
      <4>1. wr'[p] = [wr[p] EXCEPT !.pc = "load"]
        BY <3>0, <3>2 DEF TakeSpace
      <4>2. wr'[p].pc = "load" /\ wr'[p].item \in Items
        BY <2>0, <3>0, <3>2, <4>1 DEF TakeSpace, CallState
      <4>. QED  BY <3>2, <4>2, WriterAlone DEF TakeSpace
    <3>3. CASE PushLoad(p)
      <4>1. wr'[p] = [wr[p] EXCEPT !.pc = "check", !.idx = write_idx]
        BY <3>0, <3>3 DEF PushLoad
      <4>2. wr'[p].pc = "check" /\ wr'[p].item \in Items /\ wr'[p].idx = write_idx
        BY <2>0, <3>0, <3>3, <4>1 DEF PushLoad, CallState
      <4>. QED  BY <3>3, <4>2, WriterAlone DEF PushLoad
    <3>4. CASE PushCheck(p)
      <4>1. wr'[p] = IF HasSpace(wr[p].idx, read_idx) THEN [wr[p] EXCEPT !.pc = "index"]
                     ELSE IF Blocking(wr[p].op) THEN [wr[p] EXCEPT !.pc = "refund"] ELSE Idle
        BY <3>0, <3>4 DEF PushCheck
      <4>2. HasSpace(wr[p].idx, read_idx) => Count < Capacity
        BY <2>0, <3>0, <3>4, SpaceWhenNotFull DEF PushCheck, CallsInv, Count
      <4>3. \/ wr'[p].pc = "index" /\ wr'[p].item \in Items /\ Count < Capacity
            \/ wr'[p].pc = "refund" /\ wr'[p].item \in Items
            \/ wr'[p].pc = "idle"
        BY <2>0, <3>0, <3>4, <4>1, <4>2 DEF PushCheck, CallState, Idle
      <4>4. WriterInv(p)'
        BY <3>4, <4>3 DEF PushCheck, Count
      <4>. QED  BY <3>4, <4>4, WriterAlone DEF PushCheck
    <3>5. CASE RefundSpace(p)
      <4>1. wr'[p].pc = "idle"
        BY <3>0, <3>5 DEF RefundSpace, Idle
      <4>. QED  BY <3>5, <4>1, WriterAlone DEF RefundSpace
    <3>6. CASE PushIndex(p)
      <4>1. wr'[p] = [wr[p] EXCEPT !.pc = "copy", !.idx = write_idx]
        BY <3>0, <3>6 DEF PushIndex
      <4>2. wr'[p].pc = "copy" /\ wr'[p].item \in Items /\ wr'[p].idx = write_idx /\ Count < Capacity
        BY <2>0, <3>0, <3>6, <4>1 DEF PushIndex, CallState
      <4>3. WriterInv(p)'
        BY <3>6, <4>2 DEF PushIndex, Count
      <4>. QED  BY <3>6, <4>3, WriterAlone DEF PushIndex
    <3>7. CASE PushCopy(p)
      <4>1. wr'[p] = [wr[p] EXCEPT !.pc = "store"]
        BY <3>0, <3>7 DEF PushCopy
      <4>2. /\ wr'[p].pc = "store" /\ wr'[p].item = wr[p].item /\ wr'[p].idx = write_idx
            /\ wr[p].item \in Items /\ Count < Capacity /\ wr[p].idx = write_idx
        BY <2>0, <3>0, <3>7, <4>1 DEF PushCopy, CallState
      <4>3. slots' = [slots EXCEPT ![Mask(write_idx)] = wr[p].item] /\ Mask(write_idx) \in Slots
        BY <2>0, <3>7, <4>2, CountType DEF PushCopy
      <4>4. WriterInv(p)'
        BY <3>7, <4>2, <4>3 DEF PushCopy, Count, TypeOK
      <4>5. ASSUME NEW c \in Readers PROVE ReaderInv(c)'
        <5>1. Count > 0 => slots'[Mask(read_idx)] = slots[Mask(read_idx)]
          BY <2>0, <4>2, <4>3, HeadNotTail, CountType DEF Count, TypeOK, Index
        <5>. QED  BY <3>7, <5>1 DEF PushCopy, CallsInv, ReaderInv, Count
      <4>. QED  BY <3>7, <4>4, <4>5 DEF PushCopy, CallsInv, Count, SPSC
    <3>8. CASE PushStore(p)
      <4>1. wr'[p].pc \in {"give", "idle"}
        BY <3>0, <3>8 DEF PushStore, Giving, Idle
      <4>2. write_idx' \in Index /\ Count' = Count + 1 /\ Count < Capacity
        BY <2>0, <3>0, <3>8, CountAfterWrite DEF PushStore, Count
      <4>3. Count' <= Capacity
        BY <2>0, <4>2
      <4>4. ASSUME NEW c \in Readers PROVE ReaderInv(c)'
        <5>1. rd[c].pc = "check" => CountOf(rd[c].idx, read_idx) \in Nat
          BY <2>0, CountType DEF CallState
        <5>. QED  BY <2>0, <3>8, <4>2, <5>1 DEF PushStore, CallsInv, ReaderInv
      <4>5. WriterInv(p)'
        BY <4>1
      <4>. QED  BY <4>3, <4>4, <4>5 DEF CallsInv, SPSC
    <3>9. CASE GiveItem(p)
      <4>1. wr'[p].pc = "idle"
        BY <3>0, <3>9 DEF GiveItem, Idle
      <4>. QED  BY <3>9, <4>1, WriterAlone DEF GiveItem
    <3>. QED  BY <2>1, <3>1, <3>2, <3>3, <3>4, <3>5, <3>6, <3>7, <3>8, <3>9 DEF WriterStep
  <2>2. ASSUME NEW c \in Readers, ReaderStep(c) PROVE CallsInv'
    <3>. USE DEF ReaderInv, sems
    <3>0. ReaderInv(c) /\ rd[c].pc \in Pcs /\ rd \in [Readers -> CallState]
      BY <2>0, CallTypes DEF CallsInv, TypeOK
    <3>1. CASE BeginRead(c)
      <4>1. PICK op \in ReadOps : rd' = [rd EXCEPT ![c] = Called(op, NoItem)]
        BY <3>1 DEF BeginRead
      <4>2. rd'[c].pc \in {"take", "load"}
        BY <3>0, <4>1 DEF Called
      <4>. QED  BY <3>1, <4>2, ReaderAlone DEF BeginRead
    <3>2. CASE TakeItem(c)
      <4>1. rd'[c].pc = "load"
        BY <2>0, <3>0, <3>2 DEF TakeItem, CallState
      <4>. QED  BY <3>2, <4>1, ReaderAlone DEF TakeItem
    <3>3. CASE PopLoad(c)
      <4>1. rd'[c] = [rd[c] EXCEPT !.pc = "check", !.idx = write_idx]
        BY <3>0, <3>3 DEF PopLoad
      <4>2. rd'[c].pc = "check" /\ rd'[c].idx = write_idx
        BY <2>0, <4>1 DEF CallState
      <4>3. ReaderInv(c)'
        BY <2>0, <3>3, <4>2 DEF PopLoad, Count
      <4>. QED  BY <3>3, <4>3, ReaderAlone DEF PopLoad
    <3>4. CASE PopCheck(c)
      <4>1. rd'[c] = IF HasItem(rd[c].idx, read_idx) THEN [rd[c] EXCEPT !.pc = "index"]
                     ELSE IF Blocking(rd[c].op) THEN [rd[c] EXCEPT !.pc = "refund"] ELSE Idle
        BY <3>0, <3>4 DEF PopCheck
      <4>2. HasItem(rd[c].idx, read_idx) => Count > 0
        <5>1. rd[c].idx \in Index /\ CountOf(rd[c].idx, read_idx) \in Nat
          BY <2>0, CountType DEF CallState
        <5>. QED  BY <2>0, <3>0, <3>4, <5>1 DEF PopCheck, HasItem
      <4>3. \/ rd'[c].pc = "index" /\ Count > 0
            \/ rd'[c].pc \in {"refund", "idle"}
        BY <2>0, <4>1, <4>2 DEF CallState, Idle
      <4>4. ReaderInv(c)'
        BY <3>4, <4>3 DEF PopCheck, Count
      <4>. QED  BY <3>4, <4>4, ReaderAlone DEF PopCheck
    <3>5. CASE RefundItem(c)
      <4>1. rd'[c].pc = "idle"
        BY <3>0, <3>5 DEF RefundItem, Idle
      <4>. QED  BY <3>5, <4>1, ReaderAlone DEF RefundItem
    <3>6. CASE PopIndex(c)
      <4>1. rd'[c] = [rd[c] EXCEPT !.pc = "copy", !.idx = read_idx]
        BY <3>0, <3>6 DEF PopIndex
      <4>2. rd'[c].pc = "copy" /\ rd'[c].idx = read_idx /\ Count > 0
        BY <2>0, <3>0, <3>6, <4>1 DEF PopIndex, CallState
      <4>3. ReaderInv(c)'
        BY <3>6, <4>2 DEF PopIndex, Count
      <4>. QED  BY <3>6, <4>3, ReaderAlone DEF PopIndex
    <3>7. CASE PopCopy(c)
      <4>1. rd'[c] = [rd[c] EXCEPT !.pc = "store", !.item = slots[Mask(rd[c].idx)]]
        BY <3>0, <3>7 DEF PopCopy
      <4>2. /\ rd'[c].pc = "store" /\ rd'[c].idx = read_idx /\ Count > 0
            /\ rd'[c].item = slots[Mask(read_idx)]
        BY <2>0, <3>0, <3>7, <4>1 DEF PopCopy, CallState
      <4>3. ReaderInv(c)'
        BY <3>7, <4>2 DEF PopCopy, Count
      <4>. QED  BY <3>7, <4>3, ReaderAlone DEF PopCopy
    <3>8. CASE PopStore(c)
      <4>1. rd'[c].pc \in {"give", "idle"}
        BY <3>0, <3>8 DEF PopStore, Giving, Idle
      <4>2. read_idx' \in Index /\ Count' = Count - 1
        BY <2>0, <3>0, <3>8, CountAfterRead DEF PopStore, Count
      <4>3. Count' < Count /\ Count' <= Capacity
        BY <2>0, <4>2 DEF CallsInv
      <4>4. \A p \in Writers : WriterInv(p)'
        BY <2>0, <3>8, <4>2 DEF PopStore, CallsInv, WriterInv
      <4>5. ReaderInv(c)'
        BY <4>1
      <4>. QED  BY <4>3, <4>4, <4>5 DEF CallsInv, SPSC
    <3>9. CASE GiveSpace(c)
      <4>1. rd'[c].pc = "idle"
        BY <3>0, <3>9 DEF GiveSpace, Idle
      <4>. QED  BY <3>9, <4>1, ReaderAlone DEF GiveSpace
    <3>. QED  BY <2>2, <3>1, <3>2, <3>3, <3>4, <3>5, <3>6, <3>7, <3>8, <3>9 DEF ReaderStep
  <2>3. CASE Reset
    BY <2>3, IndexModLarge DEF Reset, Quiescent, CountOf, WrapSub, CallsInv, WriterInv, ReaderInv, Count
  <2>4. CASE UNCHANGED vars
    BY <2>4 DEF vars, CallsInv, WriterInv, ReaderInv, Count
  <2>. QED  BY <2>1, <2>2, <2>3, <2>4 DEF Next
<1>. QED  BY <1>1, <1>2, TypeCorrect, PTL DEF Spec

\* __rb_push never writes the slot __rb_pop is reading.
THEOREM SlotsNotShared ==
    ASSUME SPSC PROVE Spec => []NoSlotRace
<1>1. TypeOK /\ CallsInv => NoSlotRace
  <2>. SUFFICES ASSUME TypeOK, CallsInv, NEW p \in Writers, NEW c \in Readers,
                       wr[p].pc = "copy", rd[c].pc = "copy"
                PROVE  Mask(rd[c].idx) # Mask(wr[p].idx)
    BY DEF NoSlotRace, SPSC
  <2>1. /\ write_idx \in Index /\ read_idx \in Index /\ Count > 0 /\ Count < Capacity
        /\ wr[p].idx = write_idx /\ rd[c].idx = read_idx
    BY DEF TypeOK, CallsInv, WriterInv, ReaderInv
  <2>. QED  BY <2>1, HeadNotTail, CountType DEF Count, Index
<1>. QED  BY <1>1, TypeCorrect, CallsConsistent, PTL

-----------------------------------------------------------------------------
(***************************************************************************)
(* The ring implements the bounded FIFO queue.                             *)
(***************************************************************************)
\* The items in the ring as a sequence.
LEMMA ContentsFacts ==
    ASSUME TypeOK, CallsInv
    PROVE  /\ Count \in Nat
           /\ Contents \in Seq(Items \cup {NoItem})
           /\ Len(Contents) = Count
           /\ \A i \in 1 .. Count : Contents[i] = slots[Mask(read_idx + i - 1)]
<1>1. write_idx \in Index /\ read_idx \in Index /\ Count \in Nat
  BY CountType DEF TypeOK, Count
<1>2. \A i \in 1 .. Count : Mask(read_idx + i - 1) \in Slots
  BY <1>1, IndexModLarge DEF Mask, Slots, Index
<1>3. \A i \in 1 .. Count : slots[Mask(read_idx + i - 1)] \in Items \cup {NoItem}
  BY <1>2 DEF TypeOK
<1>. QED  BY <1>1, <1>3 DEF Contents

\* What Tail leaves, place by place.
LEMMA TailIs ==
    ASSUME NEW S, NEW s \in Seq(S), s # <<>>
    PROVE  Tail(s) = [i \in 1 .. Len(s) - 1 |-> s[i + 1]]
<1>1. /\ Tail(s) \in Seq(S) /\ Len(Tail(s)) = Len(s) - 1
      /\ \A i \in 1 .. Len(Tail(s)) : Tail(s)[i] = s[i + 1]
  BY HeadTailProperties
<1>2. Tail(s) = [i \in 1 .. Len(Tail(s)) |-> Tail(s)[i]]
  <2>1. Tail(s) \in [1 .. Len(Tail(s)) -> S]
    BY <1>1, LenProperties
  <2>. QED  BY <2>1
<1>. QED  BY <1>1, <1>2

\* Every behaviour of the ring with one writer and one reader is a behaviour of the
\* bounded FIFO queue: no item lost, duplicated, reordered or read uninitialised.
THEOREM RingImplementsFifo ==
    ASSUME SPSC PROVE Spec => RingIsFifo
<1>1. Init => Fifo!Init
  BY IndexModLarge DEF Init, Fifo!Init, Contents, Count, CountOf, WrapSub
<1>2. TypeOK /\ TypeOK' /\ CallsInv /\ CallsInv' /\ [Next]_vars => [Fifo!Next]_(Fifo!vars)
  <2>. SUFFICES ASSUME TypeOK, TypeOK', CallsInv, CallsInv', [Next]_vars
                PROVE  [Fifo!Next]_(Fifo!vars)
    OBVIOUS
  <2>0. /\ \A p \in Writers : WriterInv(p) /\ wr[p] \in CallState
        /\ \A c \in Readers : ReaderInv(c) /\ rd[c] \in CallState
        /\ write_idx \in Index /\ read_idx \in Index /\ Count \in Nat /\ Capacity \in Nat
    BY CountType, IndexModLarge DEF TypeOK, CallsInv, Count
  <2>1. CASE UNCHANGED <<slots, write_idx, read_idx, got>>
    BY <2>1 DEF Fifo!vars, Contents, Count
  <2>2. ASSUME NEW p \in Writers, PushCopy(p) PROVE UNCHANGED Fifo!vars
    <3>1. slots' = [slots EXCEPT ![Mask(write_idx)] = wr[p].item] /\ Count < Capacity
      BY <2>0, <2>2 DEF PushCopy, WriterInv
    <3>2. \A i \in 1 .. Count : slots'[Mask(read_idx + i - 1)] = slots[Mask(read_idx + i - 1)]
      <4>. SUFFICES ASSUME NEW i \in 1 .. Count
                    PROVE  slots'[Mask(read_idx + i - 1)] = slots[Mask(read_idx + i - 1)]
        OBVIOUS
      <4>1. Mask(read_idx + (i - 1)) # Mask(write_idx)
        BY <2>0, <3>1, HeadNotTail DEF Count
      <4>2. read_idx + i - 1 = read_idx + (i - 1) /\ Mask(read_idx + i - 1) \in Slots
        BY <2>0, IndexModLarge DEF Index, Mask, Slots
      <4>. QED  BY <3>1, <4>1, <4>2 DEF TypeOK
    <3>. QED  BY <2>2, <3>2 DEF PushCopy, Fifo!vars, Contents, Count
  <2>3. ASSUME NEW p \in Writers, PushStore(p) PROVE Fifo!Put
    <3>. DEFINE v == wr[p].item
    <3>1. v \in Items /\ Count < Capacity /\ slots[Mask(write_idx)] = v
      BY <2>0, <2>3 DEF PushStore, WriterInv
    <3>2. Count' = Count + 1
      BY <2>0, <2>3, <3>1, CountAfterWrite DEF PushStore, WriterInv, Count
    <3>3. Mask(read_idx + (Count + 1) - 1) = Mask(write_idx)
      <4>1. read_idx + (Count + 1) - 1 = read_idx + Count
        BY <2>0 DEF Index
      <4>. QED  BY <2>0, <4>1, MaskWrites DEF Count
    <3>4. Contents' = Append(Contents, v)
      <4>1. Contents' = [i \in 1 .. Count + 1 |-> slots[Mask(read_idx + i - 1)]]
        BY <2>3, <3>2 DEF PushStore, Contents
      <4>2. Append(Contents, v) = [i \in 1 .. Count + 1 |-> IF i = Count + 1 THEN v ELSE Contents[i]]
        BY ContentsFacts
      <4>3. ASSUME NEW i \in 1 .. Count + 1
            PROVE  slots[Mask(read_idx + i - 1)] = IF i = Count + 1 THEN v ELSE Contents[i]
        BY <2>0, <3>1, <3>3, ContentsFacts
      <4>. QED  BY <4>1, <4>2, <4>3
    <3>. QED  BY <2>3, <3>1, <3>4, ContentsFacts DEF PushStore, Fifo!Put
  <2>4. ASSUME NEW c \in Readers, PopStore(c) PROVE Fifo!Get(c)
    <3>1. rd[c].item = slots[Mask(read_idx)] /\ Count > 0 /\ read_idx' = WrapInc(read_idx)
      BY <2>0, <2>4 DEF PopStore, ReaderInv
    <3>2. Count' = Count - 1
      BY <2>0, <2>4, <3>1, CountAfterRead DEF PopStore, Count
    <3>3. Contents # <<>> /\ Head(Contents) = rd[c].item
      <4>1. read_idx + 1 - 1 = read_idx /\ 1 \in 1 .. Count
        BY <2>0, <3>1 DEF Index
      <4>2. Contents[1] = slots[Mask(read_idx)] /\ Len(Contents) # 0
        BY <2>0, <3>1, <4>1, ContentsFacts
      <4>. QED  BY <3>1, <4>2, ContentsFacts
    <3>4. Contents' = Tail(Contents)
      <4>1. Contents' = [i \in 1 .. Count - 1 |-> slots[Mask(WrapInc(read_idx) + i - 1)]]
        BY <2>4, <3>1, <3>2 DEF PopStore, Contents
      <4>2. Tail(Contents) = [i \in 1 .. Count - 1 |-> Contents[i + 1]]
        BY <3>3, ContentsFacts, TailIs
      <4>3. ASSUME NEW i \in 1 .. Count - 1
            PROVE  slots[Mask(WrapInc(read_idx) + i - 1)] = Contents[i + 1]
        <5>1. Mask(WrapInc(read_idx) + (i - 1)) = Mask(read_idx + (i - 1) + 1)
          BY <2>0, MaskAfterRead
        <5>2. /\ WrapInc(read_idx) + i - 1 = WrapInc(read_idx) + (i - 1)
              /\ read_idx + (i + 1) - 1 = read_idx + (i - 1) + 1
              /\ i + 1 \in 1 .. Count
          BY <2>0, CountType DEF Index
        <5>. QED  BY <5>1, <5>2, ContentsFacts
      <4>. QED  BY <4>1, <4>2, <4>3
    <3>. QED  BY <2>4, <3>3, <3>4 DEF PopStore, Fifo!Get
  <2>5. CASE Reset
    <3>1. Contents' = <<>>
      BY <2>5, IndexModLarge DEF Reset, Contents, Count, CountOf, WrapSub
    <3>. QED  BY <2>5, <3>1 DEF Reset, Fifo!Next, Fifo!Clear
  <2>6. ASSUME NEW p \in Writers, WriterStep(p) PROVE [Fifo!Next]_(Fifo!vars)
    BY <2>1, <2>2, <2>3, <2>6
       DEF WriterStep, BeginWrite, TakeSpace, PushLoad, PushCheck, RefundSpace, PushIndex,
           GiveItem, Fifo!Next
  <2>7. ASSUME NEW c \in Readers, ReaderStep(c) PROVE [Fifo!Next]_(Fifo!vars)
    BY <2>1, <2>4, <2>7
       DEF ReaderStep, BeginRead, TakeItem, PopLoad, PopCheck, RefundItem, PopIndex,
           PopCopy, GiveSpace, Fifo!Next
  <2>8. CASE UNCHANGED vars
    BY <2>1, <2>8 DEF vars
  <2>. QED  BY <2>5, <2>6, <2>7, <2>8 DEF Next
<1>. QED  BY <1>1, <1>2, TypeCorrect, CallsConsistent, PTL DEF Spec, RingIsFifo, Fifo!Spec
-----------------------------------------------------------------------------
(***************************************************************************)
(* Calls that wait without a limit.  Each token of the semaphores stands   *)
(* for a slot, so whoever holds one finds the room or the item it is for.  *)
(***************************************************************************)
One(S) == IF S = {} THEN 0 ELSE 1

Busy == {"load", "check", "refund", "index", "copy", "store"}

UnboundedOnly == WriteOps \subseteq {"forever"} /\ ReadOps \subseteq {"forever"}

TokensKept ==
    /\ sem_items + One(Holders(rd, Busy)) + One(Holders(wr, {"give"})) = Count
    /\ sem_spaces + One(Holders(wr, Busy)) + One(Holders(rd, {"give"})) = Capacity - Count
    /\ \A p \in Writers : wr[p].pc # "refund" /\ (wr[p].pc # "idle" => wr[p].op = "forever")
    /\ \A c \in Readers : /\ rd[c].pc # "refund" /\ (rd[c].pc # "idle" => rd[c].op = "forever")
                          /\ rd[c].pc = "check" => CountOf(rd[c].idx, read_idx) > 0

\* With one task on a side, who holds a token is seen from where that task is.
LEMMA OneHolder ==
    ASSUME SPSC, TypeOK
    PROVE  /\ \A p \in Writers : \A S : One(Holders(wr, S)) = IF wr[p].pc \in S THEN 1 ELSE 0
           /\ \A c \in Readers : \A S : One(Holders(rd, S)) = IF rd[c].pc \in S THEN 1 ELSE 0
           /\ Holders(wr, Busy) # {} => \E p \in Writers : wr[p].pc \in Busy
           /\ \A S : One(Holders(wr, S)) \in {0, 1} /\ One(Holders(rd, S)) \in {0, 1}
BY DEF SPSC, TypeOK, Holders, One

\* Counts are numbers.
LEMMA Numbers ==
    ASSUME TypeOK
    PROVE  /\ sem_items \in Nat /\ sem_spaces \in Nat /\ Count \in Nat
           /\ Capacity \in Nat /\ SemMax \in Nat /\ Capacity <= SemMax
<1>1. Capacity \in Nat /\ SemMax \in Nat /\ Capacity <= SemMax
  BY RingAssumption
<1>2. Count \in Nat
  BY CountType DEF TypeOK, Count
<1>3. sem_items \in Nat /\ sem_spaces \in Nat
  BY <1>1 DEF TypeOK
<1>. QED  BY <1>1, <1>2, <1>3

\* They still are after the step.
LEMMA NumbersNext ==
    ASSUME TypeOK'
    PROVE  sem_items' \in Nat /\ sem_spaces' \in Nat /\ Count' \in Nat
<1>1. SemMax \in Nat
  BY RingAssumption
<1>2. Count' \in Nat
  BY CountType DEF TypeOK, Count
<1>3. sem_items' \in Nat /\ sem_spaces' \in Nat
  BY <1>1 DEF TypeOK
<1>. QED  BY <1>2, <1>3

\* What one place gains the others lose.
LEMMA Balance ==
    ASSUME NEW i \in Int, NEW j \in Int, NEW n \in Int, NEW m \in Int,
           NEW a \in Int, NEW g \in Int, NEW h \in Int,
           i + a + g = n, j + h - g = i + m - n
    PROVE  j + a + h = m
  OBVIOUS

\* A step of the writer: what it must do to the counts.
LEMMA WriterTokens ==
    ASSUME SPSC, TypeOK, TypeOK', TokensKept, NEW p \in Writers, UNCHANGED <<read_idx, rd>>,
           wr'[p].pc # "refund", wr'[p].pc # "idle" => wr'[p].op = "forever",
           sem_items' + (IF wr'[p].pc = "give" THEN 1 ELSE 0) - (IF wr[p].pc = "give" THEN 1 ELSE 0)
               = sem_items + Count' - Count,
           sem_spaces' + (IF wr'[p].pc \in Busy THEN 1 ELSE 0) - (IF wr[p].pc \in Busy THEN 1 ELSE 0)
               = sem_spaces + Count - Count'
    PROVE  TokensKept'
<1>1. \A q \in Writers : q = p
  BY DEF SPSC
<1>2. /\ One(Holders(wr, {"give"})) = (IF wr[p].pc = "give" THEN 1 ELSE 0)
      /\ One(Holders(wr', {"give"})) = (IF wr'[p].pc = "give" THEN 1 ELSE 0)
      /\ One(Holders(wr, Busy)) = (IF wr[p].pc \in Busy THEN 1 ELSE 0)
      /\ One(Holders(wr', Busy)) = (IF wr'[p].pc \in Busy THEN 1 ELSE 0)
  BY <1>1 DEF TypeOK, Holders, One
<1>0. /\ sem_items \in Int /\ sem_items' \in Int /\ sem_spaces \in Int /\ sem_spaces' \in Int
      /\ Count \in Int /\ Count' \in Int
  BY Numbers, NumbersNext
<1>3. PICK i \in Int, j \in Int, u \in Int, v \in Int, n \in Int, m \in Int :
          /\ i = sem_items /\ j = sem_items' /\ u = sem_spaces /\ v = sem_spaces'
          /\ n = Count /\ m = Count'
  BY <1>0, Zenon
<1>4. One(Holders(rd, Busy)) \in {0, 1} /\ One(Holders(rd, {"give"})) \in {0, 1}
  BY DEF One
<1>. DEFINE a == One(Holders(rd, Busy))   b == One(Holders(rd, {"give"}))
            g == IF wr[p].pc = "give" THEN 1 ELSE 0   h == IF wr'[p].pc = "give" THEN 1 ELSE 0
            k == IF wr[p].pc \in Busy THEN 1 ELSE 0   l == IF wr'[p].pc \in Busy THEN 1 ELSE 0
<1>5. sem_items' + a + h = Count' /\ sem_spaces' + l + b = Capacity - Count'
  <2>1. i + a + g = n /\ u + k + b = Capacity - n
    BY <1>2, <1>3 DEF TokensKept
  <2>2. j + h - g = i + m - n /\ v + l - k = u + n - m
    BY <1>3
  <2>3. /\ a \in Int /\ b \in Int /\ g \in Int /\ h \in Int /\ k \in Int /\ l \in Int
        /\ Capacity \in Int
    BY <1>4, Numbers
  <2>. HIDE DEF a, b, g, h, k, l
  <2>4. j + a + h = m
    BY <2>1, <2>2, <2>3, Balance
  <2>5. v + l + b = Capacity - m
    BY <2>1, <2>2, <2>3
  <2>. QED  BY <1>3, <2>4, <2>5
<1>6. \A c \in Readers : /\ rd[c].pc # "refund" /\ (rd[c].pc # "idle" => rd[c].op = "forever")
                         /\ rd[c].pc = "check" => CountOf(rd[c].idx, read_idx) > 0
  BY DEF TokensKept
<1>. QED  BY <1>1, <1>2, <1>5, <1>6 DEF TokensKept

\* The same for the reader.
LEMMA ReaderTokens ==
    ASSUME SPSC, TypeOK, TypeOK', TokensKept, NEW c \in Readers, UNCHANGED <<write_idx, wr>>,
           rd'[c].pc # "refund", rd'[c].pc # "idle" => rd'[c].op = "forever",
           rd'[c].pc = "check" => CountOf(rd'[c].idx, read_idx') > 0,
           sem_items' + (IF rd'[c].pc \in Busy THEN 1 ELSE 0) - (IF rd[c].pc \in Busy THEN 1 ELSE 0)
               = sem_items + Count' - Count,
           sem_spaces' + (IF rd'[c].pc = "give" THEN 1 ELSE 0) - (IF rd[c].pc = "give" THEN 1 ELSE 0)
               = sem_spaces + Count - Count'
    PROVE  TokensKept'
<1>1. \A d \in Readers : d = c
  BY DEF SPSC
<1>2. /\ One(Holders(rd, {"give"})) = (IF rd[c].pc = "give" THEN 1 ELSE 0)
      /\ One(Holders(rd', {"give"})) = (IF rd'[c].pc = "give" THEN 1 ELSE 0)
      /\ One(Holders(rd, Busy)) = (IF rd[c].pc \in Busy THEN 1 ELSE 0)
      /\ One(Holders(rd', Busy)) = (IF rd'[c].pc \in Busy THEN 1 ELSE 0)
  BY <1>1 DEF TypeOK, Holders, One
<1>0. /\ sem_items \in Int /\ sem_items' \in Int /\ sem_spaces \in Int /\ sem_spaces' \in Int
      /\ Count \in Int /\ Count' \in Int
  BY Numbers, NumbersNext
<1>3. PICK i \in Int, j \in Int, u \in Int, v \in Int, n \in Int, m \in Int :
          /\ i = sem_items /\ j = sem_items' /\ u = sem_spaces /\ v = sem_spaces'
          /\ n = Count /\ m = Count'
  BY <1>0, Zenon
<1>4. One(Holders(wr, Busy)) \in {0, 1} /\ One(Holders(wr, {"give"})) \in {0, 1}
  BY DEF One
<1>. DEFINE a == One(Holders(wr, {"give"}))   b == One(Holders(wr, Busy))
            g == IF rd[c].pc = "give" THEN 1 ELSE 0   h == IF rd'[c].pc = "give" THEN 1 ELSE 0
            k == IF rd[c].pc \in Busy THEN 1 ELSE 0   l == IF rd'[c].pc \in Busy THEN 1 ELSE 0
<1>5. sem_items' + l + a = Count' /\ sem_spaces' + b + h = Capacity - Count'
  <2>1. i + k + a = n /\ u + b + g = Capacity - n
    BY <1>2, <1>3 DEF TokensKept
  <2>2. j + l - k = i + m - n /\ v + h - g = u + n - m
    BY <1>3
  <2>3. /\ a \in Int /\ b \in Int /\ g \in Int /\ h \in Int /\ k \in Int /\ l \in Int
        /\ Capacity \in Int
    BY <1>4, Numbers
  <2>. HIDE DEF a, b, g, h, k, l
  <2>4. j + l + a = m
    BY <2>1, <2>2, <2>3
  <2>5. v + b + h = Capacity - m
    BY <2>1, <2>2, <2>3
  <2>. QED  BY <1>3, <2>4, <2>5
<1>6. \A p \in Writers : wr[p].pc # "refund" /\ (wr[p].pc # "idle" => wr[p].op = "forever")
  BY DEF TokensKept
<1>. QED  BY <1>1, <1>2, <1>5, <1>6 DEF TokensKept

\* No semaphore is at its limit when it is given.
LEMMA TokensFit ==
    ASSUME SPSC, TypeOK, CallsInv, TokensKept
    PROVE  /\ \A p \in Writers : wr[p].pc = "give" => Give(sem_items) = sem_items + 1
           /\ \A c \in Readers : rd[c].pc = "give" => Give(sem_spaces) = sem_spaces + 1
           /\ \A p \in Writers : wr[p].pc \in Busy => Count < Capacity
           /\ \A c \in Readers : rd[c].pc \in Busy => Count > 0
<1>1. /\ sem_items \in Nat /\ sem_spaces \in Nat /\ Count \in Nat /\ Count <= Capacity
      /\ Capacity \in Nat /\ SemMax \in Nat /\ Capacity <= SemMax
  BY Numbers DEF CallsInv
<1>2. /\ One(Holders(wr, Busy)) \in Nat /\ One(Holders(rd, Busy)) \in Nat
      /\ One(Holders(wr, {"give"})) \in Nat /\ One(Holders(rd, {"give"})) \in Nat
  BY DEF One
<1>3. /\ sem_items + One(Holders(rd, Busy)) + One(Holders(wr, {"give"})) = Count
      /\ sem_spaces + One(Holders(wr, Busy)) + One(Holders(rd, {"give"})) = Capacity - Count
  BY DEF TokensKept
<1>4. ASSUME NEW p \in Writers
      PROVE  /\ wr[p].pc = "give" => Give(sem_items) = sem_items + 1
             /\ wr[p].pc \in Busy => Count < Capacity
  <2>1. /\ wr[p].pc = "give" => One(Holders(wr, {"give"})) = 1
        /\ wr[p].pc \in Busy => One(Holders(wr, Busy)) = 1
    BY OneHolder
  <2>. QED  BY <1>1, <1>2, <1>3, <2>1 DEF Give
<1>5. ASSUME NEW c \in Readers
      PROVE  /\ rd[c].pc = "give" => Give(sem_spaces) = sem_spaces + 1
             /\ rd[c].pc \in Busy => Count > 0
  <2>1. /\ rd[c].pc = "give" => One(Holders(rd, {"give"})) = 1
        /\ rd[c].pc \in Busy => One(Holders(rd, Busy)) = 1
    BY OneHolder
  <2>. QED  BY <1>1, <1>2, <1>3, <2>1 DEF Give
<1>. QED  BY <1>4, <1>5

\* Every step of the writer keeps the tokens in place.
LEMMA TokensOfWriter ==
    ASSUME SPSC, UnboundedOnly, TypeOK, TypeOK', CallsInv, TokensKept, NEW p \in Writers, WriterStep(p)
    PROVE  TokensKept'
<1>0. /\ wr \in [Writers -> CallState] /\ wr[p] \in CallState
      /\ sem_items \in Nat /\ sem_spaces \in Nat /\ Count \in Nat /\ Capacity \in Nat
      /\ wr[p].pc # "refund" /\ (wr[p].pc # "idle" => wr[p].op = "forever")
      /\ WriterInv(p)
  BY Numbers DEF TypeOK, TokensKept, CallsInv
<1>. USE DEF sems
<1>1. CASE BeginWrite(p)
  <2>1. PICK op \in WriteOps, v \in Items : wr' = [wr EXCEPT ![p] = Called(op, v)]
    BY <1>1 DEF BeginWrite
  <2>2. wr'[p].pc = "take" /\ wr'[p].op = "forever" /\ wr[p].pc = "idle"
    BY <1>0, <1>1, <2>1 DEF Called, Blocking, UnboundedOnly, BeginWrite
  <2>3. Count' = Count
    BY <1>1 DEF BeginWrite, Count
  <2>. QED  BY <1>0, <1>1, <2>2, <2>3, WriterTokens DEF BeginWrite, Busy
<1>2. CASE TakeSpace(p)
  <2>1. wr[p].pc = "take" /\ wr'[p].pc = "load" /\ wr'[p].op = "forever"
    BY <1>0, <1>2 DEF TakeSpace, CallState
  <2>2. sem_spaces' = sem_spaces - 1
    BY <1>0, <1>2, <2>1 DEF TakeSpace, Take
  <2>3. Count' = Count
    BY <1>2 DEF TakeSpace, Count
  <2>. QED  BY <1>0, <1>2, <2>1, <2>2, <2>3, WriterTokens DEF TakeSpace, Busy
<1>3. CASE PushLoad(p) \/ PushIndex(p) \/ PushCopy(p)
  <2>1. wr[p].pc \in Busy /\ wr'[p].pc \in Busy \ {"refund"} /\ wr'[p].op = "forever"
    <3>1. CASE PushLoad(p)
      BY <1>0, <3>1 DEF PushLoad, CallState, Busy
    <3>2. CASE PushIndex(p)
      BY <1>0, <3>2 DEF PushIndex, CallState, Busy
    <3>3. CASE PushCopy(p)
      BY <1>0, <3>3 DEF PushCopy, CallState, Busy
    <3>. QED  BY <1>3, <3>1, <3>2, <3>3
  <2>2. UNCHANGED <<write_idx, read_idx, sem_items, sem_spaces, rd>> /\ Count' = Count
    BY <1>3 DEF PushLoad, PushIndex, PushCopy, Count
  <2>. QED  BY <1>0, <2>1, <2>2, WriterTokens DEF Busy
<1>4. CASE PushCheck(p)
  <2>1. wr[p].pc = "check" /\ wr[p].idx = write_idx /\ Count < Capacity
    BY <1>0, <1>4, TokensFit DEF PushCheck, WriterInv, Busy
  <2>2. HasSpace(wr[p].idx, read_idx)
    BY <2>1, SpaceWhenNotFull DEF TypeOK, CallsInv, Count
  <2>3. wr'[p].pc = "index" /\ wr'[p].op = "forever"
    BY <1>0, <1>4, <2>1, <2>2 DEF PushCheck, CallState
  <2>4. Count' = Count
    BY <1>4 DEF PushCheck, Count
  <2>. QED  BY <1>0, <1>4, <2>1, <2>3, <2>4, WriterTokens DEF PushCheck, Busy
<1>5. CASE RefundSpace(p)
  BY <1>0, <1>5 DEF RefundSpace
<1>6. CASE PushStore(p)
  <2>1. wr[p].pc = "store" /\ wr'[p].pc = "give" /\ wr'[p].op = "forever"
    BY <1>0, <1>6 DEF PushStore, SignalsItem, Blocking, Giving, Idle
  <2>2. Count' = Count + 1
    BY <1>0, <1>6, <2>1, CountAfterWrite DEF PushStore, WriterInv, TypeOK, Count
  <2>. QED  BY <1>0, <1>6, <2>1, <2>2, WriterTokens DEF PushStore, Busy
<1>7. CASE GiveItem(p)
  <2>1. wr[p].pc = "give" /\ wr'[p].pc = "idle"
    BY <1>0, <1>7 DEF GiveItem, Idle
  <2>2. sem_items' = sem_items + 1
    BY <1>7, <2>1, TokensFit DEF GiveItem
  <2>3. Count' = Count
    BY <1>7 DEF GiveItem, Count
  <2>. QED  BY <1>0, <1>7, <2>1, <2>2, <2>3, WriterTokens DEF GiveItem, Busy
<1>. QED  BY <1>1, <1>2, <1>3, <1>4, <1>5, <1>6, <1>7 DEF WriterStep

\* Every step of the reader keeps the tokens in place.
LEMMA TokensOfReader ==
    ASSUME SPSC, UnboundedOnly, TypeOK, TypeOK', CallsInv, TokensKept, NEW c \in Readers, ReaderStep(c)
    PROVE  TokensKept'
<1>0. /\ rd \in [Readers -> CallState] /\ rd[c] \in CallState
      /\ sem_items \in Nat /\ sem_spaces \in Nat /\ Count \in Nat /\ Capacity \in Nat
      /\ rd[c].pc # "refund" /\ (rd[c].pc # "idle" => rd[c].op = "forever")
      /\ (rd[c].pc = "check" => CountOf(rd[c].idx, read_idx) > 0) /\ ReaderInv(c)
  BY Numbers DEF TypeOK, TokensKept, CallsInv
<1>. USE DEF sems
<1>1. CASE BeginRead(c)
  <2>1. PICK op \in ReadOps : rd' = [rd EXCEPT ![c] = Called(op, NoItem)]
    BY <1>1 DEF BeginRead
  <2>2. rd'[c].pc = "take" /\ rd'[c].op = "forever" /\ rd[c].pc = "idle"
    BY <1>0, <1>1, <2>1 DEF Called, Blocking, UnboundedOnly, BeginRead
  <2>3. Count' = Count
    BY <1>1 DEF BeginRead, Count
  <2>. QED  BY <1>0, <1>1, <2>2, <2>3, ReaderTokens DEF BeginRead, Busy
<1>2. CASE TakeItem(c)
  <2>1. rd[c].pc = "take" /\ rd'[c].pc = "load" /\ rd'[c].op = "forever"
    BY <1>0, <1>2 DEF TakeItem, CallState
  <2>2. sem_items' = sem_items - 1
    BY <1>0, <1>2, <2>1 DEF TakeItem, Take
  <2>3. Count' = Count
    BY <1>2 DEF TakeItem, Count
  <2>. QED  BY <1>0, <1>2, <2>1, <2>2, <2>3, ReaderTokens DEF TakeItem, Busy
<1>3. CASE PopLoad(c)
  <2>1. /\ rd[c].pc = "load" /\ rd'[c].pc = "check" /\ rd'[c].op = "forever" /\ rd'[c].idx = write_idx
    BY <1>0, <1>3 DEF PopLoad, CallState
  <2>2. Count > 0
    BY <2>1, TokensFit DEF Busy
  <2>3. CountOf(rd'[c].idx, read_idx') > 0 /\ Count' = Count
    BY <1>3, <2>1, <2>2 DEF PopLoad, Count
  <2>. QED  BY <1>0, <1>3, <2>1, <2>3, ReaderTokens DEF PopLoad, Busy
<1>4. CASE PopCheck(c)
  <2>1. rd[c].pc = "check" /\ HasItem(rd[c].idx, read_idx)
    <3>1. rd[c].pc = "check" /\ CountOf(rd[c].idx, read_idx) > 0
      BY <1>0, <1>4 DEF PopCheck
    <3>. QED  BY <3>1 DEF HasItem
  <2>2. rd'[c].pc = "index" /\ rd'[c].op = "forever"
    BY <1>0, <1>4, <2>1 DEF PopCheck, CallState
  <2>3. Count' = Count
    BY <1>4 DEF PopCheck, Count
  <2>. QED  BY <1>0, <1>4, <2>1, <2>2, <2>3, ReaderTokens DEF PopCheck, Busy
<1>5. CASE RefundItem(c)
  BY <1>0, <1>5 DEF RefundItem
<1>6. CASE PopIndex(c) \/ PopCopy(c)
  <2>1. rd[c].pc \in Busy /\ rd'[c].pc \in {"copy", "store"} /\ rd'[c].op = "forever"
    <3>1. CASE PopIndex(c)
      BY <1>0, <3>1 DEF PopIndex, CallState, Busy
    <3>2. CASE PopCopy(c)
      BY <1>0, <3>2 DEF PopCopy, CallState, Busy
    <3>. QED  BY <1>6, <3>1, <3>2
  <2>2. UNCHANGED <<write_idx, read_idx, sem_items, sem_spaces, wr>> /\ Count' = Count
    BY <1>6 DEF PopIndex, PopCopy, Count
  <2>. QED  BY <1>0, <2>1, <2>2, ReaderTokens DEF Busy
<1>7. CASE PopStore(c)
  <2>1. rd[c].pc = "store" /\ rd'[c].pc = "give" /\ rd'[c].op = "forever"
    BY <1>0, <1>7 DEF PopStore, Blocking, Giving, Idle
  <2>2. Count' = Count - 1
    BY <1>0, <1>7, <2>1, CountAfterRead DEF PopStore, ReaderInv, TypeOK, Count
  <2>. QED  BY <1>0, <1>7, <2>1, <2>2, ReaderTokens DEF PopStore, Busy
<1>8. CASE GiveSpace(c)
  <2>1. rd[c].pc = "give" /\ rd'[c].pc = "idle"
    BY <1>0, <1>8 DEF GiveSpace, Idle
  <2>2. sem_spaces' = sem_spaces + 1
    BY <1>8, <2>1, TokensFit DEF GiveSpace
  <2>3. Count' = Count
    BY <1>8 DEF GiveSpace, Count
  <2>. QED  BY <1>0, <1>8, <2>1, <2>2, <2>3, ReaderTokens DEF GiveSpace, Busy
<1>. QED  BY <1>1, <1>2, <1>3, <1>4, <1>5, <1>6, <1>7, <1>8 DEF ReaderStep

\* TokensKept is inductive, given the types and CallsInv.
LEMMA TokensInductive ==
    ASSUME SPSC, UnboundedOnly
    PROVE  /\ Init => TokensKept
           /\ TypeOK /\ TypeOK' /\ CallsInv /\ TokensKept /\ [Next]_vars => TokensKept'
<1>1. Init => TokensKept
  BY IndexModLarge DEF Init, TokensKept, One, Holders, Idle, Busy, Count, CountOf, WrapSub
<1>2. TypeOK /\ TypeOK' /\ CallsInv /\ TokensKept /\ [Next]_vars => TokensKept'
  <2>. SUFFICES ASSUME TypeOK, TypeOK', CallsInv, TokensKept, [Next]_vars PROVE TokensKept'
    OBVIOUS
  <2>1. CASE Reset
    <3>1. /\ \A p \in Writers : wr'[p].pc = "idle" /\ \A c \in Readers : rd'[c].pc = "idle"
          /\ sem_items' = 0 /\ sem_spaces' = Capacity /\ write_idx' = 0 /\ read_idx' = 0
      BY <2>1 DEF Reset, Quiescent
    <3>2. \A c \in Readers : rd'[c].pc = "idle"
      BY <2>1 DEF Reset, Quiescent
    <3>3. /\ Holders(wr', Busy) = {} /\ Holders(wr', {"give"}) = {}
          /\ Holders(rd', Busy) = {} /\ Holders(rd', {"give"}) = {}
      BY <3>1, <3>2 DEF Holders, TypeOK, Busy
    <3>4. Count' = 0
      BY <3>1 DEF Count, CountOf, WrapSub
    <3>. QED  BY <3>1, <3>2, <3>3, <3>4, IndexModLarge DEF TokensKept, One
  <2>2. CASE UNCHANGED vars
    BY <2>2 DEF vars, sems, TokensKept, Count
  <2>. QED  BY <2>1, <2>2, TokensOfWriter, TokensOfReader DEF Next
<1>. QED  BY <1>1, <1>2

\* When one writer and one reader wait without limits only, each token is in exactly one
\* place: in a semaphore, with the writer, or with the reader.
THEOREM TokensAreConserved ==
    ASSUME SPSC, UnboundedOnly PROVE Spec => []TokensConserved
<1>1. TokensKept => TokensConserved
  BY DEF TokensKept, TokensConserved, One, Busy
<1>. QED  BY <1>1, TokensInductive, TypeCorrect, CallsConsistent, PTL DEF Spec

\* And no such call fails for want of room or of an item.
THEOREM UnboundedWaitsSucceed ==
    ASSUME SPSC, UnboundedOnly PROVE Spec => []UnboundedWaitNeverFails
<1>1. TokensKept => UnboundedWaitNeverFails
  BY DEF TokensKept, UnboundedWaitNeverFails
<1>. QED  BY <1>1, TokensInductive, TypeCorrect, CallsConsistent, PTL DEF Spec
================================================================================
