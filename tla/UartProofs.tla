------------------------------- MODULE UartProofs -------------------------------
(***************************************************************************)
(* Proofs about Uart.c and dev_uart.c for every buffer size, every list of *)
(* messages and any number of received bytes: what the line carries        *)
(* (WireCarriesMessages) and what becomes of received bytes                *)
(* (BytesAreAccounted).                                                    *)
(***************************************************************************)
EXTENDS Uart, SequenceTheorems, TLAPS

(***************************************************************************)
(* Transmit.                                                               *)
(***************************************************************************)
\* The wire of a transfer: nothing of message m yet, or its first k bytes.
Carries(m, k) ==
    IF k = 0 THEN EndsWith(m - 1) ELSE wire # <<>> /\ Last(wire) = <<m, k>>

\* Until a wait times out, the buffer is that of the transfer under way, and of flag and
\* token there is one exactly when the DMA is done and the handler has not noticed.
SendKept ==
    /\ sent \in 0 .. Len(Lengths) /\ tx_buffer \in Nat
    /\ wire \in Seq(Nat \X Nat)
    /\ handler \in {"idle", "copied", "waiting"}
    /\ tx_dma \in [moved : Nat, number : Nat] /\ tx_dma.moved <= tx_dma.number
    /\ tx_flag \in BOOLEAN /\ lock_tx \in BOOLEAN
    /\ handler # "idle" => sent > 0
    /\ ~late =>
          /\ tx_buffer = sent
          /\ \A i \in DOMAIN wire : wire[i] = IF i = 1 THEN <<1, 1>> ELSE After(wire[i - 1])
          /\ handler # "waiting" => tx_dma.moved = tx_dma.number /\ ~tx_flag /\ ~lock_tx
          /\ handler = "idle" => EndsWith(sent)
          /\ handler = "copied" => EndsWith(sent - 1)
          /\ handler = "waiting" =>
                /\ tx_dma.number = Lengths[sent]
                /\ Carries(sent, tx_dma.moved)
                /\ tx_flag => tx_dma.moved = tx_dma.number /\ ~lock_tx
                /\ lock_tx => tx_dma.moved = tx_dma.number

\* A message has a length of at least 1.
LEMMA LengthsAre ==
    /\ Len(Lengths) \in Nat
    /\ \A m \in 1 .. Len(Lengths) : Lengths[m] \in Nat \ {0}
<1>1. BufferSize \in Nat /\ Lengths \in Seq(1 .. BufferSize)
  BY UartAssumption
<1>. QED  BY <1>1, LenProperties, ElementOfSeq

\* What the DMA puts on the line comes last.
LEMMA WireGrows ==
    ASSUME wire \in Seq(Nat \X Nat), NEW b \in Nat \X Nat, wire' = Append(wire, b)
    PROVE  /\ wire' \in Seq(Nat \X Nat) /\ wire' # <<>> /\ Last(wire)' = b
           /\ Len(wire) \in Nat /\ DOMAIN wire = 1 .. Len(wire)
           /\ Len(wire') = Len(wire) + 1 /\ DOMAIN wire' = 1 .. Len(wire) + 1
           /\ \A i \in 1 .. Len(wire) : wire'[i] = wire[i]
           /\ wire'[Len(wire) + 1] = b
<1>1. /\ wire' \in Seq(Nat \X Nat) /\ wire' # <<>> /\ Len(wire') = Len(wire) + 1
      /\ \A i \in 1 .. Len(wire) : wire'[i] = wire[i]
      /\ wire'[Len(wire) + 1] = b
  BY AppendProperties
<1>2. /\ Len(wire) \in Nat /\ DOMAIN wire = 1 .. Len(wire) /\ DOMAIN wire' = 1 .. Len(wire')
  BY <1>1, LenProperties
<1>3. Last(wire)' = b
  BY <1>1 DEF Last
<1>. QED  BY <1>1, <1>2, <1>3

\* The next byte the DMA moves is the next byte of the messages.
LEMMA NextByte ==
    ASSUME SendKept, ~late, TxDma
    PROVE  /\ handler = "waiting"
           /\ <<tx_buffer, tx_dma.moved + 1>> = IF wire = <<>> THEN <<1, 1>> ELSE After(Last(wire))
<1>1. /\ handler = "waiting" /\ tx_buffer = sent /\ tx_dma.moved < Lengths[sent]
      /\ Carries(sent, tx_dma.moved) /\ tx_dma.moved \in Nat /\ sent \in 1 .. Len(Lengths)
  BY LengthsAre DEF SendKept, TxDma
<1>2. CASE tx_dma.moved = 0
  <2>1. EndsWith(sent - 1) /\ <<tx_buffer, tx_dma.moved + 1>> = <<sent, 1>>
    BY <1>1, <1>2 DEF Carries
  <2>2. CASE sent = 1
    BY <1>1, <2>1, <2>2 DEF EndsWith
  <2>3. CASE sent # 1
    <3>1. /\ sent - 1 \in 1 .. Len(Lengths) /\ sent - 1 # 0 /\ (sent - 1) + 1 = sent
          /\ ~(Lengths[sent - 1] < Lengths[sent - 1])
      BY <1>1, <2>3, LengthsAre
    <3>2. wire # <<>> /\ Last(wire) = <<sent - 1, Lengths[sent - 1]>>
      BY <2>1, <3>1 DEF EndsWith
    <3>3. After(Last(wire)) = <<sent, 1>>
      BY <3>1, <3>2 DEF After
    <3>. QED  BY <1>1, <2>1, <3>2, <3>3
  <2>. QED  BY <2>2, <2>3
<1>3. CASE tx_dma.moved # 0
  <2>1. wire # <<>> /\ Last(wire) = <<sent, tx_dma.moved>>
    BY <1>1, <1>3 DEF Carries
  <2>2. After(Last(wire)) = <<sent, tx_dma.moved + 1>>
    BY <1>1, <2>1 DEF After
  <2>. QED  BY <1>1, <2>1, <2>2
<1>. QED  BY <1>1, <1>2, <1>3

\* SendKept holds at the start and is kept by every step.
LEMMA SendInductive ==
    /\ Init => SendKept
    /\ SendKept /\ [Next]_vars => SendKept'
<1>1. Init => SendKept
  <2>. SUFFICES ASSUME Init PROVE SendKept
    OBVIOUS
  <2>1. wire = <<>> /\ wire \in Seq(Nat \X Nat) /\ DOMAIN wire = {}
    BY EmptySeq DEF Init
  <2>2. tx_dma \in [moved : Nat, number : Nat] /\ tx_dma.moved = 0 /\ tx_dma.number = 0
    BY DEF Init
  <2>3. sent = 0 /\ sent \in 0 .. Len(Lengths)
    BY LengthsAre DEF Init
  <2>4. /\ handler = "idle" /\ tx_buffer = 0 /\ tx_flag = FALSE /\ lock_tx = FALSE
        /\ EndsWith(sent)
    BY <2>1, <2>3 DEF Init, EndsWith
  <2>5. \A i \in DOMAIN wire : wire[i] = IF i = 1 THEN <<1, 1>> ELSE After(wire[i - 1])
    BY <2>1
  <2>6. tx_dma.moved <= tx_dma.number
    BY <2>2
  <2>7. wire \in Seq(Nat \X Nat)
    BY <2>1
  <2>8. tx_buffer = sent /\ tx_buffer \in Nat
    BY <2>3, <2>4
  <2>. QED  BY <2>2, <2>3, <2>4, <2>5, <2>6, <2>7, <2>8 DEF SendKept
<1>2. SendKept /\ [Next]_vars => SendKept'
  <2>. SUFFICES ASSUME SendKept, [Next]_vars PROVE SendKept'
    OBVIOUS
  <2>. USE LengthsAre
  <2>1. CASE UNCHANGED txVars
    BY <2>1 DEF txVars, SendKept, EndsWith, Carries
  <2>2. CASE UartSend
    <3>1. /\ sent' = sent + 1 /\ sent' \in 1 .. Len(Lengths) /\ sent' - 1 = sent
      BY <2>2 DEF UartSend, SendKept
    <3>2. ~late => EndsWith(sent - 1)'
      BY <2>2, <3>1 DEF UartSend, SendKept, EndsWith
    <3>. QED  BY <2>2, <3>1, <3>2, SMTT(30) DEF UartSend, SendKept
  <2>3. CASE DevUartDMASend
    <3>1. /\ sent \in 1 .. Len(Lengths) /\ Lengths[sent] \in Nat /\ 0 <= Lengths[sent]
          /\ tx_dma' = [moved |-> 0, number |-> Lengths[sent]] /\ sent' = sent
      BY <2>3 DEF DevUartDMASend, SendKept
    <3>2. ~late => Carries(sent, tx_dma.moved)'
      BY <2>3, <3>1 DEF DevUartDMASend, SendKept, EndsWith, Carries
    <3>3. /\ tx_dma' \in [moved : Nat, number : Nat] /\ tx_dma'.moved = 0
          /\ tx_dma'.number = Lengths[sent] /\ tx_dma'.moved <= tx_dma'.number
      BY <3>1
    <3>. QED  BY <2>3, <3>1, <3>2, <3>3 DEF DevUartDMASend, SendKept
  <2>4. CASE TakeLock
    <3>1. ~late => EndsWith(sent)'
      BY <2>4 DEF TakeLock, SendKept, EndsWith, Carries
    <3>. QED  BY <2>4, <3>1 DEF TakeLock, SendKept
  <2>5. CASE LockTimeout
    BY <2>5 DEF LockTimeout, SendKept
  <2>6. CASE TxDma
    <3>. DEFINE b == <<tx_buffer, tx_dma.moved + 1>>
    <3>1. /\ b \in Nat \X Nat /\ wire' = Append(wire, b)
          /\ tx_dma' \in [moved : Nat, number : Nat] /\ tx_dma'.moved = tx_dma.moved + 1
          /\ tx_dma'.number = tx_dma.number /\ tx_dma'.moved <= tx_dma'.number
          /\ tx_flag' = (tx_dma'.moved = tx_dma'.number)
      <4>1. /\ tx_buffer \in Nat /\ tx_dma.moved \in Nat /\ tx_dma.number \in Nat
            /\ tx_dma.moved < tx_dma.number /\ tx_dma \in [moved : Nat, number : Nat]
        BY <2>6 DEF TxDma, SendKept
      <4>2. /\ wire' = Append(wire, b) /\ tx_dma' = [tx_dma EXCEPT !.moved = @ + 1]
            /\ tx_flag' = (tx_dma.moved + 1 = tx_dma.number)
        BY <2>6 DEF TxDma
      <4>3. tx_dma.moved + 1 \in Nat /\ tx_dma.moved + 1 <= tx_dma.number
        BY <4>1
      <4>4. /\ tx_dma' \in [moved : Nat, number : Nat] /\ tx_dma'.moved = tx_dma.moved + 1
            /\ tx_dma'.number = tx_dma.number
        BY <4>1, <4>2, <4>3
      <4>. QED  BY <4>1, <4>2, <4>3, <4>4
    <3>2. /\ wire' \in Seq(Nat \X Nat) /\ wire' # <<>> /\ Last(wire)' = b
          /\ Len(wire) \in Nat /\ DOMAIN wire = 1 .. Len(wire)
          /\ DOMAIN wire' = 1 .. Len(wire) + 1
          /\ \A i \in 1 .. Len(wire) : wire'[i] = wire[i]
          /\ wire'[Len(wire) + 1] = b
      BY <3>1, WireGrows DEF SendKept
    <3>3. ASSUME ~late
          PROVE  /\ handler = "waiting" /\ b = IF wire = <<>> THEN <<1, 1>> ELSE After(Last(wire))
      BY <2>6, <3>3, NextByte
    <3>4. ASSUME ~late, NEW i \in DOMAIN wire'
          PROVE  wire'[i] = IF i = 1 THEN <<1, 1>> ELSE After(wire'[i - 1])
      <4>1. CASE i \in 1 .. Len(wire)
        <5>1. i # 1 => i - 1 \in 1 .. Len(wire)
          BY <3>2, <4>1, SMTT(30)
        <5>2. wire[i] = IF i = 1 THEN <<1, 1>> ELSE After(wire[i - 1])
          BY <3>2, <3>4, <4>1 DEF SendKept
        <5>. QED  BY <3>2, <4>1, <5>1, <5>2
      <4>2. CASE i = Len(wire) + 1
        <5>1. wire = <<>> <=> Len(wire) = 0
          BY EmptySeq DEF SendKept
        <5>2. wire # <<>> => Last(wire) = wire'[i - 1] /\ i # 1
          BY <3>2, <4>2, <5>1 DEF Last
        <5>3. wire = <<>> => i = 1
          BY <4>2, <5>1
        <5>4. wire'[i] = b /\ b = IF wire = <<>> THEN <<1, 1>> ELSE After(Last(wire))
          BY <3>2, <3>3, <3>4, <4>2
        <5>. HIDE DEF b
        <5>. QED  BY <5>2, <5>3, <5>4
      <4>. QED  BY <3>2, <4>1, <4>2
    <3>5. ~late => Carries(sent, tx_dma.moved)'
      BY <2>6, <3>1, <3>2, SMTT(30) DEF TxDma, SendKept, Carries
    <3>6. UNCHANGED <<sent, handler, tx_buffer, lock_tx, late>> /\ tx_flag' \in BOOLEAN
      BY <2>6 DEF TxDma
    <3>7. ~late => /\ tx_dma'.number = Lengths[sent]
                   /\ tx_flag' => tx_dma'.moved = tx_dma'.number /\ ~lock_tx
                   /\ ~lock_tx
      BY <2>6, <3>1, <3>3 DEF TxDma, SendKept
    <3>. QED  BY <3>1, <3>2, <3>3, <3>4, <3>5, <3>6, <3>7 DEF SendKept
  <2>7. CASE TxDmaIsr
    BY <2>7 DEF TxDmaIsr, SendKept, EndsWith, Carries
  <2>. QED  BY <2>1, <2>2, <2>3, <2>4, <2>5, <2>6, <2>7
            DEF Next, HandlerStep, TxStep, RxIsrStep, RxTaskStep, UartStart, RxByte, RxPause, RxIsr,
                RxIsrSend, DevUartDMARecive, StreamReceive, BroadcastRcv, vars
<1>. QED  BY <1>1, <1>2

\* As long as no wait has timed out the line carries the messages byte after byte, and all
\* of a message before the handler goes on: no token of an earlier transfer lets the buffer
\* be overwritten under the DMA.
THEOREM WireCarriesMessages == Spec => []WireInOrder
<1>1. SendKept => WireInOrder
  BY LengthsAre DEF SendKept, WireInOrder, EndsWith, Carries
<1>. QED  BY <1>1, SendInductive, PTL DEF Spec

--------------------------------------------------------------------------------
(***************************************************************************)
(* Receive.                                                                *)
(***************************************************************************)
Ascends(s) == \A i, j \in DOMAIN s : i < j => s[i] < s[j]

Before(S, T) == \A x \in S, y \in T : x < y

\* How many bytes of the buffer are still to be moved, and which.
Moving == IF rx_isr = "restart" THEN 0 ELSE IF rx_isr = "send" THEN rx_count ELSE rx_at

InBuffer == {rx_buffer[i] : i \in 1 .. Moving}

RxTypes ==
    /\ arrived \in Nat
    /\ rx_buffer \in [1 .. BufferSize -> Nat] /\ rx_at \in 0 .. BufferSize
    /\ rx_isr \in {"none", "send", "restart"} /\ rx_count \in 0 .. BufferSize
    /\ rx_stream_buffer \in Seq(Nat) /\ Len(rx_stream_buffer) <= BufferSize
    /\ rx_buffer_for_vfb \in Seq(Nat) /\ received \in Seq(Nat)
    /\ rx_isr # "none" => rx_count <= rx_at
    /\ ~started => rx_at = 0 /\ rx_isr = "none"

\* Each part of the way is in order and behind the parts ahead of it, and whatever came is
\* on its way or excused.
RxKept ==
    LET R == ToSet(received)
        V == ToSet(rx_buffer_for_vfb)
        S == ToSet(rx_stream_buffer)
    IN /\ Ascends(received) /\ Ascends(rx_buffer_for_vfb) /\ Ascends(rx_stream_buffer)
       /\ \A i, j \in 1 .. Moving : i < j => rx_buffer[i] < rx_buffer[j]
       /\ Before(R, V) /\ Before(R, S) /\ Before(R, InBuffer)
       /\ Before(V, S) /\ Before(V, InBuffer) /\ Before(S, InBuffer)
       /\ R \cup V \cup S \cup InBuffer \cup excused = 1 .. arrived

\* The elements of a concatenation; it ascends if its parts do and the second comes after.
LEMMA Joined ==
    ASSUME NEW s \in Seq(Nat), NEW t \in Seq(Nat)
    PROVE  /\ s \o t \in Seq(Nat) /\ ToSet(s \o t) = ToSet(s) \cup ToSet(t)
           /\ Ascends(s) /\ Ascends(t) /\ Before(ToSet(s), ToSet(t)) => Ascends(s \o t)
<1>. DEFINE m == Len(s)   n == Len(t)   u == s \o t
<1>1. /\ u \in Seq(Nat) /\ Len(u) = m + n /\ m \in Nat /\ n \in Nat
      /\ \A i \in 1 .. m + n : u[i] = IF i <= m THEN s[i] ELSE t[i - m]
  BY ConcatProperties, LenProperties
<1>2. DOMAIN u = 1 .. m + n /\ DOMAIN s = 1 .. m /\ DOMAIN t = 1 .. n
  BY <1>1, LenProperties
<1>. HIDE DEF m, n, u
<1>3. /\ \A i \in 1 .. m : u[i] = s[i] /\ i \in 1 .. m + n
      /\ \A i \in 1 .. n : u[m + i] = t[i] /\ m + i \in 1 .. m + n
      /\ \A i \in 1 .. m + n : \/ i \in 1 .. m
                               \/ i - m \in 1 .. n /\ u[i] = t[i - m] /\ ~(i <= m)
  <2>1. \A i \in 1 .. n : m + i \in 1 .. m + n /\ ~(m + i <= m) /\ (m + i) - m = i
    BY <1>1
  <2>2. \A i \in 1 .. m + n : i <= m \/ i - m \in 1 .. n
    BY <1>1
  <2>3. /\ \A i \in 1 .. m : u[i] = s[i] /\ i \in 1 .. m + n
        /\ \A i \in 1 .. n : u[m + i] = t[i]
    <3>1. ASSUME NEW i \in 1 .. m PROVE u[i] = s[i] /\ i \in 1 .. m + n
      <4>1. i <= m /\ i \in 1 .. m + n
        BY <1>1
      <4>. QED  BY <1>1, <4>1
    <3>2. ASSUME NEW i \in 1 .. n PROVE u[m + i] = t[i]
      <4>. DEFINE k == m + i
      <4>1. k \in 1 .. m + n /\ ~(k <= m) /\ k - m = i
        BY <2>1
      <4>. HIDE DEF k
      <4>2. u[k] = t[i]
        BY <1>1, <4>1
      <4>. QED  BY <4>2 DEF k
    <3>. QED  BY <3>1, <3>2
  <2>4. ASSUME NEW i \in 1 .. m + n, ~(i <= m)
        PROVE  i - m \in 1 .. n /\ u[i] = t[i - m]
    BY <1>1, <2>2, <2>4
  <2>5. ASSUME NEW i \in 1 .. m + n, i <= m PROVE i \in 1 .. m
    BY <1>1, <2>5
  <2>. QED  BY <2>1, <2>3, <2>4, <2>5
<1>4. ToSet(u) = ToSet(s) \cup ToSet(t)
  BY <1>2, <1>3 DEF ToSet
<1>5. ASSUME Ascends(s), Ascends(t), Before(ToSet(s), ToSet(t)) PROVE Ascends(u)
  <2>. SUFFICES ASSUME NEW i \in 1 .. m + n, NEW j \in 1 .. m + n, i < j PROVE u[i] < u[j]
    BY <1>2 DEF Ascends
  <2>1. CASE i \in 1 .. m /\ j \in 1 .. m
    BY <1>2, <1>3, <1>5, <2>1 DEF Ascends
  <2>2. CASE i \in 1 .. m /\ j - m \in 1 .. n /\ u[j] = t[j - m]
    <3>1. s[i] \in ToSet(s) /\ t[j - m] \in ToSet(t)
      BY <1>2, <2>2 DEF ToSet
    <3>2. s[i] < t[j - m]
      BY <1>5, <3>1 DEF Before
    <3>. QED  BY <1>3, <2>2, <3>2
  <2>3. CASE i - m \in 1 .. n /\ u[i] = t[i - m] /\ j - m \in 1 .. n /\ u[j] = t[j - m]
    <3>1. i - m < j - m
      BY <1>1
    <3>. QED  BY <1>2, <1>5, <2>3, <3>1 DEF Ascends
  <2>4. j \in 1 .. m => i \in 1 .. m
    BY <1>1
  <2>. QED  BY <1>3, <2>1, <2>2, <2>3, <2>4
<1>. QED  BY <1>1, <1>4, <1>5 DEF u

\* The empty sequence has no elements and ascends.
LEMMA NoBytes == ToSet(<<>>) = {} /\ Ascends(<<>>) /\ <<>> \in Seq(Nat) /\ Len(<<>>) = 0
<1>1. DOMAIN <<>> = {}
  OBVIOUS
<1>. QED  BY <1>1, EmptySeq DEF ToSet, Ascends

\* The first n bytes of the buffer as a sequence.
LEMMA FirstBytes ==
    ASSUME RxTypes, NEW n \in 0 .. BufferSize
    PROVE  /\ SubSeq(rx_buffer, 1, n) \in Seq(Nat) /\ Len(SubSeq(rx_buffer, 1, n)) = n
           /\ ToSet(SubSeq(rx_buffer, 1, n)) = {rx_buffer[i] : i \in 1 .. n}
           /\ (\A i, j \in 1 .. n : i < j => rx_buffer[i] < rx_buffer[j])
                  => Ascends(SubSeq(rx_buffer, 1, n))
<1>. DEFINE u == SubSeq(rx_buffer, 1, n)
<1>0. BufferSize \in Nat /\ n \in Nat /\ 1 .. n \subseteq 1 .. BufferSize
  BY UartAssumption
<1>1. \A i \in 1 .. n : rx_buffer[i] \in Nat
  BY <1>0 DEF RxTypes
<1>2. /\ u \in Seq(Nat) /\ Len(u) = IF 1 <= n THEN n - 1 + 1 ELSE 0
      /\ \A i \in 1 .. n - 1 + 1 : u[i] = rx_buffer[1 + i - 1]
  <2>1. 1 \in Int /\ n \in Int
    BY <1>0
  <2>. QED  BY <1>1, <2>1, SubSeqProperties
<1>3. n - 1 + 1 = n /\ (IF 1 <= n THEN n - 1 + 1 ELSE 0) = n
  BY <1>0
<1>4. \A i \in 1 .. n : 1 + i - 1 = i
  BY <1>0
<1>5. u \in Seq(Nat) /\ Len(u) = n /\ \A i \in 1 .. n : u[i] = rx_buffer[i]
  BY <1>2, <1>3, <1>4
<1>6. DOMAIN u = 1 .. n
  BY <1>5, LenProperties
<1>. HIDE DEF u
<1>7. ToSet(u) = {rx_buffer[i] : i \in 1 .. n}
  BY <1>5, <1>6 DEF ToSet
<1>8. (\A i, j \in 1 .. n : i < j => rx_buffer[i] < rx_buffer[j]) => Ascends(u)
  BY <1>5, <1>6 DEF Ascends
<1>. QED  BY <1>5, <1>7, <1>8 DEF u

\* Every step keeps the types.
LEMMA RxTypesInductive ==
    /\ Init => RxTypes
    /\ RxTypes /\ [Next]_vars => RxTypes'
<1>0. BufferSize \in Nat /\ 0 \in 0 .. BufferSize
  BY UartAssumption
<1>1. Init => RxTypes
  BY <1>0, NoBytes DEF Init, RxTypes
<1>2. RxTypes /\ [Next]_vars => RxTypes'
  <2>. SUFFICES ASSUME RxTypes, [Next]_vars PROVE RxTypes'
    OBVIOUS
  <2>. USE <1>0 DEF rxVars, rxIsr, rxTask
  <2>1. CASE started' = started /\ UNCHANGED rxVars
    BY <2>1 DEF RxTypes
  <2>2. CASE UartStart
    BY <2>2 DEF UartStart, RxTypes
  <2>3. CASE RxByte
    <3>1. CASE rx_at < BufferSize
      <4>1. rx_at + 1 \in 1 .. BufferSize /\ arrived + 1 \in Nat
        BY <3>1 DEF RxTypes
      <4>2. /\ started /\ UNCHANGED <<started, rx_isr, rx_count, rxTask>>
            /\ arrived' = arrived + 1 /\ rx_at' = rx_at + 1
            /\ rx_buffer' = [rx_buffer EXCEPT ![rx_at + 1] = arrived + 1]
        BY <2>3, <3>1 DEF RxByte
      <4>3. rx_buffer' \in [1 .. BufferSize -> Nat]
        BY <4>1, <4>2 DEF RxTypes
      <4>4. rx_at' \in 0 .. BufferSize /\ (rx_isr' # "none" => rx_count' <= rx_at')
        BY <4>1, <4>2 DEF RxTypes
      <4>. QED  BY <4>1, <4>2, <4>3, <4>4 DEF RxTypes
    <3>2. CASE ~(rx_at < BufferSize)
      BY <2>3, <3>2 DEF RxByte, RxTypes
    <3>. QED  BY <3>1, <3>2
  <2>4. CASE RxPause
    BY <2>4 DEF RxPause, RxTypes
  <2>5. ASSUME NEW f \in {"full", "idle"}, RxIsr(f) PROVE RxTypes'
    BY <2>5 DEF RxIsr, RxTypes
  <2>6. CASE RxIsrSend
    <3>. DEFINE n == IF rx_count <= Room THEN rx_count ELSE Room
    <3>1. Len(rx_stream_buffer) \in 0 .. BufferSize /\ Room \in 0 .. BufferSize
      BY LenProperties DEF RxTypes, Room
    <3>2. n \in 0 .. BufferSize /\ n <= Room
      BY <3>1 DEF RxTypes
    <3>3. rx_stream_buffer' = rx_stream_buffer \o SubSeq(rx_buffer, 1, n)
      BY <2>6 DEF RxIsrSend
    <3>. HIDE DEF n
    <3>4. /\ rx_stream_buffer' \in Seq(Nat)
          /\ Len(rx_stream_buffer') = Len(rx_stream_buffer) + n
      <4>1. SubSeq(rx_buffer, 1, n) \in Seq(Nat) /\ Len(SubSeq(rx_buffer, 1, n)) = n
        BY <3>2, FirstBytes
      <4>. QED  BY <3>3, <4>1, ConcatProperties DEF RxTypes
    <3>5. Len(rx_stream_buffer') <= BufferSize
      BY <3>1, <3>2, <3>4 DEF Room
    <3>. QED  BY <2>6, <3>4, <3>5 DEF RxIsrSend, RxTypes
  <2>7. CASE DevUartDMARecive
    BY <2>7 DEF DevUartDMARecive, RxTypes
  <2>8. CASE StreamReceive
    BY <2>8, NoBytes DEF StreamReceive, RxTypes
  <2>9. CASE BroadcastRcv
    <3>1. /\ UNCHANGED <<started, arrived, rxIsr, rx_stream_buffer>> /\ rx_buffer_for_vfb' = <<>>
          /\ received' = received \o rx_buffer_for_vfb \/ received' = received
      BY <2>9 DEF BroadcastRcv
    <3>2. received \in Seq(Nat) /\ received \o rx_buffer_for_vfb \in Seq(Nat)
      BY ConcatProperties DEF RxTypes
    <3>3. received' \in Seq(Nat)
      BY <3>1, <3>2
    <3>4. rx_buffer_for_vfb' \in Seq(Nat)
      BY <3>1, NoBytes
    <3>. QED  BY <3>1, <3>3, <3>4 DEF RxTypes
  <2>. QED  BY <2>1, <2>2, <2>3, <2>4, <2>5, <2>6, <2>7, <2>8, <2>9
            DEF Next, HandlerStep, TxStep, RxIsrStep, RxTaskStep, UartSend, DevUartDMASend,
                TakeLock, LockTimeout, TxDma, TxDmaIsr, vars
<1>. QED  BY <1>1, <1>2

\* The order is kept as long as no byte moves.
LEMMA NothingMoves ==
    ASSUME RxKept, UNCHANGED <<arrived, rx_buffer, rxTask, excused>>, Moving' = Moving
    PROVE  RxKept'
<1>1. InBuffer' = InBuffer
  BY DEF InBuffer
<1>. QED  BY <1>1 DEF RxKept, rxTask

\* A byte that comes finds room in the buffer and is the last there, or is excused.
LEMMA ByteComes ==
    ASSUME RxTypes, RxKept, RxByte
    PROVE  RxKept'
<1>0. /\ BufferSize \in Nat /\ arrived \in Nat /\ arrived' = arrived + 1
      /\ UNCHANGED <<received, rx_buffer_for_vfb, rx_stream_buffer, rx_isr, rx_count>>
  BY UartAssumption DEF RxByte, RxTypes, rxTask
<1>. DEFINE R == ToSet(received)   V == ToSet(rx_buffer_for_vfb)   S == ToSet(rx_stream_buffer)
            a == arrived + 1
<1>1. R' = R /\ V' = V /\ S' = S
  BY <1>0
<1>2. /\ a \in Nat /\ 1 .. a = (1 .. arrived) \cup {a}
      /\ \A x \in R \cup V \cup S \cup InBuffer : x < a
  <2>1. \A x \in R \cup V \cup S \cup InBuffer : x \in 1 .. arrived
    BY DEF RxKept
  <2>. QED  BY <1>0, <2>1
<1>3. CASE rx_at < BufferSize /\ rx_isr = "none"
  <2>1. /\ Moving = rx_at /\ Moving' = rx_at + 1 /\ rx_at \in Nat /\ rx_at + 1 \in 1 .. BufferSize
        /\ excused' = excused /\ rx_buffer' = [rx_buffer EXCEPT ![rx_at + 1] = a]
    BY <1>0, <1>3 DEF RxByte, RxTypes, Moving
  <2>2. /\ rx_buffer'[rx_at + 1] = a
        /\ \A i \in 1 .. rx_at : rx_buffer'[i] = rx_buffer[i] /\ rx_buffer[i] \in InBuffer
        /\ \A i \in 1 .. rx_at + 1 : i \in 1 .. rx_at \/ i = rx_at + 1
        /\ \A i \in 1 .. rx_at : i \in 1 .. rx_at + 1
    BY <1>0, <2>1, SMTT(30) DEF RxTypes, InBuffer
  <2>. HIDE DEF a
  <2>3. InBuffer' = InBuffer \cup {a}
    <3>1. InBuffer' = {rx_buffer'[i] : i \in 1 .. rx_at + 1} /\ InBuffer = {rx_buffer[i] : i \in 1 .. rx_at}
      BY <2>1 DEF InBuffer
    <3>2. rx_at + 1 \in 1 .. rx_at + 1
      BY <2>1
    <3>. QED  BY <2>2, <3>1, <3>2
  <2>4. ASSUME NEW i \in 1 .. rx_at + 1, NEW j \in 1 .. rx_at + 1, i < j
        PROVE  rx_buffer'[i] < rx_buffer'[j]
    <3>1. i \in 1 .. rx_at
      BY <2>1, <2>4
    <3>2. CASE j \in 1 .. rx_at
      BY <2>1, <2>2, <2>4, <3>1, <3>2 DEF RxKept
    <3>3. CASE j = rx_at + 1
      BY <1>2, <2>2, <3>1, <3>3
    <3>. QED  BY <2>2, <3>2, <3>3
  <2>5. Before(R, InBuffer') /\ Before(V, InBuffer') /\ Before(S, InBuffer')
    BY <1>2, <2>3 DEF RxKept, Before
  <2>6. 1 .. arrived' = (1 .. arrived) \cup {a}
    BY <1>0, <1>2 DEF a
  <2>7. R \cup V \cup S \cup InBuffer' \cup excused' = 1 .. arrived'
    BY <2>1, <2>3, <2>6 DEF RxKept
  <2>. QED  BY <1>0, <1>1, <2>1, <2>4, <2>5, <2>7 DEF RxKept
<1>4. CASE ~(rx_at < BufferSize /\ rx_isr = "none")
  <2>1. /\ excused' = excused \cup {a} /\ Moving' = Moving
        /\ \A i \in 1 .. Moving : rx_buffer'[i] = rx_buffer[i]
    <3>1. CASE rx_at < BufferSize
      <4>1. /\ rx_isr # "none" /\ rx_buffer' = [rx_buffer EXCEPT ![rx_at + 1] = a]
            /\ rx_at \in Nat /\ rx_count \in Nat /\ rx_count <= rx_at
            /\ excused' = excused \cup {a}
        BY <1>0, <1>4, <3>1 DEF RxByte, RxTypes
      <4>2. Moving' = Moving /\ \A i \in 1 .. Moving : i # rx_at + 1 /\ i \in 1 .. BufferSize
        <5>1. Moving' = Moving /\ (Moving = 0 \/ Moving = rx_count)
          BY <1>0, <4>1 DEF Moving, RxTypes
        <5>2. \A i \in 1 .. Moving : i <= rx_at
          BY <4>1, <5>1
        <5>. QED  BY <1>0, <3>1, <4>1, <5>1, <5>2
      <4>. QED  BY <4>1, <4>2 DEF RxTypes
    <3>2. CASE ~(rx_at < BufferSize)
      <4>1. rx_at = BufferSize
        BY <1>0, <3>2 DEF RxTypes
      <4>. QED  BY <1>0, <3>2, <4>1 DEF RxByte, Moving
    <3>. QED  BY <3>1, <3>2
  <2>. HIDE DEF a
  <2>2. InBuffer' = InBuffer
    BY <2>1 DEF InBuffer
  <2>3. 1 .. arrived' = (1 .. arrived) \cup {a}
    BY <1>0, <1>2 DEF a
  <2>. QED  BY <1>0, <1>1, <2>1, <2>2, <2>3 DEF RxKept
<1>. QED  BY <1>3, <1>4

\* The interrupt moves what there is room for to the end of the stream buffer, in order;
\* the rest is excused.
LEMMA InterruptMoves ==
    ASSUME RxTypes, RxKept, RxIsrSend
    PROVE  RxKept'
<1>. DEFINE R == ToSet(received)   V == ToSet(rx_buffer_for_vfb)   S == ToSet(rx_stream_buffer)
            n == IF rx_count <= Room THEN rx_count ELSE Room
            u == SubSeq(rx_buffer, 1, n)
            rest == {rx_buffer[i] : i \in n + 1 .. rx_count}
<1>0. /\ rx_isr = "send" /\ rx_isr' = "restart" /\ rx_stream_buffer' = rx_stream_buffer \o u
      /\ excused' = excused \cup rest
      /\ UNCHANGED <<arrived, received, rx_buffer_for_vfb, rx_buffer>>
  BY DEF RxIsrSend
<1>1. n \in 0 .. BufferSize /\ n \in Nat /\ rx_count \in Nat /\ n <= rx_count
  BY UartAssumption, LenProperties DEF RxTypes, Room
<1>2. Moving = rx_count /\ Moving' = 0
  BY <1>0 DEF Moving
<1>3. /\ InBuffer = ToSet(u) \cup rest /\ ToSet(u) \subseteq InBuffer /\ InBuffer' = {}
      /\ u \in Seq(Nat) /\ Ascends(u)
  <2>1. \A i \in 1 .. n : i \in 1 .. rx_count
    BY <1>1
  <2>2. \A i \in 1 .. rx_count : i \in 1 .. n \/ i \in n + 1 .. rx_count
    BY <1>1
  <2>3. \A i \in n + 1 .. rx_count : i \in 1 .. rx_count
    BY <1>1
  <2>4. /\ u \in Seq(Nat) /\ ToSet(u) = {rx_buffer[i] : i \in 1 .. n}
        /\ (\A i, j \in 1 .. n : i < j => rx_buffer[i] < rx_buffer[j]) => Ascends(u)
    BY <1>1, FirstBytes
  <2>5. Ascends(u)
    BY <1>2, <2>1, <2>4 DEF RxKept
  <2>. HIDE DEF n, u
  <2>6. InBuffer = ToSet(u) \cup rest
    BY <1>2, <2>1, <2>2, <2>3, <2>4 DEF InBuffer
  <2>7. InBuffer' = {}
    BY <1>2 DEF InBuffer
  <2>. QED  BY <2>4, <2>5, <2>6, <2>7
<1>. HIDE DEF n, u, rest
<1>4. /\ Ascends(rx_stream_buffer) /\ Before(S, InBuffer)
      /\ Before(R, S) /\ Before(R, InBuffer) /\ Before(V, S) /\ Before(V, InBuffer)
  BY DEF RxKept
<1>5. Before(S, ToSet(u)) /\ Before(R, S \cup ToSet(u)) /\ Before(V, S \cup ToSet(u))
  BY <1>3, <1>4 DEF Before
<1>6. Ascends(rx_stream_buffer') /\ ToSet(rx_stream_buffer') = S \cup ToSet(u)
  BY <1>0, <1>3, <1>4, <1>5, Joined DEF RxTypes
<1>7. Before(R, {}) /\ Before(V, {}) /\ Before(S \cup ToSet(u), {})
  BY DEF Before
<1>8. R \cup V \cup (S \cup ToSet(u)) \cup {} \cup excused' = 1 .. arrived'
  BY <1>0, <1>3 DEF RxKept
<1>9. Ascends(received') /\ Ascends(rx_buffer_for_vfb') /\ Before(R, V)
  BY <1>0 DEF RxKept
<1>. QED  BY <1>0, <1>2, <1>3, <1>5, <1>6, <1>7, <1>8, <1>9 DEF RxKept

\* The task takes all of the stream buffer when it has broadcast what it took before.
LEMMA TaskTakes ==
    ASSUME RxTypes, RxKept, StreamReceive
    PROVE  RxKept'
<1>. DEFINE R == ToSet(received)   S == ToSet(rx_stream_buffer)
<1>0. /\ rx_buffer_for_vfb = <<>> /\ rx_buffer_for_vfb' = rx_stream_buffer
      /\ rx_stream_buffer' = <<>> /\ UNCHANGED <<arrived, rxIsr, received, excused>>
  BY DEF StreamReceive
<1>1. InBuffer' = InBuffer /\ Moving' = Moving /\ rx_buffer' = rx_buffer
  BY <1>0 DEF rxIsr, InBuffer, Moving
<1>2. /\ Ascends(received) /\ Ascends(rx_stream_buffer) /\ Before(R, S) /\ Before(R, InBuffer)
      /\ Before(S, InBuffer) /\ \A i, j \in 1 .. Moving : i < j => rx_buffer[i] < rx_buffer[j]
  BY DEF RxKept
<1>3. ToSet(rx_buffer_for_vfb') = S /\ ToSet(rx_stream_buffer') = {} /\ ToSet(received') = R
  BY <1>0, NoBytes
<1>4. Ascends(received') /\ Ascends(rx_buffer_for_vfb') /\ Ascends(rx_stream_buffer')
  BY <1>0, <1>2, NoBytes
<1>5. Before(R, {}) /\ Before(S, {}) /\ Before({}, InBuffer)
  BY DEF Before
<1>6. R \cup S \cup {} \cup InBuffer \cup excused' = 1 .. arrived'
  BY <1>0, NoBytes DEF RxKept
<1>. QED  BY <1>1, <1>2, <1>3, <1>4, <1>5, <1>6 DEF RxKept

\* What is broadcast comes after what was broadcast before; what is not is excused.
LEMMA TaskBroadcasts ==
    ASSUME RxTypes, RxKept, BroadcastRcv
    PROVE  RxKept'
<1>. DEFINE R == ToSet(received)   V == ToSet(rx_buffer_for_vfb)   S == ToSet(rx_stream_buffer)
<1>0. rx_buffer_for_vfb' = <<>> /\ UNCHANGED <<arrived, rxIsr, rx_stream_buffer>>
  BY DEF BroadcastRcv
<1>1. InBuffer' = InBuffer /\ Moving' = Moving /\ rx_buffer' = rx_buffer
  BY <1>0 DEF rxIsr, InBuffer, Moving
<1>2. /\ Ascends(received) /\ Ascends(rx_buffer_for_vfb) /\ Ascends(rx_stream_buffer)
      /\ Before(R, V) /\ Before(R, S) /\ Before(R, InBuffer)
      /\ Before(V, S) /\ Before(V, InBuffer) /\ Before(S, InBuffer)
      /\ \A i, j \in 1 .. Moving : i < j => rx_buffer[i] < rx_buffer[j]
  BY DEF RxKept
<1>3. /\ ToSet(rx_buffer_for_vfb') = {} /\ Ascends(rx_buffer_for_vfb')
      /\ ToSet(rx_stream_buffer') = S /\ Ascends(rx_stream_buffer')
  BY <1>0, <1>2, NoBytes
<1>4. R \cup V \cup S \cup InBuffer \cup excused = 1 .. arrived /\ arrived' = arrived
  BY <1>0 DEF RxKept
<1>5. CASE received' = received \o rx_buffer_for_vfb /\ excused' = excused
  <2>1. Ascends(received') /\ ToSet(received') = R \cup V
    BY <1>2, <1>5, Joined DEF RxTypes
  <2>2. /\ Before(R \cup V, {}) /\ Before(R \cup V, S) /\ Before(R \cup V, InBuffer)
        /\ Before({}, S) /\ Before({}, InBuffer)
    BY <1>2 DEF Before
  <2>3. (R \cup V) \cup {} \cup S \cup InBuffer \cup excused' = 1 .. arrived'
    BY <1>4, <1>5
  <2>. QED  BY <1>1, <1>2, <1>3, <2>1, <2>2, <2>3 DEF RxKept
<1>6. CASE excused' = excused \cup V /\ received' = received
  <2>1. Ascends(received') /\ ToSet(received') = R
    BY <1>2, <1>6
  <2>2. Before(R, {}) /\ Before({}, S) /\ Before({}, InBuffer)
    BY DEF Before
  <2>3. R \cup {} \cup S \cup InBuffer \cup excused' = 1 .. arrived'
    BY <1>4, <1>6
  <2>. QED  BY <1>1, <1>2, <1>3, <2>1, <2>2, <2>3 DEF RxKept
<1>. QED  BY <1>5, <1>6 DEF BroadcastRcv

\* RxKept holds at the start and is kept by every step.
LEMMA RxInductive ==
    /\ Init => RxKept
    /\ RxTypes /\ RxKept /\ [Next]_vars => RxKept'
<1>1. Init => RxKept
  <2>. SUFFICES ASSUME Init PROVE RxKept
    OBVIOUS
  <2>1. Moving = 0 /\ InBuffer = {} /\ arrived = 0 /\ excused = {} /\ 1 .. arrived = {}
    BY DEF Init, Moving, InBuffer
  <2>2. received = <<>> /\ rx_buffer_for_vfb = <<>> /\ rx_stream_buffer = <<>>
    BY DEF Init
  <2>3. Before({}, {})
    BY DEF Before
  <2>4. /\ ToSet(received) = {} /\ ToSet(rx_buffer_for_vfb) = {} /\ ToSet(rx_stream_buffer) = {}
        /\ Ascends(received) /\ Ascends(rx_buffer_for_vfb) /\ Ascends(rx_stream_buffer)
    BY <2>2, NoBytes
  <2>. QED  BY <2>1, <2>3, <2>4 DEF RxKept
<1>2. RxTypes /\ RxKept /\ [Next]_vars => RxKept'
  <2>. SUFFICES ASSUME RxTypes, RxKept, [Next]_vars PROVE RxKept'
    OBVIOUS
  <2>1. CASE UNCHANGED rxVars
    BY <2>1, NothingMoves DEF rxVars, rxIsr, rxTask, Moving
  <2>2. CASE UartStart
    <3>1. UNCHANGED <<arrived, rx_buffer, rxTask, excused>> /\ Moving' = Moving
      BY <2>2 DEF UartStart, RxTypes, Moving
    <3>. QED  BY <3>1, NothingMoves
  <2>3. CASE RxPause
    <3>1. UNCHANGED <<arrived, rx_buffer, rxTask, excused>> /\ Moving' = Moving
      BY <2>3 DEF RxPause, Moving
    <3>. QED  BY <3>1, NothingMoves
  <2>4. ASSUME NEW f \in {"full", "idle"}, RxIsr(f) PROVE RxKept'
    <3>1. UNCHANGED <<arrived, rx_buffer, rxTask, excused>> /\ Moving' = Moving
      BY <2>4 DEF RxIsr, Moving
    <3>. QED  BY <3>1, NothingMoves
  <2>5. CASE DevUartDMARecive
    <3>1. UNCHANGED <<arrived, rx_buffer, rxTask, excused>> /\ Moving' = Moving
      BY <2>5 DEF DevUartDMARecive, Moving
    <3>. QED  BY <3>1, NothingMoves
  <2>. QED  BY <2>1, <2>2, <2>3, <2>4, <2>5, ByteComes, InterruptMoves, TaskTakes, TaskBroadcasts
            DEF Next, HandlerStep, TxStep, RxIsrStep, RxTaskStep, UartSend, DevUartDMASend,
                TakeLock, LockTimeout, TxDma, TxDmaIsr, vars
<1>. QED  BY <1>1, <1>2

\* The whole way ascends and holds, with what is excused, every byte that came.
LEMMA WholeWay ==
    ASSUME RxTypes, RxKept
    PROVE  BytesAccounted
<1>. DEFINE R == ToSet(received)   V == ToSet(rx_buffer_for_vfb)   S == ToSet(rx_stream_buffer)
            rv == received \o rx_buffer_for_vfb   rvs == rv \o rx_stream_buffer
<1>1. Unmoved \in Seq(Nat) /\ ToSet(Unmoved) = InBuffer /\ Ascends(Unmoved)
  <2>1. CASE rx_isr = "restart"
    <3>1. Unmoved = <<>> /\ InBuffer = {}
      BY <2>1 DEF Unmoved, InBuffer, Moving
    <3>. QED  BY <3>1, NoBytes
  <2>2. CASE rx_isr # "restart"
    <3>1. Unmoved = SubSeq(rx_buffer, 1, Moving) /\ Moving \in 0 .. BufferSize
      BY <2>2 DEF Unmoved, Moving, RxTypes
    <3>2. \A i, j \in 1 .. Moving : i < j => rx_buffer[i] < rx_buffer[j]
      BY DEF RxKept
    <3>. QED  BY <3>1, <3>2, FirstBytes DEF InBuffer
  <2>. QED  BY <2>1, <2>2
<1>2. /\ Ascends(received) /\ Ascends(rx_buffer_for_vfb) /\ Ascends(rx_stream_buffer)
      /\ Before(R, V) /\ Before(R \cup V, S) /\ Before(R \cup V \cup S, InBuffer)
  BY DEF RxKept, Before
<1>3. rv \in Seq(Nat) /\ ToSet(rv) = R \cup V /\ Ascends(rv)
  BY <1>2, Joined DEF RxTypes
<1>. HIDE DEF rv
<1>4. rvs \in Seq(Nat) /\ ToSet(rvs) = R \cup V \cup S /\ Ascends(rvs)
  BY <1>2, <1>3, Joined DEF RxTypes
<1>. HIDE DEF rvs
<1>5. ToSet(rvs \o Unmoved) = R \cup V \cup S \cup InBuffer /\ Ascends(rvs \o Unmoved)
  BY <1>1, <1>2, <1>4, Joined
<1>6. Pipeline = rvs \o Unmoved
  BY DEF Pipeline, rv, rvs
<1>7. rx_at <= BufferSize /\ Len(rx_stream_buffer) <= BufferSize
  BY UartAssumption DEF RxTypes
<1>. QED  BY <1>5, <1>6, <1>7 DEF BytesAccounted, Ascends, RxKept

\* No received byte is doubled or overtaken between line, DMA, interrupt and task, none is
\* lost unless there is no room or no ear for it, and no buffer runs over.
THEOREM BytesAreAccounted == Spec => []BytesAccounted
  BY RxTypesInductive, RxInductive, WholeWay, PTL DEF Spec

================================================================================
