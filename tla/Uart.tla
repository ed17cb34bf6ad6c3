--------------------------------- MODULE Uart ---------------------------------
(***************************************************************************)
(* The serial port tasks of Middlewares/device/Uart/Uart.c (Debug.c is its *)
(* twin) over bsp/dev_uart/dev_uart.c.                                     *)
(*                                                                         *)
(* Transmit: the VFB task copies a message into uart_tx_buffer, starts the *)
(* DMA and waits on lock_tx, which the DMA interrupt gives.  Receive: the  *)
(* DMA fills uart_rx_buffer; a full buffer or a pause on the line raises   *)
(* an interrupt that moves the bytes to a stream buffer and starts the DMA *)
(* anew; a second task takes them from there and broadcasts them.  Tasks,  *)
(* interrupts and the two DMA channels run side by side.                   *)
(*                                                                         *)
(* Received bytes are numbered as they come; the n-th byte the handler     *)
(* copies for message m is <<m, n>>.  Which byte of the frame that is,     *)
(* depends on MSG_GET_PAYLOAD (vfb.h:45), which names the address of the   *)
(* payload's pointer, not the payload.                                     *)
(***************************************************************************)
EXTENDS Naturals, Sequences, SequencesExt

CONSTANTS BufferSize,  \* Uart_UART_BUFFER_SIZE, also the size of the stream buffer
          Lengths,     \* the lengths of the messages sent, in order
          MaxBytes     \* bytes that arrive in a run

ASSUME UartAssumption ==
    /\ BufferSize \in Nat \ {0}
    /\ Lengths \in Seq(1 .. BufferSize)
    /\ MaxBytes \in Nat

VARIABLES started,    \* whether DevUartStart has enabled the port
          sent,       \* the UartSend messages taken up
          handler,    \* where UartRcvHandle is: idle, copied or waiting on lock_tx
          tx_buffer,  \* the message uart_tx_buffer holds
          tx_dma,     \* the bytes moved and to be moved by the transmit DMA
          tx_flag,    \* its full-transfer flag
          lock_tx,    \* the binary semaphore
          wire,       \* the bytes put on the line (history)
          late,       \* whether a wait for lock_tx has timed out (history)
          arrived,    \* the bytes that have come (history)
          rx_buffer,
          rx_at,      \* bytes the receive DMA has stored since it was started
          rx_flags,   \* "full" of the DMA and "idle" of the port
          rx_isr,     \* where __UartRXISRHandle is
          rx_count,
          rx_stream_buffer,
          rx_buffer_for_vfb,  \* the bytes the receive task is broadcasting
          received,   \* the bytes broadcast as UartRcv (history)
          excused     \* bytes that came while the interrupt handler had its count, found
                      \* the buffers full, or could not be broadcast (history)

txVars == <<sent, handler, tx_buffer, tx_dma, tx_flag, lock_tx, wire, late>>
rxIsr  == <<rx_buffer, rx_at, rx_flags, rx_isr, rx_count>>
rxTask == <<rx_stream_buffer, rx_buffer_for_vfb, received>>
rxVars == <<arrived, rxIsr, rxTask, excused>>
vars   == <<started, txVars, rxVars>>

Init ==
    /\ started = FALSE
    /\ sent = 0
    /\ handler = "idle"
    /\ tx_buffer = 0
    /\ tx_dma = [moved |-> 0, number |-> 0]
    /\ tx_flag = FALSE
    /\ lock_tx = FALSE
    /\ wire = <<>>
    /\ late = FALSE
    /\ arrived = 0
    /\ rx_buffer = [i \in 1 .. BufferSize |-> 0]
    /\ rx_at = 0
    /\ rx_flags = {}
    /\ rx_isr = "none"
    /\ rx_count = 0
    /\ rx_stream_buffer = <<>>
    /\ rx_buffer_for_vfb = <<>>
    /\ received = <<>>
    /\ excused = {}

(***************************************************************************)
(* UartRcvHandle.                                                          *)
(***************************************************************************)
\* UartInitHandle sends UartStart once.  The receive DMA starts and the port is enabled.
UartStart ==
    /\ handler = "idle"
    /\ ~started
    /\ started' = TRUE
    /\ rx_at' = 0
    /\ rx_flags' = {}
    /\ UNCHANGED <<txVars, arrived, rx_buffer, rx_isr, rx_count, rxTask, excused>>

\* The memcpy into uart_tx_buffer.
UartSend ==
    /\ handler = "idle"
    /\ sent < Len(Lengths)
    /\ sent' = sent + 1
    /\ tx_buffer' = sent + 1
    /\ handler' = "copied"
    /\ UNCHANGED <<started, tx_dma, tx_flag, lock_tx, wire, late, rxVars>>

\* dma_deinit ends a transfer under way and clears its flag.
DevUartDMASend ==
    /\ handler = "copied"
    /\ tx_dma' = [moved |-> 0, number |-> Lengths[sent]]
    /\ tx_flag' = FALSE
    /\ handler' = "waiting"
    /\ UNCHANGED <<started, sent, tx_buffer, lock_tx, wire, late, rxVars>>

\* A handler that does not wait for the DMA.
TakeLockUnasked ==
    /\ handler = "waiting"
    /\ lock_tx' = FALSE
    /\ handler' = "idle"
    /\ UNCHANGED <<started, sent, tx_buffer, tx_dma, tx_flag, wire, late, rxVars>>

TakeLock ==
    /\ handler = "waiting"
    /\ lock_tx
    /\ lock_tx' = FALSE
    /\ handler' = "idle"
    /\ UNCHANGED <<started, sent, tx_buffer, tx_dma, tx_flag, wire, late, rxVars>>

\* The 300 ms are over: a buffer takes about 11 on the line, once the port is enabled.
LockTimeout ==
    /\ handler = "waiting"
    /\ ~lock_tx
    /\ ~started
    /\ handler' = "idle"
    /\ late' = TRUE
    /\ UNCHANGED <<started, sent, tx_buffer, tx_dma, tx_flag, lock_tx, wire, rxVars>>

\* The DMA reads uart_tx_buffer as it is now.
TxDma ==
    /\ started
    /\ tx_dma.moved < tx_dma.number
    /\ wire' = Append(wire, <<tx_buffer, tx_dma.moved + 1>>)
    /\ tx_dma' = [tx_dma EXCEPT !.moved = @ + 1]
    /\ tx_flag' = (tx_dma.moved + 1 = tx_dma.number)
    /\ UNCHANGED <<started, sent, handler, tx_buffer, lock_tx, late, rxVars>>

TxDmaIsr ==
    /\ tx_flag
    /\ tx_flag' = FALSE
    /\ lock_tx' = TRUE
    /\ UNCHANGED <<started, sent, handler, tx_buffer, tx_dma, wire, late, rxVars>>

(***************************************************************************)
(* The receive side: the line, the interrupt, the task.                    *)
(***************************************************************************)
RxByte ==
    /\ started
    /\ arrived < MaxBytes
    /\ arrived' = arrived + 1
    /\ IF rx_at < BufferSize
       THEN /\ rx_buffer' = [rx_buffer EXCEPT ![rx_at + 1] = arrived + 1]
            /\ rx_at' = rx_at + 1
            /\ rx_flags' = IF rx_at + 1 = BufferSize THEN rx_flags \cup {"full"} ELSE rx_flags
       ELSE UNCHANGED <<rx_buffer, rx_at, rx_flags>>
    /\ excused' = IF rx_at = BufferSize \/ rx_isr # "none"
                  THEN excused \cup {arrived + 1} ELSE excused
    /\ UNCHANGED <<started, txVars, rx_isr, rx_count, rxTask>>

RxPause ==
    /\ rx_at > 0
    /\ "idle" \notin rx_flags
    /\ rx_flags' = rx_flags \cup {"idle"}
    /\ UNCHANGED <<started, txVars, arrived, rx_buffer, rx_at, rx_isr, rx_count, rxTask, excused>>

\* A handler that takes a count equal to the buffer's size for an error.
RxIsrNeedsRoom(f) ==
    /\ rx_isr = "none"
    /\ f \in rx_flags
    /\ rx_flags' = rx_flags \ {f}
    /\ IF rx_at \in {0, BufferSize} THEN UNCHANGED <<rx_isr, rx_count>>
       ELSE rx_isr' = "send" /\ rx_count' = rx_at
    /\ UNCHANGED <<started, txVars, arrived, rx_buffer, rx_at, rxTask, excused>>

\* One interrupt is served at a time.  With a count of 0 there is nothing to do.
RxIsr(f) ==
    /\ rx_isr = "none"
    /\ f \in rx_flags
    /\ rx_flags' = rx_flags \ {f}
    /\ IF rx_at = 0 THEN UNCHANGED <<rx_isr, rx_count>>
       ELSE rx_isr' = "send" /\ rx_count' = rx_at
    /\ UNCHANGED <<started, txVars, arrived, rx_buffer, rx_at, rxTask, excused>>

Room == BufferSize - Len(rx_stream_buffer)

\* xStreamBufferSendFromISR takes what there is room for.
RxIsrSend ==
    LET n == IF rx_count <= Room THEN rx_count ELSE Room
    IN /\ rx_isr = "send"
       /\ rx_stream_buffer' = rx_stream_buffer \o SubSeq(rx_buffer, 1, n)
       /\ excused' = excused \cup {rx_buffer[i] : i \in n + 1 .. rx_count}
       /\ rx_isr' = "restart"
       /\ UNCHANGED <<started, txVars, arrived, rx_buffer, rx_at, rx_flags, rx_count,
                      rx_buffer_for_vfb, received>>

\* A restart that leaves the DMA where it is.
DevUartDMAReciveInPlace ==
    /\ rx_isr = "restart"
    /\ rx_flags' = rx_flags \ {"full"}
    /\ rx_isr' = "none"
    /\ UNCHANGED <<started, txVars, arrived, rx_buffer, rx_at, rx_count, rxTask, excused>>

\* dma_deinit clears the DMA's flag, the port's stays.
DevUartDMARecive ==
    /\ rx_isr = "restart"
    /\ rx_at' = 0
    /\ rx_flags' = rx_flags \ {"full"}
    /\ rx_isr' = "none"
    /\ UNCHANGED <<started, txVars, arrived, rx_buffer, rx_count, rxTask, excused>>

\* xStreamBufferReceive: all there is, which is never more than the buffer holds.
StreamReceive ==
    /\ rx_buffer_for_vfb = <<>>
    /\ rx_stream_buffer # <<>>
    /\ rx_buffer_for_vfb' = rx_stream_buffer
    /\ rx_stream_buffer' = <<>>
    /\ UNCHANGED <<started, txVars, arrived, rxIsr, received, excused>>

\* The answer of vfb_send is not looked at.
BroadcastRcv ==
    /\ rx_buffer_for_vfb # <<>>
    /\ \/ received' = received \o rx_buffer_for_vfb /\ UNCHANGED excused
       \/ excused' = excused \cup ToSet(rx_buffer_for_vfb) /\ UNCHANGED received
    /\ rx_buffer_for_vfb' = <<>>
    /\ UNCHANGED <<started, txVars, arrived, rxIsr, rx_stream_buffer>>

HandlerStep == DevUartDMASend \/ TakeLock \/ LockTimeout
TxStep      == TxDma \/ TxDmaIsr
RxIsrStep   == (\E f \in {"full", "idle"} : RxIsr(f)) \/ RxIsrSend \/ DevUartDMARecive
RxTaskStep  == StreamReceive \/ BroadcastRcv

Next == UartStart \/ UartSend \/ HandlerStep \/ TxStep
        \/ RxByte \/ RxPause \/ RxIsrStep \/ RxTaskStep

Spec == Init /\ [][Next]_vars

\* Tasks and interrupts run, the DMA moves on, a wait ends, and a line that holds bytes
\* pauses.  Nobody has to send.
FairSpec ==
    /\ Spec
    /\ WF_vars(HandlerStep)
    /\ WF_vars(TxDma)
    /\ WF_vars(TxDmaIsr)
    /\ WF_vars(RxPause)
    /\ WF_vars(RxIsrStep)
    /\ WF_vars(RxTaskStep)

--------------------------------------------------------------------------------
(***************************************************************************)
(* Correctness.                                                            *)
(***************************************************************************)
\* The byte of the messages that comes after byte b.
After(b) == IF b[2] < Lengths[b[1]] THEN <<b[1], b[2] + 1>> ELSE <<b[1] + 1, 1>>

\* The line ends with the last byte of message m; with m = 0 it carries nothing.
EndsWith(m) == IF m = 0 THEN wire = <<>> ELSE wire # <<>> /\ Last(wire) = <<m, Lengths[m]>>

\* As long as no wait has timed out the line carries what the handler copied, byte after
\* byte from the first message on, and all of the last before the handler goes on ("wait
\* for TX DMA complete", Uart.c:264): no token of an earlier transfer lets the buffer be
\* overwritten under the DMA.
WireInOrder ==
    ~late => /\ \A i \in DOMAIN wire : wire[i] = IF i = 1 THEN <<1, 1>> ELSE After(wire[i - 1])
             /\ wire # <<>> => Last(wire)[1] <= sent
             /\ handler = "idle" => EndsWith(sent)

\* Bytes in the buffer that the interrupt has not moved on yet.
Unmoved == IF rx_isr = "restart" THEN <<>>
           ELSE SubSeq(rx_buffer, 1, IF rx_isr = "send" THEN rx_count ELSE rx_at)

\* The bytes on their way or broadcast, oldest first.
Pipeline == received \o rx_buffer_for_vfb \o rx_stream_buffer \o Unmoved

\* Between line, DMA, interrupt and task no byte is doubled or overtaken, none is lost
\* except where the code has no room or no ear for it, and no buffer runs over.
BytesAccounted ==
    /\ rx_at <= BufferSize /\ Len(rx_stream_buffer) <= BufferSize
    /\ \A i, j \in DOMAIN Pipeline : i < j => Pipeline[i] < Pipeline[j]
    /\ ToSet(Pipeline) \cup excused = 1 .. arrived

\* A byte that found room is broadcast without more bytes having to come, and a send comes
\* to its end, with the message on the line unless a wait has timed out.
BytesMoveOn ==
    /\ \A b \in 1 .. MaxBytes : (b <= arrived) ~> (b \in ToSet(received) \/ b \in excused)
    /\ \A m \in DOMAIN Lengths :
          (sent = m) ~> (handler = "idle" /\ (late \/ <<m, Lengths[m]>> \in ToSet(wire)))
================================================================================
