-------------------------------- MODULE Uart --------------------------------
(***************************************************************************)
(* kernel/rust_uart.rs: writers fill a ring under the UART lock and push   *)
(* it to the device, the interrupt handler takes what was received and     *)
(* pushes more, and uartputc_sync writes to the device without the lock.   *)
(*                                                                         *)
(* The device accepts a byte when its transmitter is idle, sends it at any *)
(* later time and then asks for an interrupt, while the CPUs go on.        *)
(* What the handler does with a received byte is in Console.               *)
(***************************************************************************)
EXTENDS Naturals, Sequences

CONSTANTS
  Writers,        \* processes that call consolewrite once
  N,              \* bytes of each call
  CHUNK,          \* bytes consolewrite passes to uartwrite at a time
  TX_BUF_SIZE,    \* bytes of the ring
  Nobody          \* a free lock

ASSUME UartAssumption ==
  /\ N \in Nat \ {0} /\ CHUNK \in Nat \ {0} /\ TX_BUF_SIZE \in Nat \ {0}
  /\ "intr" \notin Writers /\ Nobody \notin Writers \cup {"intr"}

VARIABLES
  buf, w, r,    \* UartTx
  lock,         \* holder of UART
  done,         \* consolewrite's i: bytes given to uartwrite calls that returned
  i,            \* uartwrite's index
  pc,           \* where each writer, the interrupt handler is
  thr,          \* bytes the device has accepted and not sent
  irq,          \* the TX-empty interrupt is pending
  rx,           \* bytes the device has received
  out           \* the bytes of each writer that the device has sent

uartVars == <<buf, w, r, lock, done, i, pc, thr, irq, rx, out>>

None == <<Nobody, 0>>
Bytes == Writers \X (1..N)
Ring == 0..(TX_BUF_SIZE - 1)

UartInit ==
  /\ buf = [k \in Ring |-> None] /\ w = 0 /\ r = 0
  /\ lock = Nobody
  /\ done = [t \in Writers |-> 0] /\ i = [t \in Writers |-> 0]
  /\ pc = [t \in Writers \cup {"intr"} |-> "idle"]
  /\ thr = <<>> /\ irq = FALSE /\ rx = <<>> /\ out = [t \in Writers |-> <<>>]

TxIdle == thr = <<>>      \* LSR_TX_IDLE

-----------------------------------------------------------------------------
\* The size of the next chunk.
Chunk(t) == IF N - done[t] > CHUNK THEN CHUNK ELSE N - done[t]

\* consolewrite calls uartwrite with a chunk, or either_copyin fails and it returns.
UartWrite(t) ==
  /\ pc[t] = "idle" /\ done[t] < N /\ lock = Nobody
  /\ lock' = t
  /\ pc' = [pc EXCEPT ![t] = "fill"]
  /\ UNCHANGED <<buf, w, r, done, i, thr, irq, rx, out>>

CopyinFails(t) ==
  /\ pc[t] = "idle" /\ done[t] < N
  /\ pc' = [pc EXCEPT ![t] = "done"]
  /\ UNCHANGED <<buf, w, r, lock, done, i, thr, irq, rx, out>>

Full == w - r = TX_BUF_SIZE

Put(t) ==
  /\ pc[t] = "fill" /\ i[t] < Chunk(t) /\ ~Full
  /\ buf' = [buf EXCEPT ![w % TX_BUF_SIZE] = <<t, done[t] + i[t] + 1>>]
  /\ w' = w + 1
  /\ i' = [i EXCEPT ![t] = @ + 1]
  /\ UNCHANGED <<r, lock, done, pc, thr, irq, rx, out>>

\* The ring is full, or all is in it: start_tx_locked.
StartTx(t) ==
  /\ pc[t] = "fill"
  /\ \/ i[t] < Chunk(t) /\ Full /\ pc' = [pc EXCEPT ![t] = "full_tx"]
     \/ i[t] = Chunk(t) /\ pc' = [pc EXCEPT ![t] = "end_tx"]
  /\ UNCHANGED <<buf, w, r, lock, done, i, thr, irq, rx, out>>

\* wake(UART.chan())
Wake(f) == [t \in DOMAIN f |-> IF f[t] = "asleep" THEN "woken" ELSE f[t]]

\* start_tx_locked in thread or handler x: one byte goes to the device.
TxByte(x) ==
  /\ pc[x] \in {"full_tx", "end_tx", "intr_tx"}
  /\ w # r /\ TxIdle
  /\ thr' = Append(thr, buf[r % TX_BUF_SIZE])
  /\ r' = r + 1
  /\ pc' = Wake(pc)
  /\ UNCHANGED <<buf, w, lock, done, i, irq, rx, out>>

\* start_tx_locked returns: to the loop of uartwrite, which sleeps, or to the
\* end of uartwrite or uartintr.
TxReturn(x) ==
  /\ pc[x] \in {"full_tx", "end_tx", "intr_tx"}
  /\ w = r \/ ~TxIdle
  /\ pc' = [pc EXCEPT ![x] = IF @ = "full_tx" THEN "asleep" ELSE "idle"]
  /\ lock' = Nobody
  /\ IF pc[x] = "end_tx"
     THEN done' = [done EXCEPT ![x] = @ + i[x]] /\ i' = [i EXCEPT ![x] = 0]
     ELSE UNCHANGED <<done, i>>
  /\ UNCHANGED <<buf, w, r, thr, irq, rx, out>>

\* Mutant: the ring is not looked at again after the sleep, "if" for "while".
Relock_NoLook(t) ==
  /\ pc[t] = "woken" /\ lock = Nobody
  /\ lock' = t
  /\ buf' = [buf EXCEPT ![w % TX_BUF_SIZE] = <<t, done[t] + i[t] + 1>>]
  /\ w' = w + 1
  /\ i' = [i EXCEPT ![t] = @ + 1]
  /\ pc' = [pc EXCEPT ![t] = "fill"]
  /\ UNCHANGED <<r, done, thr, irq, rx, out>>

\* sleep() returns with the lock.
Relock(t) ==
  /\ pc[t] = "woken" /\ lock = Nobody
  /\ lock' = t
  /\ pc' = [pc EXCEPT ![t] = "fill"]
  /\ UNCHANGED <<buf, w, r, done, i, thr, irq, rx, out>>

\* uartintr: taken when a byte was received or the transmitter is empty.
UartIntr ==
  /\ irq \/ rx # <<>>
  /\ pc["intr"] = "idle"
  /\ irq' = FALSE
  /\ pc' = [pc EXCEPT !["intr"] = "rx"]
  /\ UNCHANGED <<buf, w, r, lock, done, i, thr, rx, out>>

\* Mutant: the handler only receives.
UartIntrTx_None ==
  /\ pc["intr"] = "rx" /\ rx = <<>> /\ lock = Nobody
  /\ pc' = [pc EXCEPT !["intr"] = "idle"]
  /\ UNCHANGED <<buf, w, r, lock, done, i, thr, irq, rx, out>>

\* uartgetc has returned -1: the handler pushes more bytes.
UartIntrTx ==
  /\ pc["intr"] = "rx" /\ rx = <<>> /\ lock = Nobody
  /\ lock' = "intr"
  /\ pc' = [pc EXCEPT !["intr"] = "intr_tx"]
  /\ UNCHANGED <<buf, w, r, done, i, thr, irq, rx, out>>

\* uartputc_sync: the test of LSR_TX_IDLE and the write may be apart.
PutcSyncIdle(s) ==
  /\ pc[s] = "putc" /\ TxIdle
  /\ pc' = [pc EXCEPT ![s] = "sync_write"]
  /\ UNCHANGED <<buf, w, r, lock, done, i, thr, irq, rx, out>>

PutcSyncWrite(s, c, next) ==
  /\ pc[s] = "sync_write"
  /\ thr' = Append(thr, c)
  /\ pc' = [pc EXCEPT ![s] = next]
  /\ UNCHANGED <<buf, w, r, lock, done, i, irq, rx, out>>

\* The device sends a byte; its FIFO empty, it asks for an interrupt.
Transmit ==
  /\ thr # <<>>
  /\ thr' = Tail(thr)
  /\ irq' = (irq \/ Len(thr) = 1)
  /\ out' = [t \in Writers |-> out[t] \o SelectSeq(<<Head(thr)>>, LAMBDA b : b[1] = t)]
  /\ UNCHANGED <<buf, w, r, lock, done, i, pc, rx>>

-----------------------------------------------------------------------------
WriterStep(t) == UartWrite(t) \/ CopyinFails(t) \/ Put(t) \/ StartTx(t) \/ Relock(t)
TxStep(x) == TxByte(x) \/ TxReturn(x)

-----------------------------------------------------------------------------
PCs == {"idle", "fill", "full_tx", "end_tx", "rx", "intr_tx", "asleep", "woken", "putc", "sync_write", "echoed", "done"}

\* The types of the transmit ring; it never holds more than TX_BUF_SIZE bytes.
UartTypeOK ==
  /\ buf \in [Ring -> Bytes \cup {None}]
  /\ w \in Nat /\ r \in Nat /\ w - r \in 0..TX_BUF_SIZE
  /\ lock \in Writers \cup {"intr", Nobody}
  /\ done \in [Writers -> 0..N] /\ i \in [Writers -> 0..CHUNK]
  /\ pc \in [Writers \cup {"intr"} -> PCs]
  /\ irq \in BOOLEAN

\* The bytes still in the ring, oldest first.
Pending == [k \in 1..(w - r) |-> buf[(r + k - 1) % TX_BUF_SIZE]]

\* No byte is lost, sent twice or overtaken by a later one of its writer: what
\* was sent, what the device holds and what is in the ring are, for each
\* writer, the bytes it has put so far, in order, with the other writer and the echo
\* of the keyboard in between.
InOrder ==
  \A t \in Writers :
    out[t] \o SelectSeq(thr \o Pending, LAMBDA b : b[1] = t) = [k \in 1..(done[t] + i[t]) |-> <<t, k>>]

\* "the TX-empty interrupt drains it": while there are bytes in the ring, the
\* device is busy and will ask for an interrupt, or has asked, or someone who will
\* look at the device is past the point where the bytes were put.
RingDrains ==
  w # r => \/ thr # <<>> \/ irq
           \/ pc["intr"] # "idle"
           \/ \E t \in Writers : pc[t] \in {"fill", "full_tx", "end_tx"}

\* "Wake any producer waiting for space": a producer that waits does so with
\* bytes in the ring, whose departure will wake it.
ProducerWoken == \A t \in Writers : pc[t] = "asleep" => w # r
=============================================================================
