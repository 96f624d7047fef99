------------------------------ MODULE FpgaUart ------------------------------
(***************************************************************************)
(* The UART of the FPGA processor: the peripheral (rtl/uart_periph.sv over *)
(* rtl/uart.sv), its driver (firmware/drivers/uart.c) and the two rings    *)
(* between the handler mei_isr() and the main loop (firmware/util/         *)
(* ringbuf.c).                                                             *)
(*                                                                         *)
(* A ring is the sequence of the bytes in it: handler and main loop each   *)
(* own one index of a ring, or exclude each other, so that each of its     *)
(* calls takes effect at one moment, except ringbuf_dequeue() of the main  *)
(* loop, which copies the byte and moves the index later.                  *)
(***************************************************************************)
EXTENDS Naturals, Sequences

CONSTANTS
    Byte,           \* what the host sends
    Greeting,       \* a byte of the greeting, unlike those
    None,           \* no byte
    RingCapacity    \* what a ring of UART_RX_BUFFER_SIZE slots holds: 15

ASSUME UartAssumption ==
    /\ RingCapacity \in Nat \ {0}
    /\ None \notin Byte /\ Greeting \notin Byte /\ None # Greeting

VARIABLES
    rx_data,        \* uart_rx_data_reg, None while uart_rx_valid_reg is clear
    tx_data,        \* the byte being shifted out, None when tx_ready
    irq_tx,         \* uart_tx_ready_irq_enable; that of the receiver is set
                    \*   by uart_init() and never cleared
    tx_pending,     \* tx_pending
    rx_ring,        \* uart_rx_ringbuf
    tx_ring,        \* uart_tx_ringbuf
    isr,            \* where mei_isr() has got to, "off" when it is not running
    status          \* the status it has read

uartVars == <<rx_data, tx_data, irq_tx, tx_pending, rx_ring, tx_ring, isr, status>>

RxValid == rx_data # None
TxReady == tx_data = None

Unread == [rx |-> FALSE, tx |-> FALSE]

\* After uart_init().
UartInit ==
    /\ rx_data = None /\ tx_data = None
    /\ irq_tx = FALSE /\ tx_pending = FALSE
    /\ rx_ring = <<>> /\ tx_ring = <<>>
    /\ isr = "off" /\ status = Unread

(***************************************************************************)
(* The peripheral.                                                         *)
(***************************************************************************)

\* A byte is received; one that has not been read is overwritten.
RxArrive(b) ==
    /\ rx_data' = b
    /\ UNCHANGED <<tx_data, irq_tx, tx_pending, rx_ring, tx_ring, isr, status>>

\* The stop bit has been shifted out.
TxDone ==
    /\ ~TxReady
    /\ tx_data' = None
    /\ UNCHANGED <<rx_data, irq_tx, tx_pending, rx_ring, tx_ring, isr, status>>

\* A write of the data register: the transmitter takes no byte while busy.
WriteTx(b) == tx_data' = IF TxReady THEN b ELSE tx_data

MeiIrq == RxValid \/ (TxReady /\ irq_tx)

(***************************************************************************)
(* mei_isr(): one read of the status, then each of the two halves.         *)
(***************************************************************************)

MeiEnter ==
    /\ isr = "off" /\ MeiIrq
    /\ status' = [rx |-> RxValid, tx |-> TxReady]
    /\ isr' = "rx"
    /\ UNCHANGED <<rx_data, tx_data, irq_tx, tx_pending, rx_ring, tx_ring>>

\* A ring that gives up its oldest byte for the new one.
EnqueuedOver(ring, b) ==
    IF Len(ring) < RingCapacity THEN Append(ring, b) ELSE Append(Tail(ring), b)

\* A ring whose test for a full ring is one slot late.
EnqueuedLate(ring, b) == IF Len(ring) <= RingCapacity THEN Append(ring, b) ELSE ring

Enqueued(ring, b) == IF Len(ring) < RingCapacity THEN Append(ring, b) ELSE ring

MeiRx ==
    /\ isr = "rx"
    /\ isr' = "tx"
    /\ IF status.rx
       THEN rx_data' = None /\ rx_ring' = Enqueued(rx_ring, rx_data)
       ELSE UNCHANGED <<rx_data, rx_ring>>
    /\ UNCHANGED <<tx_data, irq_tx, tx_pending, tx_ring, status>>

\* An empty ring turns the interrupt off: a level interrupt would not end.
StopTx == irq_tx' = FALSE /\ tx_pending' = FALSE /\ UNCHANGED <<tx_data, tx_ring>>

\* A NextTx that turns the interrupt off with every byte it hands over.
NextTxStops == WriteTx(Head(tx_ring)) /\ tx_ring' = Tail(tx_ring) /\ irq_tx' = FALSE /\ tx_pending' = FALSE

NextTx == WriteTx(Head(tx_ring)) /\ tx_ring' = Tail(tx_ring) /\ UNCHANGED <<irq_tx, tx_pending>>

MeiTx ==
    /\ isr = "tx"
    /\ isr' = "off" /\ status' = Unread
    /\ IF ~(tx_pending /\ status.tx)
       THEN UNCHANGED <<tx_data, tx_ring, irq_tx, tx_pending>>
       ELSE IF tx_ring = <<>> THEN StopTx ELSE NextTx
    /\ UNCHANGED <<rx_data, rx_ring>>

(***************************************************************************)
(* What the main program calls, while the handler is not running.          *)
(***************************************************************************)

\* uart_putchar_nonblocking(), second half: the store after a ready status.
PutChar(b) ==
    /\ WriteTx(b)
    /\ UNCHANGED <<rx_data, irq_tx, tx_pending, rx_ring, tx_ring, isr, status>>

\* The last step of uart_receive_byte(): the index moves past the byte.
MoveReadIndex ==
    /\ rx_ring' = Tail(rx_ring)
    /\ UNCHANGED <<rx_data, tx_data, irq_tx, tx_pending, tx_ring, isr, status>>

\* An EnableTx that forgets the flag.
EnableTxIrqOnly == tx_pending' = tx_pending /\ irq_tx' = TRUE

EnableTx == tx_pending' = TRUE /\ irq_tx' = TRUE

\* uart_send_byte_nonblocking(): interrupts are off from end to end.
SendByte(b) ==
    /\ IF Len(tx_ring) < RingCapacity
       THEN tx_ring' = Append(tx_ring, b) /\ EnableTx
       ELSE UNCHANGED <<tx_ring, tx_pending, irq_tx>>
    /\ UNCHANGED <<rx_data, tx_data, rx_ring, isr, status>>

UartDriverTypeOK ==
    /\ rx_data \in Byte \union {None}
    /\ tx_data \in Byte \union {Greeting, None}
    /\ irq_tx \in BOOLEAN /\ tx_pending \in BOOLEAN
    /\ rx_ring \in Seq(Byte) /\ Len(rx_ring) <= RingCapacity
    /\ tx_ring \in Seq(Byte) /\ Len(tx_ring) <= RingCapacity
    /\ isr \in {"off", "rx", "tx"}
    /\ status \in [rx : BOOLEAN, tx : BOOLEAN]

\* While there is something to send, the transmitter's interrupt is enabled
\* and the handler knows that it is meant for it: the two are turned off only
\* when the ring is empty, although the handler decides on a status it read
\* earlier and the main loop fills the ring in between.  Were it ever
\* otherwise, the bytes would wait for the next call of the main loop, and
\* there would be none while the ring is full.
TxArmed == tx_ring # <<>> => tx_pending /\ irq_tx
=============================================================================
