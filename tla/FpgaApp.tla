------------------------------ MODULE FpgaApp ------------------------------
(***************************************************************************)
(* The application of the FPGA processor (firmware/app/main.cpp): a delay  *)
(* that the timer interrupt ends, a greeting sent by polling, and the      *)
(* echo, run by the main program and the two interrupt handlers on one     *)
(* processor, with the timer and the UART beside it.                       *)
(*                                                                         *)
(* The handlers run with interrupts off and never nest.  An interrupt that *)
(* has become pending is taken after an instruction or two: the main       *)
(* program may still advance, and a store of its may be flushed after its  *)
(* effect and repeated when the handler returns.  The external interrupt   *)
(* is taken before the timer's (rv32cpu.sv:856).  The LEDs are left out.   *)
(***************************************************************************)
EXTENDS MachineTimer, FpgaUart

CONSTANT GreetingLength     \* kHelloMsgLen

ASSUME AppAssumption == GreetingLength \in Nat \ {0}

VARIABLES
    main,       \* where main() is: in the delay, in the greeting before the
                \*   status or before the store, or in the echo loop
    greeted,    \* bytes of the greeting stored
    data        \* the byte the loop has read

appVars == <<main, greeted, data>>
vars    == <<timerVars, uartVars, appVars>>

Echoing == {"poll", "take", "send"}

AppInit == TimerInit /\ UartInit /\ main = "delay" /\ greeted = 0 /\ data = None

(***************************************************************************)
(* The main program.                                                       *)
(***************************************************************************)

DelayCall ==
    /\ main = "delay" /\ DelayStep
    /\ UNCHANGED <<uartVars, appVars>>

DelayReturns ==
    /\ main = "delay" /\ Return /\ main' = "greet"
    /\ UNCHANGED <<uartVars, greeted, data>>

\* uart_send_byte_blocking() polls the status until the transmitter is ready.
GreetReady ==
    /\ main = "greet" /\ TxReady /\ main' = "put"
    /\ UNCHANGED <<timerVars, uartVars, greeted, data>>

GreetPut ==
    /\ main = "put" /\ PutChar(Greeting)
    /\ greeted' = greeted + 1
    /\ main' = IF greeted' = GreetingLength THEN "poll" ELSE "greet"
    /\ UNCHANGED <<timerVars, data>>

\* uart_receive_byte(): the byte is copied, then the index moves.
Peek ==
    /\ main = "poll" /\ rx_ring # <<>>
    /\ data' = Head(rx_ring) /\ main' = "take"
    /\ UNCHANGED <<timerVars, uartVars, greeted>>

Take ==
    /\ main = "take" /\ MoveReadIndex /\ main' = "send"
    /\ UNCHANGED <<timerVars, greeted, data>>

Echo ==
    /\ main = "send" /\ SendByte(data)
    /\ main' = "poll" /\ data' = None
    /\ UNCHANGED <<timerVars, greeted>>

MainAdvances ==
    /\ isr = "off"
    /\ \/ DelayCall \/ DelayReturns \/ GreetReady \/ GreetPut
       \/ Peek \/ Take \/ Echo

\* A store of the main program reaches the bus, and the interrupt that is
\* pending flushes it.
DelayRepeats ==
    /\ main = "delay" /\ RepeatedStore
    /\ UNCHANGED <<uartVars, appVars>>

GreetRepeats ==
    /\ main = "put" /\ PutChar(Greeting)
    /\ UNCHANGED <<timerVars, appVars>>

MainRepeats == isr = "off" /\ (MeiIrq \/ MtiIrq) /\ (DelayRepeats \/ GreetRepeats)

(***************************************************************************)
(* The handlers and the hardware.                                          *)
(***************************************************************************)

MeiHandler == (MeiEnter \/ MeiRx \/ MeiTx) /\ UNCHANGED <<timerVars, appVars>>

MtiHandler == isr = "off" /\ ~MeiIrq /\ MtimIsr /\ UNCHANGED <<uartVars, appVars>>

TimeStep    == Tick /\ UNCHANGED <<uartVars, appVars>>
ByteArrives == (\E b \in Byte : RxArrive(b)) /\ UNCHANGED <<timerVars, appVars>>
ByteLeaves  == TxDone /\ UNCHANGED <<timerVars, appVars>>

AppNext ==
    \/ MainAdvances \/ MainRepeats
    \/ MeiHandler \/ MtiHandler
    \/ TimeStep \/ ByteArrives \/ ByteLeaves

(***************************************************************************)
(* A handler runs for a microsecond or two and a byte takes 86, so the     *)
(* main program gets on however fast the host sends, and the timer's       *)
(* interrupt is not for ever behind the UART's.                            *)
(***************************************************************************)
AppSpec ==
    /\ AppInit /\ [][AppNext]_vars
    /\ SF_vars(MainAdvances) /\ WF_vars(MeiHandler) /\ SF_vars(MtiHandler)
    /\ WF_vars(TimeStep) /\ WF_vars(ByteLeaves)

(***************************************************************************)
(* Properties.                                                             *)
(***************************************************************************)

AppTypeOK ==
    /\ TimerTypeOK /\ UartDriverTypeOK
    /\ main \in {"delay", "greet", "put"} \union Echoing
    /\ greeted \in 0..GreetingLength
    /\ data \in Byte \union {None}
    /\ main \in {"take", "send"} <=> data # None

If(condition, b) == IF condition THEN <<b>> ELSE <<>>

\* The bytes received and not yet sent back, oldest first.
Line ==
    If(tx_data \in Byte, tx_data) \o tx_ring \o If(main = "send", data)
        \o rx_ring \o If(RxValid, rx_data)

Promise == INSTANCE EchoLine WITH line <- Line, Capacity <- RingCapacity

\* The receiver's register, the two rings, the main loop's local and the
\* transmitter together are one line: no byte is echoed twice, out of order
\* or changed, and one is lost only when the host outruns the program,
\* wherever the handler interrupts the loop and whatever it had read of the
\* status before.
EchoInOrder == Promise!LineSpec

Drained == main = "poll" /\ Line = <<>> /\ ~irq_tx /\ ~tx_pending

\* Once the host is silent, everything that was received is sent back and the
\* transmitter's interrupt is off: neither the wait for the timer, the
\* greeting, a full ring nor a handler that ran on an old status leaves a byte
\* behind or an interrupt that never ends.
EchoDrains == <>[][~ByteArrives]_vars => []<>Drained
=============================================================================
