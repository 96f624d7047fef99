------------------------------- MODULE HdlcLink -------------------------------
(***************************************************************************)
(* The serial link of the MCU bootloader, from the host to the callback:   *)
(* the host sends frames, a byte at a time (bootloader/client); the        *)
(* interrupt of the UART puts each byte in a ring (MCU/STM32/bootloader,   *)
(* main.cpp, and the HAL it calls); HdlcTransport::receive(), called again *)
(* and again by the main loop, reads up to a buffer of them, passes them   *)
(* to the receiver one by one, and writes a payload that is complete into  *)
(* the buffer it is still reading from.                                    *)
(***************************************************************************)
EXTENDS HdlcReceiver

CONSTANTS
  Payloads,      \* what the host sends
  MinLength,     \* of each service type, the length dispatchPayload() asks for
  ReadLength,    \* and the length it reads
  RingCapacity,  \* kUartRxRingCapacity
  MaxFaults,     \* bound of the checks: faults of the line, and overruns,
                 \* for a host that does not wait and for one that does
  MaxAhead,      \* and what may be left in the ring when one that does not wait goes on
  None

Expected(bytes) == SubSeq(bytes, 1, ReadLength[bytes[1]])

ASSUME LinkAssumption ==
  /\ MinLength \in [DOMAIN ReadLength -> Nat \ {0}]
  /\ \A type \in DOMAIN ReadLength : ReadLength[type] \in 1 .. PayloadBufferSize
  /\ Payloads # {}
  /\ \A bytes \in Payloads :
       /\ bytes \in Seq(Byte) /\ Len(bytes) \in 1 .. PayloadBufferSize
       /\ bytes[1] \in DOMAIN ReadLength
       /\ Len(bytes) >= ReadLength[bytes[1]] /\ Len(bytes) >= MinLength[bytes[1]]
  /\ RingCapacity \in Nat /\ MaxFaults \in [BOOLEAN -> Nat] /\ MaxAhead \in Nat
  /\ None \notin Byte

VARIABLES
  polite,     \* the host waits until the bootloader is silent; never changes
  want,       \* the payload it sends
  answered,   \* the bootloader has heard it
  frame,      \* what is left of its frame
  faults,     \* how much went wrong on the way
  rdr,        \* the receive register, or None
  ore,        \* the overrun flag
  armed,      \* the UART may interrupt
  isrflags,   \* the flags the handler works on, or None
  ring,       \* ring_buffer
  buffer,     \* buffer_
  bytes_read, j,
  heard,      \* what the last byte processed made the callback hear, or <<>>
  consumed    \* the last bytes processed, as far as they may begin two frames

hostVars == <<polite, want, answered, frame, faults>>
uartVars == <<rdr, ore, armed, isrflags>>
transportVars == <<receiverVars, buffer, bytes_read, j, heard, consumed>>
linkVars == <<hostVars, uartVars, ring, transportVars>>

LinkInit ==
  /\ polite \in BOOLEAN
  /\ want = <<>> /\ answered = TRUE /\ frame = <<>> /\ faults = 0
  /\ rdr = None /\ ore = FALSE /\ armed = TRUE /\ isrflags = None
  /\ ring = <<>>
  /\ ReceiverInit
  /\ buffer = [i \in 1 .. PayloadBufferSize |-> kFlag] /\ bytes_read = 0 /\ j = 0
  /\ heard = <<>> /\ consumed = <<>>
------------------------------------------------------------------------------
\* The host and the line.

\* All the host has sent has been processed.
Drained ==
  /\ armed => rdr = None /\ ~ore
  /\ isrflags = None /\ ring = <<>> /\ j = bytes_read

\* The host begins a frame; one that waits sends again what was not answered.
SendFrame ==
  /\ frame = <<>>
  /\ IF polite THEN Drained ELSE Len(ring) <= MaxAhead
  /\ want' \in IF polite /\ ~answered THEN {want} ELSE Payloads
  /\ frame' = Frame(want') /\ answered' = FALSE
  /\ UNCHANGED <<polite, faults, uartVars, ring, transportVars>>

\* A byte reaches the UART: one more is lost if the last has not been read.
Arrive(byte) ==
  /\ rdr' = IF rdr = None THEN byte ELSE rdr
  /\ ore' = (ore \/ rdr # None)
  /\ UNCHANGED <<armed, isrflags>>

\* While the UART may not interrupt, what it loses is not counted.
Overruns == rdr # None /\ armed

LineByte ==
  /\ frame # <<>> /\ frame' = Tail(frame)
  /\ Arrive(Head(frame))
  /\ Overruns => faults < MaxFaults[polite]
  /\ faults' = IF Overruns THEN faults + 1 ELSE faults
  /\ UNCHANGED <<polite, want, answered, ring, transportVars>>

\* A byte is lost on the line, or another comes.
LineFault ==
  /\ frame # <<>> /\ frame' = Tail(frame)
  /\ faults < MaxFaults[polite] /\ ~Overruns /\ faults' = faults + 1
  /\ \/ UNCHANGED uartVars
     \/ \E byte \in Byte \ {Head(frame)} : Arrive(byte)
  /\ UNCHANGED <<polite, want, answered, ring, transportVars>>

Host == SendFrame \/ LineByte \/ LineFault
------------------------------------------------------------------------------
\* The interrupt.

\* HAL_UART_IRQHandler() reads the flags,
IrqEnter ==
  /\ armed /\ (rdr # None \/ ore) /\ isrflags = None
  /\ isrflags' = [rxne |-> rdr # None, ore |-> ore]
  /\ UNCHANGED <<hostVars, rdr, ore, armed, ring, transportVars>>

(***************************************************************************)
(* and then works on what it has seen.  A byte is passed to                *)
(* HAL_UART_RxCpltCallback(), which enqueues it, or drops it if the ring   *)
(* is full, and starts the next reception, and that clears the error too.  *)
(* An overrun without a byte ends reception, and nothing starts it again.  *)
(***************************************************************************)
IrqReturn ==
  /\ isrflags # None /\ isrflags' = None
  /\ ore' = (ore /\ ~isrflags.ore)
  /\ \/ /\ isrflags.rxne
        /\ rdr' = None
        /\ ring' = IF Len(ring) < RingCapacity THEN Append(ring, rdr) ELSE ring
        /\ UNCHANGED armed
     \/ /\ ~isrflags.rxne
        /\ armed' = FALSE
        /\ UNCHANGED <<rdr, ring>>
  /\ UNCHANGED <<hostVars, transportVars>>

Interrupt == IrqEnter \/ IrqReturn
------------------------------------------------------------------------------
\* The main loop, which the interrupt holds up.

\* stream_.read(): in this call of receive(), or in the next.
ReadStream ==
  /\ isrflags = None /\ j = bytes_read /\ ring # <<>>
  /\ bytes_read' = IF Len(ring) < PayloadBufferSize THEN Len(ring) ELSE PayloadBufferSize
  /\ buffer' = [i \in DOMAIN buffer |-> IF i <= bytes_read' THEN ring[i] ELSE buffer[i]]
  /\ ring' = SubSeq(ring, bytes_read' + 1, Len(ring))
  /\ j' = 0
  /\ UNCHANGED <<hostVars, uartVars, receiverVars, heard, consumed>>

\* Mutant of Dispatched: the payload is taken where the read left its bytes.
DispatchedRaw == buffer

\* buffer_, after receivePayload() has copied the payload into it.
Dispatched ==
  [i \in DOMAIN buffer |-> IF i <= Len(payload) THEN payload[i] ELSE buffer[i]]

\* dispatchPayload(): what the callback gets, which is not checked any further.
Hears ==
  IF payload[1] \in DOMAIN ReadLength /\ Len(payload) >= MinLength[payload[1]]
    THEN SubSeq(Dispatched, 1, ReadLength[payload[1]])
    ELSE <<>>

\* All pairs of frames, and the longest end of a sequence that begins one.
TwoFrames == {Frame(first) \o Frame(second) : first \in Payloads, second \in Payloads}

End(bytes, n) == SubSeq(bytes, Len(bytes) - n + 1, Len(bytes))

Begins(bytes) ==
  \E two \in TwoFrames : Len(bytes) <= Len(two) /\ bytes = SubSeq(two, 1, Len(bytes))

LongestBeginning(bytes) ==
  End(bytes, CHOOSE n \in 0 .. Len(bytes) :
               /\ Begins(End(bytes, n))
               /\ \A more \in n + 1 .. Len(bytes) : ~Begins(End(bytes, more)))

\* One turn of the loop of receive() over the bytes read.
ProcessByte ==
  /\ isrflags = None /\ j < bytes_read /\ j' = j + 1
  /\ LET byte == buffer[j + 1] IN
       /\ Process(byte)
       /\ buffer' = IF Completes(byte) THEN Dispatched ELSE buffer
       /\ heard' = IF Completes(byte) THEN Hears ELSE <<>>
       /\ consumed' = LongestBeginning(Append(consumed, byte))
  /\ answered' = (answered \/ (want # <<>> /\ heard' = Expected(want)))
  /\ UNCHANGED <<polite, want, frame, faults, uartVars, ring, bytes_read>>

MainLoop == ReadStream \/ ProcessByte

LinkNext == Host \/ Interrupt \/ MainLoop

(***************************************************************************)
(* The host goes on sending, the interrupt is served, the main loop runs.  *)
(***************************************************************************)
LinkSpec ==
  LinkInit /\ [][LinkNext]_linkVars
           /\ WF_linkVars(Host) /\ WF_linkVars(Interrupt) /\ WF_linkVars(MainLoop)
------------------------------------------------------------------------------
LinkTypeOK ==
  /\ ReceiverTypeOK
  /\ polite \in BOOLEAN /\ answered \in BOOLEAN
  /\ want \in Payloads \cup {<<>>} /\ frame \in Seq(Byte)
  /\ faults \in 0 .. MaxFaults[polite]
  /\ rdr \in Byte \cup {None} /\ ore \in BOOLEAN /\ armed \in BOOLEAN
  /\ isrflags \in [rxne : BOOLEAN, ore : BOOLEAN] \cup {None}
  /\ ring \in Seq(Byte) /\ Len(ring) <= RingCapacity
  /\ buffer \in [1 .. PayloadBufferSize -> Byte]
  /\ bytes_read \in 0 .. PayloadBufferSize /\ j \in 0 .. bytes_read
  /\ heard \in Seq(Byte) /\ consumed \in Seq(Byte)

(***************************************************************************)
(* Resynchronisation (hdlc.h, process()): whatever came before, overflows, *)
(* lost flags and pending escapes included, when the receiver has been     *)
(* given two whole frames the second is heard, as it was sent.             *)
(***************************************************************************)
FramesHeard ==
  \A first, second \in Payloads :
    consumed = Frame(first) \o Frame(second) => heard = Expected(second)

(***************************************************************************)
(* With a host that waits, and until something goes wrong on the line, the *)
(* link is the abstract channel: however reads and interrupts divide the   *)
(* frames, each payload is heard once, as sent, before the next is sent.   *)
(* A host that does not wait has no such promise: a payload whose frame    *)
(* began in an earlier read is written over bytes of the next frame that   *)
(* are still to be processed (hdlc_transport.h:126, 147).              *)
(***************************************************************************)
Channel == INSTANCE FrameChannel WITH
  carried <- IF answered THEN <<>> ELSE want, delivered <- heard

ChannelKept ==
  [][polite /\ faults' = 0 => [Channel!ChannelNext]_<<answered, want, heard>>]_linkVars

(***************************************************************************)
(* A host that waits, and repeats what was not answered, is heard in the   *)
(* end, whatever was lost or garbled, unless an overrun that is seen       *)
(* without its byte has ended reception.                                   *)
(***************************************************************************)
PoliteHeard == (polite /\ ~answered) ~> (answered \/ ~armed)
==============================================================================
