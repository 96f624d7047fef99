----------------------------- MODULE HdlcReceiver -----------------------------
(***************************************************************************)
(* HDLC framing (Firmware/hdlc): the frames a host makes, and the receiver *)
(* (hdlc.h), which takes one byte at a time and hands over a payload when  *)
(* it has a whole one.  Its caller takes the payload at once               *)
(* (hdlc_transport.h), so process() returning true and receivePayload()    *)
(* are one step here.                                                      *)
(***************************************************************************)
EXTENDS Naturals, Sequences

CONSTANTS
  Byte, kFlag, kEscape,
  Xor,                \* what ^ kXorValue makes of a byte
  PayloadBufferSize

ASSUME FramingAssumption ==
  /\ kFlag \in Byte /\ kEscape \in Byte /\ kFlag # kEscape
  /\ Xor \in [Byte -> Byte] /\ Xor[kFlag] \notin {kFlag, kEscape}
  /\ Xor[kEscape] \notin {kFlag, kEscape}
  /\ \A byte \in Byte : Xor[Xor[byte]] = byte
  /\ PayloadBufferSize \in Nat \ {0}

VARIABLES
  state,
  payload   \* payload_buffer_, up to payload_index_

receiverVars == <<state, payload>>

ByteStuff(byte) == IF byte \in {kFlag, kEscape} THEN <<kEscape, Xor[byte]>> ELSE <<byte>>

Stuffed[bytes \in Seq(Byte)] ==
  IF bytes = <<>> THEN <<>> ELSE ByteStuff(Head(bytes)) \o Stuffed[Tail(bytes)]

\* hdlc_encode(), with the closing flag.
Frame(bytes) == <<kFlag>> \o Stuffed[bytes] \o <<kFlag>>

ReceiverInit == state = "IDLE" /\ payload = <<>>

Reset == state' = "IDLE" /\ payload' = <<>>

\* Mutant of Store: one byte too many fits.
StoreOneMore(byte) ==
  IF Len(payload) > PayloadBufferSize
    THEN Reset
    ELSE payload' = Append(payload, byte) /\ state' = "DATA"

Store(byte) ==
  IF Len(payload) >= PayloadBufferSize
    THEN Reset
    ELSE payload' = Append(payload, byte) /\ state' = "DATA"

Idle(byte) ==
  /\ state = "IDLE"
  /\ state' = IF byte = kFlag THEN "FRAME_DELIMETER" ELSE "IDLE"
  /\ payload' = IF byte = kFlag THEN <<>> ELSE payload

\* Mutant of FrameDelimeter: a second flag ends the frame it begins.
FrameDelimeterEnds(byte) ==
  /\ state = "FRAME_DELIMETER"
  /\ \/ byte = kFlag /\ Reset
     \/ byte = kEscape /\ state' = "ESCAPE" /\ UNCHANGED payload
     \/ byte \notin {kFlag, kEscape} /\ Store(byte)

FrameDelimeter(byte) ==
  /\ state = "FRAME_DELIMETER"
  /\ \/ byte = kFlag /\ payload' = <<>> /\ UNCHANGED state
     \/ byte = kEscape /\ state' = "ESCAPE" /\ UNCHANGED payload
     \/ byte \notin {kFlag, kEscape} /\ Store(byte)

Escaped(byte) == state = "ESCAPE" /\ Store(Xor[byte])

\* process() returns true, and receivePayload() takes the payload.
Completes(byte) == state = "DATA" /\ byte = kFlag

Data(byte) ==
  /\ state = "DATA"
  /\ \/ Completes(byte) /\ Reset
     \/ byte = kEscape /\ state' = "ESCAPE" /\ UNCHANGED payload
     \/ byte \notin {kFlag, kEscape} /\ Store(byte)

Process(byte) == Idle(byte) \/ FrameDelimeter(byte) \/ Escaped(byte) \/ Data(byte)

ReceiverTypeOK ==
  /\ state \in {"IDLE", "FRAME_DELIMETER", "DATA", "ESCAPE"}
  /\ payload \in Seq(Byte) /\ Len(payload) <= PayloadBufferSize
  /\ state \in {"IDLE", "FRAME_DELIMETER"} => payload = <<>>
  /\ state = "DATA" => payload # <<>>
==============================================================================
