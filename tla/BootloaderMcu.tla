---------------------------- MODULE BootloaderMcu ----------------------------
(***************************************************************************)
(* bootloader::Bootloader (Firmware/bootloader/mcu/bootloader.cpp) under   *)
(* the main loop of MCU/STM32/bootloader: tick() reads the clock, then     *)
(* lets the transport hand over the frames it has, then decides whether    *)
(* the silence has lasted long enough to boot.  Time goes on meanwhile: a  *)
(* frame may be handled later than the time tick() has read.               *)
(*                                                                         *)
(* Numbers of 32 bits are modulo AddressSpace.  A frame is a command of    *)
(* protocol.h, or a segment.  An application that has been started does    *)
(* not come back.                                                          *)
(***************************************************************************)
EXTENDS Naturals, Sequences

CONSTANTS
  AddressSpace,   \* 2^32
  MaxSizeWords,   \* 2^24 - 1, the largest Uint24_s
  regions,        \* the regions of the board, in the order they are searched
  NoRegion,
  StartWords, SizeWords,  \* what clients ask for
  BootDelay,      \* the 10 seconds of tick()
  LastFrame,      \* bound: the client is silent after this time
  MaxFrames       \* bound: the frames one call of receive() hands over

Word == 0 .. AddressSpace - 1
UINT32_MAX == AddressSpace - 1
Region == DOMAIN regions

ASSUME BootloaderAssumption ==
  /\ AddressSpace \in Nat \ {0} /\ AddressSpace % 4 = 0
  /\ MaxSizeWords \in Nat /\ 4 * MaxSizeWords < AddressSpace
  /\ regions \in Seq([start_address : Word, size_bytes : Word, bootable : BOOLEAN,
                      interface : BOOLEAN])
  /\ NoRegion \notin Region
  /\ StartWords \subseteq Word /\ SizeWords \subseteq 0 .. MaxSizeWords
  /\ BootDelay \in Nat /\ LastFrame \in Nat /\ MaxFrames \in Nat

PrepareTypes == {"kPrepareErase", "kPrepareAppDownload"}
StartTypes == {"kStartErase", "kStartAppDownload"}
MemoryTypes == PrepareTypes \cup StartTypes \cup {"kEndAppDownload"}

MemoryCommand == [command_type : MemoryTypes, start_word : StartWords, size_words : SizeWords]

\* kCommandSuccess stands for the five types only a bootloader sends, kUnknown for the
\* bytes decodeCommand() refuses; valid is that of the identifier, or of the segment word.
GeneralCommand ==
  [command_type : {"kReset", "kBootApplication", "kCommandSuccess", "kUnknown"}]
    \cup [command_type : {"kReadDataIdentifier", "kWriteDataIdentifier", "kSegmentTransfer"},
          valid : BOOLEAN]

Frame == MemoryCommand \cup GeneralCommand
NoFrame == [command_type |-> "none"]

VARIABLES
  image,         \* region |-> whether its header is that of an application; flash
  now,           \* the clock
  phase,         \* where the main loop is
  tick_now,      \* the time tick() has read
  frames,        \* the frames receive() has handed over in this tick
  state,         \* state_
  prepared,      \* prepared_
  application,   \* application_
  last_rx_time,  \* last_rx_time_
  written,       \* the regions written to
  frame,         \* the frame handled last in this tick,
  answers        \* and what was sent for it

mcuVars == <<image, now, phase, tick_now, frames, state, prepared, application, last_rx_time,
             written, frame, answers>>

MaxTime == LastFrame + BootDelay + 2
------------------------------------------------------------------------------
\* Mutant of IsWithinRegion: the size is compared with that of the region.
IsWithinSize(address, size, r) ==
  address >= regions[r].start_address /\ size <= regions[r].size_bytes

IsWithinRegion(address, size, r) ==
  /\ address >= regions[r].start_address
  /\ (address + size) % AddressSpace
       <= (regions[r].start_address + regions[r].size_bytes) % AddressSpace

Bytes(words) == (4 * words) % AddressSpace

\* The first of a set of regions, or none.
FirstRegion(rs) ==
  IF rs = {} THEN NoRegion ELSE CHOOSE r \in rs : \A s \in rs : r <= s

RegionFromAddress(address) == FirstRegion({r \in Region : IsWithinRegion(address, 1, r)})

\* validateApplication() looks for the first bootable region with an application.
BootableRegion(flash) == FirstRegion({r \in Region : regions[r].bootable /\ flash[r]})

\* PreparedMemoryContext.
Cleared == [command_type |-> "kUnknown", start_word |-> UINT32_MAX, size_words |-> UINT32_MAX,
            active_region |-> NoRegion]

IsValid(p) ==
  /\ p.active_region # NoRegion
  /\ regions[p.active_region].interface
  /\ p.start_word # UINT32_MAX /\ p.size_words # UINT32_MAX
  /\ p.command_type # "kUnknown"
  /\ IsWithinRegion(Bytes(p.start_word), Bytes(p.size_words), p.active_region)

Matches(p, c) ==
  /\ p.command_type = c.command_type
  /\ p.start_word = c.start_word /\ p.size_words = c.size_words

Success(type) == <<"kCommandSuccess", type>>
Pending(type) == <<"kCommandPending", type>>
Failed(type, code) == <<"kCommandFailed", type, code>>
------------------------------------------------------------------------------
\* What a handler leaves behind; the rest is as it was.
Send(reply) ==
  /\ answers' = reply
  /\ UNCHANGED <<phase, state, prepared, written>>

\* Mutant of Refuse: a refused command leaves the context it has filled in.
RefuseKeep(c, r, code) ==
  /\ answers' = <<Failed(c.command_type, code)>>
  /\ prepared' = [command_type |-> c.command_type, start_word |-> c.start_word,
                  size_words |-> c.size_words, active_region |-> r]
  /\ UNCHANGED state

\* The context is cleared and the state is left as it was.
Refuse(c, r, code) ==
  /\ answers' = <<Failed(c.command_type, code)>>
  /\ prepared' = Cleared
  /\ UNCHANGED state

\* Mutant of HandlePrepareMemory: the return after the size check is missing.
HandlePrepareNoReturn(c) ==
  LET start_address == Bytes(c.start_word)
      r == RegionFromAddress(start_address)
  IN /\ UNCHANGED <<phase, written>>
     /\ IF r = NoRegion THEN Refuse(c, r, "kInvalidMemAddress")
        ELSE /\ state' = "kPrepared"
             /\ prepared' = [command_type |-> c.command_type, start_word |-> c.start_word,
                             size_words |-> c.size_words, active_region |-> r]
             /\ answers' =
                  (IF IsWithinRegion(start_address, Bytes(c.size_words), r) THEN <<>>
                     ELSE <<Failed(c.command_type, "kInvalidMemSize")>>)
                  \o <<Success(c.command_type)>>

HandlePrepareMemory(c) ==
  LET start_address == Bytes(c.start_word)
      r == RegionFromAddress(start_address)
  IN /\ UNCHANGED <<phase, written>>
     /\ IF r = NoRegion THEN Refuse(c, r, "kInvalidMemAddress")
        ELSE IF ~IsWithinRegion(start_address, Bytes(c.size_words), r)
          THEN Refuse(c, r, "kInvalidMemSize")
        ELSE /\ state' = "kPrepared"
             /\ prepared' = [command_type |-> c.command_type, start_word |-> c.start_word,
                             size_words |-> c.size_words, active_region |-> r]
             /\ answers' = <<Success(c.command_type)>>

\* The guard of both Start handlers; the context holds the type of a Prepare command.
IsPrepared(c) == state = "kPrepared" /\ IsValid(prepared) /\ Matches(prepared, c)

HandleStartErase(c) ==
  IF ~IsPrepared(c) \/ prepared.command_type # "kPrepareErase"
    THEN Send(<<Failed(c.command_type, "kNotPrepared")>>)
    ELSE Send(<<Failed(c.command_type, "kUnknown")>>)

HandleStartAppDownload(c) ==
  IF ~IsPrepared(c) \/ prepared.command_type # "kPrepareAppDownload"
    THEN Send(<<Failed(c.command_type, "kNotPrepared")>>)
    ELSE /\ state' = "kTransfer"
         /\ answers' = <<Success(c.command_type)>>
         /\ UNCHANGED <<phase, prepared, written>>

\* validateTransfer() wants an application found at start-up as well.
HandleEndAppDownload(c) ==
  IF state # "kTransfer" THEN Send(<<Failed(c.command_type, "kNotPrepared")>>)
  ELSE LET good == /\ application # NoRegion /\ prepared.active_region # NoRegion
                   /\ image[prepared.active_region]
       IN /\ answers' = <<Pending(c.command_type),
                          IF good THEN Success(c.command_type)
                            ELSE Failed(c.command_type, "kInvalidImageCrc")>>
          /\ state' = "kIdle" /\ prepared' = Cleared
          /\ UNCHANGED <<phase, written>>

HandleMemoryCommand(c) ==
  CASE c.command_type \in PrepareTypes -> HandlePrepareMemory(c)
    [] c.command_type = "kStartErase" -> HandleStartErase(c)
    [] c.command_type = "kStartAppDownload" -> HandleStartAppDownload(c)
    [] c.command_type = "kEndAppDownload" -> HandleEndAppDownload(c)

\* bootApplication() for a command: the application, if there is one, is not told of.
HandleBootApplication(c) ==
  IF application = NoRegion
    THEN Send(<<Failed(c.command_type, "kInvalidImageFormat")>>)
    ELSE /\ phase' = "application" /\ answers' = <<>>
         /\ UNCHANGED <<state, prepared, written>>

HandleReset(c) ==
  /\ phase' = "reset" /\ answers' = <<Success(c.command_type)>>
  /\ UNCHANGED <<state, prepared, written>>

\* Identifiers are read only; a read is answered with the value.
HandleDataIdentifier(c) ==
  IF ~c.valid THEN Send(<<Failed(c.command_type, "kInvalidDataIdentifier")>>)
  ELSE IF c.command_type = "kReadDataIdentifier" THEN Send(<<<<c.command_type>>>>)
  ELSE Send(<<Failed(c.command_type, "kWriteOnlyDataIdentifier")>>)

\* handleSegment(): the write, and the acknowledgement, in the transfer state only.
HandleSegment(c) ==
  IF ~c.valid \/ state # "kTransfer" \/ prepared.active_region = NoRegion
    THEN Send(<<<<"kSegmentNak">>>>)
    ELSE \E done \in BOOLEAN :
           /\ written' = IF done THEN written \cup {prepared.active_region} ELSE written
           /\ answers' = <<<<IF done THEN "kSegmentAck" ELSE "kSegmentNak">>>>
           /\ UNCHANGED <<phase, state, prepared>>

HandleGeneralCommand(c) ==
  CASE c.command_type = "kReset" -> HandleReset(c)
    [] c.command_type = "kBootApplication" -> HandleBootApplication(c)
    [] c.command_type \in {"kReadDataIdentifier", "kWriteDataIdentifier"} -> HandleDataIdentifier(c)
    [] c.command_type = "kSegmentTransfer" -> HandleSegment(c)
    [] OTHER -> Send(<<>>)
------------------------------------------------------------------------------
\* initialize() and validateApplication() have run.
Init ==
  /\ image \in [Region -> BOOLEAN]
  /\ now = 0 /\ phase = "idle" /\ tick_now = 0 /\ frames = 0
  /\ state = "kIdle" /\ prepared = Cleared /\ application = BootableRegion(image)
  /\ last_rx_time = 0 /\ written = {}
  /\ frame = NoFrame /\ answers = <<>>

Running == phase \in {"idle", "receive"}

\* PlatformClock::now() moves on.
Clock ==
  /\ Running /\ now < MaxTime /\ now' = now + 1
  /\ UNCHANGED <<image, phase, tick_now, frames, state, prepared, application, last_rx_time,
                 written, frame, answers>>

Tick ==
  /\ phase = "idle" /\ phase' = "receive"
  /\ tick_now' = now /\ frames' = 0
  /\ frame' = NoFrame /\ answers' = <<>>
  /\ UNCHANGED <<image, now, state, prepared, application, last_rx_time, written>>

\* Mutant of Heard: only a command that can be decoded counts.
HeardDecoded(c) == IF c.command_type = "kUnknown" THEN last_rx_time ELSE now

\* Whatever a frame holds, the client is there.
Heard(c) == now

\* transport_.receive() hands over a frame, to handleCommand() or handleSegment().
HandleFrame ==
  /\ phase = "receive" /\ frames < MaxFrames /\ now <= LastFrame
  /\ frames' = frames + 1
  /\ \E c \in Frame :
       /\ frame' = c /\ last_rx_time' = Heard(c)
       /\ IF c.command_type \in MemoryTypes THEN HandleMemoryCommand(c) ELSE HandleGeneralCommand(c)
  /\ UNCHANGED <<image, now, tick_now, application>>

\* Mutant of BootDue: the silence as a difference of unsigned times.
BootDueUnsigned == (tick_now + AddressSpace - last_rx_time) % AddressSpace > BootDelay

BootDue == tick_now > last_rx_time + BootDelay

\* Mutant of AutoBoot: nothing happens without an application.
AutoBootIfAny ==
  /\ phase' = IF application = NoRegion THEN "idle" ELSE "application"
  /\ UNCHANGED state

\* bootApplication() for the silence; main() returns on a fault.
AutoBoot ==
  IF application = NoRegion
    THEN state' = "kFault" /\ phase' = "halted"
    ELSE phase' = "application" /\ UNCHANGED state

\* The rest of tick().
TickEnd ==
  /\ phase = "receive"
  /\ IF state = "kIdle" /\ BootDue THEN AutoBoot ELSE phase' = "idle" /\ UNCHANGED state
  /\ UNCHANGED <<image, now, tick_now, frames, prepared, application, last_rx_time, written,
                 frame, answers>>

\* The device starts again, flash and all.
Restart ==
  /\ phase = "reset" /\ phase' = "idle"
  /\ now' = 0 /\ tick_now' = 0 /\ frames' = 0
  /\ state' = "kIdle" /\ prepared' = Cleared /\ application' = BootableRegion(image)
  /\ last_rx_time' = 0 /\ frame' = NoFrame /\ answers' = <<>>
  /\ UNCHANGED <<image, written>>

Next == Clock \/ Tick \/ HandleFrame \/ TickEnd \/ Restart

\* Time passes, and the main loop goes round; no client has to send anything.
Spec ==
  /\ Init /\ [][Next]_mcuVars
  /\ WF_mcuVars(Clock) /\ WF_mcuVars(Tick) /\ WF_mcuVars(TickEnd)
------------------------------------------------------------------------------
\* A context is filled in as a whole, or not at all.
TypeOK ==
  /\ image \in [Region -> BOOLEAN]
  /\ now \in 0 .. MaxTime /\ tick_now \in 0 .. MaxTime /\ last_rx_time \in 0 .. MaxTime
  /\ phase \in {"idle", "receive", "reset", "application", "halted"}
  /\ frames \in 0 .. MaxFrames
  /\ state \in {"kFault", "kIdle", "kPrepared", "kTransfer"}
  /\ prepared \in {Cleared} \cup [command_type : PrepareTypes, start_word : StartWords,
                                  size_words : SizeWords, active_region : Region]
  /\ application \in Region \cup {NoRegion}
  /\ written \subseteq Region
  /\ frame \in Frame \cup {NoFrame}

(***************************************************************************)
(* Whatever sequence of Prepare commands, good and bad, has gone before,   *)
(* and whatever the memory map, the memory that the context names begins   *)
(* in its region, which itself does not go round the end of the address    *)
(* space, and ends there, counted without the modulus of 32-bit arithmetic *)
(* - unless it goes round that end: such a transfer passes both tests of   *)
(* handlePrepareMemory(), and no region of the board is so near the end.   *)
(***************************************************************************)
PreparedInRegion ==
  prepared.active_region # NoRegion =>
    LET r == regions[prepared.active_region]
        first == Bytes(prepared.start_word)
        past == first + 4 * prepared.size_words
        end == r.start_address + r.size_bytes
    IN /\ end < AddressSpace
       /\ r.start_address <= first /\ first < end
       /\ past < AddressSpace => past <= end

(***************************************************************************)
(* A memory command is answered by one success or failure, which names it  *)
(* and is sent last (README.md:33-46): a client that counts answers never  *)
(* takes one for another.                                                  *)
(***************************************************************************)
OneAnswer ==
  frame.command_type \in MemoryTypes =>
    /\ answers # <<>>
    /\ \A i \in 1 .. Len(answers) :
         /\ answers[i][2] = frame.command_type
         /\ answers[i][1] \in {"kCommandSuccess", "kCommandFailed"} <=> i = Len(answers)

(***************************************************************************)
(* tick() never leaves the bootloader under a client that talks: not in    *)
(* the tick that has handled a frame, of whatever content, although the    *)
(* time it compares was read before the frame, and not before the silence  *)
(* has lasted the ten seconds.                                             *)
(***************************************************************************)
LeavesOnSilence ==
  TickEnd /\ phase' # "idle" =>
    frames = 0 /\ now > last_rx_time + BootDelay /\ state = "kIdle"

PatientBoot == [][LeavesOnSilence]_mcuVars

(***************************************************************************)
(* "tick() will eventually load the app if it is valid" (main.cpp:97), and *)
(* fault otherwise: an idle bootloader does not stay idle, unless a client *)
(* has prepared something or has asked for a reset.                        *)
(***************************************************************************)
IdleBoots ==
  Running /\ state = "kIdle" ~>
    \/ state = "kPrepared" \/ phase = "reset"
    \/ IF application = NoRegion THEN state = "kFault" ELSE phase = "application"

(***************************************************************************)
(* "Prepare / Start sequence: both commands must have same size and        *)
(* address" (protocol.h:100), and then the bootloader answers              *)
(* kStartAppDownload with kCommandSuccess (README.md:38-39).               *)
(***************************************************************************)
StartsWhatIsPrepared(c) ==
  /\ state = "kPrepared" /\ prepared.command_type = "kPrepareAppDownload"
  /\ regions[prepared.active_region].interface
  /\ c.command_type = "kStartAppDownload"
  /\ c.start_word = prepared.start_word /\ c.size_words = prepared.size_words

StartAccepted ==
  [][HandleFrame /\ (frame'.command_type = "kStartAppDownload" /\ StartsWhatIsPrepared(frame'))
       => answers' = <<Success("kStartAppDownload")>>]_mcuVars
==============================================================================
