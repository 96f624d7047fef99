------------------------- MODULE BootloaderMcuProofs -------------------------
(***************************************************************************)
(* Theorems about BootloaderMcu, for every memory map and every size of    *)
(* the address space that is a multiple of four.                           *)
(***************************************************************************)
EXTENDS BootloaderMcu, SequenceTheorems, WellFoundedInduction, TLAPS

\* What the constants are, in the form in which the proofs use it.
LEMMA Constants ==
  /\ AddressSpace \in Nat /\ AddressSpace > 0 /\ MaxSizeWords \in Nat
  /\ StartWords \subseteq Nat /\ SizeWords \subseteq 0 .. MaxSizeWords
  /\ BootDelay \in Nat /\ MaxFrames \in Nat /\ MaxTime \in Nat
  /\ Region \subseteq Nat /\ NoRegion \notin Region
<1>1. StartWords \subseteq Word /\ AddressSpace \in Nat
  BY BootloaderAssumption
<1>2. StartWords \subseteq Nat
  BY <1>1 DEF Word
<1>3. MaxTime \in Nat
  BY BootloaderAssumption DEF MaxTime
<1>4. Region \subseteq Nat
  BY BootloaderAssumption, LenProperties DEF Region
<1> QED BY <1>2, <1>3, <1>4, BootloaderAssumption

\* A region has an address and a size.
LEMMA RegionFields ==
  ASSUME NEW r \in Region
  PROVE  /\ regions[r].start_address \in Nat /\ regions[r].start_address < AddressSpace
         /\ regions[r].size_bytes \in Nat /\ regions[r].size_bytes < AddressSpace
<1> DEFINE MemoryRegion == [start_address : Word, size_bytes : Word, bootable : BOOLEAN,
                            interface : BOOLEAN]
<1>1. regions \in Seq(MemoryRegion)
  BY BootloaderAssumption
<1>2. regions \in [Region -> MemoryRegion]
  <2> HIDE DEF MemoryRegion
  <2> QED BY <1>1, LenProperties DEF Region
<1>3. regions[r].start_address \in Word /\ regions[r].size_bytes \in Word
  BY <1>2
<1>4. AddressSpace \in Nat
  BY BootloaderAssumption
<1> HIDE DEF MemoryRegion
<1> QED BY <1>3, <1>4 DEF Word

\* A number below twice the modulus is reduced by one subtraction at most.
LEMMA ModOnce ==
  ASSUME NEW n \in Nat, n < 2 * AddressSpace
  PROVE  n % AddressSpace = IF n < AddressSpace THEN n ELSE n - AddressSpace
<1>1. AddressSpace \in Nat /\ AddressSpace > 0
  BY BootloaderAssumption
<1>2. CASE n < AddressSpace
  BY <1>1, <1>2
<1>3. CASE n >= AddressSpace
  BY <1>1, <1>3
<1> QED BY <1>1, <1>2, <1>3

\* The byte address of a word is a multiple of four, so never the last address.
LEMMA BytesAligned ==
  ASSUME NEW w \in Nat
  PROVE  Bytes(w) \in 0 .. AddressSpace - 4
<1>1. AddressSpace \in Nat /\ AddressSpace > 0 /\ AddressSpace % 4 = 0
  BY BootloaderAssumption
<1>2. PICK k \in Nat : AddressSpace = 4 * k
  <2>1. AddressSpace \div 4 \in Nat /\ AddressSpace = 4 * (AddressSpace \div 4)
    BY <1>1
  <2> QED BY <2>1
<1> DEFINE q == (4 * w) \div AddressSpace
<1>3. /\ Bytes(w) \in 0 .. AddressSpace - 1 /\ q \in Nat
      /\ 4 * w = AddressSpace * q + Bytes(w)
  BY <1>1 DEF Bytes
<1>4. 4 * w = 4 * (k * q) + Bytes(w)
  BY <1>2, <1>3
<1>5. k * q \in Nat
  BY <1>2, <1>3
<1> HIDE DEF q
<1>6. Bytes(w) % 4 = 0
  BY <1>3, <1>4, <1>5
<1> QED BY <1>1, <1>3, <1>6

\* A nonempty set of regions has a first one.
LEMMA FirstIsOne ==
  ASSUME NEW rs \in SUBSET Region
  PROVE  FirstRegion(rs) \in rs \cup {NoRegion} /\ (rs # {} => FirstRegion(rs) \in rs)
<1>1. CASE rs = {}
  BY <1>1 DEF FirstRegion
<1>2. CASE rs # {}
  <2>1. rs \subseteq Nat
    BY Constants
  <2>2. PICK r \in rs : \A s \in rs : <<s, r>> \notin OpToRel(<, Nat)
    BY <1>2, <2>1, NatLessThanWellFounded, WFMin
  <2>3. \A s \in rs : ~(s < r)
    BY <2>1, <2>2 DEF OpToRel
  <2>4. \A s \in rs : r <= s
    BY <2>1, <2>3
  <2> QED BY <1>2, <2>4 DEF FirstRegion
<1> QED BY <1>1, <1>2

\* A test of isWithinRegion() that does not itself go round the end of the address space
\* is not deceived by a region that does: it finds nothing there.
LEMMA WithinFits ==
  ASSUME NEW r \in Region, NEW address \in Nat, NEW size \in Nat,
         address + size < AddressSpace,
         IsWithinRegion(address, size, r)
  PROVE  /\ regions[r].start_address <= address
         /\ address + size <= regions[r].start_address + regions[r].size_bytes
         /\ size > 0 => regions[r].start_address + regions[r].size_bytes < AddressSpace
<1> DEFINE start == regions[r].start_address
           bytes == regions[r].size_bytes
<1>1. /\ start \in Nat /\ start < AddressSpace /\ bytes \in Nat /\ bytes < AddressSpace
      /\ AddressSpace \in Nat
  BY RegionFields, Constants
<1>2. address >= start /\ (address + size) % AddressSpace <= (start + bytes) % AddressSpace
  BY DEF IsWithinRegion
<1> HIDE DEF start, bytes
<1>3. (address + size) % AddressSpace = address + size
  BY <1>1, ModOnce
<1>4. (start + bytes) % AddressSpace
        = IF start + bytes < AddressSpace THEN start + bytes ELSE start + bytes - AddressSpace
  BY <1>1, ModOnce
<1>5. /\ start <= address /\ address + size <= start + bytes
      /\ size > 0 => start + bytes < AddressSpace
  BY <1>1, <1>2, <1>3, <1>4
<1> QED BY <1>5 DEF start, bytes

\* The region found for the byte address of a word is one, holds that address and ends
\* within the address space.
LEMMA FoundHolds ==
  ASSUME NEW w \in Nat, RegionFromAddress(Bytes(w)) # NoRegion
  PROVE  LET r == RegionFromAddress(Bytes(w))
             end == regions[r].start_address + regions[r].size_bytes
         IN  /\ r \in Region
             /\ regions[r].start_address <= Bytes(w) /\ Bytes(w) < end
             /\ end < AddressSpace
<1> DEFINE r == RegionFromAddress(Bytes(w))
           holding == {s \in Region : IsWithinRegion(Bytes(w), 1, s)}
<1>1. r = FirstRegion(holding) /\ holding \in SUBSET Region
  BY DEF RegionFromAddress
<1>2. r \in holding
  BY <1>1, FirstIsOne
<1> HIDE DEF r
<1>3. r \in Region /\ IsWithinRegion(Bytes(w), 1, r)
  BY <1>2
<1>4. /\ regions[r].start_address \in Nat /\ regions[r].size_bytes \in Nat
      /\ AddressSpace \in Nat
  BY <1>3, RegionFields, Constants
<1>5. Bytes(w) \in 0 .. AddressSpace - 4
  BY BytesAligned
<1>6. Bytes(w) \in Nat /\ Bytes(w) + 1 < AddressSpace
  BY <1>4, <1>5
<1>7. /\ regions[r].start_address <= Bytes(w)
      /\ Bytes(w) + 1 <= regions[r].start_address + regions[r].size_bytes
      /\ regions[r].start_address + regions[r].size_bytes < AddressSpace
  BY <1>3, <1>6, WithinFits
<1>8. r \in Region /\ regions[r].start_address <= Bytes(w)
      /\ Bytes(w) < regions[r].start_address + regions[r].size_bytes
      /\ regions[r].start_address + regions[r].size_bytes < AddressSpace
  BY <1>3, <1>4, <1>6, <1>7
<1> QED BY <1>8 DEF r

(***************************************************************************)
(* What handlePrepareMemory() lets through begins in the region found, and *)
(* ends in it unless it goes round the end of the address space: on no     *)
(* memory map are its two tests deceived in another way by arithmetic      *)
(* modulo AddressSpace.                                                    *)
(***************************************************************************)
LEMMA AcceptedFits ==
  ASSUME NEW w \in Nat, NEW n \in SizeWords,
         RegionFromAddress(Bytes(w)) # NoRegion,
         IsWithinRegion(Bytes(w), Bytes(n), RegionFromAddress(Bytes(w))),
         Bytes(w) + 4 * n < AddressSpace
  PROVE  LET r == regions[RegionFromAddress(Bytes(w))]
         IN  Bytes(w) + 4 * n <= r.start_address + r.size_bytes
<1> DEFINE r == RegionFromAddress(Bytes(w))
<1>1. r \in Region /\ IsWithinRegion(Bytes(w), Bytes(n), r)
  BY FoundHolds
<1> HIDE DEF r
<1>2. AddressSpace \in Nat /\ n \in Nat /\ Bytes(w) \in 0 .. AddressSpace - 4
  BY Constants, BytesAligned
<1>3. Bytes(w) \in Nat /\ Bytes(w) < AddressSpace /\ 4 * n \in Nat /\ 4 * n < AddressSpace
  BY <1>2
<1>4. Bytes(n) = 4 * n
  BY <1>2, <1>3, ModOnce DEF Bytes
<1>5. Bytes(w) + 4 * n <= regions[r].start_address + regions[r].size_bytes
  BY <1>1, <1>3, <1>4, WithinFits
<1> QED BY <1>5 DEF r
------------------------------------------------------------------------------
\* Every frame is a memory command or one of the others, told apart by the type.
LEMMA FrameKinds ==
  ASSUME NEW c \in Frame
  PROVE  c.command_type \in MemoryTypes =>
           c \in MemoryCommand /\ c.start_word \in Nat /\ c.size_words \in SizeWords
BY Constants
   DEF Frame, MemoryCommand, GeneralCommand, MemoryTypes, PrepareTypes, StartTypes

\* What a handler may do to the state of the bootloader: keep the context, clear it,
\* or fill it in with what a Prepare command has been found to ask for.
Handled(c) ==
  /\ phase' \in {phase, "reset", "application"}
  /\ state' \in {state, "kIdle", "kPrepared", "kTransfer"}
  /\ \/ written' = written
     \/ /\ prepared.active_region # NoRegion
        /\ written' = written \cup {prepared.active_region}
  /\ \/ prepared' = prepared
     \/ prepared' = Cleared
     \/ LET r == RegionFromAddress(Bytes(c.start_word))
        IN /\ r # NoRegion
           /\ IsWithinRegion(Bytes(c.start_word), Bytes(c.size_words), r)
           /\ c \in MemoryCommand /\ c.command_type \in PrepareTypes
           /\ prepared' = [command_type |-> c.command_type, start_word |-> c.start_word,
                           size_words |-> c.size_words, active_region |-> r]

\* The handlers of the memory commands do no more than that.
LEMMA MemoryHandled ==
  ASSUME NEW c \in Frame, c.command_type \in MemoryTypes, HandleMemoryCommand(c)
  PROVE  Handled(c)
<1>1. c \in MemoryCommand
  BY FrameKinds
<1>2. CASE c.command_type \in PrepareTypes
  <2>1. HandlePrepareMemory(c)
    BY <1>2 DEF HandleMemoryCommand, PrepareTypes
  <2> QED BY <1>1, <1>2, <2>1 DEF HandlePrepareMemory, Refuse, Handled
<1>3. CASE c.command_type = "kStartErase"
  <2>1. HandleStartErase(c)
    BY <1>3 DEF HandleMemoryCommand, PrepareTypes
  <2> QED BY <2>1 DEF HandleStartErase, Send, Handled
<1>4. CASE c.command_type = "kStartAppDownload"
  <2>1. HandleStartAppDownload(c)
    BY <1>4 DEF HandleMemoryCommand, PrepareTypes
  <2> QED BY <2>1 DEF HandleStartAppDownload, Send, Handled
<1>5. CASE c.command_type = "kEndAppDownload"
  <2>1. HandleEndAppDownload(c)
    BY <1>5 DEF HandleMemoryCommand, PrepareTypes
  <2> QED BY <2>1 DEF HandleEndAppDownload, Send, Handled
<1> QED BY <1>2, <1>3, <1>4, <1>5 DEF MemoryTypes, StartTypes

\* Nor do those of the other frames.
LEMMA GeneralHandled ==
  ASSUME NEW c \in Frame, HandleGeneralCommand(c)
  PROVE  Handled(c)
<1>1. CASE c.command_type = "kReset"
  BY <1>1 DEF HandleGeneralCommand, HandleReset, Handled
<1>2. CASE c.command_type = "kBootApplication"
  BY <1>2 DEF HandleGeneralCommand, HandleBootApplication, Send, Handled
<1>3. CASE c.command_type \in {"kReadDataIdentifier", "kWriteDataIdentifier"}
  BY <1>3 DEF HandleGeneralCommand, HandleDataIdentifier, Send, Handled
<1>4. CASE c.command_type = "kSegmentTransfer"
  BY <1>4 DEF HandleGeneralCommand, HandleSegment, Send, Handled
<1>5. CASE c.command_type \notin {"kReset", "kBootApplication", "kReadDataIdentifier",
                                  "kWriteDataIdentifier", "kSegmentTransfer"}
  BY <1>5 DEF HandleGeneralCommand, Send, Handled
<1> QED BY <1>1, <1>2, <1>3, <1>4, <1>5

\* So it is with every frame, which is also noted with the time.
LEMMA FrameHandled ==
  ASSUME HandleFrame
  PROVE  /\ phase = "receive" /\ frames < MaxFrames /\ now <= LastFrame
         /\ frames' = frames + 1
         /\ \E c \in Frame : frame' = c /\ last_rx_time' = now /\ Handled(c)
         /\ UNCHANGED <<image, now, tick_now, application>>
<1>1. PICK c \in Frame :
        /\ frame' = c /\ last_rx_time' = Heard(c)
        /\ IF c.command_type \in MemoryTypes
             THEN HandleMemoryCommand(c) ELSE HandleGeneralCommand(c)
  BY DEF HandleFrame
<1>2. Handled(c)
  BY <1>1, MemoryHandled, GeneralHandled
<1> QED BY <1>1, <1>2 DEF HandleFrame, Heard
------------------------------------------------------------------------------
\* The application found at start-up is a region, or none.
LEMMA BootableIsRegion == TypeOK => BootableRegion(image) \in Region \cup {NoRegion}
BY FirstIsOne DEF TypeOK, BootableRegion

\* The first state has the types; flash holds anything.
LEMMA InitTypeOK == Init => TypeOK
<1> SUFFICES ASSUME Init PROVE TypeOK
  OBVIOUS
<1>1. BootableRegion(image) \in Region \cup {NoRegion}
  BY FirstIsOne DEF Init, BootableRegion
<1>2. MaxTime \in Nat /\ MaxFrames \in Nat
  BY Constants
<1> QED BY <1>1, <1>2 DEF Init, TypeOK

\* A handled frame leaves a context filled in as a whole, or cleared.
LEMMA StepFrameType == TypeOK /\ HandleFrame => TypeOK'
<1> SUFFICES ASSUME TypeOK, HandleFrame PROVE TypeOK'
  OBVIOUS
<1>1. PICK c \in Frame : frame' = c /\ last_rx_time' = now /\ Handled(c)
  BY FrameHandled
<1>2. /\ phase = "receive" /\ frames < MaxFrames /\ frames' = frames + 1
      /\ UNCHANGED <<image, now, tick_now, application>>
  BY FrameHandled
<1>3. frames' \in 0 .. MaxFrames
  BY <1>2, Constants DEF TypeOK
<1>4. prepared' \in {Cleared} \cup [command_type : PrepareTypes, start_word : StartWords,
                                    size_words : SizeWords, active_region : Region]
  <2>1. CASE prepared' = prepared \/ prepared' = Cleared
    BY <2>1 DEF TypeOK
  <2>2. CASE ~(prepared' = prepared \/ prepared' = Cleared)
    <3> DEFINE r == RegionFromAddress(Bytes(c.start_word))
    <3>1. /\ r # NoRegion /\ c \in MemoryCommand /\ c.command_type \in PrepareTypes
          /\ prepared' = [command_type |-> c.command_type, start_word |-> c.start_word,
                          size_words |-> c.size_words, active_region |-> r]
      BY <1>1, <2>2 DEF Handled
    <3>2. c.start_word \in StartWords /\ c.size_words \in SizeWords /\ c.start_word \in Nat
      BY <3>1, Constants DEF MemoryCommand
    <3>3. r \in Region
      BY <3>1, <3>2, FoundHolds
    <3> HIDE DEF r
    <3> QED BY <3>1, <3>2, <3>3
  <2> QED BY <2>1, <2>2
<1>5. written' \subseteq Region
  <2>1. prepared.active_region # NoRegion => prepared.active_region \in Region
    BY DEF TypeOK, Cleared
  <2> QED BY <1>1, <2>1 DEF Handled, TypeOK
<1>6. /\ phase' \in {"idle", "receive", "reset", "application", "halted"}
      /\ state' \in {"kFault", "kIdle", "kPrepared", "kTransfer"}
  BY <1>1 DEF Handled, TypeOK
<1> QED BY <1>1, <1>2, <1>3, <1>4, <1>5, <1>6 DEF TypeOK

\* Every step keeps the types.
LEMMA StepTypeOK == TypeOK /\ [Next]_mcuVars => TypeOK'
<1> SUFFICES ASSUME TypeOK, [Next]_mcuVars PROVE TypeOK'
  OBVIOUS
<1> USE DEF TypeOK
<1>1. MaxTime \in Nat /\ MaxFrames \in Nat
  BY Constants
<1>2. CASE Clock
  BY <1>1, <1>2 DEF Clock
<1>3. CASE Tick
  BY <1>1, <1>3 DEF Tick
<1>4. CASE HandleFrame
  BY <1>4, StepFrameType
<1>5. CASE TickEnd
  BY <1>5 DEF TickEnd, AutoBoot
<1>6. CASE Restart
  <2>1. BootableRegion(image) \in Region \cup {NoRegion}
    BY BootableIsRegion
  <2> QED BY <1>1, <1>6, <2>1 DEF Restart
<1>7. CASE UNCHANGED mcuVars
  BY <1>7 DEF mcuVars
<1> QED BY <1>2, <1>3, <1>4, <1>5, <1>6, <1>7 DEF Next

(***************************************************************************)
(* The members of the bootloader keep their types: the context is filled   *)
(* in as a whole or not at all (bootloader.h), whatever the client sends.  *)
(***************************************************************************)
THEOREM TypeCorrect == Spec => []TypeOK
<1> QED BY InitTypeOK, StepTypeOK, PTL DEF Spec
------------------------------------------------------------------------------
\* A handled frame leaves no memory prepared that is not within its region.
LEMMA StepFrameRegion == PreparedInRegion /\ HandleFrame => PreparedInRegion'
<1> SUFFICES ASSUME PreparedInRegion, HandleFrame PROVE PreparedInRegion'
  OBVIOUS
<1>1. PICK c \in Frame : Handled(c)
  BY FrameHandled
<1>2. CASE prepared' = prepared
  BY <1>2 DEF PreparedInRegion
<1>3. CASE prepared' = Cleared
  BY <1>3 DEF PreparedInRegion, Cleared
<1>4. CASE ~(prepared' = prepared \/ prepared' = Cleared)
  <2> DEFINE r == RegionFromAddress(Bytes(c.start_word))
  <2>1. /\ r # NoRegion /\ IsWithinRegion(Bytes(c.start_word), Bytes(c.size_words), r)
        /\ c \in MemoryCommand
        /\ prepared' = [command_type |-> c.command_type, start_word |-> c.start_word,
                        size_words |-> c.size_words, active_region |-> r]
    BY <1>1, <1>4 DEF Handled
  <2>2. c.start_word \in Nat /\ c.size_words \in SizeWords
    BY <2>1, Constants DEF MemoryCommand
  <2>3. /\ regions[r].start_address <= Bytes(c.start_word)
        /\ Bytes(c.start_word) < regions[r].start_address + regions[r].size_bytes
        /\ regions[r].start_address + regions[r].size_bytes < AddressSpace
    BY <2>1, <2>2, FoundHolds
  <2>4. Bytes(c.start_word) + 4 * c.size_words < AddressSpace =>
          Bytes(c.start_word) + 4 * c.size_words
            <= regions[r].start_address + regions[r].size_bytes
    BY <2>1, <2>2, AcceptedFits
  <2> HIDE DEF r
  <2> QED BY <2>1, <2>3, <2>4 DEF PreparedInRegion
<1> QED BY <1>2, <1>3, <1>4

(***************************************************************************)
(* After any sequence of commands, on any memory map, regions that go      *)
(* round the end of the address space included, the memory that the        *)
(* context names begins in a region that does not, and it ends there       *)
(* unless the transfer itself goes round that end, which the code lets     *)
(* pass.                                                                   *)
(***************************************************************************)
THEOREM PreparedStaysInRegion == Spec => []PreparedInRegion
<1>1. Init => PreparedInRegion
  BY DEF Init, PreparedInRegion, Cleared
<1>2. PreparedInRegion /\ [Next]_mcuVars => PreparedInRegion'
  <2> SUFFICES ASSUME PreparedInRegion, [Next]_mcuVars PROVE PreparedInRegion'
    OBVIOUS
  <2>1. CASE Clock \/ Tick \/ TickEnd
    BY <2>1 DEF Clock, Tick, TickEnd, PreparedInRegion
  <2>2. CASE HandleFrame
    BY <2>2, StepFrameRegion
  <2>3. CASE Restart
    BY <2>3 DEF Restart, PreparedInRegion, Cleared
  <2>4. CASE UNCHANGED mcuVars
    BY <2>4 DEF mcuVars, PreparedInRegion
  <2> QED BY <2>1, <2>2, <2>3, <2>4 DEF Next
<1> QED BY <1>1, <1>2, PTL DEF Spec
------------------------------------------------------------------------------
\* A reply that ends in a success or a failure, each part of which names the command.
Answered(type, reply) ==
  /\ reply # <<>>
  /\ \A i \in 1 .. Len(reply) :
       /\ reply[i][2] = type
       /\ reply[i][1] \in {"kCommandSuccess", "kCommandFailed"} <=> i = Len(reply)

\* One success or failure is such a reply, and so is one after a "pending".
LEMMA RepliesAnswer ==
  ASSUME NEW type, NEW code
  PROVE  /\ Answered(type, <<Success(type)>>)
         /\ Answered(type, <<Failed(type, code)>>)
         /\ Answered(type, <<Pending(type), Success(type)>>)
         /\ Answered(type, <<Pending(type), Failed(type, code)>>)
BY DEF Answered, Success, Failed, Pending

\* Each handler of a memory command sends one.
LEMMA MemoryAnswered ==
  ASSUME NEW c \in Frame, c.command_type \in MemoryTypes, HandleMemoryCommand(c)
  PROVE  Answered(c.command_type, answers')
<1>1. CASE c.command_type \in PrepareTypes
  <2>1. HandlePrepareMemory(c)
    BY <1>1 DEF HandleMemoryCommand, PrepareTypes
  <2> QED BY <2>1, RepliesAnswer DEF HandlePrepareMemory, Refuse
<1>2. CASE c.command_type = "kStartErase"
  <2>1. HandleStartErase(c)
    BY <1>2 DEF HandleMemoryCommand, PrepareTypes
  <2> QED BY <2>1, RepliesAnswer DEF HandleStartErase, Send
<1>3. CASE c.command_type = "kStartAppDownload"
  <2>1. HandleStartAppDownload(c)
    BY <1>3 DEF HandleMemoryCommand, PrepareTypes
  <2> QED BY <2>1, RepliesAnswer DEF HandleStartAppDownload, Send
<1>4. CASE c.command_type = "kEndAppDownload"
  <2>1. HandleEndAppDownload(c)
    BY <1>4 DEF HandleMemoryCommand, PrepareTypes
  <2> QED BY <2>1, RepliesAnswer DEF HandleEndAppDownload, Send
<1> QED BY <1>1, <1>2, <1>3, <1>4 DEF MemoryTypes, StartTypes

(***************************************************************************)
(* Every Prepare, Start and End command, in whatever state it comes, is    *)
(* answered by exactly one success or failure, sent last and naming it.    *)
(***************************************************************************)
THEOREM AnswersOnce == Spec => []OneAnswer
<1>1. Init => OneAnswer
  BY DEF Init, OneAnswer, NoFrame, MemoryTypes, PrepareTypes, StartTypes
<1>2. OneAnswer /\ [Next]_mcuVars => OneAnswer'
  <2> SUFFICES ASSUME OneAnswer, [Next]_mcuVars PROVE OneAnswer'
    OBVIOUS
  <2>1. CASE Clock \/ TickEnd
    BY <2>1 DEF Clock, TickEnd, OneAnswer
  <2>2. CASE Tick \/ Restart
    BY <2>2 DEF Tick, Restart, OneAnswer, NoFrame, MemoryTypes, PrepareTypes, StartTypes
  <2>3. CASE HandleFrame
    <3>1. PICK c \in Frame :
            frame' = c /\ (c.command_type \in MemoryTypes => HandleMemoryCommand(c))
      BY <2>3 DEF HandleFrame
    <3>2. c.command_type \in MemoryTypes => Answered(c.command_type, answers')
      BY <3>1, MemoryAnswered
    <3> QED BY <3>1, <3>2 DEF OneAnswer, Answered
  <2>4. CASE UNCHANGED mcuVars
    BY <2>4 DEF mcuVars, OneAnswer
  <2> QED BY <2>1, <2>2, <2>3, <2>4 DEF Next
<1> QED BY <1>1, <1>2, PTL DEF Spec
------------------------------------------------------------------------------
\* The time of the tick is no later than that of any frame handled in it.
FramesAfterTick ==
  /\ tick_now <= now
  /\ frames # 0 => tick_now <= last_rx_time

\* Time only goes on, and a frame is noted with the time at which it is handled.
LEMMA StepFramesAfterTick ==
  TypeOK /\ FramesAfterTick /\ [Next]_mcuVars => FramesAfterTick'
<1> SUFFICES ASSUME TypeOK, FramesAfterTick, [Next]_mcuVars PROVE FramesAfterTick'
  OBVIOUS
<1> USE DEF FramesAfterTick
<1>1. now \in Nat /\ tick_now \in Nat /\ last_rx_time \in Nat /\ frames \in Nat
  BY DEF TypeOK
<1>2. CASE Clock
  BY <1>1, <1>2 DEF Clock
<1>3. CASE Tick
  BY <1>1, <1>3 DEF Tick
<1>4. CASE HandleFrame
  BY <1>1, <1>4, FrameHandled
<1>5. CASE TickEnd
  BY <1>1, <1>5 DEF TickEnd
<1>6. CASE Restart
  BY <1>6 DEF Restart
<1>7. CASE UNCHANGED mcuVars
  BY <1>7 DEF mcuVars
<1> QED BY <1>2, <1>3, <1>4, <1>5, <1>6, <1>7 DEF Next

(***************************************************************************)
(* tick() leaves the bootloader on silence only, for every delay and every *)
(* number of frames in a tick.                                             *)
(***************************************************************************)
THEOREM LeavesPatiently == Spec => PatientBoot
<1>1. Init => FramesAfterTick
  BY DEF Init, FramesAfterTick
<1>2. TypeOK /\ FramesAfterTick => LeavesOnSilence
  <2> SUFFICES ASSUME TypeOK, FramesAfterTick, TickEnd, phase' # "idle"
               PROVE  frames = 0 /\ now > last_rx_time + BootDelay /\ state = "kIdle"
    BY DEF LeavesOnSilence
  <2>1. state = "kIdle" /\ tick_now > last_rx_time + BootDelay
    BY DEF TickEnd, BootDue
  <2>2. /\ now \in Nat /\ tick_now \in Nat /\ last_rx_time \in Nat /\ frames \in Nat
        /\ BootDelay \in Nat
    BY Constants DEF TypeOK
  <2> QED BY <2>1, <2>2 DEF FramesAfterTick
<1> QED BY <1>1, <1>2, StepFramesAfterTick, TypeCorrect, PTL DEF Spec, PatientBoot
==============================================================================
