---------------------------- MODULE RomBootloader ----------------------------
(***************************************************************************)
(* The ROM bootloader of the FPGA system (FPGA/cpu/firmware/booloader), a  *)
(* host, and the UART between them.  Reception holds one byte, and the     *)
(* bootloader sends its status lines blocking: what comes meanwhile is     *)
(* overwritten.  Polling, it takes each byte before the next has come.     *)
(*                                                                         *)
(* A byte of the image is a pair of hex digits.  A status line is two      *)
(* characters, its name and the newline; BOOT_IMG is cut short.            *)
(*                                                                         *)
(* A polite host does what protocol.md asks of it: it waits for BL_READY,  *)
(* sends BOOT_IMG before the next BL_READY is due, waits for DL_START,     *)
(* sends its image, and starts again when that is refused.  A rude host    *)
(* sends anything at any time.                                             *)
(***************************************************************************)
EXTENDS Naturals, FiniteSets, SequencesExt

CONSTANTS
  kMaxImgBytes,
  CrcBytes,      \* the four bytes of a CRC
  Crc(_),        \* crc32_bytes() of an image, most significant byte first
  kBootImgMsg,
  HexDigit,      \* 'B' is one
  Images,        \* what a polite host may send
  MaxInput,      \* bound: what a rude host sends for one download
  MaxSpaces      \* bound: the blanks among it

ASSUME RomAssumption ==
  /\ kMaxImgBytes \in Nat \ {0} /\ CrcBytes \in Nat \ {0}
  /\ kBootImgMsg # <<>> /\ kBootImgMsg \in Seq(ToSet(kBootImgMsg))
  /\ \A i \in 2 .. Len(kBootImgMsg) : kBootImgMsg[i] # kBootImgMsg[1]

Byte == HexDigit \X HexDigit
Image == UNION {[1 .. n -> Byte] : n \in 1 .. kMaxImgBytes}
CrcValue == [1 .. CrcBytes -> Byte]

Space == " "
Newline == "\n"
PayloadChar == HexDigit \cup {"$", ";", Space}
Char == PayloadChar \cup ToSet(kBootImgMsg)
NoChar == "none"

\* The marks are not digits, and BOOT_IMG has a letter that no download has.
ASSUME CharAssumption ==
  /\ HexDigit \cap {"$", ";", Space} = {} /\ NoChar \notin Char
  /\ \E i \in DOMAIN kBootImgMsg : kBootImgMsg[i] \notin PayloadChar

\* A CRC has four bytes, so an image has another, which is wrong.
ASSUME CrcAssumption ==
  /\ Images \subseteq Image
  /\ \A image \in Image : Crc(image) \in CrcValue /\ \E crc \in CrcValue : crc # Crc(image)

kAdvertiseMsg == <<"BL_READY", Newline>>
StatusName == {"BL_READY", "DL_START", "DL_ERROR", "CRC_ERROR", "BOOT_APP"}

VARIABLES
  polite,                \* what the host is like; never changes
  state,                 \* the local of main()
  advertise_index,
  advertise_due,         \* next_advertise_time_ns has come
  boot_img_match_index,
  hex_partial_byte,      \* the first digit of a byte, or NoChar: hex_byte_started
  IMAGE_BUFFER,          \* as much of it as has ever been written
  img_bytes_received,
  crc_buffer,            \* the bytes in it: its length is crc_buffer_index
  message,               \* what is left of the line being sent
  tx, rx,                \* the data registers of the UART, or NoChar
  line,                  \* what the host has of the next status line
  heard,                 \* the last line it has had
  host,                  \* what a polite host does next
  app,                   \* the image it wants to run
  mangled,               \* whether its next attempt carries another CRC
  to_send,               \* what is left of what it sends
  input                  \* what the bootloader has read for this download

parserVars == <<hex_partial_byte, IMAGE_BUFFER, img_bytes_received, crc_buffer>>
advertVars == <<advertise_index, advertise_due, boot_img_match_index>>
hostVars == <<host, app, mangled, to_send>>
romVars == <<polite, state, advertVars, parserVars, message, tx, rx, line, heard, hostVars,
             input>>

Init ==
  /\ polite \in BOOLEAN
  /\ state = "STATE_IDLE"
  /\ advertise_index = 0 /\ advertise_due = TRUE /\ boot_img_match_index = 0
  /\ hex_partial_byte = NoChar /\ IMAGE_BUFFER = <<>> /\ img_bytes_received = 0
  /\ crc_buffer = <<>>
  /\ message = <<>> /\ tx = NoChar /\ rx = NoChar
  /\ line = <<>> /\ heard = <<>>
  /\ host = "await_ready" /\ to_send = <<>>
  /\ IF polite THEN app \in Images /\ mangled \in BOOLEAN ELSE app = <<>> /\ mangled = FALSE
  /\ input = <<>>
------------------------------------------------------------------------------
\* The main loop, which does not turn while a line is being sent.

Polling == message = <<>>

\* Mutant of ResetDownloadState: the CRC of the last download stays.
ResetKeepCrc ==
  /\ img_bytes_received' = 0 /\ UNCHANGED crc_buffer
  /\ hex_partial_byte' = NoChar
  /\ UNCHANGED IMAGE_BUFFER

\* reset_download_state(), which also resets boot_img_match_index.
ResetDownloadState ==
  /\ img_bytes_received' = 0 /\ crc_buffer' = <<>>
  /\ hex_partial_byte' = NoChar
  /\ UNCHANGED IMAGE_BUFFER

\* fail_download(): the line is sent first, but nobody else looks at the rest.
FailDownload(name) ==
  /\ message' = <<name, Newline>>
  /\ ResetDownloadState /\ boot_img_match_index' = 0
  /\ state' = "STATE_IDLE"

SendByte ==
  /\ message # <<>> /\ tx = NoChar
  /\ tx' = Head(message) /\ message' = Tail(message)
  /\ input' = IF state = "STATE_IDLE" THEN <<>> ELSE input
  /\ UNCHANGED <<polite, state, advertVars, parserVars, rx, line, heard, hostVars>>

\* Mutant of Advertised: the next line is due at once.
AdvertisedAgain ==
  /\ advertise_index' = (advertise_index + 1) % Len(kAdvertiseMsg)
  /\ UNCHANGED advertise_due

\* One more character of the line; after the last, a hundred milliseconds.
Advertised ==
  /\ advertise_index' = (advertise_index + 1) % Len(kAdvertiseMsg)
  /\ advertise_due' = (advertise_due /\ advertise_index' # 0)

PollAdvertise ==
  /\ Polling /\ state = "STATE_IDLE" /\ rx = NoChar
  /\ boot_img_match_index = 0
  /\ advertise_index = 0 => advertise_due
  /\ tx = NoChar
  /\ tx' = kAdvertiseMsg[advertise_index + 1]
  /\ Advertised
  /\ UNCHANGED <<polite, state, boot_img_match_index, parserVars, message, rx, line, heard,
                 hostVars, input>>

\* The bytes of BOOT_IMG matched once c has come too.
Matched(c) ==
  IF c = kBootImgMsg[boot_img_match_index + 1] THEN boot_img_match_index + 1
  ELSE IF c = kBootImgMsg[1] THEN 1 ELSE 0

PollDownloadStart ==
  /\ Polling /\ state = "STATE_IDLE" /\ rx # NoChar
  /\ rx' = NoChar
  /\ IF Matched(rx) = Len(kBootImgMsg)
       THEN /\ ResetDownloadState /\ boot_img_match_index' = 0
            /\ message' = <<"DL_START", Newline>> /\ state' = "STATE_DOWNLOAD_IMAGE"
            /\ input' = <<>>
       ELSE /\ boot_img_match_index' = Matched(rx)
            /\ UNCHANGED <<state, parserVars, message, input>>
  /\ UNCHANGED <<polite, advertise_index, advertise_due, tx, line, heard, hostVars>>

HexByteStarted == hex_partial_byte # NoChar

\* Mutant of HexFails: blanks are no part of a download.
HexFailsBlank(c) == c \notin HexDigit

\* poll_hex_byte() fails, is pending, or has a byte.
HexFails(c) == IF c = Space THEN HexByteStarted ELSE c \notin HexDigit
HexPends(c) == ~HexFails(c) /\ (c = Space \/ ~HexByteStarted)

\* The byte goes to its place, over what an earlier download has left there.
StoreImageByte(b) ==
  /\ IMAGE_BUFFER' = IF img_bytes_received < Len(IMAGE_BUFFER)
                       THEN [IMAGE_BUFFER EXCEPT ![img_bytes_received + 1] = b]
                       ELSE Append(IMAGE_BUFFER, b)
  /\ img_bytes_received' = img_bytes_received + 1
  /\ UNCHANGED crc_buffer

StoreCrcByte(b) ==
  /\ crc_buffer' = Append(crc_buffer, b)
  /\ UNCHANGED <<IMAGE_BUFFER, img_bytes_received>>

\* Mutant of ImageFails: half a byte is dropped by the '$' after it.
ImageFailsNotHalf(c) ==
  IF c = "$" THEN img_bytes_received = 0
  ELSE img_bytes_received >= kMaxImgBytes \/ HexFails(c)

\* download_app() and download_crc() fail, or are done.
ImageFails(c) ==
  IF c = "$" THEN HexByteStarted \/ img_bytes_received = 0
  ELSE img_bytes_received >= kMaxImgBytes \/ HexFails(c)

\* Mutant of CrcFails: there is room for one byte more.
CrcFailsLate(c) ==
  IF c = ";" THEN HexByteStarted \/ Len(crc_buffer) # CrcBytes
  ELSE Len(crc_buffer) > CrcBytes \/ HexFails(c)

CrcFails(c) ==
  IF c = ";" THEN HexByteStarted \/ Len(crc_buffer) # CrcBytes
  ELSE Len(crc_buffer) >= CrcBytes \/ HexFails(c)

\* One byte of a download; store puts a byte of hex, if it has become one, in its place.
Download(fails, ends, next, store) ==
  /\ Polling /\ rx # NoChar
  /\ rx' = NoChar /\ input' = Append(input, rx)
  /\ IF fails THEN FailDownload("DL_ERROR")
     ELSE /\ UNCHANGED <<message, boot_img_match_index>>
          /\ IF rx = ends
               THEN /\ hex_partial_byte' = NoChar /\ state' = next
                    /\ UNCHANGED <<IMAGE_BUFFER, img_bytes_received, crc_buffer>>
             ELSE IF HexPends(rx)
               THEN /\ hex_partial_byte' = IF rx = Space THEN NoChar ELSE rx
                    /\ UNCHANGED <<state, IMAGE_BUFFER, img_bytes_received, crc_buffer>>
             ELSE store /\ hex_partial_byte' = NoChar /\ UNCHANGED state
  /\ UNCHANGED <<polite, advertise_index, advertise_due, tx, line, heard, hostVars>>

DownloadImage ==
  /\ state = "STATE_DOWNLOAD_IMAGE"
  /\ Download(ImageFails(rx), "$", "STATE_DOWNLOAD_CRC",
              StoreImageByte(<<hex_partial_byte, rx>>))

DownloadCrc ==
  /\ state = "STATE_DOWNLOAD_CRC"
  /\ Download(CrcFails(rx), ";", "STATE_VERIFY", StoreCrcByte(<<hex_partial_byte, rx>>))

Received == SubSeq(IMAGE_BUFFER, 1, img_bytes_received)

\* Mutant of Verified: the CRC of all that the buffer has ever held.
VerifiedWhole == Crc(IMAGE_BUFFER) = crc_buffer

Verified == Crc(Received) = crc_buffer

\* verify_app(), which is given a CRC and an image that is not empty.
VerifyApp ==
  /\ Polling /\ state = "STATE_VERIFY"
  /\ IF Verified
       THEN /\ message' = <<"BOOT_APP", Newline>> /\ state' = "STATE_BOOT_APP"
            /\ UNCHANGED <<boot_img_match_index, parserVars>>
       ELSE FailDownload("CRC_ERROR")
  /\ UNCHANGED <<polite, advertise_index, advertise_due, tx, rx, line, heard, hostVars, input>>

\* boot_app(): the bootloader is no more.
BootApp ==
  /\ Polling /\ state = "STATE_BOOT_APP" /\ state' = "app"
  /\ UNCHANGED <<polite, advertVars, parserVars, message, tx, rx, line, heard, hostVars, input>>
------------------------------------------------------------------------------
\* The timer and the UART.  A polite host has sent BOOT_IMG before the hundred
\* milliseconds are over, in which many a character gets to the other side.
AdvertiseDue ==
  /\ ~advertise_due /\ advertise_due' = TRUE
  /\ polite => host # "start" /\ tx = NoChar /\ rx = NoChar
  /\ UNCHANGED <<polite, state, advertise_index, boot_img_match_index, parserVars, message, tx,
                 rx, line, heard, hostVars, input>>

\* What a polite host does on hearing a line; one it does not know it ignores.
Hex(pad) ==
  LET hex[bytes \in Seq(Byte)] ==
        IF bytes = <<>> THEN <<>> ELSE (pad \o Head(bytes)) \o hex[Tail(bytes)]
  IN hex

Payload(image, crc, pad) == ((Hex(pad)[image] \o <<"$">>) \o Hex(pad)[crc]) \o <<";">>

OtherCrc(image) == CHOOSE crc \in CrcValue : crc # Crc(image)

\* It may put blanks in front of each byte.
Hear(name) ==
  \/ /\ host = "await_ready" /\ name = <<"BL_READY">>
     /\ host' = "start" /\ to_send' = kBootImgMsg /\ UNCHANGED <<app, mangled>>
  \/ /\ host = "await_start" /\ name = <<"DL_START">>
     /\ host' = "send" /\ mangled' = FALSE
     /\ \E pad \in {<<>>, <<Space>>} :
          to_send' = Payload(app, IF mangled THEN OtherCrc(app) ELSE Crc(app), pad)
     /\ UNCHANGED app
  \/ /\ host = "await_result" /\ name \in {<<"DL_ERROR">>, <<"CRC_ERROR">>}
     /\ host' = "await_ready" /\ UNCHANGED <<app, mangled, to_send>>

Knows(name) ==
  \/ host = "await_ready" /\ name = <<"BL_READY">>
  \/ host = "await_start" /\ name = <<"DL_START">>
  \/ host = "await_result" /\ name \in {<<"DL_ERROR">>, <<"CRC_ERROR">>}

\* A character gets to the host; a rude one does not listen.
UartTransmit ==
  /\ tx # NoChar /\ tx' = NoChar
  /\ IF ~polite THEN UNCHANGED <<line, heard, hostVars>>
     ELSE IF tx # Newline
       THEN line' = Append(line, tx) /\ UNCHANGED <<heard, hostVars>>
     ELSE /\ heard' = line /\ line' = <<>>
          /\ IF Knows(line) THEN Hear(line) ELSE UNCHANGED hostVars
  /\ UNCHANGED <<polite, state, advertVars, parserVars, message, rx, input>>

\* The bootloader reads in time unless it is sending, or at work on the image.
RxFree == rx = NoChar \/ ~Polling \/ state \in {"STATE_VERIFY", "STATE_BOOT_APP", "app"}

PoliteSend ==
  /\ polite /\ RxFree /\ to_send # <<>>
  /\ rx' = Head(to_send) /\ to_send' = Tail(to_send)
  /\ host' = IF Len(to_send) > 1 THEN host
             ELSE IF host = "start" THEN "await_start" ELSE "await_result"
  /\ UNCHANGED <<polite, state, advertVars, parserVars, message, tx, line, heard, app, mangled,
                 input>>

\* Within the bounds, which tell what is sent for a download.
RudeSend ==
  /\ ~polite /\ RxFree /\ state # "app"
  /\ \E c \in Char :
       /\ state \in {"STATE_DOWNLOAD_IMAGE", "STATE_DOWNLOAD_CRC"} =>
            /\ Len(input) < MaxInput
            /\ c = Space => Cardinality({i \in DOMAIN input : input[i] = Space}) < MaxSpaces
       /\ rx' = c
  /\ UNCHANGED <<polite, state, advertVars, parserVars, message, tx, line, heard, hostVars, input>>
------------------------------------------------------------------------------
Bootloader ==
  \/ SendByte
  \/ PollAdvertise
  \/ PollDownloadStart
  \/ DownloadImage
  \/ DownloadCrc
  \/ VerifyApp
  \/ BootApp

Next == Bootloader \/ AdvertiseDue \/ UartTransmit \/ PoliteSend \/ RudeSend

(***************************************************************************)
(* The main loop turns, the UART sends, time passes, and a polite host     *)
(* goes on.                                                                *)
(***************************************************************************)
Spec ==
  /\ Init /\ [][Next]_romVars
  /\ WF_romVars(Bootloader) /\ WF_romVars(UartTransmit)
  /\ WF_romVars(AdvertiseDue) /\ WF_romVars(PoliteSend)
------------------------------------------------------------------------------
TypeOK ==
  /\ polite \in BOOLEAN
  /\ state \in {"STATE_IDLE", "STATE_DOWNLOAD_IMAGE", "STATE_DOWNLOAD_CRC", "STATE_VERIFY",
                "STATE_BOOT_APP", "app"}
  /\ advertise_index \in 0 .. Len(kAdvertiseMsg) - 1 /\ advertise_due \in BOOLEAN
  /\ boot_img_match_index \in 0 .. Len(kBootImgMsg) - 1
  /\ hex_partial_byte \in HexDigit \cup {NoChar}
  /\ IMAGE_BUFFER \in Image \cup {<<>>} /\ img_bytes_received \in 0 .. Len(IMAGE_BUFFER)
  /\ crc_buffer \in Seq(Byte) /\ Len(crc_buffer) <= CrcBytes
  /\ message \in {<<>>, <<Newline>>} \cup {<<name, Newline>> : name \in StatusName}
  /\ tx \in StatusName \cup {Newline, NoChar} /\ rx \in Char \cup {NoChar}
  /\ line \in Seq(StatusName) /\ heard \in Seq(StatusName)
  /\ host \in {"await_ready", "start", "await_start", "send", "await_result"}
  /\ polite => app \in Images
  /\ mangled \in BOOLEAN /\ to_send \in Seq(Char)
  /\ input \in Seq(Char)

\* What was sent, without the blanks.
Bare[chars \in Seq(Char)] ==
  IF chars = <<>> THEN <<>>
  ELSE (IF Head(chars) = Space THEN <<>> ELSE <<Head(chars)>>) \o Bare[Tail(chars)]

\* The format of protocol.md:35-39: blanks anywhere but within a byte.
Sent(image, crc) == Bare[input] = Payload(image, crc, <<>>)

DigitsUpTo(i) == Cardinality({j \in 1 .. i : input[j] \in HexDigit})

BlanksBetweenBytes == \A i \in DOMAIN input : input[i] = Space => DigitsUpTo(i) % 2 = 0

\* What has come is the beginning of a download in that format.
Framed ==
  /\ BlanksBetweenBytes
  /\ LET bare == Bare[input]
     IN \E image \in Image, crc \in CrcValue : IsPrefix(bare, Payload(image, crc, <<>>))

(***************************************************************************)
(* Whatever the host sends, and whatever came before, the application that *)
(* is booted is the image of the last download, byte for byte and framed   *)
(* as protocol.md has it, and the CRC sent with it is its own.             *)
(***************************************************************************)
BootsWhatWasSent ==
  state \in {"STATE_BOOT_APP", "app"} =>
    Sent(Received, Crc(Received)) /\ BlanksBetweenBytes

Refusing == message # <<>> /\ Head(message) = "DL_ERROR"

\* A blank after the last byte that the image or the CRC has room for.
BlankAfterLast ==
  LET bare == Bare[input]
      dollar == {i \in DOMAIN bare : bare[i] = "$"}
  IN /\ Last(input) = Space
     /\ \/ dollar = {} /\ Len(bare) = 2 * kMaxImgBytes
        \/ \E i \in dollar : Len(bare) = i + 2 * CrcBytes

(***************************************************************************)
(* "DL_ERROR: Image or CRC framing failed (bad hex, overflow, empty image, *)
(* incomplete byte)" (protocol.md:28): what the code refuses is badly      *)
(* framed, with one exception, a blank after the last byte there is room   *)
(* for: there the code contradicts the example of protocol.md:44, which    *)
(* has one between the CRC and its semicolon.                              *)
(***************************************************************************)
RefusesBadFraming == Refusing => ~Framed \/ BlankAfterLast

(***************************************************************************)
(* "Each status is one line" (protocol.md:22): with a polite host no line  *)
(* is sent into another that the bootloader has begun.                     *)
(***************************************************************************)
PoliteLines == heard # <<>> => heard \in {<<name>> : name \in StatusName}

(***************************************************************************)
(* A polite host gets its application to run, at the second attempt when   *)
(* the first carries the wrong CRC; none of its bytes is lost on the way.  *)
(***************************************************************************)
PoliteBoots == <>(polite => state = "app" /\ Received = app)
==============================================================================
