-------------------------- MODULE RomBootloaderProofs --------------------------
(***************************************************************************)
(* The ROM bootloader, for any size of image, any CRC, any download and    *)
(* any host: its types; that what is booted is what was sent (ParseInv:    *)
(* what has been parsed is, character by character, what was read); that a *)
(* polite host hears whole lines (LineInv: what the host has of a line is  *)
(* what was sent of it, and BOOT_IMG is not completed within one); and     *)
(* that what is refused is badly framed, which follows from ParseInv by    *)
(* the places that the two marks have in a download.                       *)
(***************************************************************************)
EXTENDS RomBootloader, SequenceLemmas

\* The sizes.
LEMMA Sizes ==
  kMaxImgBytes \in Nat /\ kMaxImgBytes > 0 /\ CrcBytes \in Nat /\ CrcBytes > 0
BY RomAssumption

\* The marks are no digits, and nothing but a character is received.
LEMMA Marks ==
  /\ "$" \notin HexDigit /\ ";" \notin HexDigit /\ Space \notin HexDigit
  /\ HexDigit \subseteq PayloadChar /\ "$" \in PayloadChar /\ ";" \in PayloadChar
  /\ Space \in PayloadChar /\ PayloadChar \subseteq Char
  /\ NoChar \notin Char /\ NoChar \notin HexDigit
  /\ Space # "$" /\ Space # ";" /\ Space # NoChar
BY CharAssumption DEF Char, PayloadChar, Space, NoChar

\* BOOT_IMG is a sequence of characters.
LEMMA BootImgMsg ==
  kBootImgMsg \in Seq(Char) /\ kBootImgMsg # <<>> /\ Len(kBootImgMsg) \in Nat \ {0}
<1>1. kBootImgMsg \in Seq(Char)
  BY RomAssumption DEF Char
<1>2. Len(kBootImgMsg) \in Nat \ {0}
  BY RomAssumption, EmptySeq
<1> QED BY <1>1, <1>2, RomAssumption

\* The buffer holds a sequence of bytes.
LEMMA ImageIsSeq ==
  \A s : s \in Image \cup {<<>>} <=> s \in Seq(Byte) /\ Len(s) <= kMaxImgBytes
<1>1. ASSUME NEW s, s \in Image PROVE s \in Seq(Byte) /\ Len(s) <= kMaxImgBytes
  <2>1. PICK n \in 1 .. kMaxImgBytes : s \in [1 .. n -> Byte]
    BY <1>1 DEF Image
  <2>2. n \in Nat /\ Seq(Byte) = UNION {[1 .. m -> Byte] : m \in Nat}
    BY SeqDef
  <2>3. s \in Seq(Byte)
    BY <2>1, <2>2
  <2>4. Len(s) = n
    BY <2>1, <2>2, <2>3, LenProperties
  <2>5. n <= kMaxImgBytes
    BY <2>1, Sizes
  <2> QED BY <2>3, <2>4, <2>5
<1>2. ASSUME NEW s, s \in Seq(Byte), Len(s) <= kMaxImgBytes, s # <<>> PROVE s \in Image
  <2>1. Len(s) \in Nat /\ s \in [1 .. Len(s) -> Byte]
    BY <1>2, LenProperties
  <2>2. Len(s) # 0
    BY <1>2, EmptySeq
  <2>3. Len(s) \in 1 .. kMaxImgBytes
    BY <1>2, <2>1, <2>2, Sizes
  <2> QED BY <2>1, <2>3 DEF Image
<1>3. <<>> \in Seq(Byte) /\ Len(<<>>) <= kMaxImgBytes
  <2>1. <<>> \in Seq(Byte) /\ Len(<<>>) = 0
    BY EmptySeq
  <2> QED BY <2>1, Sizes
<1> QED BY <1>1, <1>2, <1>3

\* So do the CRCs.
LEMMA CrcIsSeq ==
  \A s : s \in CrcValue <=> s \in Seq(Byte) /\ Len(s) = CrcBytes
<1>1. ASSUME NEW s, s \in CrcValue PROVE s \in Seq(Byte) /\ Len(s) = CrcBytes
  <2>1. CrcBytes \in Nat /\ Seq(Byte) = UNION {[1 .. m -> Byte] : m \in Nat}
    BY SeqDef, Sizes
  <2>2. s \in Seq(Byte)
    BY <1>1, <2>1 DEF CrcValue
  <2> QED BY <1>1, <2>1, <2>2, LenProperties DEF CrcValue
<1>2. ASSUME NEW s, s \in Seq(Byte), Len(s) = CrcBytes PROVE s \in CrcValue
  BY <1>2, LenProperties DEF CrcValue
<1> QED BY <1>1, <1>2

\* A byte is two digits.
LEMMA ByteIsPair ==
  /\ \A a, b \in HexDigit : <<a, b>> \in Byte
  /\ \A byte \in Byte : byte \in Seq(HexDigit) /\ Len(byte) = 2 /\ byte = <<byte[1], byte[2]>>
                        /\ byte[1] \in HexDigit /\ byte[2] \in HexDigit
BY DEF Byte
-------------------------------------------------------------------------------
\* What a host makes of bytes is written from the first to the last.
LEMMA HexSpreads ==
  ASSUME NEW pad
  PROVE  Spreads(Hex(pad), [byte \in Byte |-> pad \o byte], Seq(Byte))
<1> DEFINE g == [byte \in Byte |-> pad \o byte]
           body(f, s) == IF s = <<>> THEN <<>> ELSE (pad \o Head(s)) \o f[Tail(s)]
<1>1. \A byte \in Byte : g[byte] = pad \o byte
  OBVIOUS
<1> HIDE DEF g
<1>2. PICK f : IsSpread(f, g, Byte)
  BY SpreadExists
<1>3. \A s \in Seq(Byte) : s # <<>> => g[Head(s)] = pad \o Head(s)
  BY <1>1, TailIsShorter
<1>4. f = [s \in Seq(Byte) |-> body(f, s)]
  BY <1>2, <1>3 DEF IsSpread
<1>5. Hex(pad) = [s \in Seq(Byte) |-> body(Hex(pad), s)]
  BY <1>4 DEF Hex
<1>6. \A s \in Seq(Byte) : Hex(pad)[s] = body(Hex(pad), s)
  BY <1>5
<1>7. Spreads(Hex(pad), g, Seq(Byte))
  BY <1>3, <1>6 DEF Spreads
<1> QED BY <1>7 DEF g

\* It is made of digits, and of what they are padded with.
LEMMA HexType ==
  ASSUME NEW R, HexDigit \subseteq R, NEW pad \in Seq(R)
  PROVE  /\ \A s \in Seq(Byte) : Hex(pad)[s] \in Seq(R)
         /\ Hex(pad)[<<>>] = <<>>
         /\ FromTheEnd(Hex(pad), [byte \in Byte |-> pad \o byte], Byte)
<1> DEFINE g == [byte \in Byte |-> pad \o byte]
<1>1. \A byte \in Byte : byte \in Seq(R)
  BY ByteIsPair
<1>2. \A byte \in Byte : g[byte] \in Seq(R)
  <2>1. \A p, q \in Seq(R) : p \o q \in Seq(R)
    BY ConcatIsSeq
  <2> QED BY <1>1, <2>1
<1>3. Spreads(Hex(pad), g, Seq(Byte))
  BY HexSpreads
<1> HIDE DEF g
<1>4. SpreadsTo(Hex(pad), g, Byte, R)
  BY <1>2, <1>3 DEF SpreadsTo
<1>5. \A s \in Seq(Byte) : Hex(pad)[s] \in Seq(R)
  BY <1>4, SpreadType
<1>6. Hex(pad)[<<>>] = <<>>
  BY <1>3, EmptySeq DEF Spreads
<1>7. FromTheEnd(Hex(pad), g, Byte)
  BY <1>4, SpreadAppend
<1> QED BY <1>5, <1>6, <1>7 DEF g

\* A download is made of the characters of one.
LEMMA PayloadType ==
  ASSUME NEW image \in Seq(Byte), NEW crc \in Seq(Byte), NEW pad \in Seq(PayloadChar)
  PROVE  Payload(image, crc, pad) \in Seq(PayloadChar)
<1>1. Hex(pad)[image] \in Seq(PayloadChar) /\ Hex(pad)[crc] \in Seq(PayloadChar)
  BY HexType, Marks
<1>2. <<"$">> \in Seq(PayloadChar) /\ <<";">> \in Seq(PayloadChar)
  <2>1. "$" \in PayloadChar /\ ";" \in PayloadChar
    BY Marks
  <2> QED BY <2>1, Appended
<1>3. \A p, q \in Seq(PayloadChar) : p \o q \in Seq(PayloadChar)
  BY ConcatIsSeq
<1> QED BY <1>1, <1>2, <1>3, Zenon DEF Payload
-------------------------------------------------------------------------------
(***************************************************************************)
(* Types.                                                                  *)
(***************************************************************************)

\* At the start.
LEMMA TypesStart ==
  ASSUME Init
  PROVE  TypeOK
<1>1. <<>> \in Image \cup {<<>>} /\ Len(<<>>) = 0
  BY EmptySeq
<1>2. <<>> \in Seq(Byte) /\ <<>> \in Seq(StatusName) /\ <<>> \in Seq(Char)
  BY EmptySeq
<1>3. Len(kAdvertiseMsg) = 2
  BY DEF kAdvertiseMsg
<1>4. Len(kBootImgMsg) \in Nat \ {0}
  BY BootImgMsg
<1>5. polite \in BOOLEAN /\ mangled \in BOOLEAN /\ (polite => app \in Images)
        /\ advertise_due \in BOOLEAN
  BY DEF Init
<1>6. boot_img_match_index \in 0 .. Len(kBootImgMsg) - 1
        /\ advertise_index \in 0 .. Len(kAdvertiseMsg) - 1
        /\ img_bytes_received \in 0 .. Len(IMAGE_BUFFER) /\ Len(crc_buffer) <= CrcBytes
  BY <1>1, <1>3, <1>4, Sizes DEF Init
<1> QED BY <1>1, <1>2, <1>5, <1>6 DEF Init, TypeOK

\* The next character of a line.
LEMMA SendByteTypes ==
  ASSUME TypeOK, SendByte
  PROVE  TypeOK'
<1>1. tx' \in StatusName \cup {Newline, NoChar} /\ message' \in {<<>>, <<Newline>>}
  <2>1. CASE message = <<Newline>>
    <3>1. Head(message) = Newline /\ Tail(message) = <<>>
      BY <2>1
    <3> QED BY <3>1 DEF SendByte
  <2>2. CASE \E name \in StatusName : message = <<name, Newline>>
    <3>1. PICK name \in StatusName : message = <<name, Newline>>
      BY <2>2
    <3>2. Head(message) = name /\ Tail(message) = <<Newline>>
      BY <3>1
    <3> QED BY <3>2 DEF SendByte
  <2> QED BY <2>1, <2>2 DEF SendByte, TypeOK
<1>2. input' \in Seq(Char)
  BY EmptySeq DEF SendByte, TypeOK
<1> QED BY <1>1, <1>2 DEF SendByte, TypeOK, advertVars, parserVars, hostVars

\* The advertisement.
LEMMA AdvertiseTypes ==
  ASSUME TypeOK, PollAdvertise
  PROVE  TypeOK'
<1>1. Len(kAdvertiseMsg) = 2 /\ kAdvertiseMsg[1] = "BL_READY" /\ kAdvertiseMsg[2] = Newline
  BY DEF kAdvertiseMsg
<1>2. advertise_index \in 0 .. 1
  BY <1>1 DEF TypeOK
<1>3. advertise_index' \in 0 .. Len(kAdvertiseMsg) - 1
  BY <1>1, <1>2 DEF PollAdvertise, Advertised
<1>4. advertise_due' \in BOOLEAN
  BY DEF PollAdvertise, Advertised, TypeOK
<1>5. tx' \in StatusName \cup {Newline, NoChar}
  BY <1>1, <1>2 DEF PollAdvertise, StatusName
<1> QED BY <1>3, <1>4, <1>5 DEF PollAdvertise, TypeOK, parserVars, hostVars

\* What a reset leaves.
LEMMA ResetTypes ==
  ASSUME TypeOK, ResetDownloadState
  PROVE  /\ hex_partial_byte' \in HexDigit \cup {NoChar}
         /\ IMAGE_BUFFER' \in Image \cup {<<>>} /\ img_bytes_received' \in 0 .. Len(IMAGE_BUFFER')
         /\ crc_buffer' \in Seq(Byte) /\ Len(crc_buffer') <= CrcBytes
<1>1. IMAGE_BUFFER \in Seq(Byte)
  BY ImageIsSeq DEF TypeOK
<1>2. Len(IMAGE_BUFFER) \in Nat
  BY <1>1, LenProperties
<1>3. <<>> \in Seq(Byte) /\ Len(<<>>) = 0
  BY EmptySeq
<1> QED BY <1>2, <1>3, Sizes DEF ResetDownloadState, TypeOK

\* BOOT_IMG is matched one character at a time.
LEMMA MatchedType ==
  ASSUME TypeOK, NEW c
  PROVE  Matched(c) \in 1 .. Len(kBootImgMsg) \cup {0}
BY BootImgMsg DEF Matched, TypeOK

LEMMA StartTypes ==
  ASSUME TypeOK, PollDownloadStart
  PROVE  TypeOK'
<1>1. CASE Matched(rx) = Len(kBootImgMsg)
  <2>1. message' = <<"DL_START", Newline>> /\ state' = "STATE_DOWNLOAD_IMAGE"
        /\ boot_img_match_index' = 0 /\ rx' = NoChar /\ input' = <<>>
        /\ ResetDownloadState
        /\ UNCHANGED <<polite, advertise_index, advertise_due, tx, line, heard, hostVars>>
    BY <1>1 DEF PollDownloadStart
  <2>2. "DL_START" \in StatusName /\ input' \in Seq(Char)
    BY <2>1, EmptySeq DEF StatusName
  <2>3. boot_img_match_index' \in 0 .. Len(kBootImgMsg) - 1
    BY <2>1, BootImgMsg
  <2> QED BY <2>1, <2>2, <2>3, ResetTypes DEF TypeOK, hostVars
<1>2. CASE Matched(rx) # Len(kBootImgMsg)
  <2>1. boot_img_match_index' \in 0 .. Len(kBootImgMsg) - 1
    BY <1>2, MatchedType, BootImgMsg DEF PollDownloadStart
  <2> QED BY <1>2, <2>1 DEF PollDownloadStart, TypeOK, parserVars, hostVars
<1> QED BY <1>1, <1>2
-------------------------------------------------------------------------------
(***************************************************************************)
(* The cases of a byte of a download.                                      *)
(***************************************************************************)

\* It is taken, whatever becomes of it.
Taken ==
  /\ Polling /\ rx \in Char /\ rx' = NoChar /\ input' = Append(input, rx)
  /\ UNCHANGED <<polite, advertise_index, advertise_due, tx, line, heard, hostVars>>

\* It ends a part, is a blank or the first digit of a byte, or the second.
Ends(next) ==
  /\ ~HexByteStarted /\ hex_partial_byte' = NoChar /\ state' = next
  /\ UNCHANGED <<message, boot_img_match_index, IMAGE_BUFFER, img_bytes_received, crc_buffer>>

Pends ==
  /\ ~HexByteStarted
  /\ \/ rx = Space /\ hex_partial_byte' = NoChar
     \/ rx \in HexDigit /\ hex_partial_byte' = rx
  /\ UNCHANGED <<state, message, boot_img_match_index, IMAGE_BUFFER, img_bytes_received,
                 crc_buffer>>

Completes ==
  /\ HexByteStarted /\ rx \in HexDigit /\ <<hex_partial_byte, rx>> \in Byte
  /\ hex_partial_byte \in HexDigit /\ hex_partial_byte' = NoChar
  /\ UNCHANGED <<state, message, boot_img_match_index>>

\* What poll_hex_byte() makes of a byte that it does not refuse.
LEMMA HexCases ==
  ASSUME TypeOK, ~HexFails(rx)
  PROVE  /\ HexPends(rx) => ~HexByteStarted /\ (rx = Space \/ rx \in HexDigit)
         /\ ~HexPends(rx) => /\ HexByteStarted /\ rx \in HexDigit /\ hex_partial_byte \in HexDigit
                             /\ <<hex_partial_byte, rx>> \in Byte
<1>1. hex_partial_byte \in HexDigit \cup {NoChar}
  BY DEF TypeOK
<1>2. HexPends(rx) => ~HexByteStarted /\ (rx = Space \/ rx \in HexDigit)
  BY DEF HexPends, HexFails
<1>3. ~HexPends(rx) => HexByteStarted /\ rx \in HexDigit
  BY DEF HexPends, HexFails
<1>4. HexByteStarted => hex_partial_byte \in HexDigit
  BY <1>1 DEF HexByteStarted
<1> QED BY <1>2, <1>3, <1>4, ByteIsPair

\* A byte of the image.
LEMMA ImageCases ==
  ASSUME TypeOK, DownloadImage
  PROVE  /\ Taken /\ state = "STATE_DOWNLOAD_IMAGE"
         /\ \/ ImageFails(rx) /\ FailDownload("DL_ERROR")
            \/ rx = "$" /\ img_bytes_received # 0 /\ Ends("STATE_DOWNLOAD_CRC")
            \/ Pends
            \/ /\ Completes /\ StoreImageByte(<<hex_partial_byte, rx>>)
               /\ ~(img_bytes_received >= kMaxImgBytes)
<1>1. Taken /\ state = "STATE_DOWNLOAD_IMAGE"
  BY DEF DownloadImage, Download, Taken, TypeOK
<1>2. CASE ImageFails(rx)
  BY <1>1, <1>2 DEF DownloadImage, Download
<1>3. CASE ~ImageFails(rx) /\ rx = "$"
  BY <1>1, <1>3 DEF DownloadImage, Download, ImageFails, Ends
<1>4. CASE ~ImageFails(rx) /\ rx # "$"
  <2>1. ~(img_bytes_received >= kMaxImgBytes) /\ ~HexFails(rx)
    BY <1>4 DEF ImageFails
  <2>2. CASE HexPends(rx)
    <3>1. /\ hex_partial_byte' = IF rx = Space THEN NoChar ELSE rx
          /\ UNCHANGED <<state, message, boot_img_match_index, IMAGE_BUFFER, img_bytes_received,
                         crc_buffer>>
      BY <1>4, <2>2 DEF DownloadImage, Download
    <3> QED BY <1>1, <2>1, <2>2, <3>1, HexCases, Marks DEF Pends
  <2>3. CASE ~HexPends(rx)
    <3>1. /\ StoreImageByte(<<hex_partial_byte, rx>>) /\ hex_partial_byte' = NoChar
          /\ UNCHANGED <<state, message, boot_img_match_index>>
      BY <1>4, <2>3 DEF DownloadImage, Download
    <3> QED BY <1>1, <2>1, <2>3, <3>1, HexCases DEF Completes
  <2> QED BY <2>2, <2>3
<1> QED BY <1>2, <1>3, <1>4

\* A byte of the CRC.
LEMMA CrcCases ==
  ASSUME TypeOK, DownloadCrc
  PROVE  /\ Taken /\ state = "STATE_DOWNLOAD_CRC"
         /\ \/ CrcFails(rx) /\ FailDownload("DL_ERROR")
            \/ rx = ";" /\ Len(crc_buffer) = CrcBytes /\ Ends("STATE_VERIFY")
            \/ Pends
            \/ /\ Completes /\ StoreCrcByte(<<hex_partial_byte, rx>>)
               /\ ~(Len(crc_buffer) >= CrcBytes)
<1>1. Taken /\ state = "STATE_DOWNLOAD_CRC"
  BY DEF DownloadCrc, Download, Taken, TypeOK
<1>2. CASE CrcFails(rx)
  BY <1>1, <1>2 DEF DownloadCrc, Download
<1>3. CASE ~CrcFails(rx) /\ rx = ";"
  BY <1>1, <1>3 DEF DownloadCrc, Download, CrcFails, Ends
<1>4. CASE ~CrcFails(rx) /\ rx # ";"
  <2>1. ~(Len(crc_buffer) >= CrcBytes) /\ ~HexFails(rx)
    BY <1>4 DEF CrcFails
  <2>2. CASE HexPends(rx)
    <3>1. /\ hex_partial_byte' = IF rx = Space THEN NoChar ELSE rx
          /\ UNCHANGED <<state, message, boot_img_match_index, IMAGE_BUFFER, img_bytes_received,
                         crc_buffer>>
      BY <1>4, <2>2 DEF DownloadCrc, Download
    <3> QED BY <1>1, <2>1, <2>2, <3>1, HexCases, Marks DEF Pends
  <2>3. CASE ~HexPends(rx)
    <3>1. /\ StoreCrcByte(<<hex_partial_byte, rx>>) /\ hex_partial_byte' = NoChar
          /\ UNCHANGED <<state, message, boot_img_match_index>>
      BY <1>4, <2>3 DEF DownloadCrc, Download
    <3> QED BY <1>1, <2>1, <2>3, <3>1, HexCases DEF Completes
  <2> QED BY <2>2, <2>3
<1> QED BY <1>2, <1>3, <1>4
-------------------------------------------------------------------------------
\* The image that has come grows by the byte that is stored, over whatever an
\* earlier download has left in its place.
LEMMA Stored ==
  ASSUME TypeOK, NEW byte \in Byte, StoreImageByte(byte), ~(img_bytes_received >= kMaxImgBytes)
  PROVE  /\ Received \in Seq(Byte) /\ Len(Received) = img_bytes_received
         /\ Received' = Append(Received, byte)
         /\ IMAGE_BUFFER' \in Image \cup {<<>>} /\ img_bytes_received' \in 0 .. Len(IMAGE_BUFFER')
<1>1. IMAGE_BUFFER \in Seq(Byte) /\ Len(IMAGE_BUFFER) <= kMaxImgBytes
  BY ImageIsSeq DEF TypeOK
<1>2. Len(IMAGE_BUFFER) \in Nat /\ img_bytes_received \in 0 .. Len(IMAGE_BUFFER)
      /\ img_bytes_received' = img_bytes_received + 1 /\ kMaxImgBytes \in Nat
  BY <1>1, LenProperties, Sizes DEF TypeOK, StoreImageByte
<1>3. Received \in Seq(Byte) /\ Len(Received) = img_bytes_received
  BY <1>1, <1>2, LongerPrefix DEF Received
<1>4. CASE img_bytes_received < Len(IMAGE_BUFFER)
  <2> DEFINE n == img_bytes_received
  <2>1. IMAGE_BUFFER' = [IMAGE_BUFFER EXCEPT ![n + 1] = byte] /\ n + 1 \in 1 .. Len(IMAGE_BUFFER)
    BY <1>2, <1>4 DEF StoreImageByte
  <2>2. /\ IMAGE_BUFFER' \in Seq(Byte) /\ Len(IMAGE_BUFFER') = Len(IMAGE_BUFFER)
        /\ \A i \in 1 .. Len(IMAGE_BUFFER) :
              IMAGE_BUFFER'[i] = IF i = n + 1 THEN byte ELSE IMAGE_BUFFER[i]
    BY <1>1, <2>1, ExceptSeq, LenProperties
  <2>3. /\ SubSeq(IMAGE_BUFFER', 1, n) \in Seq(Byte) /\ Len(SubSeq(IMAGE_BUFFER', 1, n)) = n
        /\ SubSeq(IMAGE_BUFFER', 1, n + 1)
             = Append(SubSeq(IMAGE_BUFFER', 1, n), IMAGE_BUFFER'[n + 1])
    BY <1>2, <1>4, <2>2, LongerPrefix
  <2>4. SubSeq(IMAGE_BUFFER', 1, n) = SubSeq(IMAGE_BUFFER, 1, n)
    <3>1. \A i \in 1 .. n : SubSeq(IMAGE_BUFFER', 1, n)[i] = IMAGE_BUFFER'[i]
      BY <1>2, <2>2, ElementOfSeq, SubSeqProperties
    <3>2. \A i \in 1 .. n : SubSeq(IMAGE_BUFFER, 1, n)[i] = IMAGE_BUFFER[i]
      BY <1>1, <1>2, ElementOfSeq, SubSeqProperties
    <3>3. \A i \in 1 .. n : IMAGE_BUFFER'[i] = IMAGE_BUFFER[i]
      BY <1>2, <2>2
    <3> QED BY <1>3, <2>3, <3>1, <3>2, <3>3, SeqEqual DEF Received
  <2>5. Received' = Append(Received, byte)
    BY <1>2, <2>1, <2>2, <2>3, <2>4 DEF Received
  <2>6. IMAGE_BUFFER' \in Image \cup {<<>>}
    BY <1>1, <2>2, ImageIsSeq
  <2> QED BY <1>2, <1>3, <1>4, <2>2, <2>5, <2>6
<1>5. CASE ~(img_bytes_received < Len(IMAGE_BUFFER))
  <2>1. IMAGE_BUFFER' = Append(IMAGE_BUFFER, byte) /\ img_bytes_received = Len(IMAGE_BUFFER)
    BY <1>2, <1>5 DEF StoreImageByte
  <2>2. IMAGE_BUFFER' \in Seq(Byte) /\ Len(IMAGE_BUFFER') = Len(IMAGE_BUFFER) + 1
    BY <1>1, <2>1, AppendProperties
  <2>3. Received = IMAGE_BUFFER /\ Received' = IMAGE_BUFFER'
    BY <1>1, <1>2, <2>1, <2>2, SubSeqFull DEF Received
  <2>4. Len(IMAGE_BUFFER') <= kMaxImgBytes
    BY <1>2, <2>1, <2>2
  <2>5. IMAGE_BUFFER' \in Image \cup {<<>>}
    BY <2>2, <2>4, ImageIsSeq
  <2> QED BY <1>2, <1>3, <2>1, <2>2, <2>3, <2>5
<1> QED BY <1>4, <1>5

\* The types of what every byte of a download leaves alone or changes alike.
LEMMA TakenTypes ==
  ASSUME TypeOK, Taken
  PROVE  /\ polite' \in BOOLEAN /\ advertise_index' \in 0 .. Len(kAdvertiseMsg) - 1
         /\ advertise_due' \in BOOLEAN /\ tx' \in StatusName \cup {Newline, NoChar}
         /\ rx' \in Char \cup {NoChar} /\ line' \in Seq(StatusName) /\ heard' \in Seq(StatusName)
         /\ host' \in {"await_ready", "start", "await_start", "send", "await_result"}
         /\ (polite' => app' \in Images) /\ mangled' \in BOOLEAN /\ to_send' \in Seq(Char)
         /\ input' \in Seq(Char)
<1>1. input' \in Seq(Char)
  BY AppendProperties DEF Taken, TypeOK
<1> QED BY <1>1 DEF Taken, TypeOK, hostVars

\* A refused download.
LEMMA FailTypes ==
  ASSUME TypeOK, NEW name \in StatusName, FailDownload(name)
  PROVE  /\ state' = "STATE_IDLE" /\ boot_img_match_index' \in 0 .. Len(kBootImgMsg) - 1
         /\ message' \in {<<>>, <<Newline>>} \cup {<<n, Newline>> : n \in StatusName}
         /\ hex_partial_byte' \in HexDigit \cup {NoChar}
         /\ IMAGE_BUFFER' \in Image \cup {<<>>} /\ img_bytes_received' \in 0 .. Len(IMAGE_BUFFER')
         /\ crc_buffer' \in Seq(Byte) /\ Len(crc_buffer') <= CrcBytes
<1>1. ResetDownloadState /\ boot_img_match_index' = 0 /\ message' = <<name, Newline>>
      /\ state' = "STATE_IDLE"
  BY DEF FailDownload
<1>2. boot_img_match_index' \in 0 .. Len(kBootImgMsg) - 1
  BY <1>1, BootImgMsg
<1> QED BY <1>1, <1>2, ResetTypes

\* A byte of a download.
LEMMA DownloadTypes ==
  ASSUME TypeOK, DownloadImage \/ DownloadCrc
  PROVE  TypeOK'
<1>1. Taken
  BY ImageCases, CrcCases
<1>2. "DL_ERROR" \in StatusName
  BY DEF StatusName
<1>3. CASE FailDownload("DL_ERROR")
  BY <1>1, <1>2, <1>3, TakenTypes, FailTypes DEF TypeOK
<1>4. CASE Pends \/ Ends("STATE_DOWNLOAD_CRC") \/ Ends("STATE_VERIFY")
  BY <1>1, <1>4, TakenTypes DEF TypeOK, Pends, Ends
<1>5. CASE /\ Completes /\ StoreImageByte(<<hex_partial_byte, rx>>)
           /\ ~(img_bytes_received >= kMaxImgBytes)
  <2>1. IMAGE_BUFFER' \in Image \cup {<<>>} /\ img_bytes_received' \in 0 .. Len(IMAGE_BUFFER')
    BY <1>5, Stored DEF Completes
  <2>2. crc_buffer' = crc_buffer
    BY <1>5 DEF StoreImageByte
  <2> QED BY <1>1, <1>5, <2>1, <2>2, TakenTypes DEF TypeOK, Completes
<1>6. CASE /\ Completes /\ StoreCrcByte(<<hex_partial_byte, rx>>)
           /\ ~(Len(crc_buffer) >= CrcBytes)
  <2>1. crc_buffer' = Append(crc_buffer, <<hex_partial_byte, rx>>)
        /\ UNCHANGED <<IMAGE_BUFFER, img_bytes_received>>
    BY <1>6 DEF StoreCrcByte
  <2>2. crc_buffer' \in Seq(Byte) /\ Len(crc_buffer') = Len(crc_buffer) + 1
    BY <1>6, <2>1, AppendProperties DEF TypeOK, Completes
  <2>3. Len(crc_buffer') <= CrcBytes
    BY <1>6, <2>2, Sizes, LenProperties DEF TypeOK
  <2> QED BY <1>1, <1>6, <2>1, <2>2, <2>3, TakenTypes DEF TypeOK, Completes
<1> QED BY <1>3, <1>4, <1>5, <1>6, ImageCases, CrcCases

\* The verification.
LEMMA VerifyTypes ==
  ASSUME TypeOK, VerifyApp \/ BootApp
  PROVE  TypeOK'
<1>1. "BOOT_APP" \in StatusName /\ "CRC_ERROR" \in StatusName
  BY DEF StatusName
<1>2. CASE BootApp
  BY <1>2 DEF BootApp, TypeOK, advertVars, parserVars, hostVars
<1>3. CASE VerifyApp /\ Verified
  BY <1>1, <1>3 DEF VerifyApp, TypeOK, parserVars, hostVars
<1>4. CASE VerifyApp /\ ~Verified
  <2>1. /\ FailDownload("CRC_ERROR")
        /\ UNCHANGED <<polite, advertise_index, advertise_due, tx, rx, line, heard, hostVars,
                       input>>
    BY <1>4 DEF VerifyApp
  <2> QED BY <1>1, <2>1, FailTypes DEF TypeOK, hostVars
<1> QED BY <1>2, <1>3, <1>4

\* Time and the host.
LEMMA OtherCrcType ==
  ASSUME NEW image \in Image
  PROVE  /\ Crc(image) \in CrcValue
         /\ OtherCrc(image) \in CrcValue /\ OtherCrc(image) # Crc(image)
BY CrcAssumption DEF OtherCrc

\* What a polite host sends for its application.
LEMMA SendsPayload ==
  ASSUME app \in Images, NEW pad \in {<<>>, <<Space>>}, NEW wrong \in BOOLEAN
  PROVE  Payload(app, IF wrong THEN OtherCrc(app) ELSE Crc(app), pad) \in Seq(PayloadChar)
<1> DEFINE crc == IF wrong THEN OtherCrc(app) ELSE Crc(app)
<1>1. app \in Image
  BY CrcAssumption
<1>2. app \in Seq(Byte)
  BY <1>1, ImageIsSeq
<1>3. crc \in CrcValue
  BY <1>1, OtherCrcType
<1> HIDE DEF crc
<1>4. crc \in Seq(Byte)
  BY <1>3, CrcIsSeq
<1>5. pad \in Seq(PayloadChar)
  <2>1. Space \in PayloadChar
    BY Marks
  <2> QED BY <2>1, Appended, EmptySeq
<1>6. Payload(app, crc, pad) \in Seq(PayloadChar)
  BY <1>2, <1>4, <1>5, PayloadType
<1> QED BY <1>6 DEF crc

\* A part of a download is a sequence of characters.
LEMMA PayloadIsChars ==
  Seq(PayloadChar) \subseteq Seq(Char)
<1>1. ASSUME NEW s \in Seq(PayloadChar) PROVE s \in Seq(Char)
  <2>1. \A i \in 1 .. Len(s) : s[i] \in Char
    BY ElementOfSeq, Marks
  <2> QED BY <2>1, IsASeq, LenProperties
<1> QED BY <1>1

\* A host that hears a line.
LEMMA HearTypes ==
  ASSUME TypeOK, polite, NEW name, Hear(name)
  PROVE  /\ host' \in {"await_ready", "start", "await_start", "send", "await_result"}
         /\ app' = app /\ mangled' \in BOOLEAN /\ to_send' \in Seq(Char)
<1>1. CASE host' = "start" /\ to_send' = kBootImgMsg /\ UNCHANGED <<app, mangled>>
  BY <1>1, BootImgMsg DEF TypeOK
<1>2. CASE /\ host' = "send" /\ mangled' = FALSE /\ app' = app
           /\ \E pad \in {<<>>, <<Space>>} :
                to_send' = Payload(app, IF mangled THEN OtherCrc(app) ELSE Crc(app), pad)
  <2>1. to_send' \in Seq(PayloadChar)
    BY <1>2, SendsPayload DEF TypeOK
  <2>2. to_send' \in Seq(Char)
    BY <2>1, PayloadIsChars
  <2> QED BY <1>2, <2>2
<1>3. CASE host' = "await_ready" /\ UNCHANGED <<app, mangled, to_send>>
  BY <1>3 DEF TypeOK
<1> QED BY <1>1, <1>2, <1>3 DEF Hear

\* A character that gets to the host.
LEMMA TransmitTypes ==
  ASSUME TypeOK, UartTransmit
  PROVE  TypeOK'
<1>1. /\ host' \in {"await_ready", "start", "await_start", "send", "await_result"}
      /\ app' = app /\ mangled' \in BOOLEAN /\ to_send' \in Seq(Char)
  <2>1. CASE UNCHANGED hostVars
    BY <2>1 DEF hostVars, TypeOK
  <2>2. CASE polite /\ Hear(line)
    BY <2>2, HearTypes
  <2> QED BY <2>1, <2>2 DEF UartTransmit
<1>2. line' \in Seq(StatusName) /\ heard' \in Seq(StatusName)
  <2>1. CASE ~polite
    BY <2>1 DEF UartTransmit, TypeOK
  <2>2. CASE polite /\ tx # Newline
    <3>1. tx \in StatusName /\ line' = Append(line, tx) /\ heard' = heard
      BY <2>2 DEF UartTransmit, TypeOK
    <3> QED BY <3>1, AppendProperties DEF TypeOK
  <2>3. CASE polite /\ tx = Newline
    <3>1. heard' = line /\ line' = <<>>
      BY <2>3 DEF UartTransmit
    <3> QED BY <3>1, EmptySeq DEF TypeOK
  <2> QED BY <2>1, <2>2, <2>3
<1>3. tx' = NoChar /\ UNCHANGED <<polite, state, advertVars, parserVars, message, rx, input>>
  BY DEF UartTransmit
<1> QED BY <1>1, <1>2, <1>3 DEF TypeOK, advertVars, parserVars

\* A character that the host sends, and the time of the next advertisement.
LEMMA HostTypes ==
  ASSUME TypeOK, PoliteSend \/ RudeSend \/ AdvertiseDue
  PROVE  TypeOK'
<1>1. CASE PoliteSend
  <2>1. Head(to_send) \in Char /\ Tail(to_send) \in Seq(Char)
    BY <1>1, HeadTailProperties DEF TypeOK, PoliteSend
  <2>2. host' \in {"await_ready", "start", "await_start", "send", "await_result"}
    BY <1>1 DEF TypeOK, PoliteSend
  <2> QED BY <1>1, <2>1, <2>2 DEF PoliteSend, TypeOK, advertVars, parserVars
<1>2. CASE RudeSend
  BY <1>2 DEF RudeSend, TypeOK, advertVars, parserVars, hostVars
<1>3. CASE AdvertiseDue
  BY <1>3 DEF AdvertiseDue, TypeOK, parserVars, hostVars
<1> QED BY <1>1, <1>2, <1>3

\* Every step keeps the types.
LEMMA TypesNext ==
  ASSUME TypeOK, [Next]_romVars
  PROVE  TypeOK'
<1>1. CASE UNCHANGED romVars
  BY <1>1 DEF romVars, advertVars, parserVars, hostVars, TypeOK
<1> QED BY <1>1, SendByteTypes, AdvertiseTypes, StartTypes, DownloadTypes, VerifyTypes,
        TransmitTypes, HostTypes DEF Next, Bootloader

(***************************************************************************)
(* The variables of bootloader, UART and host keep their types: neither    *)
(* buffer is ever written past its end.                                    *)
(***************************************************************************)
THEOREM RomTypes == Spec => []TypeOK
BY TypesStart, TypesNext, PTL DEF Spec
-------------------------------------------------------------------------------
(***************************************************************************)
(* What was sent, without its blanks, and how many digits were.            *)
(***************************************************************************)

\* Taking the blanks out puts a sequence in the place of each character.
LEMMA BareSpreads ==
  Spreads(Bare, [c \in Char |-> IF c = Space THEN <<>> ELSE <<c>>], Seq(Char))
<1> DEFINE g == [c \in Char |-> IF c = Space THEN <<>> ELSE <<c>>]
           body(f, s) == IF s = <<>> THEN <<>>
                         ELSE (IF Head(s) = Space THEN <<>> ELSE <<Head(s)>>) \o f[Tail(s)]
<1>1. \A c \in Char : g[c] = IF c = Space THEN <<>> ELSE <<c>>
  OBVIOUS
<1> HIDE DEF g
<1>2. PICK f : IsSpread(f, g, Char)
  BY SpreadExists
<1>3. \A s \in Seq(Char) : s # <<>> => g[Head(s)] = IF Head(s) = Space THEN <<>> ELSE <<Head(s)>>
  BY <1>1, TailIsShorter
<1>4. f = [s \in Seq(Char) |-> body(f, s)]
  BY <1>2, <1>3 DEF IsSpread
<1>5. Bare = [s \in Seq(Char) |-> body(Bare, s)]
  BY <1>4 DEF Bare
<1>6. \A s \in Seq(Char) : Bare[s] = body(Bare, s)
  BY <1>5
<1>7. Spreads(Bare, g, Seq(Char))
  BY <1>3, <1>6 DEF Spreads
<1> QED BY <1>7 DEF g

\* A character that is no blank comes at the end.
LEMMA BareAppend ==
  /\ Bare[<<>>] = <<>>
  /\ \A s \in Seq(Char) : Bare[s] \in Seq(Char)
  /\ \A s \in Seq(Char), c \in Char :
        Bare[Append(s, c)] = IF c = Space THEN Bare[s] ELSE Append(Bare[s], c)
<1> DEFINE g == [c \in Char |-> IF c = Space THEN <<>> ELSE <<c>>]
<1>1. \A c \in Char : g[c] \in Seq(Char) /\ g[c] = IF c = Space THEN <<>> ELSE <<c>>
  BY EmptySeq, Appended
<1>2. Spreads(Bare, g, Seq(Char))
  BY BareSpreads
<1> HIDE DEF g
<1>3. SpreadsTo(Bare, g, Char, Char)
  BY <1>1, <1>2 DEF SpreadsTo
<1>4. \A s \in Seq(Char) : Bare[s] \in Seq(Char)
  BY <1>3, SpreadType
<1>5. FromTheEnd(Bare, g, Char)
  BY <1>3, SpreadAppend
<1>6. Bare[<<>>] = <<>>
  BY <1>2, EmptySeq DEF Spreads
<1>7. ASSUME NEW s \in Seq(Char), NEW c \in Char
      PROVE  Bare[Append(s, c)] = IF c = Space THEN Bare[s] ELSE Append(Bare[s], c)
  <2>1. Bare[Append(s, c)] = Bare[s] \o g[c]
    BY <1>5 DEF FromTheEnd
  <2>2. Bare[s] \in Seq(Char)
    BY <1>4
  <2>3. Bare[s] \o <<>> = Bare[s] /\ Bare[s] \o <<c>> = Append(Bare[s], c)
    BY <2>2, Appended
  <2> QED BY <1>1, <2>1, <2>3
<1> QED BY <1>4, <1>6, <1>7

\* The image, or the CRC, in hex.
Plain(bytes) == Hex(<<>>)[bytes]

\* A byte more is two digits more.
LEMMA PlainAppend ==
  /\ Plain(<<>>) = <<>>
  /\ \A s \in Seq(Byte) : Plain(s) \in Seq(HexDigit)
  /\ \A s \in Seq(Byte), a, b \in HexDigit :
        Plain(Append(s, <<a, b>>)) = Append(Append(Plain(s), a), b)
<1>1. <<>> \in Seq(HexDigit)
  BY EmptySeq
<1>2. /\ \A s \in Seq(Byte) : Hex(<<>>)[s] \in Seq(HexDigit)
      /\ Hex(<<>>)[<<>>] = <<>>
      /\ FromTheEnd(Hex(<<>>), [byte \in Byte |-> <<>> \o byte], Byte)
  BY <1>1, HexType
<1>3. ASSUME NEW s \in Seq(Byte), NEW a \in HexDigit, NEW b \in HexDigit
      PROVE  Plain(Append(s, <<a, b>>)) = Append(Append(Plain(s), a), b)
  <2>1. <<a, b>> \in Byte /\ <<a, b>> \in Seq(HexDigit)
    BY ByteIsPair
  <2>2. Plain(Append(s, <<a, b>>)) = Plain(s) \o (<<>> \o <<a, b>>)
    BY <1>2, <2>1 DEF FromTheEnd, Plain
  <2>3. <<>> \o <<a, b>> = <<a, b>>
    BY <2>1, ConcatEmptySeq
  <2>4. <<a, b>> = Append(<<a>>, b) /\ <<a>> \in Seq(HexDigit)
    OBVIOUS
  <2>5. Plain(s) \in Seq(HexDigit)
    BY <1>2 DEF Plain
  <2>6. Plain(s) \o Append(<<a>>, b) = Append(Plain(s) \o <<a>>, b)
    BY <2>4, <2>5, AppendToConcat
  <2>7. Plain(s) \o <<a>> = Append(Plain(s), a)
    BY <2>5, Appended
  <2> QED BY <2>2, <2>3, <2>4, <2>6, <2>7
<1> QED BY <1>2, <1>3 DEF Plain

\* The digits of what was sent, and those before a character of it.
LEMMA DigitsGrow ==
  ASSUME input \in Seq(Char), NEW c \in Char, input' = Append(input, c),
         NEW m, m = Len(input) + 1
  PROVE  /\ Len(input) \in Nat /\ Len(input') = m
         /\ \A i \in 1 .. Len(input) : input'[i] = input[i] /\ DigitsUpTo(i)' = DigitsUpTo(i)
         /\ input'[m] = c /\ DigitsUpTo(Len(input)) \in Nat
         /\ DigitsUpTo(m)'
              = IF c \in HexDigit THEN DigitsUpTo(Len(input)) + 1 ELSE DigitsUpTo(Len(input))
<1> DEFINE D(s, i) == {j \in 1 .. i : s[j] \in HexDigit}
           n == Len(input)
<1>1. /\ Len(input) \in Nat /\ Len(input') = Len(input) + 1
      /\ \A i \in 1 .. Len(input) : input'[i] = input[i]
      /\ input'[Len(input) + 1] = c
  BY LenProperties, AppendProperties
<1>2. \A i \in 0 .. n : D(input', i) = D(input, i)
  BY <1>1
<1>3. D(input', n + 1) = IF c \in HexDigit THEN D(input, n) \cup {n + 1} ELSE D(input, n)
  BY <1>1
<1>4. IsFiniteSet(D(input, n)) /\ n + 1 \notin D(input, n)
  <2>1. IsFiniteSet(1 .. n)
    BY <1>1, FS_Interval
  <2>2. D(input, n) \subseteq 1 .. n
    OBVIOUS
  <2>3. IsFiniteSet(D(input, n))
    BY <2>1, <2>2, FS_Subset
  <2> QED BY <1>1, <2>2, <2>3
<1>5. Cardinality(D(input, n)) \in Nat
  BY <1>4, FS_CardinalityType
<1>6. Cardinality(D(input, n) \cup {n + 1}) = Cardinality(D(input, n)) + 1
  BY <1>4, FS_AddElement
<1>7. \A i : DigitsUpTo(i) = Cardinality(D(input, i)) /\ DigitsUpTo(i)' = Cardinality(D(input', i))
  BY DEF DigitsUpTo
<1>8. ASSUME NEW i \in 1 .. n PROVE DigitsUpTo(i)' = DigitsUpTo(i)
  <2>1. D(input', i) = D(input, i)
    BY <1>1, <1>2
  <2> HIDE DEF D
  <2> QED BY <1>7, <2>1
<1> HIDE DEF D
<1> QED BY <1>1, <1>3, <1>5, <1>6, <1>7, <1>8
-------------------------------------------------------------------------------
(***************************************************************************)
(* What has been parsed is what was sent: the image, the '$', the CRC and, *)
(* between two digits, the first of them; and the number of digits tells   *)
(* whether the parser is between two.                                      *)
(***************************************************************************)
WithHalf(digits) == IF HexByteStarted THEN Append(digits, hex_partial_byte) ELSE digits

AfterImage == Append(Plain(Received), "$") \o Plain(crc_buffer)

ImageParsed == Bare[input] = WithHalf(Plain(Received)) /\ crc_buffer = <<>>
CrcParsed == Bare[input] = WithHalf(AfterImage) /\ img_bytes_received # 0
AllParsed == Bare[input] = Append(AfterImage, ";")

BlanksCounted ==
  BlanksBetweenBytes /\ DigitsUpTo(Len(input)) % 2 = IF HexByteStarted THEN 1 ELSE 0

ParseInv ==
  /\ state = "STATE_DOWNLOAD_IMAGE" => ImageParsed
  /\ state = "STATE_DOWNLOAD_CRC" => CrcParsed
  /\ state \in {"STATE_VERIFY", "STATE_BOOT_APP", "app"} => AllParsed
  /\ state \in {"STATE_BOOT_APP", "app"} => Crc(Received) = crc_buffer
  /\ state # "STATE_IDLE" => BlanksCounted

\* What has come of the image, and of the CRC, in hex.
LEMMA PartsType ==
  ASSUME TypeOK
  PROVE  /\ Received \in Seq(Byte) /\ Len(Received) = img_bytes_received
         /\ Plain(Received) \in Seq(Char) /\ Plain(crc_buffer) \in Seq(Char)
         /\ Append(Plain(Received), "$") \in Seq(Char) /\ AfterImage \in Seq(Char)
<1>1. IMAGE_BUFFER \in Seq(Byte) /\ img_bytes_received \in 0 .. Len(IMAGE_BUFFER)
  BY ImageIsSeq DEF TypeOK
<1>2. Received \in Seq(Byte) /\ Len(Received) = img_bytes_received
  BY <1>1, LongerPrefix DEF Received
<1>3. crc_buffer \in Seq(Byte)
  BY DEF TypeOK
<1>4. HexDigit \subseteq Char /\ "$" \in Char
  BY Marks
<1>5. <<>> \in Seq(Char)
  BY EmptySeq
<1>6. Plain(Received) \in Seq(Char) /\ Plain(crc_buffer) \in Seq(Char)
  <2>1. \A s \in Seq(Byte) : Hex(<<>>)[s] \in Seq(Char)
    BY <1>4, <1>5, HexType
  <2> QED BY <1>2, <1>3, <2>1 DEF Plain
<1>7. Append(Plain(Received), "$") \in Seq(Char)
  BY <1>4, <1>6, Appended
<1>8. AfterImage \in Seq(Char)
  <2>1. \A p, q \in Seq(Char) : p \o q \in Seq(Char)
    BY ConcatIsSeq
  <2> QED BY <1>6, <1>7, <2>1 DEF AfterImage
<1> QED BY <1>2, <1>6, <1>7, <1>8

\* Odd and even.
LEMMA Parity ==
  /\ \A n \in Nat : n % 2 = 0 \/ n % 2 = 1
  /\ \A n \in Nat : n % 2 = 0 => (n + 1) % 2 = 1
  /\ \A n \in Nat : n % 2 = 1 => (n + 1) % 2 = 0
OBVIOUS

\* One number more.
LEMMA OneMore ==
  ASSUME NEW n \in Nat, NEW m, m = n + 1, NEW k \in 1 .. m
  PROVE  k \in 1 .. n \/ k = m
OBVIOUS

\* Two characters at the end of the second part are at the end of the whole.
LEMMA AppendTwo ==
  ASSUME NEW S
  PROVE  \A p, q \in Seq(S), x, y \in S :
            p \o Append(Append(q, x), y) = Append(Append(p \o q, x), y)
<1> SUFFICES ASSUME NEW p \in Seq(S), NEW q \in Seq(S), NEW x \in S, NEW y \in S
             PROVE  p \o Append(Append(q, x), y) = Append(Append(p \o q, x), y)
  OBVIOUS
<1>1. Append(q, x) \in Seq(S)
  BY AppendProperties
<1>2. p \o Append(Append(q, x), y) = Append(p \o Append(q, x), y)
  BY <1>1, AppendToConcat
<1>3. p \o Append(q, x) = Append(p \o q, x)
  BY AppendToConcat
<1> QED BY <1>2, <1>3

\* A byte more of a download keeps the count of the digits.
LEMMA BlanksGrow ==
  ASSUME TypeOK, Taken, BlanksCounted, NEW next,
         Pends \/ Completes \/ (rx \in {"$", ";"} /\ Ends(next))
  PROVE  BlanksCounted'
<1>1. input \in Seq(Char) /\ rx \in Char /\ input' = Append(input, rx)
  BY DEF TypeOK, Taken
<1> DEFINE d == DigitsUpTo(Len(input))
<1>2. PICK m : m = Len(input) + 1
  OBVIOUS
<1>3. /\ Len(input) \in Nat /\ Len(input') = m /\ d \in Nat
      /\ \A i \in 1 .. Len(input) : input'[i] = input[i] /\ DigitsUpTo(i)' = DigitsUpTo(i)
      /\ input'[m] = rx
      /\ DigitsUpTo(m)' = IF rx \in HexDigit THEN d + 1 ELSE d
  BY <1>1, <1>2, DigitsGrow
<1>4. DOMAIN input = 1 .. Len(input) /\ DOMAIN input' = 1 .. m
  <2>1. input' \in Seq(Char)
    BY <1>1, AppendProperties
  <2> QED BY <1>1, <1>3, <2>1, LenProperties
<1>5. /\ \A i \in DOMAIN input : input[i] = Space => DigitsUpTo(i) % 2 = 0
      /\ d % 2 = IF HexByteStarted THEN 1 ELSE 0
  BY DEF BlanksCounted, BlanksBetweenBytes
<1> HIDE DEF d
<1>6. DigitsUpTo(Len(input))' = DigitsUpTo(m)'
  BY <1>3 DEF DigitsUpTo
<1>7. /\ rx = Space => d % 2 = 0
      /\ DigitsUpTo(m)' % 2 = IF HexByteStarted' THEN 1 ELSE 0
  <2>1. CASE ~HexByteStarted /\ rx \notin HexDigit /\ hex_partial_byte' = NoChar
    BY <1>3, <1>5, <2>1 DEF HexByteStarted
  <2>2. CASE ~HexByteStarted /\ rx \in HexDigit /\ hex_partial_byte' = rx
    <3>1. HexByteStarted' /\ rx # Space
      BY <2>2, Marks DEF HexByteStarted
    <3>2. d % 2 = 0 /\ (d + 1) % 2 = 1
      BY <1>3, <1>5, <2>2, Parity
    <3> QED BY <1>3, <2>2, <3>1, <3>2
  <2>3. CASE HexByteStarted /\ rx \in HexDigit /\ hex_partial_byte' = NoChar
    <3>1. ~HexByteStarted' /\ rx # Space
      BY <2>3, Marks DEF HexByteStarted
    <3>2. (d + 1) % 2 = 0
      BY <1>3, <1>5, <2>3, Parity
    <3> QED BY <1>3, <2>3, <3>1, <3>2
  <2> QED BY <2>1, <2>2, <2>3, Marks DEF Pends, Completes, Ends
<1>8. ASSUME NEW i \in DOMAIN input', input'[i] = Space PROVE DigitsUpTo(i)' % 2 = 0
  <2>1. CASE i \in 1 .. Len(input)
    BY <1>3, <1>4, <1>5, <1>8, <2>1
  <2>2. CASE i = m
    <3>1. rx = Space /\ rx \notin HexDigit
      BY <1>3, <1>8, <2>2, Marks
    <3> QED BY <1>3, <1>7, <2>2, <3>1
  <2>3. i \in 1 .. Len(input) \/ i = m
    <3>1. i \in 1 .. m
      BY <1>4, <1>8
    <3> QED BY <1>2, <1>3, <3>1, OneMore
  <2> QED BY <2>1, <2>2, <2>3
<1> QED BY <1>6, <1>7, <1>8 DEF BlanksCounted, BlanksBetweenBytes

\* Nothing is parsed when nothing is read.
LEMMA ParseKept ==
  ASSUME ParseInv, UNCHANGED <<state, parserVars>>, state = "STATE_IDLE" \/ input' = input
  PROVE  ParseInv'
BY DEF ParseInv, ImageParsed, CrcParsed, AllParsed, BlanksCounted, BlanksBetweenBytes, WithHalf,
       AfterImage, HexByteStarted, Received, parserVars, DigitsUpTo

\* The first byte is looked for with nothing parsed.
LEMMA ParseStart ==
  ASSUME TypeOK, ParseInv, PollDownloadStart
  PROVE  ParseInv'
<1>1. CASE Matched(rx) # Len(kBootImgMsg)
  BY <1>1, ParseKept DEF PollDownloadStart
<1>2. CASE Matched(rx) = Len(kBootImgMsg)
  <2>1. /\ state' = "STATE_DOWNLOAD_IMAGE" /\ input' = <<>> /\ crc_buffer' = <<>>
        /\ img_bytes_received' = 0 /\ hex_partial_byte' = NoChar /\ IMAGE_BUFFER' = IMAGE_BUFFER
    BY <1>2 DEF PollDownloadStart, ResetDownloadState
  <2>2. Received' = <<>>
    BY <2>1 DEF Received
  <2>3. ImageParsed'
    BY <2>1, <2>2, BareAppend, PlainAppend DEF ImageParsed, WithHalf, HexByteStarted
  <2>4. BlanksCounted'
    <3>1. Len(input') = 0 /\ DOMAIN input' = {}
      BY <2>1
    <3>2. DigitsUpTo(Len(input))' = 0
      <4>1. DigitsUpTo(Len(input))' = Cardinality({j \in 1 .. 0 : input'[j] \in HexDigit})
        BY <3>1 DEF DigitsUpTo
      <4>2. {j \in 1 .. 0 : input'[j] \in HexDigit} = {}
        OBVIOUS
      <4> QED BY <4>1, <4>2, FS_EmptySet
    <3> QED BY <2>1, <3>1, <3>2 DEF BlanksCounted, BlanksBetweenBytes, HexByteStarted
  <2> QED BY <2>1, <2>3, <2>4 DEF ParseInv
<1> QED BY <1>1, <1>2

\* A byte of the image is parsed.
LEMMA ParseImage ==
  ASSUME TypeOK, ParseInv, DownloadImage
  PROVE  ParseInv'
<1>1. Taken /\ state = "STATE_DOWNLOAD_IMAGE"
  BY ImageCases
<1>2. ImageParsed /\ BlanksCounted
  BY <1>1 DEF ParseInv
<1>3. /\ input \in Seq(Char) /\ rx \in Char /\ input' = Append(input, rx)
      /\ Bare[input'] = IF rx = Space THEN Bare[input] ELSE Append(Bare[input], rx)
  BY <1>1, BareAppend DEF TypeOK, Taken
<1>4. CASE FailDownload("DL_ERROR")
  BY <1>4 DEF FailDownload, ParseInv
<1>5. CASE rx = "$" /\ img_bytes_received # 0 /\ Ends("STATE_DOWNLOAD_CRC")
  <2>1. BlanksCounted'
    BY <1>1, <1>2, <1>5, BlanksGrow
  <2>2. /\ state' = "STATE_DOWNLOAD_CRC" /\ img_bytes_received' # 0 /\ ~HexByteStarted'
        /\ Received' = Received /\ crc_buffer' = <<>> /\ Bare[input] = Plain(Received)
    BY <1>2, <1>5 DEF Ends, ImageParsed, HexByteStarted, Received, WithHalf
  <2>3. Bare[input'] = Append(Plain(Received), "$")
    BY <1>3, <1>5, <2>2, Marks
  <2>4. AfterImage' = Append(Plain(Received), "$")
    <3>1. AfterImage' = Append(Plain(Received), "$") \o <<>>
      BY <2>2, PlainAppend DEF AfterImage
    <3>2. Append(Plain(Received), "$") \in Seq(Char)
      BY PartsType
    <3> QED BY <3>1, <3>2, ConcatEmptySeq
  <2> QED BY <2>1, <2>2, <2>3, <2>4 DEF ParseInv, CrcParsed, WithHalf
<1>6. CASE Pends
  <2>1. BlanksCounted'
    BY <1>1, <1>2, <1>6, BlanksGrow
  <2>2. state' = state /\ Received' = Received /\ crc_buffer' = crc_buffer /\ ~HexByteStarted
        /\ Bare[input] = Plain(Received) /\ crc_buffer = <<>>
    BY <1>2, <1>6 DEF Pends, Received, ImageParsed, WithHalf
  <2>3. Bare[input'] = WithHalf(Plain(Received))'
    BY <1>3, <1>6, <2>2, Marks DEF Pends, WithHalf, HexByteStarted
  <2> QED BY <1>1, <2>1, <2>2, <2>3 DEF ParseInv, ImageParsed
<1>7. CASE /\ Completes /\ StoreImageByte(<<hex_partial_byte, rx>>)
           /\ ~(img_bytes_received >= kMaxImgBytes)
  <2>1. BlanksCounted'
    BY <1>1, <1>2, <1>7, BlanksGrow
  <2>2. /\ HexByteStarted /\ hex_partial_byte \in HexDigit /\ rx \in HexDigit /\ ~HexByteStarted'
        /\ state' = state /\ <<hex_partial_byte, rx>> \in Byte
    BY <1>7 DEF Completes, HexByteStarted
  <2>3. /\ Received \in Seq(Byte)
        /\ Received' = Append(Received, <<hex_partial_byte, rx>>) /\ crc_buffer' = crc_buffer
    BY <1>7, <2>2, Stored DEF StoreImageByte
  <2>4. Bare[input'] = Append(Append(Plain(Received), hex_partial_byte), rx) /\ crc_buffer = <<>>
    BY <1>2, <1>3, <2>2, Marks DEF ImageParsed, WithHalf
  <2>5. Bare[input'] = Plain(Received')
    BY <2>2, <2>3, <2>4, PlainAppend
  <2>6. ImageParsed'
    BY <2>2, <2>3, <2>4, <2>5 DEF ImageParsed, WithHalf, Plain
  <2> QED BY <1>1, <2>1, <2>2, <2>6 DEF ParseInv
<1> QED BY <1>4, <1>5, <1>6, <1>7, ImageCases

\* A byte of the CRC is parsed.
LEMMA ParseCrc ==
  ASSUME TypeOK, ParseInv, DownloadCrc
  PROVE  ParseInv'
<1>1. Taken /\ state = "STATE_DOWNLOAD_CRC"
  BY CrcCases
<1>2. CrcParsed /\ BlanksCounted
  BY <1>1 DEF ParseInv
<1>3. /\ input \in Seq(Char) /\ rx \in Char /\ input' = Append(input, rx)
      /\ Bare[input'] = IF rx = Space THEN Bare[input] ELSE Append(Bare[input], rx)
  BY <1>1, BareAppend DEF TypeOK, Taken
<1>4. CASE FailDownload("DL_ERROR")
  BY <1>4 DEF FailDownload, ParseInv
<1>5. CASE rx = ";" /\ Ends("STATE_VERIFY")
  <2>1. BlanksCounted'
    BY <1>1, <1>2, <1>5, BlanksGrow
  <2>2. /\ state' = "STATE_VERIFY" /\ Bare[input] = AfterImage /\ AfterImage' = AfterImage
    BY <1>2, <1>5 DEF Ends, CrcParsed, Received, WithHalf, AfterImage
  <2>3. Bare[input'] = Append(AfterImage, ";")
    BY <1>3, <1>5, <2>2, Marks
  <2> QED BY <2>1, <2>2, <2>3 DEF ParseInv, AllParsed
<1>6. CASE Pends
  <2>1. BlanksCounted'
    BY <1>1, <1>2, <1>6, BlanksGrow
  <2>2. state' = state /\ AfterImage' = AfterImage /\ img_bytes_received' = img_bytes_received
        /\ Bare[input] = AfterImage /\ img_bytes_received # 0
    BY <1>2, <1>6 DEF Pends, Received, CrcParsed, WithHalf, AfterImage
  <2>3. Bare[input'] = WithHalf(AfterImage)'
    BY <1>3, <1>6, <2>2, Marks DEF Pends, WithHalf, HexByteStarted
  <2> QED BY <1>1, <2>1, <2>2, <2>3 DEF ParseInv, CrcParsed
<1>7. CASE Completes /\ StoreCrcByte(<<hex_partial_byte, rx>>)
  <2> DEFINE p == Append(Plain(Received), "$")
             q == Plain(crc_buffer)
  <2>1. BlanksCounted'
    BY <1>1, <1>2, <1>7, BlanksGrow
  <2>2. /\ HexByteStarted /\ hex_partial_byte \in HexDigit /\ rx \in HexDigit /\ ~HexByteStarted'
        /\ state' = state /\ <<hex_partial_byte, rx>> \in Byte
    BY <1>7 DEF Completes, HexByteStarted
  <2>3. /\ crc_buffer \in Seq(Byte) /\ crc_buffer' = Append(crc_buffer, <<hex_partial_byte, rx>>)
        /\ Received' = Received /\ img_bytes_received' = img_bytes_received
    BY <1>7, <2>2 DEF StoreCrcByte, Received, TypeOK
  <2>4. Bare[input'] = Append(Append(p \o q, hex_partial_byte), rx) /\ img_bytes_received # 0
    BY <1>2, <1>3, <2>2, Marks DEF CrcParsed, WithHalf, AfterImage
  <2>5. /\ p \in Seq(Char) /\ q \in Seq(Char) /\ hex_partial_byte \in Char /\ rx \in Char
        /\ Append(q, hex_partial_byte) \in Seq(Char)
    <3>1. p \in Seq(Char) /\ q \in Seq(Char) /\ hex_partial_byte \in Char /\ rx \in Char
      BY <2>2, PartsType, Marks
    <3> QED BY <3>1, Appended
  <2>6. Plain(crc_buffer') = Append(Append(q, hex_partial_byte), rx)
    BY <2>2, <2>3, PlainAppend
  <2>7. AfterImage' = p \o Append(Append(q, hex_partial_byte), rx)
    <3>1. AfterImage' = Append(Plain(Received'), "$") \o Plain(crc_buffer')
      BY DEF AfterImage, Plain
    <3> QED BY <2>3, <2>6, <3>1
  <2> HIDE DEF p, q
  <2>8. AfterImage' = Append(Append(p \o q, hex_partial_byte), rx)
    <3>1. \A a, b \in Seq(Char), x, y \in Char :
            a \o Append(Append(b, x), y) = Append(Append(a \o b, x), y)
      BY AppendTwo
    <3> QED BY <2>5, <2>7, <3>1, Zenon
  <2>9. CrcParsed'
    BY <2>2, <2>3, <2>4, <2>8 DEF CrcParsed, WithHalf
  <2> QED BY <1>1, <2>1, <2>2, <2>9 DEF ParseInv
<1> QED BY <1>4, <1>5, <1>6, <1>7, CrcCases

\* The verification and the start of the application.
LEMMA ParseVerify ==
  ASSUME ParseInv, VerifyApp \/ BootApp
  PROVE  ParseInv'
<1>1. CASE state' = "STATE_IDLE"
  BY <1>1 DEF ParseInv
<1>2. CASE /\ state \in {"STATE_VERIFY", "STATE_BOOT_APP"} /\ state' \in {"STATE_BOOT_APP", "app"}
           /\ Crc(Received) = crc_buffer /\ UNCHANGED <<parserVars, input>>
  <2>1. AllParsed' /\ Crc(Received') = crc_buffer'
    BY <1>2 DEF ParseInv, AllParsed, AfterImage, Received, parserVars
  <2>2. BlanksCounted'
    BY <1>2 DEF ParseInv, BlanksCounted, BlanksBetweenBytes, DigitsUpTo, HexByteStarted, parserVars
  <2> QED BY <1>2, <2>1, <2>2 DEF ParseInv, Received
<1>3. CASE VerifyApp
  BY <1>1, <1>2, <1>3 DEF VerifyApp, Verified, FailDownload
<1>4. CASE BootApp
  BY <1>2, <1>4 DEF BootApp, ParseInv
<1> QED BY <1>3, <1>4

\* Every step keeps it.
LEMMA ParseNext ==
  ASSUME TypeOK, ParseInv, [Next]_romVars
  PROVE  ParseInv'
<1>1. CASE UNCHANGED romVars
  BY <1>1, ParseKept DEF romVars
<1>2. CASE SendByte
  BY <1>2, ParseKept DEF SendByte
<1>3. CASE PollAdvertise \/ UartTransmit \/ PoliteSend \/ RudeSend \/ AdvertiseDue
  BY <1>3, ParseKept DEF PollAdvertise, UartTransmit, PoliteSend, RudeSend, AdvertiseDue
<1> QED BY <1>1, <1>2, <1>3, ParseStart, ParseImage, ParseCrc, ParseVerify DEF Next, Bootloader

\* What is booted is what was sent.
LEMMA ParsedIsSent ==
  ASSUME TypeOK, ParseInv
  PROVE  BootsWhatWasSent
<1> SUFFICES ASSUME state \in {"STATE_BOOT_APP", "app"}
             PROVE  Sent(Received, Crc(Received)) /\ BlanksBetweenBytes
  BY DEF BootsWhatWasSent
<1>1. /\ Bare[input] = Append(Append(Plain(Received), "$") \o Plain(crc_buffer), ";")
      /\ crc_buffer = Crc(Received) /\ BlanksBetweenBytes
  BY DEF ParseInv, AllParsed, AfterImage, BlanksCounted
<1>2. /\ Plain(Received) \in Seq(Char) /\ AfterImage \in Seq(Char) /\ "$" \in Char /\ ";" \in Char
  BY PartsType, Marks
<1>3. /\ Append(Plain(Received), "$") = Plain(Received) \o <<"$">>
      /\ Append(AfterImage, ";") = AfterImage \o <<";">>
  BY <1>2, Appended
<1>4. Bare[input] = ((Plain(Received) \o <<"$">>) \o Plain(crc_buffer)) \o <<";">>
  BY <1>1, <1>3 DEF AfterImage
<1>5. Sent(Received, crc_buffer)
  BY <1>4 DEF Sent, Payload, Plain
<1> QED BY <1>1, <1>5

(***************************************************************************)
(* Whatever is sent, and however often, the application that is booted is  *)
(* the image of the last download, and the CRC that came with it its own.  *)
(***************************************************************************)
THEOREM WhatWasSentIsBooted == Spec => []BootsWhatWasSent
<1>1. Init => ParseInv
  BY DEF Init, ParseInv
<1>2. TypeOK /\ ParseInv /\ [Next]_romVars => ParseInv'
  BY ParseNext
<1>3. TypeOK /\ ParseInv => BootsWhatWasSent
  BY ParsedIsSent
<1>4. Spec => []TypeOK
  BY RomTypes
<1> QED BY <1>1, <1>2, <1>3, <1>4, PTL DEF Spec
-------------------------------------------------------------------------------
(***************************************************************************)
(* A line of the advertisement that has been begun is ended before any     *)
(* other, because BOOT_IMG cannot be completed meanwhile: the letter that  *)
(* no download has is sent after a whole BL_READY alone, and before the    *)
(* next is due.  What the host has of a line is what was sent of it.       *)
(***************************************************************************)
Letter(c) == c \notin PayloadChar \cup {NoChar}

LetterSeen == \E i \in 1 .. boot_img_match_index : Letter(kBootImgMsg[i])

OneName == {<<name>> : name \in StatusName}

Begun == \/ advertise_index = 1 /\ message = <<>>
         \/ advertise_index = 0 /\ message = <<Newline>>

NotBegun == advertise_index = 0 /\ message # <<Newline>>

LineKept ==
  /\ tx = NoChar => \/ line = <<>> /\ NotBegun
                    \/ line \in OneName /\ Begun
  /\ tx \in StatusName => line = <<>> /\ Begun
  /\ tx = Newline => line \in OneName /\ NotBegun
  /\ message = <<Newline>> => tx # "BL_READY" /\ line # <<"BL_READY">>
  /\ message = <<>> \/ Head(message) # "BL_READY"

LetterKept ==
  /\ (\E i \in DOMAIN to_send : Letter(to_send[i])) => host = "start"
  /\ host = "start" => advertise_index = 0 /\ ~advertise_due
  /\ tx = Newline /\ line = <<"BL_READY">> => ~advertise_due
  /\ advertise_index = 1 => state = "STATE_IDLE" /\ ~Letter(rx) /\ ~LetterSeen

LineInv ==
  /\ polite => LineKept /\ LetterKept
  /\ heard \in {<<>>} \cup OneName
  /\ ~polite => heard = <<>>

\* The names of the lines are neither the newline nor nothing.
LEMMA Names ==
  /\ Newline # NoChar /\ Newline \notin StatusName /\ NoChar \notin StatusName
  /\ "BL_READY" \in StatusName
  /\ {"DL_START", "DL_ERROR", "CRC_ERROR", "BOOT_APP"} \subseteq StatusName \ {"BL_READY"}
  /\ kAdvertiseMsg[1] = "BL_READY" /\ kAdvertiseMsg[2] = Newline /\ Len(kAdvertiseMsg) = 2
BY DEF Newline, NoChar, StatusName, kAdvertiseMsg

\* A line is its name and the newline.
LEMMA LineParts ==
  /\ \A name \in StatusName :
        /\ <<name, Newline>> # <<>> /\ <<name, Newline>> # <<Newline>>
        /\ Head(<<name, Newline>>) = name /\ Tail(<<name, Newline>>) = <<Newline>>
  /\ <<Newline>> # <<>> /\ Head(<<Newline>>) = Newline /\ Tail(<<Newline>>) = <<>>
  /\ \A name : <<name>> # <<>> /\ (<<name>> = <<"BL_READY">> => name = "BL_READY")
<1>1. ASSUME NEW name
      PROVE  /\ <<name, Newline>> # <<>> /\ <<name, Newline>> # <<Newline>>
             /\ Head(<<name, Newline>>) = name /\ Tail(<<name, Newline>>) = <<Newline>>
  <2>1. Len(<<name, Newline>>) = 2 /\ Len(<<Newline>>) = 1 /\ Len(<<>>) = 0
    OBVIOUS
  <2>2. Head(<<name, Newline>>) = name /\ Tail(<<name, Newline>>) = <<Newline>>
    OBVIOUS
  <2> QED BY <2>1, <2>2
<1>2. <<Newline>> # <<>> /\ Head(<<Newline>>) = Newline /\ Tail(<<Newline>>) = <<>>
  OBVIOUS
<1>3. ASSUME NEW name PROVE <<name>> # <<>> /\ (<<name>> = <<"BL_READY">> => name = "BL_READY")
  OBVIOUS
<1> QED BY <1>1, <1>2, <1>3

\* A line that is begun while no other is.
LEMMA LineBegins ==
  ASSUME LineKept, LetterKept, message = <<>>, advertise_index = 0,
         NEW name \in StatusName \ {"BL_READY"}, message' = <<name, Newline>>,
         UNCHANGED <<advertise_index, advertise_due, tx, line, host, to_send>>
  PROVE  LineKept' /\ LetterKept'
<1>1. ~Begun
  BY LineParts DEF Begun
<1>2. message' # <<>> /\ message' # <<Newline>> /\ Head(message') = name
  BY LineParts
<1>3. LineKept'
  BY <1>1, <1>2 DEF LineKept, NotBegun, OneName
<1>4. LetterKept'
  BY DEF LetterKept
<1> QED BY <1>3, <1>4

\* Nothing is sent and no letter is read.
LEMMA LineStays ==
  ASSUME LineKept, LetterKept,
         advertise_index = 0 \/ (state' = "STATE_IDLE" /\ ~Letter(rx') /\ ~LetterSeen'),
         UNCHANGED <<message, advertise_index, advertise_due, tx, line, host, to_send>>
  PROVE  LineKept' /\ LetterKept'
BY DEF LineKept, LetterKept, Begun, NotBegun, OneName

\* The next character of a line is sent.
LEMMA LineSend ==
  ASSUME TypeOK, LineKept, LetterKept, SendByte
  PROVE  LineKept' /\ LetterKept'
<1>1. /\ message # <<>> /\ tx = NoChar /\ tx' = Head(message) /\ message' = Tail(message)
      /\ UNCHANGED <<advertise_index, advertise_due, line, host, to_send, state, rx,
                     boot_img_match_index>>
  BY DEF SendByte, advertVars, hostVars
<1>2. CASE message = <<Newline>>
  <2>1. tx' = Newline /\ message' = <<>> /\ message' # <<Newline>>
    BY <1>1, <1>2, LineParts
  <2>2. line \in OneName /\ Begun /\ advertise_index = 0
    BY <1>1, <1>2, LineParts DEF LineKept, NotBegun, Begun
  <2>3. line # <<"BL_READY">>
    BY <1>2 DEF LineKept
  <2>4. LineKept'
    BY <1>1, <2>1, <2>2, Names DEF LineKept, NotBegun, OneName
  <2>5. LetterKept'
    BY <1>1, <2>2, <2>3 DEF LetterKept
  <2> QED BY <2>4, <2>5
<1>3. ASSUME NEW name \in StatusName, message = <<name, Newline>>
      PROVE  LineKept' /\ LetterKept'
  <2>1. tx' = name /\ message' = <<Newline>> /\ message' # <<>> /\ Head(message') = Newline
    BY <1>1, <1>3, LineParts
  <2>2. line = <<>> /\ NotBegun /\ advertise_index = 0 /\ name # "BL_READY"
    BY <1>1, <1>3, LineParts DEF LineKept, NotBegun, Begun
  <2>3. Begun' /\ line' # <<"BL_READY">>
    BY <1>1, <2>1, <2>2, LineParts DEF Begun
  <2>4. LineKept'
    BY <1>1, <1>3, <2>1, <2>2, <2>3, Names DEF LineKept
  <2>5. LetterKept'
    BY <1>1, <1>3, <2>1, <2>2, Names DEF LetterKept
  <2> QED BY <2>4, <2>5
<1> QED BY <1>1, <1>2, <1>3 DEF TypeOK

\* A character of the advertisement.
LEMMA LineAdvertise ==
  ASSUME TypeOK, LineKept, LetterKept, PollAdvertise
  PROVE  LineKept' /\ LetterKept'
<1>1. /\ message = <<>> /\ message' = <<>> /\ tx = NoChar /\ state = "STATE_IDLE" /\ rx = NoChar
      /\ boot_img_match_index = 0 /\ (advertise_index = 0 => advertise_due)
      /\ tx' = kAdvertiseMsg[advertise_index + 1]
      /\ advertise_index' = (advertise_index + 1) % 2
      /\ advertise_due' = (advertise_due /\ advertise_index' # 0)
      /\ UNCHANGED <<state, boot_img_match_index, rx, line, host, to_send>>
  BY Names DEF PollAdvertise, Polling, Advertised, hostVars
<1>2. advertise_index = 0 \/ advertise_index = 1
  BY Names DEF TypeOK
<1>3. message # <<Newline>>
  BY <1>1, LineParts
<1>4. CASE advertise_index = 0
  <2>1. tx' = "BL_READY" /\ advertise_index' = 1 /\ host # "start"
    BY <1>1, <1>4, Names DEF LetterKept
  <2>2. line = <<>> /\ ~Letter(rx) /\ ~LetterSeen
    BY <1>1, <1>3, <1>4 DEF LineKept, Begun, Letter, LetterSeen
  <2>3. LineKept'
    BY <1>1, <1>3, <2>1, <2>2, Names DEF LineKept, Begun
  <2>4. LetterKept'
    BY <1>1, <2>1, <2>2, Names DEF LetterKept, LetterSeen
  <2> QED BY <2>3, <2>4
<1>5. CASE advertise_index = 1
  <2>1. tx' = Newline /\ advertise_index' = 0 /\ advertise_due' = FALSE /\ host # "start"
    <3>1. advertise_index + 1 = 2 /\ advertise_index' = 0
      BY <1>1, <1>5
    <3>2. tx' = Newline /\ advertise_due' = FALSE
      BY <1>1, <3>1, Names
    <3>3. host # "start"
      BY <1>5 DEF LetterKept
    <3> QED BY <3>1, <3>2, <3>3
  <2>2. line \in OneName
    BY <1>1, <1>5 DEF LineKept, NotBegun
  <2>3. LineKept'
    BY <1>1, <1>3, <2>1, <2>2, Names DEF LineKept, NotBegun, OneName
  <2>4. LetterKept'
    BY <1>1, <2>1 DEF LetterKept
  <2> QED BY <2>3, <2>4
<1> QED BY <1>2, <1>4, <1>5

\* A letter of BOOT_IMG that has been read.
LEMMA LetterMatched ==
  ASSUME TypeOK, rx # NoChar, ~Letter(rx), ~LetterSeen
  PROVE  /\ \A i \in 1 .. Matched(rx) : ~Letter(kBootImgMsg[i])
         /\ Matched(rx) # Len(kBootImgMsg)
<1>1. boot_img_match_index \in Nat
  BY BootImgMsg DEF TypeOK
<1>2. \A i \in 1 .. boot_img_match_index : ~Letter(kBootImgMsg[i])
  BY DEF LetterSeen
<1>3. \A i \in 1 .. Matched(rx) : ~Letter(kBootImgMsg[i])
  <2>1. CASE rx = kBootImgMsg[boot_img_match_index + 1]
    <3>1. Matched(rx) = boot_img_match_index + 1
      BY <2>1 DEF Matched
    <3> QED BY <1>1, <1>2, <2>1, <3>1, OneMore
  <2>2. CASE rx # kBootImgMsg[boot_img_match_index + 1] /\ rx = kBootImgMsg[1]
    BY <2>2 DEF Matched
  <2>3. CASE rx # kBootImgMsg[boot_img_match_index + 1] /\ rx # kBootImgMsg[1]
    BY <2>3 DEF Matched
  <2> QED BY <2>1, <2>2, <2>3
<1>4. PICK i \in 1 .. Len(kBootImgMsg) : Letter(kBootImgMsg[i])
  <2>1. PICK i \in DOMAIN kBootImgMsg : kBootImgMsg[i] \notin PayloadChar
    BY CharAssumption
  <2>2. i \in 1 .. Len(kBootImgMsg) /\ kBootImgMsg[i] \in Char
    BY <2>1, BootImgMsg, LenProperties, ElementOfSeq
  <2> QED BY <2>1, <2>2, Marks DEF Letter
<1> QED BY <1>3, <1>4

\* A byte is read while the bootloader is idle.
LEMMA LineStart ==
  ASSUME TypeOK, LineKept, LetterKept, PollDownloadStart
  PROVE  LineKept' /\ LetterKept'
<1>1. /\ message = <<>> /\ state = "STATE_IDLE" /\ rx # NoChar /\ rx' = NoChar
      /\ UNCHANGED <<advertise_index, advertise_due, tx, line, host, to_send>>
  BY DEF PollDownloadStart, Polling, hostVars
<1>2. advertise_index = 0 \/ advertise_index = 1
  BY Names DEF TypeOK
<1>3. advertise_index = 1 => /\ \A i \in 1 .. Matched(rx) : ~Letter(kBootImgMsg[i])
                             /\ Matched(rx) # Len(kBootImgMsg)
  BY <1>1, LetterMatched DEF LetterKept
<1>4. CASE Matched(rx) = Len(kBootImgMsg)
  <2>1. message' = <<"DL_START", Newline>> /\ "DL_START" \in StatusName \ {"BL_READY"}
    BY <1>4, Names DEF PollDownloadStart
  <2> QED BY <1>1, <1>2, <1>3, <1>4, <2>1, LineBegins
<1>5. CASE Matched(rx) # Len(kBootImgMsg)
  <2>1. boot_img_match_index' = Matched(rx) /\ state' = state /\ message' = message
    BY <1>5 DEF PollDownloadStart
  <2>2. ~Letter(rx')
    BY <1>1 DEF Letter
  <2>3. advertise_index = 1 => ~LetterSeen'
    BY <1>3, <2>1 DEF LetterSeen
  <2> QED BY <1>1, <1>2, <2>1, <2>2, <2>3, LineStays
<1> QED BY <1>4, <1>5

\* A byte of a download, the verification and the start of the application.
LEMMA LineDownload ==
  ASSUME TypeOK, LineKept, LetterKept, DownloadImage \/ DownloadCrc \/ VerifyApp \/ BootApp
  PROVE  LineKept' /\ LetterKept'
<1>1. /\ message = <<>> /\ state # "STATE_IDLE"
      /\ UNCHANGED <<advertise_index, advertise_due, tx, line, host, to_send>>
  BY DEF DownloadImage, DownloadCrc, Download, VerifyApp, BootApp, Polling, hostVars, advertVars
<1>2. advertise_index = 0
  BY <1>1, Names DEF TypeOK, LetterKept
<1>3. \/ message' = message
      \/ \E name \in {"DL_ERROR", "CRC_ERROR", "BOOT_APP"} : message' = <<name, Newline>>
  BY DEF DownloadImage, DownloadCrc, Download, VerifyApp, BootApp, FailDownload
<1> QED BY <1>1, <1>2, <1>3, Names, LineBegins, LineStays

\* A character gets to the host.
LEMMA LineHeard ==
  ASSUME TypeOK, polite, LineKept, LetterKept, UartTransmit
  PROVE  LineKept' /\ LetterKept' /\ heard' \in {<<>>, heard} \cup OneName
<1>1. /\ tx # NoChar /\ tx' = NoChar
      /\ UNCHANGED <<state, message, rx, advertise_index, advertise_due, boot_img_match_index>>
      /\ LetterSeen' = LetterSeen
  BY DEF UartTransmit, advertVars, LetterSeen
<1>2. CASE tx \in StatusName
  <2>1. tx # Newline /\ line = <<>> /\ Begun
    BY <1>2, Names DEF LineKept
  <2>2. line' = Append(line, tx) /\ heard' = heard /\ host' = host /\ to_send' = to_send
    BY <2>1 DEF UartTransmit, hostVars
  <2>3. line' = <<tx>>
    BY <2>1, <2>2
  <2>4. line' \in OneName /\ Begun'
    BY <1>1, <1>2, <2>1, <2>3 DEF OneName, Begun
  <2>5. LineKept'
    BY <1>1, <2>3, <2>4, LineParts, Names DEF LineKept
  <2>6. LetterKept'
    BY <1>1, <2>2, Names DEF LetterKept
  <2> QED BY <2>2, <2>5, <2>6
<1>3. CASE tx = Newline
  <2>1. line \in OneName /\ NotBegun /\ advertise_index = 0
    BY <1>3 DEF LineKept, NotBegun
  <2>2. heard' = line /\ line' = <<>> /\ IF Knows(line) THEN Hear(line) ELSE UNCHANGED hostVars
    BY <1>3 DEF UartTransmit
  <2>3. LineKept'
    BY <1>1, <2>1, <2>2, LineParts, Names DEF LineKept, NotBegun
  <2>4. LetterKept'
    <3>1. CASE UNCHANGED hostVars
      BY <1>1, <2>1, <3>1, Names DEF LetterKept, hostVars
    <3>2. CASE host' = "start" /\ line = <<"BL_READY">>
      BY <1>1, <1>3, <2>1, <3>2, Names DEF LetterKept
    <3>3. CASE /\ host' = "send"
               /\ \E pad \in {<<>>, <<Space>>} :
                    to_send' = Payload(app, IF mangled THEN OtherCrc(app) ELSE Crc(app), pad)
      <4>1. to_send' \in Seq(PayloadChar)
        BY <3>3, SendsPayload DEF TypeOK
      <4>2. \A i \in DOMAIN to_send' : ~Letter(to_send'[i])
        BY <4>1, LenProperties, ElementOfSeq DEF Letter
      <4> QED BY <1>1, <2>1, <3>3, <4>2, Names DEF LetterKept
    <3>4. CASE host = "await_result" /\ host' = "await_ready" /\ to_send' = to_send
      BY <1>1, <2>1, <3>4, Names DEF LetterKept
    <3> QED BY <2>2, <3>1, <3>2, <3>3, <3>4 DEF Hear
  <2> QED BY <2>1, <2>2, <2>3, <2>4
<1> QED BY <1>1, <1>2, <1>3 DEF TypeOK

\* A polite host sends a character.
LEMMA LineSent ==
  ASSUME TypeOK, LineKept, LetterKept, PoliteSend
  PROVE  LineKept' /\ LetterKept'
<1>1. /\ to_send # <<>> /\ rx' = Head(to_send) /\ to_send' = Tail(to_send)
      /\ UNCHANGED <<state, message, tx, line, advertise_index, advertise_due,
                     boot_img_match_index>>
      /\ LetterSeen' = LetterSeen
      /\ host' = IF Len(to_send) > 1 THEN host
                 ELSE IF host = "start" THEN "await_start" ELSE "await_result"
  BY DEF PoliteSend, advertVars, LetterSeen
<1>2. /\ Len(to_send) \in Nat /\ DOMAIN to_send = 1 .. Len(to_send)
      /\ 1 \in DOMAIN to_send /\ Head(to_send) = to_send[1]
  BY <1>1, LenProperties, HeadTailProperties, EmptySeq DEF TypeOK
<1>3. /\ DOMAIN to_send' = 1 .. Len(to_send) - 1
      /\ \A i \in DOMAIN to_send' : i + 1 \in DOMAIN to_send /\ to_send'[i] = to_send[i + 1]
  BY <1>1, <1>2, HeadTailProperties, LenProperties DEF TypeOK
<1>4. host' = "start" => host = "start"
  BY <1>1
<1>5. (\E i \in DOMAIN to_send' : Letter(to_send'[i])) => host' = "start"
  <2>1. ASSUME NEW i \in DOMAIN to_send', Letter(to_send'[i]) PROVE host' = "start"
    <3>1. Letter(to_send[i + 1]) /\ i + 1 \in DOMAIN to_send
      BY <1>3, <2>1
    <3>2. Len(to_send) > 1
      BY <1>2, <1>3, <2>1
    <3> QED BY <1>1, <3>1, <3>2 DEF LetterKept
  <2> QED BY <2>1
<1>6. advertise_index = 1 => ~Letter(rx')
  BY <1>1, <1>2, Names DEF LetterKept
<1>7. LineKept'
  BY <1>1 DEF LineKept, Begun, NotBegun, OneName
<1>8. LetterKept'
  BY <1>1, <1>4, <1>5, <1>6 DEF LetterKept
<1> QED BY <1>7, <1>8

\* The time of the next line comes when the last has gone.
LEMMA LineOtherwise ==
  ASSUME polite, LineKept, LetterKept, AdvertiseDue \/ UNCHANGED romVars
  PROVE  LineKept' /\ LetterKept'
<1>1. LetterSeen' = LetterSeen
  BY DEF AdvertiseDue, romVars, advertVars, LetterSeen
<1>2. CASE AdvertiseDue
  <2>1. LineKept'
    BY <1>2 DEF AdvertiseDue, LineKept, Begun, NotBegun, OneName
  <2>2. LetterKept'
    BY <1>1, <1>2, Names DEF AdvertiseDue, LetterKept, hostVars
  <2> QED BY <2>1, <2>2
<1>3. CASE UNCHANGED romVars
  <2>1. LineKept'
    BY <1>3 DEF romVars, advertVars, LineKept, Begun, NotBegun, OneName
  <2>2. LetterKept'
    BY <1>1, <1>3 DEF romVars, advertVars, hostVars, LetterKept
  <2> QED BY <2>1, <2>2
<1> QED BY <1>2, <1>3

\* Every step keeps the lines.
LEMMA LineNext ==
  ASSUME TypeOK, LineInv, [Next]_romVars
  PROVE  LineInv'
<1>1. polite' = polite
  BY DEF Next, Bootloader, SendByte, PollAdvertise, PollDownloadStart, DownloadImage, DownloadCrc,
         Download, VerifyApp, BootApp, AdvertiseDue, UartTransmit, PoliteSend, RudeSend, romVars
<1>2. CASE polite
  <2>1. LineKept /\ LetterKept /\ heard \in {<<>>} \cup OneName
    BY <1>2 DEF LineInv
  <2>2. CASE UartTransmit
    BY <1>1, <1>2, <2>1, <2>2, LineHeard DEF LineInv, OneName
  <2>3. CASE ~UartTransmit
    <3>1. heard' = heard
      BY <2>3 DEF Next, Bootloader, SendByte, PollAdvertise, PollDownloadStart, DownloadImage,
                  DownloadCrc, Download, VerifyApp, BootApp, AdvertiseDue, PoliteSend, RudeSend,
                  romVars
    <3>2. ~RudeSend
      BY <1>2 DEF RudeSend
    <3>3. LineKept' /\ LetterKept'
      BY <1>2, <2>1, <2>3, <3>2, LineSend, LineAdvertise, LineStart, LineDownload, LineSent,
         LineOtherwise DEF Next, Bootloader
    <3> QED BY <1>1, <1>2, <2>1, <3>1, <3>3 DEF LineInv, OneName
  <2> QED BY <2>2, <2>3
<1>3. CASE ~polite
  <2>1. heard' = heard
    BY <1>3 DEF Next, Bootloader, SendByte, PollAdvertise, PollDownloadStart, DownloadImage,
                DownloadCrc, Download, VerifyApp, BootApp, AdvertiseDue, UartTransmit, PoliteSend,
                RudeSend, romVars
  <2> QED BY <1>1, <1>3, <2>1 DEF LineInv, OneName
<1> QED BY <1>2, <1>3

\* At the start nothing has been sent.
LEMMA LineAtFirst ==
  ASSUME Init
  PROVE  LineInv
<1>1. LineKept
  BY LineParts, Names DEF Init, LineKept, NotBegun
<1>2. LetterKept
  BY Names DEF Init, LetterKept
<1> QED BY <1>1, <1>2 DEF LineInv, Init

(***************************************************************************)
(* With a polite host no line is sent into another that has been begun:    *)
(* what the host hears as a line is one.                                   *)
(***************************************************************************)
THEOREM EachLineIsOne == Spec => []PoliteLines
<1>1. Init => LineInv
  BY LineAtFirst
<1>2. TypeOK /\ LineInv /\ [Next]_romVars => LineInv'
  BY LineNext
<1>3. LineInv => PoliteLines
  BY DEF LineInv, PoliteLines, OneName
<1>4. Spec => []TypeOK
  BY RomTypes
<1> QED BY <1>1, <1>2, <1>3, <1>4, PTL DEF Spec
-------------------------------------------------------------------------------
(***************************************************************************)
(* What is refused is badly framed.  A download has its marks in two       *)
(* places alone, so what the parser has got by then tells, by its length,  *)
(* what may come next.                                                     *)
(***************************************************************************)

\* A byte is two digits: bytes are twice as many.
LEMMA PlainTwofold ==
  \A s \in Seq(Byte) : Plain(s) \in Seq(HexDigit) /\ Len(Plain(s)) = 2 * Len(s)
<1> DEFINE T == {s \in Seq(Byte) : Len(Plain(s)) # 2 * Len(s)}
<1>1. SUFFICES ASSUME T # {} PROVE FALSE
  BY PlainAppend
<1>2. PICK s \in T : \A t \in T : Len(s) <= Len(t)
  BY <1>1, ShortestSequence
<1>3. /\ s \in Seq(Byte) /\ Len(Plain(s)) # 2 * Len(s)
      /\ \A t \in Seq(Byte) : t \notin T => Len(Plain(t)) = 2 * Len(t)
  BY <1>2
<1> HIDE DEF T
<1>4. s # <<>>
  <2>1. Plain(<<>>) = <<>> /\ Len(<<>>) = 0
    BY PlainAppend, EmptySeq
  <2> QED BY <1>3, <2>1
<1>5. /\ Head(s) \in Byte /\ Tail(s) \in Seq(Byte) /\ Len(s) \in Nat
      /\ Len(s) > 0 /\ Len(Tail(s)) = Len(s) - 1
  BY <1>3, <1>4, TailIsShorter
<1>6. Len(Plain(Tail(s))) = 2 * Len(Tail(s))
  <2>1. ASSUME Tail(s) \in T PROVE FALSE
    <3>1. Len(s) <= Len(Tail(s))
      BY <1>2, <2>1, Zenon
    <3> QED BY <1>5, <3>1
  <2> QED BY <1>3, <1>5, <2>1
<1>7. Plain(s) = (<<>> \o Head(s)) \o Plain(Tail(s))
  <2>1. Spreads(Hex(<<>>), [byte \in Byte |-> <<>> \o byte], Seq(Byte))
    BY HexSpreads
  <2> QED BY <1>3, <1>4, <1>5, <2>1 DEF Spreads, Plain
<1>8. Head(s) \in Seq(HexDigit) /\ Len(Head(s)) = 2 /\ <<>> \o Head(s) = Head(s)
  <2>1. Head(s) \in Seq(HexDigit) /\ Len(Head(s)) = 2
    BY <1>5, ByteIsPair
  <2> QED BY <2>1, ConcatEmptySeq
<1>9. Plain(Tail(s)) \in Seq(HexDigit)
  BY <1>5, PlainAppend
<1>10. Len(Plain(s)) = 2 + Len(Plain(Tail(s)))
  <2>1. \A p, q \in Seq(HexDigit) : Len(p \o q) = Len(p) + Len(q)
    BY ConcatProperties
  <2>2. Len(Head(s) \o Plain(Tail(s))) = Len(Head(s)) + Len(Plain(Tail(s)))
    BY <1>8, <1>9, <2>1
  <2> QED BY <1>7, <1>8, <2>2
<1> QED BY <1>3, <1>5, <1>6, <1>10

\* Digits are characters.
LEMMA PlainIsChars ==
  \A s \in Seq(Byte) : Plain(s) \in Seq(Char)
<1>1. HexDigit \subseteq Char /\ <<>> \in Seq(Char)
  BY Marks, EmptySeq
<1> QED BY <1>1, HexType DEF Plain

\* Two parts and a mark between them, by their places.
LEMMA JoinedAt ==
  ASSUME NEW S, NEW a \in Seq(S), NEW b \in Seq(S), NEW x \in S,
         NEW j, j = Append(a, x) \o b
  PROVE  /\ j \in Seq(S) /\ Len(a) \in Nat /\ Len(b) \in Nat /\ Len(j) = Len(a) + 1 + Len(b)
         /\ \A i \in 1 .. Len(a) : j[i] = a[i]
         /\ j[Len(a) + 1] = x
         /\ \A i \in 1 .. Len(b) : j[Len(a) + 1 + i] = b[i]
<1> DEFINE ax == Append(a, x)
<1>1. /\ Len(a) \in Nat /\ Len(b) \in Nat /\ ax \in Seq(S) /\ Len(ax) = Len(a) + 1
      /\ \A i \in 1 .. Len(a) : ax[i] = a[i]
      /\ ax[Len(a) + 1] = x
  BY AppendProperties, LenProperties
<1> HIDE DEF ax
<1>2. /\ ax \o b \in Seq(S) /\ Len(ax \o b) = Len(ax) + Len(b)
      /\ \A i \in 1 .. Len(ax) + Len(b) :
            (ax \o b)[i] = IF i <= Len(ax) THEN ax[i] ELSE b[i - Len(ax)]
  BY <1>1, ConcatProperties
<1>3. j = ax \o b
  BY DEF ax
<1>4. \A i \in 1 .. Len(a) : j[i] = a[i]
  BY <1>1, <1>2, <1>3
<1>5. j[Len(a) + 1] = x
  BY <1>1, <1>2, <1>3
<1>6. ASSUME NEW i \in 1 .. Len(b) PROVE j[Len(a) + 1 + i] = b[i]
  <2>1. /\ Len(a) + 1 + i \in 1 .. Len(ax) + Len(b) /\ ~(Len(a) + 1 + i <= Len(ax))
        /\ Len(a) + 1 + i - Len(ax) = i
    BY <1>1
  <2> QED BY <1>2, <1>3, <2>1
<1> QED BY <1>1, <1>2, <1>3, <1>4, <1>5, <1>6

\* An image and the marks and digits after it, k of them.
Marked(p, n, k) ==
  /\ p \in Seq(Char) /\ Len(p) = 2 * n + 1 + k
  /\ \A i \in 1 .. 2 * n : p[i] \in HexDigit
  /\ p[2 * n + 1] = "$"
  /\ \A i \in 1 .. k : p[2 * n + 1 + i] \in HexDigit

\* One digit more.
LEMMA MarkedMore ==
  ASSUME NEW n \in Nat, NEW k \in Nat, NEW a, Marked(a, n, k), NEW digit \in HexDigit,
         digit \in Char
  PROVE  Marked(Append(a, digit), n, k + 1)
<1>1. PICK b : b = Append(a, digit)
  OBVIOUS
<1>2. PICK m : m = k + 1
  OBVIOUS
<1>3. /\ a \in Seq(Char) /\ Len(a) = 2 * n + 1 + k
      /\ \A i \in 1 .. 2 * n : a[i] \in HexDigit
      /\ a[2 * n + 1] = "$"
      /\ \A i \in 1 .. k : a[2 * n + 1 + i] \in HexDigit
  BY DEF Marked
<1>4. /\ b \in Seq(Char) /\ Len(b) = Len(a) + 1 /\ b[Len(a) + 1] = digit
      /\ \A i \in 1 .. Len(a) : b[i] = a[i]
  BY <1>1, <1>3, AppendProperties
<1>5. /\ Len(a) + 1 = 2 * n + 1 + m
      /\ 2 * n + 1 \in 1 .. Len(a)
      /\ \A i \in 1 .. 2 * n : i \in 1 .. Len(a)
      /\ \A i \in 1 .. k : 2 * n + 1 + i \in 1 .. Len(a)
      /\ \A i \in 1 .. m : i \in 1 .. k \/ i = m
  <2>1. Len(a) = 2 * n + 1 + k
    BY <1>3
  <2> QED BY <1>2, <2>1
<1>6. b[2 * n + 1] = "$"
  BY <1>3, <1>4, <1>5
<1>7. \A i \in 1 .. 2 * n : b[i] \in HexDigit
  BY <1>3, <1>4, <1>5
<1>8. \A i \in 1 .. m : b[2 * n + 1 + i] \in HexDigit
  <2>1. \A i \in 1 .. k : b[2 * n + 1 + i] \in HexDigit
    BY <1>3, <1>4, <1>5
  <2>2. b[2 * n + 1 + m] \in HexDigit
    BY <1>4, <1>5
  <2> QED BY <1>5, <2>1, <2>2
<1>9. Marked(b, n, m)
  BY <1>4, <1>5, <1>6, <1>7, <1>8 DEF Marked
<1> QED BY <1>1, <1>2, <1>9

\* An image and a CRC are of that form.
LEMMA MarkedParts ==
  ASSUME NEW image \in Seq(Byte), NEW crc \in Seq(Byte)
  PROVE  Marked(Append(Plain(image), "$") \o Plain(crc), Len(image), 2 * Len(crc))
<1>1. /\ Plain(image) \in Seq(HexDigit) /\ Len(Plain(image)) = 2 * Len(image)
      /\ Plain(crc) \in Seq(HexDigit) /\ Len(Plain(crc)) = 2 * Len(crc)
  BY PlainTwofold
<1>2. /\ \A i \in 1 .. 2 * Len(image) : Plain(image)[i] \in HexDigit
      /\ \A i \in 1 .. 2 * Len(crc) : Plain(crc)[i] \in HexDigit
  BY <1>1, ElementOfSeq
<1>3. Plain(image) \in Seq(Char) /\ Plain(crc) \in Seq(Char) /\ "$" \in Char
  BY PlainIsChars, Marks
<1> DEFINE j == Append(Plain(image), "$") \o Plain(crc)
<1>4. /\ j \in Seq(Char) /\ Len(j) = Len(Plain(image)) + 1 + Len(Plain(crc))
      /\ \A i \in 1 .. Len(Plain(image)) : j[i] = Plain(image)[i]
      /\ j[Len(Plain(image)) + 1] = "$"
      /\ \A i \in 1 .. Len(Plain(crc)) : j[Len(Plain(image)) + 1 + i] = Plain(crc)[i]
  BY <1>3, JoinedAt
<1> HIDE DEF j
<1>5. Marked(j, Len(image), 2 * Len(crc))
  BY <1>1, <1>2, <1>4 DEF Marked
<1> QED BY <1>5 DEF j

\* A download of an image of n bytes.
Shape(p, n) ==
  /\ p \in Seq(Char) /\ Len(p) = 2 * n + 2 * CrcBytes + 2
  /\ \A i \in 1 .. 2 * n : p[i] \in HexDigit
  /\ p[2 * n + 1] = "$"
  /\ \A i \in 1 .. 2 * CrcBytes : p[2 * n + 1 + i] \in HexDigit
  /\ p[2 * n + 2 * CrcBytes + 2] = ";"

\* The last mark makes it one.
LEMMA MarkedIsShaped ==
  ASSUME NEW n \in Nat, NEW a, Marked(a, n, 2 * CrcBytes)
  PROVE  Shape(Append(a, ";"), n)
<1> DEFINE p == Append(a, ";")
<1>1. /\ a \in Seq(Char) /\ Len(a) = 2 * n + 1 + 2 * CrcBytes /\ ";" \in Char
      /\ \A i \in 1 .. 2 * n : a[i] \in HexDigit
      /\ a[2 * n + 1] = "$"
      /\ \A i \in 1 .. 2 * CrcBytes : a[2 * n + 1 + i] \in HexDigit
  BY Marks DEF Marked
<1>2. /\ p \in Seq(Char) /\ Len(p) = Len(a) + 1 /\ p[Len(a) + 1] = ";"
      /\ \A i \in 1 .. Len(a) : p[i] = a[i]
  <2>1. PICK semicolon \in Char : semicolon = ";"
    BY <1>1
  <2>2. a \in Seq(Char)
    BY <1>1
  <2> DEFINE q == Append(a, semicolon)
  <2>3. /\ q \in Seq(Char) /\ Len(q) = Len(a) + 1 /\ q[Len(a) + 1] = semicolon
        /\ \A i \in 1 .. Len(a) : q[i] = a[i]
    BY <2>2, AppendProperties
  <2> QED BY <2>1, <2>3
<1> HIDE DEF p
<1>3. CrcBytes \in Nat
  BY Sizes
<1>4. /\ Len(a) + 1 = 2 * n + 2 * CrcBytes + 2
      /\ 2 * n + 1 \in 1 .. Len(a)
      /\ \A i \in 1 .. 2 * n : i \in 1 .. Len(a)
      /\ \A i \in 1 .. 2 * CrcBytes : 2 * n + 1 + i \in 1 .. Len(a)
  <2>1. Len(a) = 2 * n + 1 + 2 * CrcBytes
    BY <1>1
  <2> QED BY <1>3, <2>1
<1>5. Len(p) = 2 * n + 2 * CrcBytes + 2 /\ p[2 * n + 2 * CrcBytes + 2] = ";"
  BY <1>2, <1>4
<1>6. p[2 * n + 1] = "$"
  BY <1>1, <1>2, <1>4
<1>7. \A i \in 1 .. 2 * n : p[i] \in HexDigit
  BY <1>1, <1>2, <1>4
<1>8. \A i \in 1 .. 2 * CrcBytes : p[2 * n + 1 + i] \in HexDigit
  BY <1>1, <1>2, <1>4
<1>9. Shape(p, n)
  BY <1>2, <1>5, <1>6, <1>7, <1>8 DEF Shape
<1> QED BY <1>9 DEF p

\* What is framed is the beginning of one.
LEMMA PayloadShape ==
  ASSUME NEW image \in Image, NEW crc \in CrcValue
  PROVE  \E n \in 1 .. kMaxImgBytes : Shape(Payload(image, crc, <<>>), n)
<1>1. /\ image \in Seq(Byte) /\ crc \in Seq(Byte) /\ Len(crc) = CrcBytes
      /\ Len(image) \in 1 .. kMaxImgBytes
  <2>1. PICK n \in 1 .. kMaxImgBytes : image \in [1 .. n -> Byte]
    BY DEF Image
  <2>2. image \in Seq(Byte) /\ crc \in Seq(Byte) /\ Len(crc) = CrcBytes
    BY ImageIsSeq, CrcIsSeq
  <2>3. Len(image) = n
    BY <2>1, <2>2, LenProperties
  <2> QED BY <2>2, <2>3
<1> DEFINE n == Len(image)
           a == Append(Plain(image), "$") \o Plain(crc)
           p == Append(a, ";")
<1>2. Marked(a, n, 2 * CrcBytes)
  BY <1>1, MarkedParts
<1>3. Payload(image, crc, <<>>) = p
  <2>1. Plain(image) \in Seq(Char)
    BY <1>1, PlainIsChars
  <2>2. Append(Plain(image), "$") = Plain(image) \o <<"$">>
    BY <2>1, Marks, Appended
  <2>3. a \in Seq(Char) /\ ";" \in Char
    BY <1>2, Marks DEF Marked
  <2>4. p = a \o <<";">>
    BY <2>3, Appended
  <2> QED BY <2>2, <2>4 DEF Payload, Plain
<1>4. Shape(p, n)
  <2>1. n \in Nat
    BY <1>1, Sizes
  <2> HIDE DEF a, n
  <2> QED BY <1>2, <2>1, MarkedIsShaped
<1> QED BY <1>1, <1>3, <1>4

\* The next character of a sequence that begins like a download, while the
\* image has come: its place is in the image, or that of the mark.
LEMMA WithinImage ==
  ASSUME NEW D, NEW mark, mark \notin D, NEW n \in Nat, NEW p, NEW b, NEW q \in Nat, q > 0,
         \A i \in 1 .. 2 * n : p[i] \in D,
         p[2 * n + 1] = mark,
         \A i \in 1 .. q - 1 : b[i] \in D,
         \A i \in 1 .. q : b[i] = p[i]
  PROVE  /\ q <= 2 * n => b[q] \in D
         /\ q > 2 * n => q = 2 * n + 1 /\ b[q] = mark
<1>1. ASSUME q > 2 * n + 1 PROVE FALSE
  <2>1. 2 * n + 1 \in 1 .. q - 1 /\ 2 * n + 1 \in 1 .. q
    BY <1>1
  <2>2. b[2 * n + 1] \in D /\ b[2 * n + 1] = p[2 * n + 1]
    BY <2>1
  <2> QED BY <2>2
<1>2. q \in 1 .. q
  OBVIOUS
<1>3. b[q] = p[q]
  BY <1>2
<1>4. q <= 2 * n => q \in 1 .. 2 * n
  OBVIOUS
<1>5. q <= 2 * n => b[q] \in D
  BY <1>3, <1>4
<1>6. q > 2 * n => q = 2 * n + 1
  BY <1>1
<1> QED BY <1>3, <1>5, <1>6

\* The same while the CRC comes, of which k digits are wanted: p has n bytes of
\* image, b has r.
InCrc(D, mark, end, n, k, p, r, b, q) ==
  /\ n \in Nat /\ k \in Nat /\ r \in Nat /\ q \in Nat /\ mark \notin D
  /\ q > 2 * r + 1 /\ q <= 2 * n + k + 2
  /\ \A i \in 1 .. 2 * n : p[i] \in D
  /\ p[2 * n + 1] = mark
  /\ \A i \in 1 .. k : p[2 * n + 1 + i] \in D
  /\ p[2 * n + k + 2] = end
  /\ \A i \in 1 .. 2 * r : b[i] \in D
  /\ b[2 * r + 1] = mark
  /\ \A i \in 1 .. q : b[i] = p[i]

\* Then the image was of that size.
LEMMA WithinCrc ==
  ASSUME NEW D, NEW mark, NEW end, NEW n, NEW k, NEW p, NEW r, NEW b, NEW q,
         InCrc(D, mark, end, n, k, p, r, b, q)
  PROVE  /\ n = r
         /\ q <= 2 * r + k + 1 => b[q] \in D
         /\ q > 2 * r + k + 1 => q = 2 * r + k + 2 /\ b[q] = end
<1> USE DEF InCrc
<1>1. b[2 * r + 1] = p[2 * r + 1]
  <2>1. 2 * r + 1 \in 1 .. q
    OBVIOUS
  <2> QED BY <2>1
<1>2. ASSUME n < r PROVE FALSE
  <2>1. 2 * n + 1 \in 1 .. 2 * r /\ 2 * n + 1 \in 1 .. q
    BY <1>2
  <2>2. b[2 * n + 1] \in D /\ b[2 * n + 1] = p[2 * n + 1]
    BY <2>1
  <2> QED BY <2>2
<1>3. ASSUME r < n PROVE FALSE
  <2>1. 2 * r + 1 \in 1 .. 2 * n
    BY <1>3
  <2>2. p[2 * r + 1] \in D
    BY <2>1
  <2> QED BY <1>1, <2>2
<1>4. n = r
  BY <1>2, <1>3
<1>5. b[q] = p[q]
  <2>1. q \in 1 .. q
    OBVIOUS
  <2> QED BY <2>1
<1>6. ASSUME q <= 2 * r + k + 1 PROVE b[q] \in D
  <2> DEFINE i == q - (2 * n + 1)
  <2>1. i \in 1 .. k /\ 2 * n + 1 + i = q
    BY <1>4, <1>6
  <2> HIDE DEF i
  <2>2. p[2 * n + 1 + i] \in D
    BY <2>1
  <2> QED BY <1>5, <2>1, <2>2
<1>7. q > 2 * r + k + 1 => q = 2 * n + k + 2 /\ q = 2 * r + k + 2
  BY <1>4
<1> QED BY <1>4, <1>5, <1>6, <1>7

\* A blank within a byte is badly framed.
LEMMA BlankWithinByte ==
  ASSUME TypeOK, Taken, BlanksCounted, rx = Space, HexByteStarted
  PROVE  ~Framed'
<1>1. input \in Seq(Char) /\ rx \in Char /\ input' = Append(input, rx)
  BY DEF TypeOK, Taken
<1>2. PICK m : m = Len(input) + 1
  OBVIOUS
<1>3. /\ Len(input') = m /\ m \in DOMAIN input' /\ input'[m] = Space
      /\ DigitsUpTo(m)' = DigitsUpTo(Len(input))
  <2>1. /\ Len(input) \in Nat /\ Len(input') = m /\ input'[m] = rx
        /\ DigitsUpTo(m)'
             = IF rx \in HexDigit THEN DigitsUpTo(Len(input)) + 1 ELSE DigitsUpTo(Len(input))
    BY <1>1, <1>2, DigitsGrow
  <2>2. input' \in Seq(Char)
    BY <1>1, AppendProperties
  <2>3. m \in DOMAIN input'
    BY <1>2, <2>1, <2>2, LenProperties
  <2> QED BY <2>1, <2>3, Marks
<1>4. DigitsUpTo(m)' % 2 = 1
  BY <1>3 DEF BlanksCounted
<1>5. ~BlanksBetweenBytes'
  BY <1>3, <1>4 DEF BlanksBetweenBytes
<1> QED BY <1>5 DEF Framed

\* What begins like a download with one more character that is no blank.
LEMMA FramedAs ==
  ASSUME TypeOK, Taken, Framed', rx # Space, NEW b, b = Append(Bare[input], rx),
         NEW q, q = Len(Bare[input]) + 1
  PROVE  \E n \in 1 .. kMaxImgBytes : \E p :
           Shape(p, n) /\ q <= Len(p) /\ \A i \in 1 .. q : b[i] = p[i]
<1>1. input \in Seq(Char) /\ rx \in Char /\ input' = Append(input, rx)
  BY DEF TypeOK, Taken
<1>2. Bare[input] \in Seq(Char) /\ Bare[input'] = b
  BY <1>1, BareAppend
<1>3. b \in Seq(Char) /\ Len(b) = q /\ q \in Nat
  BY <1>1, <1>2, AppendProperties, LenProperties
<1>4. PICK image \in Image, crc \in CrcValue : IsPrefix(b, Payload(image, crc, <<>>))
  BY <1>2 DEF Framed
<1>5. PICK p : p = Payload(image, crc, <<>>)
  OBVIOUS
<1>6. PICK n \in 1 .. kMaxImgBytes : Shape(p, n)
  BY <1>5, PayloadShape
<1>7. q <= Len(p) /\ SubSeq(b, 1, q) = SubSeq(p, 1, q)
  BY <1>3, <1>4, <1>5 DEF IsPrefix
<1>8. p \in Seq(Char) /\ Len(p) \in Nat
  BY <1>6, LenProperties DEF Shape
<1>9. \A i \in 1 .. q : SubSeq(b, 1, q)[i] = b[i]
  <2>1. \A i \in 1 .. q : b[i] \in Char
    BY <1>3, ElementOfSeq
  <2> QED BY <1>3, <2>1, SubSeqProperties
<1>10. \A i \in 1 .. q : SubSeq(p, 1, q)[i] = p[i]
  <2>1. \A i \in 1 .. q : p[i] \in Char
    BY <1>3, <1>7, <1>8, ElementOfSeq
  <2> QED BY <1>3, <2>1, SubSeqProperties
<1> QED BY <1>6, <1>7, <1>9, <1>10

\* What the parser has got while it takes the image: digits, an even number of
\* them unless it is within a byte.
LEMMA ImageShape ==
  ASSUME TypeOK, ImageParsed, NEW b, b = Bare[input]
  PROVE  /\ b \in Seq(Char) /\ \A i \in 1 .. Len(b) : b[i] \in HexDigit
         /\ Len(b) = 2 * img_bytes_received + IF HexByteStarted THEN 1 ELSE 0
<1>1. /\ Received \in Seq(Byte) /\ Len(Received) = img_bytes_received
      /\ Plain(Received) \in Seq(HexDigit) /\ Len(Plain(Received)) = 2 * img_bytes_received
  BY PartsType, PlainTwofold
<1>2. img_bytes_received \in Nat
  BY <1>1, LenProperties
<1>3. b \in Seq(Char)
  BY BareAppend DEF TypeOK
<1>4. b \in Seq(HexDigit) /\ Len(b) = 2 * img_bytes_received + IF HexByteStarted THEN 1 ELSE 0
  <2>1. CASE ~HexByteStarted
    BY <1>1, <1>2, <2>1 DEF ImageParsed, WithHalf
  <2>2. CASE HexByteStarted
    <3>1. hex_partial_byte \in HexDigit /\ b = Append(Plain(Received), hex_partial_byte)
      BY <2>2 DEF ImageParsed, WithHalf, HexByteStarted, TypeOK
    <3> QED BY <1>1, <2>2, <3>1, AppendProperties
  <2> QED BY <2>1, <2>2
<1> QED BY <1>3, <1>4, ElementOfSeq

\* What the parser refuses of the image.
LEMMA RefusedImage ==
  ASSUME TypeOK, ImageParsed, BlanksCounted, Taken, ImageFails(rx), Framed'
  PROVE  BlankAfterLast'
<1>1. PICK b : b = Bare[input]
  OBVIOUS
<1>2. /\ b \in Seq(Char) /\ \A i \in 1 .. Len(b) : b[i] \in HexDigit
      /\ Len(b) = 2 * img_bytes_received + IF HexByteStarted THEN 1 ELSE 0
  BY <1>1, ImageShape
<1>3. rx \in Char /\ input \in Seq(Char) /\ input' = Append(input, rx)
  BY DEF TypeOK, Taken
<1>4. img_bytes_received \in Nat /\ img_bytes_received <= kMaxImgBytes /\ kMaxImgBytes \in Nat
  <2>1. Len(IMAGE_BUFFER) <= kMaxImgBytes /\ Len(IMAGE_BUFFER) \in Nat
    BY ImageIsSeq, LenProperties DEF TypeOK
  <2> QED BY <2>1, Sizes DEF TypeOK
<1>5. CASE rx = Space
  <2>1. ~HexByteStarted
    BY <1>5, BlankWithinByte
  <2>2. img_bytes_received >= kMaxImgBytes
    BY <1>5, <2>1, Marks DEF ImageFails, HexFails
  <2>3. Bare[input'] = b /\ Len(b) = 2 * kMaxImgBytes
    <3>1. Bare[input'] = b
      BY <1>1, <1>3, <1>5, BareAppend
    <3>2. Len(b) = 2 * kMaxImgBytes
      BY <1>2, <1>4, <2>1, <2>2
    <3> QED BY <3>1, <3>2
  <2>4. Last(input') = Space
    BY <1>3, <1>5, AppendProperties DEF Last
  <2>5. {i \in DOMAIN b : b[i] = "$"} = {}
    BY <1>2, Marks, LenProperties
  <2> QED BY <2>3, <2>4, <2>5 DEF BlankAfterLast
<1>6. CASE rx # Space
  <2>1. PICK q : q = Len(b) + 1
    OBVIOUS
  <2>2. PICK c : c = Append(b, rx)
    OBVIOUS
  <2>3. PICK n \in 1 .. kMaxImgBytes : \E p :
          Shape(p, n) /\ q <= Len(p) /\ \A i \in 1 .. q : c[i] = p[i]
    BY <1>1, <1>6, <2>1, <2>2, FramedAs
  <2>4. PICK p : Shape(p, n) /\ q <= Len(p) /\ \A i \in 1 .. q : c[i] = p[i]
    BY <2>3
  <2>5. Len(b) \in Nat /\ q \in Nat /\ q > 0 /\ q - 1 = Len(b) /\ n \in Nat /\ n > 0
    BY <1>2, <1>4, <2>1, LenProperties
  <2>6. (\A i \in 1 .. q - 1 : c[i] \in HexDigit) /\ c[q] = rx
    BY <1>2, <1>3, <2>1, <2>2, <2>5, AppendProperties
  <2>7. /\ q <= 2 * n => c[q] \in HexDigit
        /\ q > 2 * n => q = 2 * n + 1 /\ c[q] = "$"
    <3>1. PICK mark : mark = "$" /\ mark \notin HexDigit
      BY Marks
    <3>2. (\A i \in 1 .. 2 * n : p[i] \in HexDigit) /\ p[2 * n + 1] = mark
      BY <2>4, <3>1 DEF Shape
    <3>3. /\ q <= 2 * n => c[q] \in HexDigit
          /\ q > 2 * n => q = 2 * n + 1 /\ c[q] = mark
      BY <2>4, <2>5, <2>6, <3>1, <3>2, WithinImage
    <3> QED BY <3>1, <3>3
  <2>8. CASE rx = "$"
    <3>1. q = 2 * n + 1
      <4>1. ~(q <= 2 * n)
        BY <2>6, <2>7, <2>8, Marks, Zenon
      <4>2. q > 2 * n
        BY <2>5, <4>1
      <4> QED BY <2>7, <4>2
    <3>2. HexByteStarted \/ img_bytes_received = 0
      BY <2>8 DEF ImageFails
    <3>3. Len(b) = 2 * n
      BY <2>5, <3>1
    <3> QED BY <1>2, <1>4, <2>5, <3>2, <3>3
  <2>9. CASE rx # "$"
    <3>1. q <= 2 * n /\ rx \in HexDigit
      BY <2>5, <2>6, <2>7, <2>9
    <3>2. img_bytes_received >= kMaxImgBytes
      BY <1>6, <2>9, <3>1 DEF ImageFails, HexFails
    <3>3. Len(b) >= 2 * kMaxImgBytes
      BY <1>2, <1>4, <3>2
    <3> QED BY <1>4, <2>1, <2>4, <2>5, <3>1, <3>3
  <2> QED BY <2>8, <2>9
<1> QED BY <1>5, <1>6

\* What the parser has got while it takes the CRC: the image, the mark, and
\* digits, an even number of them unless it is within a byte.
LEMMA CrcShape ==
  ASSUME TypeOK, CrcParsed, NEW b, b = Bare[input]
  PROVE  \E k \in Nat : /\ Marked(b, img_bytes_received, k)
                        /\ k = 2 * Len(crc_buffer) + IF HexByteStarted THEN 1 ELSE 0
<1>1. /\ Received \in Seq(Byte) /\ Len(Received) = img_bytes_received
      /\ crc_buffer \in Seq(Byte) /\ Len(crc_buffer) \in Nat /\ img_bytes_received \in Nat
  BY PartsType, LenProperties DEF TypeOK
<1>2. Marked(AfterImage, img_bytes_received, 2 * Len(crc_buffer))
  BY <1>1, MarkedParts DEF AfterImage
<1>3. CASE ~HexByteStarted
  BY <1>1, <1>2, <1>3 DEF CrcParsed, WithHalf
<1>4. CASE HexByteStarted
  <2>1. hex_partial_byte \in HexDigit /\ b = Append(AfterImage, hex_partial_byte)
    BY <1>4 DEF CrcParsed, WithHalf, HexByteStarted, TypeOK
  <2>2. hex_partial_byte \in Char
    BY <2>1, Marks
  <2>3. PICK k : k = 2 * Len(crc_buffer)
    OBVIOUS
  <2>4. Marked(b, img_bytes_received, k + 1)
    <3>1. k \in Nat /\ img_bytes_received \in Nat /\ Marked(AfterImage, img_bytes_received, k)
      BY <1>1, <1>2, <2>3
    <3> QED BY <2>1, <2>2, <3>1, MarkedMore
  <2> QED BY <1>1, <1>4, <2>3, <2>4
<1> QED BY <1>3, <1>4

\* What the parser refuses of the CRC.
LEMMA RefusedCrc ==
  ASSUME TypeOK, CrcParsed, BlanksCounted, Taken, CrcFails(rx), Framed'
  PROVE  BlankAfterLast'
<1>1. PICK b : b = Bare[input]
  OBVIOUS
<1>2. PICK r : r = img_bytes_received
  OBVIOUS
<1>3. PICK k \in Nat : Marked(b, r, k) /\ k = 2 * Len(crc_buffer) + IF HexByteStarted THEN 1 ELSE 0
  BY <1>1, <1>2, CrcShape
<1>4. /\ r \in Nat /\ Len(crc_buffer) \in Nat /\ Len(crc_buffer) <= CrcBytes /\ CrcBytes \in Nat
  BY <1>2, PartsType, LenProperties, Sizes DEF TypeOK
<1>5. /\ b \in Seq(Char) /\ Len(b) = 2 * r + 1 + k
      /\ \A i \in 1 .. 2 * r : b[i] \in HexDigit
      /\ b[2 * r + 1] = "$"
  BY <1>3 DEF Marked
<1>6. rx \in Char /\ input \in Seq(Char) /\ input' = Append(input, rx)
  BY DEF TypeOK, Taken
<1>7. CASE rx = Space
  <2>1. ~HexByteStarted
    BY <1>7, BlankWithinByte
  <2>2. Len(crc_buffer) >= CrcBytes
    BY <1>7, <2>1, Marks DEF CrcFails, HexFails
  <2>3. Bare[input'] = b /\ Len(b) = 2 * r + 1 + 2 * CrcBytes
    <3>1. Bare[input'] = b
      BY <1>1, <1>6, <1>7, BareAppend
    <3>2. k = 2 * CrcBytes
      BY <1>3, <1>4, <2>1, <2>2
    <3> QED BY <1>5, <3>1, <3>2
  <2>4. Last(input') = Space
    BY <1>6, <1>7, AppendProperties DEF Last
  <2>5. 2 * r + 1 \in DOMAIN b
    <3>1. 2 * r + 1 \in 1 .. Len(b)
      BY <1>4, <2>3
    <3> QED BY <1>5, <3>1, LenProperties
  <2>6. 2 * r + 1 \in {i \in DOMAIN b : b[i] = "$"}
    BY <1>5, <2>5
  <2> QED BY <2>3, <2>4, <2>6 DEF BlankAfterLast
<1>8. CASE rx # Space
  <2>1. PICK q : q = Len(b) + 1
    OBVIOUS
  <2>2. PICK c : c = Append(b, rx)
    OBVIOUS
  <2>3. PICK n \in 1 .. kMaxImgBytes : \E p :
          Shape(p, n) /\ q <= Len(p) /\ \A i \in 1 .. q : c[i] = p[i]
    BY <1>1, <1>8, <2>1, <2>2, FramedAs
  <2>4. PICK p : Shape(p, n) /\ q <= Len(p) /\ \A i \in 1 .. q : c[i] = p[i]
    BY <2>3
  <2>5. PICK size : size = 2 * CrcBytes
    OBVIOUS
  <2>6. n \in Nat /\ size \in Nat /\ q \in Nat /\ q > 2 * r + 1 /\ q = 2 * r + k + 2
    <3>1. Len(b) = 2 * r + 1 + k
      BY <1>5
    <3> QED BY <1>4, <2>1, <2>5, <3>1, Sizes
  <2>7. (\A i \in 1 .. 2 * r : c[i] \in HexDigit) /\ c[2 * r + 1] = b[2 * r + 1] /\ c[q] = rx
    <3>1. (\A i \in 1 .. Len(b) : c[i] = b[i]) /\ c[q] = rx
      BY <1>5, <1>6, <2>1, <2>2, AppendProperties
    <3>2. 2 * r + 1 \in 1 .. Len(b) /\ \A i \in 1 .. 2 * r : i \in 1 .. Len(b)
      <4>1. Len(b) = 2 * r + 1 + k
        BY <1>5
      <4> QED BY <1>4, <4>1
    <3> QED BY <1>5, <3>1, <3>2
  <2>8. /\ n = r
        /\ q <= 2 * r + size + 1 => rx \in HexDigit
        /\ q > 2 * r + size + 1 => q = 2 * r + size + 2 /\ rx = ";"
    <3>1. PICK mark, end : mark = "$" /\ end = ";" /\ mark \notin HexDigit
      BY Marks
    <3>2. /\ Len(p) = 2 * n + 2 * CrcBytes + 2
          /\ \A i \in 1 .. 2 * n : p[i] \in HexDigit
          /\ p[2 * n + 1] = mark
          /\ \A i \in 1 .. 2 * CrcBytes : p[2 * n + 1 + i] \in HexDigit
          /\ p[2 * n + 2 * CrcBytes + 2] = end
      BY <2>4, <3>1 DEF Shape
    <3>3. c[2 * r + 1] = mark
      BY <1>5, <2>7, <3>1
    <3>4. q <= 2 * n + size + 2
      BY <2>4, <2>5, <3>2
    <3>5. /\ n = r
          /\ q <= 2 * r + size + 1 => c[q] \in HexDigit
          /\ q > 2 * r + size + 1 => q = 2 * r + size + 2 /\ c[q] = end
      <4>1. /\ \A i \in 1 .. size : p[2 * n + 1 + i] \in HexDigit
            /\ p[2 * n + size + 2] = end
        BY <2>5, <3>2
      <4>2. /\ \A i \in 1 .. 2 * n : p[i] \in HexDigit
            /\ p[2 * n + 1] = mark
            /\ \A i \in 1 .. 2 * r : c[i] \in HexDigit
            /\ \A i \in 1 .. q : c[i] = p[i]
        BY <2>4, <2>7, <3>2
      <4>3. /\ r \in Nat /\ n \in Nat /\ size \in Nat /\ q \in Nat /\ q > 2 * r + 1
            /\ mark \notin HexDigit
        BY <1>4, <2>6, <3>1
      <4>4. InCrc(HexDigit, mark, end, n, size, p, r, c, q)
        BY <3>3, <3>4, <4>1, <4>2, <4>3 DEF InCrc
      <4> QED BY <4>4, WithinCrc
    <3> QED BY <2>7, <3>1, <3>5
  <2>9. CASE rx = ";"
    <3>1. ~(q <= 2 * r + size + 1)
      BY <2>8, <2>9, Marks, Zenon
    <3>2. q = 2 * r + size + 2
      <4>1. q > 2 * r + size + 1
        BY <1>4, <2>6, <3>1
      <4> QED BY <2>8, <4>1, Zenon
    <3>3. HexByteStarted \/ Len(crc_buffer) # CrcBytes
      BY <2>9 DEF CrcFails
    <3>4. k = 2 * CrcBytes
      BY <1>3, <1>4, <2>5, <2>6, <3>2
    <3> QED BY <1>3, <1>4, <3>3, <3>4
  <2>10. CASE rx # ";"
    <3>1. ~(q > 2 * r + size + 1)
      BY <2>8, <2>10, Zenon
    <3>2. q <= 2 * r + size + 1
      BY <1>4, <2>6, <3>1
    <3>3. rx \in HexDigit
      BY <2>8, <3>2
    <3>4. Len(crc_buffer) >= CrcBytes
      BY <1>8, <2>10, <3>3 DEF CrcFails, HexFails
    <3>5. k >= 2 * CrcBytes
      BY <1>3, <1>4, <3>4
    <3> QED BY <1>3, <1>4, <2>5, <2>6, <3>2, <3>5
  <2> QED BY <2>9, <2>10
<1> QED BY <1>7, <1>8

\* A download is refused by the parser alone, and the line about it is sent
\* before anything more is read.
LEMMA RefuseNext ==
  ASSUME TypeOK, ParseInv, RefusesBadFraming, [Next]_romVars
  PROVE  RefusesBadFraming'
<1>1. CASE message' = message /\ input' = input
  <2>1. Refusing' = Refusing /\ Framed' = Framed /\ BlankAfterLast' = BlankAfterLast
    BY <1>1 DEF Refusing, Framed, BlankAfterLast, BlanksBetweenBytes, DigitsUpTo
  <2> QED BY <2>1 DEF RefusesBadFraming
<1>2. CASE \/ message' \in {<<>>, <<Newline>>}
           \/ \E name \in {"DL_START", "CRC_ERROR", "BOOT_APP"} : message' = <<name, Newline>>
  <2>1. ~Refusing'
    BY <1>2, Names, LineParts DEF Refusing
  <2> QED BY <2>1 DEF RefusesBadFraming
<1>3. CASE SendByte
  <2>1. message' \in {<<>>, <<Newline>>}
    BY <1>3, LineParts DEF SendByte, TypeOK
  <2> QED BY <1>2, <2>1
<1>4. CASE PollDownloadStart
  BY <1>1, <1>2, <1>4 DEF PollDownloadStart
<1>5. CASE VerifyApp
  BY <1>2, <1>5 DEF VerifyApp, FailDownload
<1>6. CASE DownloadImage
  <2>1. Taken /\ ImageParsed /\ BlanksCounted /\ message = <<>>
    BY <1>6, ImageCases DEF ParseInv, Taken, Polling
  <2>2. CASE ImageFails(rx)
    BY <2>1, <2>2, RefusedImage DEF RefusesBadFraming
  <2>3. CASE message' = message
    BY <1>2, <2>1, <2>3
  <2> QED BY <1>6, <2>2, <2>3, ImageCases DEF Ends, Pends, Completes
<1>7. CASE DownloadCrc
  <2>1. Taken /\ CrcParsed /\ BlanksCounted /\ message = <<>>
    BY <1>7, CrcCases DEF ParseInv, Taken, Polling
  <2>2. CASE CrcFails(rx)
    BY <2>1, <2>2, RefusedCrc DEF RefusesBadFraming
  <2>3. CASE message' = message
    BY <1>2, <2>1, <2>3
  <2> QED BY <1>7, <2>2, <2>3, CrcCases DEF Ends, Pends, Completes
<1>8. CASE \/ PollAdvertise \/ BootApp \/ AdvertiseDue \/ UartTransmit \/ PoliteSend \/ RudeSend
           \/ UNCHANGED romVars
  BY <1>1, <1>8
     DEF PollAdvertise, BootApp, AdvertiseDue, UartTransmit, PoliteSend, RudeSend, romVars
<1> QED BY <1>3, <1>4, <1>5, <1>6, <1>7, <1>8 DEF Next, Bootloader

(***************************************************************************)
(* What the bootloader refuses is badly framed, with one exception: no     *)
(* download in the format of protocol.md is refused otherwise, however     *)
(* long it is and wherever its blanks are.                                 *)
(***************************************************************************)
THEOREM RefusalIsDeserved == Spec => []RefusesBadFraming
<1>1. Init => ParseInv /\ RefusesBadFraming
  BY DEF Init, ParseInv, RefusesBadFraming, Refusing
<1>2. TypeOK /\ ParseInv /\ [Next]_romVars => ParseInv'
  BY ParseNext
<1>3. TypeOK /\ ParseInv /\ RefusesBadFraming /\ [Next]_romVars => RefusesBadFraming'
  BY RefuseNext
<1>4. Spec => []TypeOK
  BY RomTypes
<1> QED BY <1>1, <1>2, <1>3, <1>4, PTL DEF Spec
==============================================================================
