---------------------------- MODULE HdlcLinkProofs ----------------------------
(***************************************************************************)
(* Proofs about the link of the MCU bootloader, for every table of         *)
(* escapes, every set of payloads and every ring: its type, that the       *)
(* second of two whole frames is heard as it was sent, whatever came       *)
(* before them, and that the link implements FrameChannel.  The inductive  *)
(* invariant of the former says, of each beginning of the two frames that  *)
(* the bytes processed may end with, what the receiver has made of it;     *)
(* that of the latter, of each byte on the way, which frame it belongs to. *)
(***************************************************************************)
EXTENDS HdlcLink, SequenceLemmas

Special == {kFlag, kEscape}

------------------------------------------------------------------------------
\* Framing.

\* Stuffing puts a sequence in the place of each byte.
LEMMA StuffedSpreads ==
  Spreads(Stuffed, [byte \in Byte |-> ByteStuff(byte)], Seq(Byte))
<1> DEFINE g == [byte \in Byte |-> ByteStuff(byte)]
           body(f, s) == IF s = <<>> THEN <<>> ELSE ByteStuff(Head(s)) \o f[Tail(s)]
<1>1. \A byte \in Byte : g[byte] = ByteStuff(byte)
  OBVIOUS
<1>2. Spreads(Stuffed, g, Seq(Byte))
  <2> HIDE DEF g
  <2>1. PICK f : IsSpread(f, g, Byte)
    BY SpreadExists
  <2>2. \A s \in Seq(Byte) : s # <<>> => g[Head(s)] = ByteStuff(Head(s))
    BY <1>1, TailIsShorter
  <2>3. f = [s \in Seq(Byte) |-> body(f, s)]
    BY <2>1, <2>2 DEF IsSpread
  <2>4. Stuffed = [s \in Seq(Byte) |-> body(Stuffed, s)]
    BY <2>3 DEF Stuffed
  <2>5. \A s \in Seq(Byte) : Stuffed[s] = body(Stuffed, s)
    BY <2>4
  <2> QED BY <2>2, <2>5 DEF Spreads
<1> QED BY <1>2

\* A stuffed byte is one byte or two.
LEMMA ByteStuffType ==
  ASSUME NEW byte \in Byte
  PROVE  ByteStuff(byte) \in Seq(Byte) /\ Xor[byte] \in Byte
BY FramingAssumption DEF ByteStuff

\* A payload is stuffed from its first byte to its last, which is how the
\* receiver takes it.
LEMMA StuffedType ==
  /\ Stuffed[<<>>] = <<>>
  /\ \A s \in Seq(Byte) : Stuffed[s] \in Seq(Byte)
  /\ \A s \in Seq(Byte), byte \in Byte : Stuffed[Append(s, byte)] = Stuffed[s] \o ByteStuff(byte)
<1> DEFINE g == [byte \in Byte |-> ByteStuff(byte)]
<1>1. \A byte \in Byte : g[byte] = ByteStuff(byte) /\ g[byte] \in Seq(Byte)
  BY ByteStuffType
<1>2. SpreadsTo(Stuffed, g, Byte, Byte) /\ Spreads(Stuffed, g, Seq(Byte))
  BY <1>1, StuffedSpreads DEF SpreadsTo
<1> HIDE DEF g
<1>3. Stuffed[<<>>] = <<>>
  BY <1>2, EmptySeq DEF Spreads
<1>4. \A s \in Seq(Byte) : Stuffed[s] \in Seq(Byte)
  BY <1>2, SpreadType
<1>5. FromTheEnd(Stuffed, g, Byte)
  BY <1>2, SpreadAppend
<1> QED BY <1>1, <1>3, <1>4, <1>5 DEF FromTheEnd

\* A frame up to the m-th byte of its payload.
Begun(bytes, m) == <<kFlag>> \o Stuffed[SubSeq(bytes, 1, m)]

\* A frame begins with a flag,
LEMMA BegunEmpty ==
  ASSUME NEW bytes \in Seq(Byte)
  PROVE  Begun(bytes, 0) = <<kFlag>> /\ Begun(bytes, 0) = Append(<<>>, kFlag)
<1>1. SubSeq(bytes, 1, 0) = <<>>
  BY SubSeqEmpty
<1>2. kFlag \in Byte
  BY FramingAssumption
<1>3. Stuffed[SubSeq(bytes, 1, 0)] = <<>>
  BY <1>1, StuffedType
<1>4. <<kFlag>> \o <<>> = <<kFlag>> /\ Append(<<>>, kFlag) = <<kFlag>>
  BY <1>2
<1> QED BY <1>3, <1>4, Zenon DEF Begun

\* goes on with one stuffed byte after the other,
LEMMA BegunMore ==
  ASSUME NEW bytes \in Seq(Byte), NEW m \in 0 .. Len(bytes)
  PROVE  /\ Begun(bytes, m) \in Seq(Byte)
         /\ m < Len(bytes) =>
              /\ bytes[m + 1] \in Byte /\ Xor[bytes[m + 1]] \in Byte
              /\ bytes[m + 1] \notin Special =>
                   Begun(bytes, m + 1) = Append(Begun(bytes, m), bytes[m + 1])
              /\ bytes[m + 1] \in Special =>
                   Begun(bytes, m + 1)
                     = Append(Append(Begun(bytes, m), kEscape), Xor[bytes[m + 1]])
<1> DEFINE part == SubSeq(bytes, 1, m)
<1>1. part \in Seq(Byte) /\ kFlag \in Byte /\ kEscape \in Byte
  <2>1. part \in Seq(Byte)
    BY LongerPrefix
  <2> QED BY <2>1, FramingAssumption
<1>2. Stuffed[part] \in Seq(Byte) /\ <<kFlag>> \in Seq(Byte)
  <2> HIDE DEF part
  <2>1. \A s \in Seq(Byte) : Stuffed[s] \in Seq(Byte)
    BY StuffedType
  <2>2. <<kFlag>> \in Seq(Byte)
    BY <1>1
  <2> QED BY <1>1, <2>1, <2>2, Zenon
<1>3. Begun(bytes, m) = <<kFlag>> \o Stuffed[part] /\ Begun(bytes, m) \in Seq(Byte)
  BY <1>2, ConcatIsSeq DEF Begun
<1>4. ASSUME m < Len(bytes)
      PROVE  /\ bytes[m + 1] \in Byte /\ Xor[bytes[m + 1]] \in Byte
             /\ ByteStuff(bytes[m + 1]) \in Seq(Byte)
             /\ Begun(bytes, m + 1) = Begun(bytes, m) \o ByteStuff(bytes[m + 1])
  <2>1. bytes[m + 1] \in Byte /\ SubSeq(bytes, 1, m + 1) = Append(part, bytes[m + 1])
    BY <1>4, LongerPrefix
  <2> DEFINE byte == bytes[m + 1]
  <2> HIDE DEF part, byte
  <2>2. byte \in Byte /\ SubSeq(bytes, 1, m + 1) = Append(part, byte)
    BY <2>1 DEF byte
  <2>3. Xor[byte] \in Byte /\ ByteStuff(byte) \in Seq(Byte)
    BY <2>2, ByteStuffType
  <2>4. Stuffed[Append(part, byte)] = Stuffed[part] \o ByteStuff(byte)
    BY <1>1, <2>2, StuffedType
  <2>5. \A p, q, r \in Seq(Byte) : (p \o q) \o r = p \o (q \o r)
    BY Regroup
  <2>6. (<<kFlag>> \o Stuffed[part]) \o ByteStuff(byte) = <<kFlag>> \o (Stuffed[part] \o ByteStuff(byte))
    BY <1>2, <2>3, <2>5, Zenon
  <2>7. Begun(bytes, m + 1) = <<kFlag>> \o (Stuffed[part] \o ByteStuff(byte))
    BY <2>2, <2>4, Zenon DEF Begun
  <2>8. Begun(bytes, m + 1) = Begun(bytes, m) \o ByteStuff(byte)
    BY <1>3, <2>6, <2>7, Zenon
  <2> QED BY <2>2, <2>3, <2>8, Zenon DEF byte
<1> HIDE DEF part
<1>5. \A p \in Seq(Byte), x, y \in Byte :
        p \o <<x>> = Append(p, x) /\ p \o <<x, y>> = Append(Append(p, x), y)
  <2>1. ASSUME NEW p \in Seq(Byte), NEW x \in Byte, NEW y \in Byte
        PROVE  p \o <<x>> = Append(p, x) /\ p \o <<x, y>> = Append(Append(p, x), y)
    <3>1. p \o <<x>> = Append(p, x) /\ <<x>> \in Seq(Byte) /\ <<x, y>> = Append(<<x>>, y)
      BY Appended
    <3>2. p \o Append(<<x>>, y) = Append(p \o <<x>>, y)
      BY <3>1, AppendToConcat
    <3> QED BY <3>1, <3>2
  <2> QED BY <2>1
<1>6. ASSUME m < Len(bytes), bytes[m + 1] \notin Special
      PROVE  Begun(bytes, m + 1) = Append(Begun(bytes, m), bytes[m + 1])
  BY <1>3, <1>4, <1>5, <1>6, Zenon DEF ByteStuff, Special
<1>7. ASSUME m < Len(bytes), bytes[m + 1] \in Special
      PROVE  Begun(bytes, m + 1)
               = Append(Append(Begun(bytes, m), kEscape), Xor[bytes[m + 1]])
  BY <1>1, <1>3, <1>4, <1>5, <1>7, Zenon DEF ByteStuff, Special
<1> QED BY <1>3, <1>4, <1>6, <1>7

\* and ends with a flag.
LEMMA FrameIsBegun ==
  ASSUME NEW bytes \in Seq(Byte)
  PROVE  Frame(bytes) = Append(Begun(bytes, Len(bytes)), kFlag) /\ Frame(bytes) \in Seq(Byte)
<1>1. kFlag \in Byte /\ SubSeq(bytes, 1, Len(bytes)) = bytes /\ Len(bytes) \in 0 .. Len(bytes)
  BY FramingAssumption, SubSeqFull, LenProperties
<1>2. Begun(bytes, Len(bytes)) \in Seq(Byte)
  BY <1>1, BegunMore
<1>3. Frame(bytes) = Begun(bytes, Len(bytes)) \o <<kFlag>>
  BY <1>1 DEF Frame, Begun
<1> QED BY <1>1, <1>2, <1>3, Appended

------------------------------------------------------------------------------
\* The bytes processed.

\* What is kept of them is the end of what has come: there is a longest end
\* that begins two frames, since the empty one does.
LEMMA ConsumedIsAnEnd ==
  ASSUME NEW bytes \in Seq(Byte)
  PROVE  /\ LongestBeginning(bytes) \in Seq(Byte)
         /\ EndsWith(Byte, bytes, LongestBeginning(bytes))
<1> DEFINE len == Len(bytes)
           ok(n) == Begins(End(bytes, n))
           T == {len - n : n \in {n \in 0 .. len : ok(n)}}
<1>1. len \in Nat
  BY LenProperties
<1>2. ok(0)
  <2>1. PICK bytes1 \in Payloads : TRUE
    BY LinkAssumption
  <2>2. Frame(bytes1) \in Seq(Byte)
    BY LinkAssumption, FrameIsBegun
  <2> DEFINE two == Frame(bytes1) \o Frame(bytes1)
  <2>3. two \in Seq(Byte) /\ two \in TwoFrames
    BY <2>1, <2>2, ConcatIsSeq DEF TwoFrames
  <2> HIDE DEF two
  <2>4. End(bytes, 0) = <<>> /\ SubSeq(two, 1, 0) = <<>> /\ Len(<<>>) = 0 /\ Len(two) \in Nat
    <3>1. End(bytes, 0) = SubSeq(bytes, len + 1, len)
      BY <1>1 DEF End
    <3>2. SubSeq(bytes, len + 1, len) = <<>>
      BY <1>1, SubSeqEmpty
    <3> QED BY <2>3, <3>1, <3>2, SubSeqEmpty, EmptySeq, LenProperties
  <2>5. Len(End(bytes, 0)) = 0
    BY <2>4
  <2>6. Len(End(bytes, 0)) <= Len(two)
    BY <2>4, <2>5
  <2>7. End(bytes, 0) = SubSeq(two, 1, Len(End(bytes, 0)))
    BY <2>4, <2>5
  <2> QED BY <2>3, <2>6, <2>7 DEF Begins
<1>3. T \subseteq Nat /\ T # {}
  <2> HIDE DEF ok, len
  <2> QED BY <1>1, <1>2
<1>4. PICK n \in 0 .. len : ok(n) /\ \A more \in n + 1 .. len : ~ok(more)
  <2>1. PICK k \in T : \A i \in T : k <= i
    BY <1>3, LeastNumber
  <2> HIDE DEF ok, len
  <2>2. PICK n \in 0 .. len : ok(n) /\ k = len - n
    BY <2>1
  <2>3. ASSUME NEW more \in n + 1 .. len, ok(more) PROVE FALSE
    <3>1. more \in 0 .. len /\ ~(k <= len - more)
      BY <1>1, <2>2
    <3> QED BY <2>1, <2>3, <3>1
  <2> QED BY <2>2, <2>3
<1> DEFINE n0 == CHOOSE i \in 0 .. len : ok(i) /\ \A more \in i + 1 .. len : ~ok(more)
<1>5. n0 \in 0 .. len
  <2> HIDE DEF ok, len
  <2> QED BY <1>4
<1>6. LongestBeginning(bytes) = SubSeq(bytes, len - n0 + 1, len)
  BY DEF LongestBeginning, End
<1> HIDE DEF n0
<1> QED BY <1>5, <1>6, LastOnes

\* The bytes processed last are these.
After(bytes) == EndsWith(Byte, consumed, bytes)

\* What has come ended so before the last byte.
LEMMA OneByteAgo ==
  ASSUME consumed \in Seq(Byte), NEW byte \in Byte,
         consumed' = LongestBeginning(Append(consumed, byte))
  PROVE  /\ consumed' \in Seq(Byte)
         /\ \A bytes \in Seq(Byte), last \in Byte :
               After(Append(bytes, last))' => byte = last /\ After(bytes)
<1>1. Append(consumed, byte) \in Seq(Byte)
  BY AppendProperties
<1>2. consumed' \in Seq(Byte) /\ EndsWith(Byte, Append(consumed, byte), consumed')
  BY <1>1, ConsumedIsAnEnd
<1>3. \A t, u, s \in Seq(Byte), x, y \in Byte :
           EndsWith(Byte, Append(t, x), u) /\ EndsWith(Byte, u, Append(s, y))
             => x = y /\ EndsWith(Byte, t, s)
  BY EndBefore
<1> QED BY <1>2, <1>3, Zenon DEF After

------------------------------------------------------------------------------
\* The receiver, one byte at a time.

\* Its type, and what it makes of a byte, by the byte and its state.
LEMMA Processing ==
  ASSUME ReceiverTypeOK, NEW byte \in Byte, Process(byte)
  PROVE  /\ ReceiverTypeOK'
         /\ byte # kEscape => state' # "ESCAPE"
         /\ byte = kEscape /\ state # "ESCAPE" => state' \in {"IDLE", "ESCAPE"}
         /\ byte = kFlag /\ state # "ESCAPE" => state' \in {"IDLE", "FRAME_DELIMETER"}
         /\ byte = kFlag /\ state \in {"IDLE", "FRAME_DELIMETER"} =>
              state' = "FRAME_DELIMETER" /\ payload' = <<>>
         /\ state \in {"FRAME_DELIMETER", "DATA"} =>
              /\ byte = kEscape => state' = "ESCAPE" /\ payload' = payload
              /\ byte \notin Special /\ Len(payload) < PayloadBufferSize =>
                   state' = "DATA" /\ payload' = Append(payload, byte)
         /\ state = "ESCAPE" /\ Len(payload) < PayloadBufferSize =>
              state' = "DATA" /\ payload' = Append(payload, Xor[byte])
<1>1. payload \in Seq(Byte) /\ Len(payload) \in Nat /\ kFlag # kEscape /\ Xor[byte] \in Byte
      /\ PayloadBufferSize \in Nat \ {0}
  BY FramingAssumption, LenProperties DEF ReceiverTypeOK
<1>2. ASSUME NEW x \in Byte, Store(x)
      PROVE  /\ Len(payload) < PayloadBufferSize =>
                   state' = "DATA" /\ payload' = Append(payload, x)
             /\ ~(Len(payload) < PayloadBufferSize) => state' = "IDLE" /\ payload' = <<>>
             /\ state' \in {"IDLE", "DATA"} /\ ReceiverTypeOK'
  <2>1. CASE Len(payload) < PayloadBufferSize
    <3>1. state' = "DATA" /\ payload' = Append(payload, x)
      BY <1>1, <1>2, <2>1 DEF Store
    <3>2. /\ Append(payload, x) \in Seq(Byte) /\ Append(payload, x) # <<>>
          /\ Len(Append(payload, x)) <= PayloadBufferSize
      BY <1>1, <2>1, AppendProperties
    <3> QED BY <2>1, <3>1, <3>2 DEF ReceiverTypeOK
  <2>2. CASE ~(Len(payload) < PayloadBufferSize)
    <3>1. state' = "IDLE" /\ payload' = <<>>
      BY <1>1, <1>2, <2>2 DEF Store, Reset
    <3> QED BY <1>1, <2>2, <3>1, EmptySeq DEF ReceiverTypeOK
  <2> QED BY <2>1, <2>2
<1>3. CASE Idle(byte)
  BY <1>1, <1>3, EmptySeq DEF Idle, ReceiverTypeOK, Special
<1>4. CASE FrameDelimeter(byte)
  <2>1. CASE byte \in Special
    BY <1>1, <1>4, <2>1, EmptySeq DEF FrameDelimeter, ReceiverTypeOK, Special
  <2>2. CASE byte \notin Special
    BY <1>1, <1>2, <1>4, <2>2 DEF FrameDelimeter, Special
  <2> QED BY <2>1, <2>2
<1>5. CASE Escaped(byte)
  BY <1>1, <1>2, <1>5 DEF Escaped
<1>6. CASE Data(byte)
  <2>1. CASE byte \in Special
    <3>1. state = "DATA"
      BY <1>6 DEF Data
    <3>2. CASE byte = kFlag
      <4>1. state' = "IDLE" /\ payload' = <<>>
        BY <1>1, <1>6, <3>1, <3>2 DEF Data, Completes, Reset
      <4> QED BY <1>1, <3>1, <3>2, <4>1, EmptySeq DEF ReceiverTypeOK, Special
    <3>3. CASE byte = kEscape
      <4>1. state' = "ESCAPE" /\ payload' = payload
        BY <1>1, <1>6, <3>3 DEF Data, Completes
      <4> QED BY <1>1, <3>1, <3>3, <4>1 DEF ReceiverTypeOK, Special
    <3> QED BY <2>1, <3>2, <3>3 DEF Special
  <2>2. CASE byte \notin Special
    BY <1>1, <1>2, <1>6, <2>2 DEF Data, Completes, Special
  <2> QED BY <2>1, <2>2
<1> QED BY <1>3, <1>4, <1>5, <1>6 DEF Process

------------------------------------------------------------------------------
(***************************************************************************)
(* The invariant.  After what begins a frame the receiver may be anywhere, *)
(* but it does not take a flag for an escaped byte; after a whole frame it *)
(* waits for the next, whose bytes, as far as they have come, are the      *)
(* payload then; and after its closing flag it is heard.                   *)
(***************************************************************************)
NotEscaping ==
  \A first \in Payloads : \A m \in 0 .. Len(first) :
    /\ After(Begun(first, m)) => state # "ESCAPE"
    /\ After(Append(Begun(first, m), kEscape)) => state \in {"IDLE", "ESCAPE"}

Delimited ==
  \A first \in Payloads : After(Frame(first)) => state \in {"IDLE", "FRAME_DELIMETER"}

Second(first, second, m) == Frame(first) \o Begun(second, m)

Following ==
  \A first, second \in Payloads : \A m \in 0 .. Len(second) :
    /\ After(Second(first, second, m)) =>
         /\ payload = SubSeq(second, 1, m)
         /\ state = IF m = 0 THEN "FRAME_DELIMETER" ELSE "DATA"
    /\ After(Append(Second(first, second, m), kEscape)) =>
         payload = SubSeq(second, 1, m) /\ state = "ESCAPE"

Followed ==
  \A first, second \in Payloads :
    After(Append(Second(first, second, Len(second)), kFlag)) => heard = Expected(second)

Synced == NotEscaping /\ Delimited /\ Following /\ Followed

\* The handler has seen a byte that is still there; what is not answered was sent.
Served == isrflags # None => (isrflags.rxne => rdr # None)
Asked == ~answered => want \in Payloads

LinkInv == LinkTypeOK /\ Served /\ Asked /\ Synced

\* A payload is a sequence of bytes that fits.
LEMMA PayloadType ==
  ASSUME NEW bytes \in Payloads
  PROVE  /\ bytes \in Seq(Byte) /\ Len(bytes) \in Nat /\ Len(bytes) > 0
         /\ Len(bytes) <= PayloadBufferSize
         /\ bytes[1] \in Byte /\ bytes[1] \in DOMAIN ReadLength
         /\ ReadLength[bytes[1]] \in 1 .. Len(bytes) /\ MinLength[bytes[1]] <= Len(bytes)
         /\ Expected(bytes) \in Seq(Byte) /\ Expected(bytes) # <<>>
<1>1. /\ bytes \in Seq(Byte) /\ Len(bytes) \in 1 .. PayloadBufferSize
      /\ bytes[1] \in DOMAIN ReadLength /\ PayloadBufferSize \in Nat
      /\ ReadLength[bytes[1]] \in 1 .. PayloadBufferSize
      /\ ReadLength[bytes[1]] <= Len(bytes) /\ MinLength[bytes[1]] <= Len(bytes)
  BY FramingAssumption, LinkAssumption
<1>2. bytes[1] \in Byte
  BY <1>1, ElementOfSeq
<1>3. /\ Expected(bytes) \in Seq(Byte)
      /\ Len(Expected(bytes)) = ReadLength[bytes[1]]
  <2>1. ReadLength[bytes[1]] \in 0 .. Len(bytes)
    BY <1>1
  <2> QED BY <1>1, <2>1, LongerPrefix DEF Expected
<1> QED BY <1>1, <1>2, <1>3, EmptySeq

\* The second frame goes on as the first did.
LEMMA SecondMore ==
  ASSUME NEW first \in Payloads, NEW second \in Payloads, NEW m \in 0 .. Len(second)
  PROVE  /\ Second(first, second, m) \in Seq(Byte)
         /\ Second(first, second, 0) = Append(Frame(first), kFlag)
         /\ m < Len(second) =>
              /\ second[m + 1] \notin Special =>
                   Second(first, second, m + 1) = Append(Second(first, second, m), second[m + 1])
              /\ second[m + 1] \in Special =>
                   Second(first, second, m + 1)
                     = Append(Append(Second(first, second, m), kEscape), Xor[second[m + 1]])
         /\ Frame(first) \o Frame(second) = Append(Second(first, second, Len(second)), kFlag)
<1>1. \A p, q \in Seq(Byte), x \in Byte : p \o Append(q, x) = Append(p \o q, x)
  BY AppendToConcat
<1>2. first \in Seq(Byte) /\ second \in Seq(Byte) /\ kFlag \in Byte /\ kEscape \in Byte
      /\ 0 \in 0 .. Len(second) /\ Len(second) \in 0 .. Len(second)
  BY PayloadType, FramingAssumption
<1>3. Frame(first) \in Seq(Byte) /\ Frame(second) = Append(Begun(second, Len(second)), kFlag)
  BY <1>2, FrameIsBegun
<1>4. Begun(second, m) \in Seq(Byte) /\ Begun(second, Len(second)) \in Seq(Byte)
  BY <1>2, BegunMore
<1>5. Second(first, second, m) \in Seq(Byte)
  BY <1>3, <1>4, ConcatIsSeq DEF Second
<1>6. Second(first, second, 0) = Append(Frame(first), kFlag)
  <2>1. Begun(second, 0) = <<kFlag>>
    BY <1>2, BegunEmpty
  <2> QED BY <1>2, <1>3, <2>1, AppendIsConcat DEF Second
<1>7. Frame(first) \o Frame(second) = Append(Second(first, second, Len(second)), kFlag)
  <2>1. Frame(first) \o Append(Begun(second, Len(second)), kFlag)
          = Append(Frame(first) \o Begun(second, Len(second)), kFlag)
    BY <1>1, <1>2, <1>3, <1>4, Zenon
  <2> QED BY <1>3, <2>1 DEF Second
<1>8. ASSUME m < Len(second), second[m + 1] \notin Special
      PROVE  Second(first, second, m + 1) = Append(Second(first, second, m), second[m + 1])
  <2>1. second[m + 1] \in Byte /\ Begun(second, m + 1) = Append(Begun(second, m), second[m + 1])
    BY <1>2, <1>8, BegunMore
  <2> QED BY <1>1, <1>3, <1>4, <2>1, Zenon DEF Second
<1>9. ASSUME m < Len(second), second[m + 1] \in Special
      PROVE  Second(first, second, m + 1)
               = Append(Append(Second(first, second, m), kEscape), Xor[second[m + 1]])
  <2>1. /\ Xor[second[m + 1]] \in Byte
        /\ Begun(second, m + 1) = Append(Append(Begun(second, m), kEscape), Xor[second[m + 1]])
    BY <1>2, <1>9, BegunMore
  <2>2. Append(Begun(second, m), kEscape) \in Seq(Byte)
    BY <1>2, <1>4, AppendProperties
  <2>3. Frame(first) \o Append(Begun(second, m), kEscape) = Append(Second(first, second, m), kEscape)
    BY <1>1, <1>2, <1>3, <1>4, Zenon DEF Second
  <2> QED BY <1>1, <1>3, <2>1, <2>2, <2>3, Zenon DEF Second
<1> QED BY <1>5, <1>6, <1>7, <1>8, <1>9

\* What one turn of the loop of receive() does.
LEMMA OneByte ==
  ASSUME LinkInv, ProcessByte
  PROVE  \E byte \in Byte :
           /\ Process(byte) /\ ReceiverTypeOK
           /\ consumed' = LongestBeginning(Append(consumed, byte))
           /\ heard' = IF Completes(byte) THEN Hears ELSE <<>>
           /\ buffer' = IF Completes(byte) THEN Dispatched ELSE buffer
<1>1. buffer[j + 1] \in Byte
  <2>1. j + 1 \in 1 .. PayloadBufferSize /\ buffer \in [1 .. PayloadBufferSize -> Byte]
    BY FramingAssumption DEF LinkInv, LinkTypeOK, ProcessByte
  <2> QED BY <2>1
<1> QED BY <1>1 DEF ProcessByte, LinkInv, LinkTypeOK

\* What the callback gets is a sequence of bytes, and what was sent if that is
\* what the receiver has.
LEMMA HearsPayload ==
  ASSUME LinkInv, payload # <<>>
  PROVE  /\ Dispatched \in [1 .. PayloadBufferSize -> Byte]
         /\ Hears \in Seq(Byte)
         /\ payload \in Payloads => Hears = Expected(payload)
<1>1. /\ payload \in Seq(Byte) /\ Len(payload) <= PayloadBufferSize /\ Len(payload) \in Nat
      /\ buffer \in [1 .. PayloadBufferSize -> Byte] /\ PayloadBufferSize \in Nat
      /\ \A i \in 1 .. Len(payload) : payload[i] \in Byte
  <2>1. payload \in Seq(Byte) /\ Len(payload) <= PayloadBufferSize
        /\ buffer \in [1 .. PayloadBufferSize -> Byte] /\ PayloadBufferSize \in Nat
    BY FramingAssumption DEF LinkInv, LinkTypeOK, ReceiverTypeOK
  <2> QED BY <2>1, ElementOfSeq, LenProperties
<1>2. /\ Dispatched \in [1 .. PayloadBufferSize -> Byte]
      /\ \A i \in 1 .. Len(payload) : Dispatched[i] = payload[i]
  BY <1>1 DEF Dispatched
<1> DEFINE n == ReadLength[payload[1]]
<1>3. ASSUME payload[1] \in DOMAIN ReadLength
      PROVE  /\ n \in 1 .. PayloadBufferSize
             /\ SubSeq(Dispatched, 1, n) \in Seq(Byte) /\ Len(SubSeq(Dispatched, 1, n)) = n
             /\ \A i \in 1 .. n : SubSeq(Dispatched, 1, n)[i] = Dispatched[i]
  <2>1. n \in 1 .. PayloadBufferSize
    BY <1>3, LinkAssumption
  <2> HIDE DEF n
  <2>2. n \in Int /\ 1 \in Int /\ \A i \in 1 .. n : Dispatched[i] \in Byte
    BY <1>1, <1>2, <2>1
  <2>3. /\ SubSeq(Dispatched, 1, n) \in Seq(Byte)
        /\ Len(SubSeq(Dispatched, 1, n)) = IF 1 <= n THEN n - 1 + 1 ELSE 0
        /\ \A i \in 1 .. n - 1 + 1 : SubSeq(Dispatched, 1, n)[i] = Dispatched[1 + i - 1]
    BY <2>2, SubSeqProperties
  <2> QED BY <2>1, <2>3, <1>1
<1>4. Hears \in Seq(Byte)
  BY <1>3, EmptySeq DEF Hears
<1>5. ASSUME payload \in Payloads PROVE Hears = Expected(payload)
  <2>1. payload[1] \in DOMAIN ReadLength /\ n \in 1 .. Len(payload)
        /\ MinLength[payload[1]] <= Len(payload) /\ MinLength[payload[1]] \in Nat
    BY <1>5, PayloadType, LinkAssumption
  <2>2. Hears = SubSeq(Dispatched, 1, n)
    BY <1>1, <2>1 DEF Hears
  <2> HIDE DEF n
  <2>3. n \in Int /\ 1 \in Int /\ \A i \in 1 .. n : payload[i] \in Byte
    BY <1>1, <2>1
  <2>4. /\ SubSeq(payload, 1, n) \in Seq(Byte)
        /\ Len(SubSeq(payload, 1, n)) = IF 1 <= n THEN n - 1 + 1 ELSE 0
        /\ \A i \in 1 .. n - 1 + 1 : SubSeq(payload, 1, n)[i] = payload[1 + i - 1]
    BY <2>3, SubSeqProperties
  <2>5. Len(SubSeq(payload, 1, n)) = n /\ \A i \in 1 .. n : SubSeq(payload, 1, n)[i] = payload[i]
    BY <1>1, <2>1, <2>4
  <2>6. SubSeq(Dispatched, 1, n) = SubSeq(payload, 1, n)
    BY <1>2, <1>3, <2>1, <2>4, <2>5, SeqEqual DEF n
  <2> QED BY <2>2, <2>6 DEF Expected, n
<1> QED BY <1>2, <1>4, <1>5

\* A byte keeps the receiver in step with the frames.
LEMMA SyncedByByte ==
  ASSUME LinkInv, ProcessByte
  PROVE  Synced'
<1>1. PICK byte \in Byte :
        /\ Process(byte) /\ ReceiverTypeOK
        /\ consumed' = LongestBeginning(Append(consumed, byte))
        /\ heard' = IF Completes(byte) THEN Hears ELSE <<>>
  BY OneByte
<1>2. \A bytes \in Seq(Byte), last \in Byte :
        After(Append(bytes, last))' => byte = last /\ After(bytes)
  <2>1. consumed \in Seq(Byte)
    BY DEF LinkInv, LinkTypeOK
  <2> QED BY <1>1, <2>1, OneByteAgo
<1>3. kFlag \in Byte /\ kEscape \in Byte /\ kFlag # kEscape /\ <<>> \in Seq(Byte)
      /\ \A special \in Special : special \in Byte /\ Xor[special] \notin Special
                                 /\ Xor[Xor[special]] = special /\ Xor[special] \in Byte
  BY FramingAssumption, EmptySeq DEF Special
<1>4. /\ byte # kEscape => state' # "ESCAPE"
      /\ byte = kEscape /\ state # "ESCAPE" => state' \in {"IDLE", "ESCAPE"}
      /\ byte = kFlag /\ state # "ESCAPE" => state' \in {"IDLE", "FRAME_DELIMETER"}
      /\ byte = kFlag /\ state \in {"IDLE", "FRAME_DELIMETER"} =>
           state' = "FRAME_DELIMETER" /\ payload' = <<>>
      /\ state \in {"FRAME_DELIMETER", "DATA"} =>
           /\ byte = kEscape => state' = "ESCAPE" /\ payload' = payload
           /\ byte \notin Special /\ Len(payload) < PayloadBufferSize =>
                state' = "DATA" /\ payload' = Append(payload, byte)
      /\ state = "ESCAPE" /\ Len(payload) < PayloadBufferSize =>
           state' = "DATA" /\ payload' = Append(payload, Xor[byte])
  BY <1>1, Processing
<1>5. NotEscaping /\ Delimited /\ Following
  BY DEF LinkInv, Synced
<1>6. NotEscaping'
  <2> SUFFICES ASSUME NEW first \in Payloads, NEW m \in 0 .. Len(first)
               PROVE  /\ After(Begun(first, m))' => state' # "ESCAPE"
                      /\ After(Append(Begun(first, m), kEscape))' => state' \in {"IDLE", "ESCAPE"}
    BY DEF NotEscaping
  <2>1. first \in Seq(Byte) /\ Begun(first, m) \in Seq(Byte)
    BY PayloadType, BegunMore
  <2>2. ASSUME After(Begun(first, m))' PROVE state' # "ESCAPE"
    <3>1. CASE m = 0
      BY <1>2, <1>3, <1>4, <2>1, <2>2, <3>1, BegunEmpty
    <3>2. CASE m # 0
      <4> DEFINE k == m - 1
      <4>1. k \in 0 .. Len(first) /\ k < Len(first) /\ m = k + 1
        BY <3>2, <2>1, LenProperties
      <4> HIDE DEF k
      <4>2. Begun(first, k) \in Seq(Byte) /\ first[k + 1] \in Byte
        BY <2>1, <4>1, BegunMore
      <4>3. CASE first[k + 1] \notin Special
        <5>1. Begun(first, m) = Append(Begun(first, k), first[k + 1])
          BY <2>1, <4>1, <4>3, BegunMore
        <5>2. byte = first[k + 1]
          BY <1>2, <2>2, <4>2, <5>1
        <5> QED BY <1>4, <4>3, <5>2 DEF Special
      <4>4. CASE first[k + 1] \in Special
        <5>1. Begun(first, m) = Append(Append(Begun(first, k), kEscape), Xor[first[k + 1]])
          BY <2>1, <4>1, <4>4, BegunMore
        <5>2. Append(Begun(first, k), kEscape) \in Seq(Byte)
          BY <1>3, <4>2, AppendProperties
        <5>3. byte = Xor[first[k + 1]]
          BY <1>2, <1>3, <2>2, <4>4, <5>1, <5>2
        <5> QED BY <1>3, <1>4, <4>4, <5>3 DEF Special
      <4> QED BY <4>3, <4>4
    <3> QED BY <3>1, <3>2
  <2>3. ASSUME After(Append(Begun(first, m), kEscape))' PROVE state' \in {"IDLE", "ESCAPE"}
    <3>1. byte = kEscape /\ After(Begun(first, m))
      BY <1>2, <1>3, <2>1, <2>3
    <3> QED BY <1>4, <1>5, <3>1 DEF NotEscaping
  <2> QED BY <2>2, <2>3
<1>7. Delimited'
  <2> SUFFICES ASSUME NEW first \in Payloads, After(Frame(first))'
               PROVE  state' \in {"IDLE", "FRAME_DELIMETER"}
    BY DEF Delimited
  <2>1. first \in Seq(Byte) /\ Len(first) \in 0 .. Len(first)
    BY PayloadType
  <2>2. Frame(first) = Append(Begun(first, Len(first)), kFlag) /\ Begun(first, Len(first)) \in Seq(Byte)
    BY <2>1, FrameIsBegun, BegunMore
  <2>3. byte = kFlag /\ After(Begun(first, Len(first)))
    BY <1>2, <1>3, <2>2
  <2> QED BY <1>4, <1>5, <2>1, <2>3 DEF NotEscaping
<1>8. Following'
  <2> SUFFICES ASSUME NEW first \in Payloads, NEW second \in Payloads, NEW m \in 0 .. Len(second)
               PROVE  /\ After(Second(first, second, m))' =>
                           /\ payload' = SubSeq(second, 1, m)
                           /\ state' = IF m = 0 THEN "FRAME_DELIMETER" ELSE "DATA"
                      /\ After(Append(Second(first, second, m), kEscape))' =>
                           payload' = SubSeq(second, 1, m) /\ state' = "ESCAPE"
    BY DEF Following
  <2>1. /\ first \in Seq(Byte) /\ second \in Seq(Byte) /\ Frame(first) \in Seq(Byte)
        /\ Second(first, second, m) \in Seq(Byte)
        /\ Len(second) \in Nat /\ Len(second) <= PayloadBufferSize /\ PayloadBufferSize \in Nat
    BY PayloadType, FrameIsBegun, SecondMore, FramingAssumption
  <2>2. ASSUME After(Second(first, second, m))'
        PROVE  /\ payload' = SubSeq(second, 1, m)
               /\ state' = IF m = 0 THEN "FRAME_DELIMETER" ELSE "DATA"
    <3>1. CASE m = 0
      <4>1. Second(first, second, m) = Append(Frame(first), kFlag)
        BY <3>1, SecondMore
      <4>2. byte = kFlag /\ After(Frame(first))
        BY <1>2, <1>3, <2>1, <2>2, <4>1
      <4>3. state' = "FRAME_DELIMETER" /\ payload' = <<>>
        BY <1>4, <1>5, <4>2 DEF Delimited
      <4>4. SubSeq(second, 1, 0) = <<>>
        BY SubSeqEmpty
      <4> QED BY <3>1, <4>3, <4>4
    <3>2. CASE m # 0
      <4> DEFINE k == m - 1
      <4>1. k \in 0 .. Len(second) /\ k < Len(second) /\ m = k + 1
        BY <3>2, <2>1
      <4> HIDE DEF k
      <4>2. /\ Second(first, second, k) \in Seq(Byte) /\ second[k + 1] \in Byte
            /\ Len(SubSeq(second, 1, k)) < PayloadBufferSize
            /\ SubSeq(second, 1, m) = Append(SubSeq(second, 1, k), second[k + 1])
        BY <2>1, <4>1, SecondMore, LongerPrefix
      <4>3. CASE second[k + 1] \notin Special
        <5>1. Second(first, second, m) = Append(Second(first, second, k), second[k + 1])
          BY <4>1, <4>3, SecondMore
        <5>2. byte = second[k + 1] /\ After(Second(first, second, k))
          BY <1>2, <2>2, <4>2, <5>1
        <5>3. payload = SubSeq(second, 1, k) /\ state \in {"FRAME_DELIMETER", "DATA"}
          BY <1>5, <4>1, <5>2 DEF Following
        <5> QED BY <1>4, <3>2, <4>2, <4>3, <5>2, <5>3
      <4>4. CASE second[k + 1] \in Special
        <5>1. Second(first, second, m)
                = Append(Append(Second(first, second, k), kEscape), Xor[second[k + 1]])
          BY <4>1, <4>4, SecondMore
        <5>2. Append(Second(first, second, k), kEscape) \in Seq(Byte)
          BY <1>3, <4>2, AppendProperties
        <5>3. byte = Xor[second[k + 1]] /\ After(Append(Second(first, second, k), kEscape))
          BY <1>2, <1>3, <2>2, <4>4, <5>1, <5>2
        <5>4. payload = SubSeq(second, 1, k) /\ state = "ESCAPE"
          BY <1>5, <4>1, <5>3 DEF Following
        <5>5. Xor[byte] = second[k + 1]
          BY <1>3, <4>4, <5>3
        <5> QED BY <1>4, <3>2, <4>2, <5>4, <5>5
      <4> QED BY <4>3, <4>4
    <3> QED BY <3>1, <3>2
  <2>3. ASSUME After(Append(Second(first, second, m), kEscape))'
        PROVE  payload' = SubSeq(second, 1, m) /\ state' = "ESCAPE"
    <3>1. byte = kEscape /\ After(Second(first, second, m))
      BY <1>2, <1>3, <2>1, <2>3
    <3>2. payload = SubSeq(second, 1, m) /\ state \in {"FRAME_DELIMETER", "DATA"}
      BY <1>5, <3>1 DEF Following
    <3> QED BY <1>4, <3>1, <3>2
  <2> QED BY <2>2, <2>3
<1>9. Followed'
  <2> SUFFICES ASSUME NEW first \in Payloads, NEW second \in Payloads,
                      After(Append(Second(first, second, Len(second)), kFlag))'
               PROVE  heard' = Expected(second)
    BY DEF Followed
  <2>1. second \in Seq(Byte) /\ Len(second) \in 0 .. Len(second) /\ Len(second) # 0
    BY PayloadType
  <2>2. Second(first, second, Len(second)) \in Seq(Byte)
    BY <2>1, SecondMore
  <2>3. byte = kFlag /\ After(Second(first, second, Len(second)))
    BY <1>2, <1>3, <2>2
  <2>4. payload = SubSeq(second, 1, Len(second)) /\ state = "DATA"
    BY <1>5, <2>1, <2>3 DEF Following
  <2>5. payload = second
    BY <2>1, <2>4, SubSeqFull
  <2>6. heard' = Hears
    BY <1>1, <2>3, <2>4 DEF Completes
  <2>7. payload # <<>> /\ payload \in Payloads
    BY <2>1, <2>5, EmptySeq
  <2> QED BY <2>5, <2>6, <2>7, HearsPayload
<1> QED BY <1>6, <1>7, <1>8, <1>9 DEF Synced

\* Only a byte processed changes what the receiver is in step with.
LEMMA SyncedByRest ==
  ASSUME Synced, UNCHANGED <<consumed, heard, state, payload>>
  PROVE  Synced'
<1>1. \A bytes : After(bytes)' = After(bytes)
  BY DEF After
<1>2. NotEscaping' /\ Delimited'
  BY <1>1, Zenon DEF Synced, NotEscaping, Delimited
<1>3. Following' /\ Followed'
  BY <1>1, Zenon DEF Synced, Following, Followed
<1> QED BY <1>2, <1>3 DEF Synced

\* The host and the line keep the type of what they change.
LEMMA HostType ==
  ASSUME LinkInv, Host
  PROVE  LinkTypeOK' /\ Served' /\ Asked'
<1> USE DEF LinkInv, hostVars, uartVars, transportVars, receiverVars
<1>1. /\ faults \in Nat /\ polite \in BOOLEAN /\ MaxFaults[polite] \in Nat
      /\ faults <= MaxFaults[polite] /\ None \notin Byte
  BY LinkAssumption DEF LinkTypeOK
<1>2. ASSUME frame # <<>> PROVE Head(frame) \in Byte /\ Tail(frame) \in Seq(Byte)
  BY <1>2, HeadTailProperties DEF LinkTypeOK
<1>3. ASSUME NEW byte \in Byte, Arrive(byte)
      PROVE  rdr' \in Byte /\ ore' \in BOOLEAN /\ UNCHANGED <<armed, isrflags>> /\ Served'
  BY <1>1, <1>3 DEF Arrive, LinkTypeOK, Served
<1>4. CASE SendFrame
  <2>1. want' \in Payloads
    BY <1>4 DEF SendFrame, Asked
  <2>2. Frame(want') \in Seq(Byte)
    BY <2>1, PayloadType, FrameIsBegun
  <2>3. LinkTypeOK'
    BY <1>4, <2>1, <2>2 DEF SendFrame, LinkTypeOK, ReceiverTypeOK
  <2> QED BY <1>4, <2>1, <2>3 DEF SendFrame, Served, Asked
<1>5. CASE LineByte
  <2>1. faults' \in 0 .. MaxFaults[polite] /\ UNCHANGED polite
    BY <1>1, <1>5 DEF LineByte
  <2>2. rdr' \in Byte /\ ore' \in BOOLEAN /\ UNCHANGED <<armed, isrflags>> /\ Served'
        /\ frame' \in Seq(Byte)
    BY <1>2, <1>3, <1>5 DEF LineByte
  <2> QED BY <1>5, <2>1, <2>2 DEF LineByte, LinkTypeOK, ReceiverTypeOK, Asked
<1>6. CASE LineFault
  <2>1. faults' \in 0 .. MaxFaults[polite] /\ UNCHANGED polite
    BY <1>1, <1>6 DEF LineFault
  <2>2. /\ rdr' \in Byte \cup {None} /\ ore' \in BOOLEAN /\ UNCHANGED <<armed, isrflags>> /\ Served'
        /\ frame' \in Seq(Byte)
    <3>1. CASE UNCHANGED uartVars
      BY <1>2, <1>6, <3>1 DEF LineFault, LinkTypeOK, Served
    <3>2. CASE \E byte \in Byte \ {Head(frame)} : Arrive(byte)
      BY <1>2, <1>3, <1>6, <3>2 DEF LineFault
    <3> QED BY <1>6, <3>1, <3>2 DEF LineFault
  <2> QED BY <1>6, <2>1, <2>2 DEF LineFault, LinkTypeOK, ReceiverTypeOK, Asked
<1> QED BY <1>4, <1>5, <1>6 DEF Host

\* So does the interrupt,
LEMMA InterruptType ==
  ASSUME LinkInv, Interrupt
  PROVE  LinkTypeOK' /\ Served' /\ Asked'
<1> USE DEF LinkInv, hostVars, uartVars, transportVars, receiverVars
<1>1. CASE IrqEnter
  <2>1. LinkTypeOK'
    BY <1>1 DEF IrqEnter, LinkTypeOK, ReceiverTypeOK
  <2> QED BY <1>1, <2>1 DEF IrqEnter, Served, Asked
<1>2. CASE IrqReturn
  <2>1. ring' \in Seq(Byte) /\ Len(ring') <= RingCapacity
    <3>1. ring \in Seq(Byte) /\ Len(ring) <= RingCapacity /\ Len(ring) \in Nat /\ RingCapacity \in Nat
      BY LinkAssumption, LenProperties DEF LinkTypeOK
    <3>2. isrflags.rxne => rdr \in Byte
      BY <1>2 DEF IrqReturn, Served, LinkTypeOK
    <3>3. CASE isrflags.rxne /\ Len(ring) < RingCapacity
      BY <1>2, <3>1, <3>2, <3>3, AppendProperties DEF IrqReturn
    <3>4. CASE ~(isrflags.rxne /\ Len(ring) < RingCapacity)
      BY <1>2, <3>1, <3>4 DEF IrqReturn
    <3> QED BY <3>3, <3>4
  <2>2. rdr' \in Byte \cup {None} /\ ore' \in BOOLEAN /\ armed' \in BOOLEAN /\ isrflags' = None
    BY <1>2 DEF IrqReturn, LinkTypeOK
  <2> QED BY <1>2, <2>1, <2>2 DEF IrqReturn, LinkTypeOK, ReceiverTypeOK, Served, Asked
<1> QED BY <1>1, <1>2 DEF Interrupt

\* and the main loop.
LEMMA MainLoopType ==
  ASSUME LinkInv, MainLoop
  PROVE  LinkTypeOK' /\ Served' /\ Asked'
<1> USE DEF LinkInv
<1>1. CASE ReadStream
  <2>1. /\ ring \in Seq(Byte) /\ Len(ring) \in Nat /\ Len(ring) <= RingCapacity
        /\ \A i \in 1 .. Len(ring) : ring[i] \in Byte
        /\ PayloadBufferSize \in Nat /\ RingCapacity \in Nat
        /\ buffer \in [1 .. PayloadBufferSize -> Byte]
    BY LinkAssumption, FramingAssumption, LenProperties, ElementOfSeq DEF LinkTypeOK
  <2>2. bytes_read' \in 0 .. PayloadBufferSize /\ bytes_read' <= Len(ring) /\ j' \in 0 .. bytes_read'
    BY <1>1, <2>1 DEF ReadStream
  <2>3. buffer' \in [1 .. PayloadBufferSize -> Byte]
    BY <1>1, <2>1, <2>2 DEF ReadStream
  <2>4. ring' \in Seq(Byte) /\ Len(ring') <= RingCapacity
    <3> DEFINE n == bytes_read' + 1
    <3>1. n \in 1 .. Len(ring) + 1 /\ ring' = SubSeq(ring, n, Len(ring))
      BY <1>1, <2>1, <2>2 DEF ReadStream
    <3> HIDE DEF n
    <3>2. n \in Int /\ Len(ring) \in Int /\ \A i \in n .. Len(ring) : ring[i] \in Byte
      BY <2>1, <3>1
    <3>3. /\ SubSeq(ring, n, Len(ring)) \in Seq(Byte)
          /\ Len(SubSeq(ring, n, Len(ring))) = IF n <= Len(ring) THEN Len(ring) - n + 1 ELSE 0
      BY <3>2, SubSeqProperties
    <3> QED BY <2>1, <3>1, <3>3
  <2> QED BY <1>1, <2>2, <2>3, <2>4
          DEF ReadStream, LinkTypeOK, ReceiverTypeOK, Served, Asked, hostVars, uartVars, receiverVars
<1>2. CASE ProcessByte
  <2>1. PICK byte \in Byte :
          /\ Process(byte) /\ ReceiverTypeOK
          /\ consumed' = LongestBeginning(Append(consumed, byte))
          /\ heard' = IF Completes(byte) THEN Hears ELSE <<>>
          /\ buffer' = IF Completes(byte) THEN Dispatched ELSE buffer
    BY <1>2, OneByte
  <2>2. ReceiverTypeOK'
    BY <2>1, Processing
  <2>3. consumed' \in Seq(Byte)
    BY <2>1, OneByteAgo DEF LinkTypeOK
  <2>4. heard' \in Seq(Byte) /\ buffer' \in [1 .. PayloadBufferSize -> Byte]
    <3>1. Completes(byte) => payload # <<>>
      BY DEF Completes, LinkTypeOK, ReceiverTypeOK
    <3> QED BY <2>1, <3>1, HearsPayload, EmptySeq DEF LinkTypeOK
  <2>5. j' \in 0 .. bytes_read'
    BY <1>2, FramingAssumption DEF ProcessByte, LinkTypeOK
  <2>6. answered' \in BOOLEAN /\ (~answered' => ~answered)
    BY <1>2, Zenon DEF ProcessByte, LinkTypeOK
  <2> QED BY <1>2, <2>2, <2>3, <2>4, <2>5, <2>6
          DEF ProcessByte, LinkTypeOK, Served, Asked, uartVars
<1> QED BY <1>1, <1>2 DEF MainLoop

\* It holds at the start,
LEMMA LinkInvInit == LinkInit => LinkInv
<1> SUFFICES ASSUME LinkInit PROVE LinkInv
  OBVIOUS
<1>1. <<>> \in Seq(Byte) /\ Len(<<>>) = 0 /\ kFlag \in Byte /\ PayloadBufferSize \in Nat
      /\ RingCapacity \in Nat /\ MaxFaults[polite] \in Nat
  BY EmptySeq, FramingAssumption, LinkAssumption DEF LinkInit
<1>2. LinkTypeOK /\ Served /\ Asked
  <2>1. ReceiverTypeOK
    BY <1>1 DEF LinkInit, ReceiverInit, ReceiverTypeOK
  <2>2. faults \in 0 .. MaxFaults[polite] /\ bytes_read \in 0 .. PayloadBufferSize /\ j \in 0 .. bytes_read
        /\ buffer \in [1 .. PayloadBufferSize -> Byte] /\ Len(ring) <= RingCapacity
    BY <1>1 DEF LinkInit
  <2>3. polite \in BOOLEAN /\ answered = TRUE /\ ore = FALSE /\ armed = TRUE /\ isrflags = None
        /\ want = <<>> /\ frame = <<>> /\ rdr = None /\ ring = <<>> /\ heard = <<>> /\ consumed = <<>>
    BY DEF LinkInit
  <2>4. Served /\ Asked
    BY <2>3 DEF Served, Asked
  <2> QED BY <1>1, <2>1, <2>2, <2>3, <2>4 DEF LinkTypeOK
<1>3. state = "IDLE" /\ consumed = <<>>
  BY DEF LinkInit, ReceiverInit
<1>4. \A bytes \in Seq(Byte), last \in Byte : ~After(Append(bytes, last))
  <2> SUFFICES ASSUME NEW bytes \in Seq(Byte), NEW last \in Byte, After(Append(bytes, last))
               PROVE  FALSE
    OBVIOUS
  <2>1. PICK p \in Seq(Byte) : <<>> = p \o Append(bytes, last)
    BY <1>3 DEF After, EndsWith
  <2>2. Append(bytes, last) \in Seq(Byte) /\ Append(bytes, last) # <<>>
    BY AppendProperties
  <2> QED BY <2>1, <2>2, ConcatEqualIffEmpty
<1>5. kFlag \in Byte /\ kEscape \in Byte
  BY FramingAssumption
<1>6. NotEscaping
  BY <1>3 DEF NotEscaping
<1>7. Delimited
  BY <1>3 DEF Delimited
<1>8. Following
  <2> SUFFICES ASSUME NEW first \in Payloads, NEW second \in Payloads, NEW m \in 0 .. Len(second)
               PROVE  ~After(Second(first, second, m)) /\ ~After(Append(Second(first, second, m), kEscape))
    BY Zenon DEF Following
  <2>1. Second(first, second, m) \in Seq(Byte) /\ Frame(first) \in Seq(Byte) /\ second \in Seq(Byte)
    BY SecondMore, PayloadType, FrameIsBegun
  <2>2. ~After(Append(Second(first, second, m), kEscape))
    BY <1>4, <1>5, <2>1
  <2>3. CASE m = 0
    BY <1>4, <1>5, <2>1, <2>2, <2>3, SecondMore
  <2>4. CASE m # 0
    <3> DEFINE k == m - 1
    <3>1. k \in 0 .. Len(second) /\ k < Len(second) /\ m = k + 1
      BY <2>1, <2>4, LenProperties
    <3> HIDE DEF k
    <3>2. Second(first, second, k) \in Seq(Byte) /\ second[k + 1] \in Byte /\ Xor[second[k + 1]] \in Byte
      BY <2>1, <3>1, SecondMore, BegunMore
    <3>3. Append(Second(first, second, k), kEscape) \in Seq(Byte)
      BY <1>5, <3>2, AppendProperties
    <3>4. \E bytes \in Seq(Byte), last \in Byte : Second(first, second, m) = Append(bytes, last)
      BY <3>1, <3>2, <3>3, SecondMore
    <3> QED BY <1>4, <2>2, <3>4
  <2> QED BY <2>3, <2>4
<1>9. Followed
  <2> SUFFICES ASSUME NEW first \in Payloads, NEW second \in Payloads
               PROVE  ~After(Append(Second(first, second, Len(second)), kFlag))
    BY Zenon DEF Followed
  <2>1. Len(second) \in 0 .. Len(second)
    BY PayloadType
  <2> QED BY <1>4, <1>5, <2>1, SecondMore
<1> QED BY <1>2, <1>6, <1>7, <1>8, <1>9 DEF LinkInv, Synced

\* and every step keeps it.
LEMMA LinkInvNext == LinkInv /\ [LinkNext]_linkVars => LinkInv'
<1> SUFFICES ASSUME LinkInv, [LinkNext]_linkVars PROVE LinkInv'
  OBVIOUS
<1>1. CASE Host
  <2>1. UNCHANGED <<consumed, heard, state, payload>>
    BY <1>1 DEF Host, SendFrame, LineByte, LineFault, transportVars, receiverVars
  <2> QED BY <1>1, <2>1, HostType, SyncedByRest DEF LinkInv
<1>2. CASE Interrupt
  <2>1. UNCHANGED <<consumed, heard, state, payload>>
    BY <1>2 DEF Interrupt, IrqEnter, IrqReturn, transportVars, receiverVars
  <2> QED BY <1>2, <2>1, InterruptType, SyncedByRest DEF LinkInv
<1>3. CASE MainLoop
  <2>1. CASE ReadStream
    <3>1. UNCHANGED <<consumed, heard, state, payload>>
      BY <2>1 DEF ReadStream, receiverVars
    <3> QED BY <1>3, <3>1, MainLoopType, SyncedByRest DEF LinkInv
  <2>2. CASE ProcessByte
    BY <1>3, <2>2, MainLoopType, SyncedByByte DEF LinkInv
  <2> QED BY <1>3, <2>1, <2>2 DEF MainLoop
<1>4. CASE UNCHANGED linkVars
  <2> USE DEF linkVars, hostVars, uartVars, transportVars, receiverVars
  <2>1. UNCHANGED <<consumed, heard, state, payload>>
    BY <1>4
  <2>2. LinkTypeOK' /\ Served' /\ Asked'
    BY <1>4 DEF LinkInv, LinkTypeOK, ReceiverTypeOK, Served, Asked
  <2> QED BY <2>1, <2>2, SyncedByRest DEF LinkInv
<1> QED BY <1>1, <1>2, <1>3, <1>4 DEF LinkNext

\* Of every state of the link.
THEOREM LinkInvHolds == LinkSpec => []LinkInv
BY LinkInvInit, LinkInvNext, PTL DEF LinkSpec

\* The variables of the link keep their types.
THEOREM LinkTyped == LinkSpec => []LinkTypeOK
<1>1. LinkInv => LinkTypeOK
  BY DEF LinkInv
<1> QED BY <1>1, LinkInvHolds, PTL

(***************************************************************************)
(* Resynchronisation: whatever came before, the second of two whole frames *)
(* is heard as it was sent, for every set of payloads, of bytes, and every *)
(* size of the buffer and of the ring.                                     *)
(***************************************************************************)
THEOREM SecondFrameIsHeard == LinkSpec => []FramesHeard
<1>1. LinkInv => FramesHeard
  <2> SUFFICES ASSUME LinkInv, NEW first \in Payloads, NEW second \in Payloads,
                      consumed = Frame(first) \o Frame(second)
               PROVE  heard = Expected(second)
    BY DEF FramesHeard
  <2>1. Len(second) \in 0 .. Len(second)
    BY PayloadType
  <2>2. consumed = Append(Second(first, second, Len(second)), kFlag)
    BY <2>1, SecondMore
  <2>3. consumed \in Seq(Byte) /\ <<>> \in Seq(Byte)
    BY EmptySeq DEF LinkInv, LinkTypeOK
  <2>4. consumed = <<>> \o consumed
    BY <2>3, ConcatEmptySeq
  <2>5. After(Append(Second(first, second, Len(second)), kFlag))
    BY <2>2, <2>3, <2>4 DEF After, EndsWith
  <2> QED BY <2>5 DEF LinkInv, Synced, Followed
<1> QED BY <1>1, LinkInvHolds, PTL

------------------------------------------------------------------------------
(***************************************************************************)
(* The channel.  Of a frame on its way the receiver has had the beginning  *)
(* and Rest is what has yet to come to it, in the buffer, in the ring, in  *)
(* the register and at the host.  Nothing but the receiver takes anything  *)
(* from it, until something goes wrong, if the ring has room for a frame.  *)
(***************************************************************************)
Register == IF rdr = None THEN <<>> ELSE <<rdr>>

BeforeTheRing == Register \o frame

Rest == SubSeq(buffer, j + 1, bytes_read) \o (ring \o BeforeTheRing)

\* A frame from the (m + 1)-th byte of its payload.
Left(bytes, m) == Stuffed[SubSeq(bytes, m + 1, Len(bytes))] \o <<kFlag>>

Underway ==
  \/ state = "IDLE" /\ Rest = Frame(want)
  \/ \E m \in 0 .. Len(want) :
       /\ payload = SubSeq(want, 1, m)
       /\ \/ state \in {"FRAME_DELIMETER", "DATA"} /\ Rest = Left(want, m)
          \/ /\ state = "ESCAPE" /\ m < Len(want) /\ want[m + 1] \in Special
             /\ Rest = <<Xor[want[m + 1]]>> \o Left(want, m + 1)

Quiet == ~ore /\ armed /\ (isrflags # None => isrflags.rxne /\ ~isrflags.ore)

Carried ==
  polite /\ faults = 0 =>
    /\ Quiet /\ Len(Rest) <= RingCapacity
    /\ answered => Rest = <<>> /\ state = "IDLE"
    /\ ~answered => Underway

FramesFit == \A bytes \in Payloads : Len(Frame(bytes)) <= RingCapacity

\* What is left of a frame shrinks by one stuffed byte at a time.
LEMMA LeftMore ==
  ASSUME NEW bytes \in Seq(Byte), NEW m \in 0 .. Len(bytes)
  PROVE  /\ Left(bytes, m) \in Seq(Byte)
         /\ m = Len(bytes) => Left(bytes, m) = <<kFlag>> \o <<>>
         /\ m < Len(bytes) =>
              /\ bytes[m + 1] \in Byte
              /\ bytes[m + 1] \notin Special =>
                   Left(bytes, m) = <<bytes[m + 1]>> \o Left(bytes, m + 1)
              /\ bytes[m + 1] \in Special =>
                   Left(bytes, m) = <<kEscape>> \o (<<Xor[bytes[m + 1]]>> \o Left(bytes, m + 1))
<1> DEFINE part == SubSeq(bytes, m + 1, Len(bytes))
<1>1. kFlag \in Byte /\ kEscape \in Byte /\ <<kFlag>> \in Seq(Byte) /\ <<kEscape>> \in Seq(Byte)
      /\ Len(bytes) \in Nat
  BY FramingAssumption, Appended, LenProperties
<1>2. part \in Seq(Byte) /\ Len(part) = Len(bytes) - m
  BY <1>1, LaterPart
<1>3. \A s \in Seq(Byte) : Stuffed[s] \o <<kFlag>> \in Seq(Byte)
  BY <1>1, StuffedType, ConcatIsSeq
<1>4. Left(bytes, m) \in Seq(Byte)
  BY <1>2, <1>3 DEF Left
<1>5. ASSUME m = Len(bytes) PROVE Left(bytes, m) = <<kFlag>> \o <<>>
  <2>1. part = <<>>
    BY <1>1, <1>2, <1>5, EmptySeq
  <2>2. Stuffed[part] = <<>>
    BY <2>1, StuffedType
  <2>3. <<>> \o <<kFlag>> = <<kFlag>> /\ <<kFlag>> \o <<>> = <<kFlag>>
    BY <1>1, ConcatEmptySeq
  <2> QED BY <2>2, <2>3 DEF Left
<1>6. ASSUME m < Len(bytes)
      PROVE  /\ bytes[m + 1] \in Byte /\ Xor[bytes[m + 1]] \in Byte
             /\ Left(bytes, m + 1) \in Seq(Byte)
             /\ Left(bytes, m) = ByteStuff(bytes[m + 1]) \o Left(bytes, m + 1)
  <2> DEFINE byte == bytes[m + 1]
             rest == SubSeq(bytes, m + 2, Len(bytes))
  <2>1. byte \in Byte /\ part # <<>> /\ Head(part) = byte /\ Tail(part) = rest
    <3>1. Len(bytes) \in 0 .. Len(bytes) /\ m \in 0 .. Len(bytes)
      BY <1>1
    <3> HIDE DEF part
    <3>2. /\ byte \in Byte /\ SubSeq(bytes, m + 1, Len(bytes)) # <<>>
          /\ Head(SubSeq(bytes, m + 1, Len(bytes))) = byte
          /\ Tail(SubSeq(bytes, m + 1, Len(bytes))) = rest
      BY <1>6, <3>1, LaterPart
    <3> QED BY <3>2 DEF part
  <2>2. rest \in Seq(Byte)
    BY <1>2, <2>1, TailIsShorter
  <2>3. Left(bytes, m + 1) = Stuffed[rest] \o <<kFlag>>
    <3>1. (m + 1) + 1 = m + 2
      OBVIOUS
    <3> QED BY <3>1 DEF Left
  <2>4. Left(bytes, m) = Stuffed[part] \o <<kFlag>>
    BY DEF Left
  <2> HIDE DEF byte, rest, part
  <2>5. Stuffed[part] = ByteStuff(byte) \o Stuffed[rest]
    <3>1. Stuffed[part] = [x \in Byte |-> ByteStuff(x)][byte] \o Stuffed[rest]
      BY <1>2, <2>1, StuffedSpreads DEF Spreads
    <3> QED BY <2>1, <3>1
  <2>6. ByteStuff(byte) \in Seq(Byte) /\ Stuffed[rest] \in Seq(Byte) /\ Xor[byte] \in Byte
    BY <2>1, <2>2, ByteStuffType, StuffedType
  <2>7. \A p, q, r \in Seq(Byte) : (p \o q) \o r = p \o (q \o r)
    BY Regroup
  <2>8. (ByteStuff(byte) \o Stuffed[rest]) \o <<kFlag>> = ByteStuff(byte) \o (Stuffed[rest] \o <<kFlag>>)
    BY <1>1, <2>6, <2>7, Zenon
  <2>9. Left(bytes, m) = ByteStuff(byte) \o Left(bytes, m + 1)
    BY <2>3, <2>4, <2>5, <2>8, Zenon
  <2>10. Left(bytes, m + 1) \in Seq(Byte)
    BY <1>3, <2>2, <2>3
  <2> QED BY <2>1, <2>6, <2>9, <2>10 DEF byte
<1>7. ASSUME m < Len(bytes), bytes[m + 1] \notin Special
      PROVE  Left(bytes, m) = <<bytes[m + 1]>> \o Left(bytes, m + 1)
  BY <1>6, <1>7, Zenon DEF ByteStuff, Special
<1>8. ASSUME m < Len(bytes), bytes[m + 1] \in Special
      PROVE  Left(bytes, m) = <<kEscape>> \o (<<Xor[bytes[m + 1]]>> \o Left(bytes, m + 1))
  <2> DEFINE x == Xor[bytes[m + 1]]
             rest == Left(bytes, m + 1)
  <2>1. Left(bytes, m) = <<kEscape, x>> \o rest /\ x \in Byte /\ rest \in Seq(Byte)
    BY <1>6, <1>8, Zenon DEF ByteStuff, Special
  <2> HIDE DEF x, rest
  <2>2. <<kEscape, x>> = <<kEscape>> \o <<x>> /\ <<x>> \in Seq(Byte)
    BY <1>1, <2>1
  <2>3. \A p, q, r \in Seq(Byte) : (p \o q) \o r = p \o (q \o r)
    BY Regroup
  <2>4. (<<kEscape>> \o <<x>>) \o rest = <<kEscape>> \o (<<x>> \o rest)
    BY <1>1, <2>1, <2>2, <2>3, Zenon
  <2>5. Left(bytes, m) = <<kEscape>> \o (<<x>> \o rest)
    BY <2>1, <2>2, <2>4, Zenon
  <2> QED BY <2>5 DEF x, rest
<1> QED BY <1>4, <1>5, <1>6, <1>7, <1>8

\* A frame is its flag and what is left then.
LEMMA FrameIsLeft ==
  ASSUME NEW bytes \in Seq(Byte)
  PROVE  Frame(bytes) = <<kFlag>> \o Left(bytes, 0) /\ Left(bytes, 0) \in Seq(Byte)
<1>1. SubSeq(bytes, 0 + 1, Len(bytes)) = bytes /\ 0 \in 0 .. Len(bytes)
  BY SubSeqFull, LenProperties
<1>2. <<kFlag>> \in Seq(Byte) /\ Stuffed[bytes] \in Seq(Byte)
  BY FramingAssumption, StuffedType, Appended
<1>3. Left(bytes, 0) = Stuffed[bytes] \o <<kFlag>> /\ Left(bytes, 0) \in Seq(Byte)
  BY <1>1, LeftMore DEF Left
<1>4. \A p, q, r \in Seq(Byte) : (p \o q) \o r = p \o (q \o r)
  BY Regroup
<1>5. (<<kFlag>> \o Stuffed[bytes]) \o <<kFlag>> = <<kFlag>> \o (Stuffed[bytes] \o <<kFlag>>)
  BY <1>2, <1>4, Zenon
<1> QED BY <1>3, <1>5 DEF Frame

\* The parts of what has yet to come are sequences.
LEMMA RestType ==
  ASSUME LinkTypeOK
  PROVE  /\ ring \in Seq(Byte) /\ frame \in Seq(Byte) /\ Register \in Seq(Byte)
         /\ BeforeTheRing \in Seq(Byte) /\ ring \o BeforeTheRing \in Seq(Byte)
         /\ SubSeq(buffer, j + 1, bytes_read) \in Seq(Byte) /\ Rest \in Seq(Byte)
         /\ buffer \in Seq(Byte) /\ Len(buffer) = PayloadBufferSize
         /\ bytes_read \in 0 .. Len(buffer) /\ j \in 0 .. bytes_read
<1>1. ring \in Seq(Byte) /\ frame \in Seq(Byte) /\ Register \in Seq(Byte)
  BY Appended, EmptySeq DEF LinkTypeOK, Register
<1>2. BeforeTheRing \in Seq(Byte)
  BY <1>1, ConcatIsSeq DEF BeforeTheRing
<1>3. ring \o BeforeTheRing \in Seq(Byte)
  BY <1>1, <1>2, ConcatIsSeq
<1>4. /\ buffer \in Seq(Byte) /\ Len(buffer) = PayloadBufferSize
      /\ bytes_read \in 0 .. Len(buffer) /\ j \in 0 .. bytes_read
  BY FramingAssumption DEF LinkTypeOK
<1>5. SubSeq(buffer, j + 1, bytes_read) \in Seq(Byte)
  BY <1>4, LaterPart
<1>6. Rest \in Seq(Byte)
  BY <1>3, <1>5, ConcatIsSeq DEF Rest
<1> QED BY <1>1, <1>2, <1>3, <1>4, <1>5, <1>6

\* A byte that comes to the register was the next the host had to send.
LEMMA RestAtTheLine ==
  ASSUME LinkInv, LineByte, rdr = None
  PROVE  BeforeTheRing' = BeforeTheRing
<1>1. frame \in Seq(Byte) /\ frame # <<>> /\ None \notin Byte
  BY LinkAssumption DEF LinkInv, LinkTypeOK, LineByte
<1>2. Head(frame) \in Byte
  BY <1>1, TailIsShorter
<1>3. rdr' = Head(frame) /\ frame' = Tail(frame)
  BY DEF LineByte, Arrive
<1>4. Register' = <<Head(frame)>> /\ Register = <<>>
  BY <1>1, <1>2, <1>3 DEF Register
<1>5. frame = <<Head(frame)>> \o Tail(frame) /\ <<>> \o frame = frame
  BY <1>1, HeadThenTail, ConcatEmptySeq
<1> QED BY <1>3, <1>4, <1>5, Zenon DEF BeforeTheRing

\* There is room in the ring for the byte in the register.
LEMMA RoomForByte ==
  ASSUME LinkTypeOK, rdr # None, Len(Rest) <= RingCapacity
  PROVE  Len(ring) < RingCapacity
<1>1. /\ Len(Rest) = Len(SubSeq(buffer, j + 1, bytes_read)) + Len(ring \o BeforeTheRing)
      /\ Len(SubSeq(buffer, j + 1, bytes_read)) \in Nat
  BY RestType, ConcatProperties, LenProperties DEF Rest
<1>2. Len(ring \o BeforeTheRing) = Len(ring) + Len(BeforeTheRing)
  BY RestType, ConcatProperties
<1>3. Len(BeforeTheRing) = Len(Register) + Len(frame) /\ Len(frame) \in Nat
  BY RestType, ConcatProperties, LenProperties DEF BeforeTheRing
<1>4. Len(Register) = 1
  BY DEF Register
<1>5. Len(ring) \in Nat /\ RingCapacity \in Nat
  BY RestType, LenProperties, LinkAssumption
<1>6. Len(BeforeTheRing) = 1 + Len(frame)
  BY <1>3, <1>4
<1>7. Len(Rest) = Len(SubSeq(buffer, j + 1, bytes_read)) + (Len(ring) + (1 + Len(frame)))
  BY <1>1, <1>2, <1>6
<1>8. \A a, b, c, d \in Nat : a + (b + (1 + c)) <= d => b < d
  OBVIOUS
<1>9. Len(SubSeq(buffer, j + 1, bytes_read)) + (Len(ring) + (1 + Len(frame))) <= RingCapacity
  BY <1>7
<1> QED BY <1>1, <1>3, <1>5, <1>8, <1>9

\* A byte that comes to the ring was the next in the register.
LEMMA RestAtTheRing ==
  ASSUME LinkInv, IrqReturn, isrflags.rxne, Len(ring) < RingCapacity
  PROVE  ring' \o BeforeTheRing' = ring \o BeforeTheRing
<1>1. rdr \in Byte /\ rdr # None /\ rdr' = None /\ ring' = Append(ring, rdr) /\ frame' = frame
  BY DEF LinkInv, LinkTypeOK, Served, IrqReturn, hostVars
<1>2. ring \in Seq(Byte) /\ frame \in Seq(Byte)
  BY RestType DEF LinkInv
<1>3. Register = <<rdr>> /\ Register' = <<>> /\ <<rdr>> \in Seq(Byte)
  BY <1>1, Appended DEF Register
<1>4. BeforeTheRing' = frame
  BY <1>1, <1>2, <1>3, ConcatEmptySeq DEF BeforeTheRing
<1>5. ring' = ring \o <<rdr>>
  BY <1>1, <1>2, AppendIsConcat
<1>6. \A p, q, r \in Seq(Byte) : (p \o q) \o r = p \o (q \o r)
  BY Regroup
<1>7. (ring \o <<rdr>>) \o frame = ring \o (<<rdr>> \o frame)
  BY <1>2, <1>3, <1>6, Zenon
<1> QED BY <1>3, <1>4, <1>5, <1>7, Zenon DEF BeforeTheRing

\* What is read of the ring is what it gives up.
LEMMA RestAtTheRead ==
  ASSUME LinkInv, ReadStream
  PROVE  Rest' = Rest
<1> DEFINE n == bytes_read'
           later == SubSeq(ring, n + 1, Len(ring))
           T == BeforeTheRing
<1>1. /\ ring \in Seq(Byte) /\ T \in Seq(Byte) /\ ring \o T \in Seq(Byte)
      /\ Len(ring) \in Nat /\ Len(ring) \in 0 .. Len(ring) /\ PayloadBufferSize \in Nat
      /\ buffer \in [1 .. PayloadBufferSize -> Byte] /\ j \in Nat /\ j = bytes_read
      /\ \A i \in 1 .. Len(ring) : ring[i] \in Byte
  BY RestType, LenProperties, FramingAssumption, ElementOfSeq DEF LinkInv, LinkTypeOK, ReadStream
<1>2. n \in 0 .. Len(ring) /\ n <= PayloadBufferSize /\ j' = 0 /\ ring' = later
      /\ UNCHANGED <<rdr, frame>>
  BY <1>1 DEF ReadStream, uartVars, hostVars
<1>3. buffer' = [i \in 1 .. PayloadBufferSize |-> IF i <= n THEN ring[i] ELSE buffer[i]]
  BY <1>1 DEF ReadStream
<1>4. T' = T
  BY <1>2 DEF BeforeTheRing, Register
<1> HIDE DEF n, T, later
<1>5. SubSeq(buffer, j + 1, bytes_read) = <<>>
  BY <1>1, SubSeqEmpty
<1>6. Rest = ring \o T
  BY <1>1, <1>5, ConcatEmptySeq DEF Rest, T
<1>7. SubSeq(buffer', 1, n) = SubSeq(ring, 1, n)
  <2>1. \A i \in 1 .. n : buffer'[i] = ring[i] /\ buffer'[i] \in Byte /\ ring[i] \in Byte
    BY <1>1, <1>2, <1>3
  <2>2. n \in Int /\ n \in Nat /\ 1 \in Int /\ n - 1 + 1 = n
    BY <1>1, <1>2
  <2>3. /\ SubSeq(buffer', 1, n) \in Seq(Byte)
        /\ Len(SubSeq(buffer', 1, n)) = IF 1 <= n THEN n - 1 + 1 ELSE 0
        /\ \A i \in 1 .. n - 1 + 1 : SubSeq(buffer', 1, n)[i] = buffer'[1 + i - 1]
    BY <2>1, <2>2, SubSeqProperties
  <2>4. /\ SubSeq(ring, 1, n) \in Seq(Byte)
        /\ Len(SubSeq(ring, 1, n)) = IF 1 <= n THEN n - 1 + 1 ELSE 0
        /\ \A i \in 1 .. n - 1 + 1 : SubSeq(ring, 1, n)[i] = ring[1 + i - 1]
    BY <2>1, <2>2, SubSeqProperties
  <2>5. Len(SubSeq(buffer', 1, n)) = n /\ Len(SubSeq(ring, 1, n)) = n
    BY <2>2, <2>3, <2>4
  <2>6. ASSUME NEW i \in 1 .. n PROVE SubSeq(buffer', 1, n)[i] = SubSeq(ring, 1, n)[i]
    <3>1. i \in 1 .. n - 1 + 1 /\ 1 + i - 1 = i
      BY <2>2
    <3> QED BY <2>1, <2>3, <2>4, <3>1
  <2> QED BY <2>3, <2>4, <2>5, <2>6, SeqEqual
<1>8. SubSeq(ring, 1, n) \in Seq(Byte) /\ later \in Seq(Byte)
  BY <1>1, <1>2, LongerPrefix, LaterPart DEF later
<1>9. SubSeq(ring, 1, n) \o later = ring
  <2>1. 1 \in 1 .. Len(ring) + 1 /\ n \in 1 - 1 .. Len(ring) /\ Len(ring) \in n .. Len(ring)
    BY <1>1, <1>2
  <2>2. SubSeq(ring, 1, n) \o SubSeq(ring, n + 1, Len(ring)) = SubSeq(ring, 1, Len(ring))
    BY <1>1, <2>1, ConcatAdjacentSubSeq
  <2> QED BY <1>1, <2>2, SubSeqFull DEF later
<1>10. SubSeq(buffer', j' + 1, n) = SubSeq(ring, 1, n)
  BY <1>2, <1>7
<1>11. Rest' = SubSeq(ring, 1, n) \o (later \o T)
  BY <1>2, <1>4, <1>10 DEF Rest, T, n
<1>12. \A p, q, r \in Seq(Byte) : (p \o q) \o r = p \o (q \o r)
  BY Regroup
<1>13. (SubSeq(ring, 1, n) \o later) \o T = SubSeq(ring, 1, n) \o (later \o T)
  BY <1>1, <1>8, <1>12, Zenon
<1> QED BY <1>6, <1>9, <1>11, <1>13

\* The receiver takes the next byte, and if that completes a payload, and is
\* the last, there is nothing left.
LEMMA RestAtTheReceiver ==
  ASSUME LinkInv, ProcessByte
  PROVE  \E left \in Seq(Byte) :
           /\ Rest = <<buffer[j + 1]>> \o left
           /\ ~Completes(buffer[j + 1]) \/ left = <<>> => Rest' = left
<1> DEFINE byte == buffer[j + 1]
           after == SubSeq(buffer, j + 2, bytes_read)
           T == ring \o BeforeTheRing
<1>1. /\ buffer \in Seq(Byte) /\ bytes_read \in 0 .. Len(buffer) /\ j \in 0 .. bytes_read
      /\ T \in Seq(Byte) /\ Len(buffer) \in Nat
  BY RestType, LenProperties DEF LinkInv
<1>2. j < bytes_read /\ j' = j + 1 /\ bytes_read' = bytes_read /\ UNCHANGED <<ring, rdr, frame>>
      /\ (~Completes(byte) => buffer' = buffer)
  BY DEF ProcessByte, uartVars
<1>3. T' = T
  BY <1>2 DEF BeforeTheRing, Register
<1>4. /\ SubSeq(buffer, j + 1, bytes_read) \in Seq(Byte) /\ SubSeq(buffer, j + 1, bytes_read) # <<>>
      /\ Head(SubSeq(buffer, j + 1, bytes_read)) = byte /\ byte \in Byte
      /\ Tail(SubSeq(buffer, j + 1, bytes_read)) = after
  BY <1>1, <1>2, LaterPart
<1>5. (j + 1) + 1 = j + 2 /\ j + 1 \in 0 .. bytes_read /\ j \in Nat /\ bytes_read \in Nat
  BY <1>1, <1>2
<1>6. after \in Seq(Byte) /\ Len(after) = bytes_read - (j + 1)
  <2>1. /\ SubSeq(buffer, (j + 1) + 1, bytes_read) \in Seq(Byte)
        /\ Len(SubSeq(buffer, (j + 1) + 1, bytes_read)) = bytes_read - (j + 1)
    BY <1>1, <1>5, LaterPart
  <2> QED BY <1>5, <2>1
<1>7. Rest' = SubSeq(buffer', j + 2, bytes_read) \o T
  BY <1>2, <1>3, <1>5 DEF Rest
<1>8. Rest = SubSeq(buffer, j + 1, bytes_read) \o T
  BY DEF Rest
<1> HIDE DEF byte, after, T
<1>9. SubSeq(buffer, j + 1, bytes_read) = <<byte>> \o after /\ <<byte>> \in Seq(Byte)
  BY <1>4, HeadThenTail, Appended
<1>10. \A p, q, r \in Seq(Byte) : (p \o q) \o r = p \o (q \o r)
  BY Regroup
<1>11. (<<byte>> \o after) \o T = <<byte>> \o (after \o T)
  BY <1>1, <1>6, <1>9, <1>10, Zenon
<1>12. Rest = <<byte>> \o (after \o T) /\ after \o T \in Seq(Byte)
  BY <1>1, <1>6, <1>8, <1>9, <1>11, ConcatIsSeq
<1>13. ASSUME after \o T = <<>> PROVE Rest' = <<>>
  <2>1. after = <<>> /\ T = <<>>
    BY <1>1, <1>6, <1>13, ConcatEqualIffEmpty
  <2>2. bytes_read < j + 2
    BY <1>5, <1>6, <2>1, EmptySeq
  <2>3. SubSeq(buffer', j + 2, bytes_read) = <<>>
    BY <1>5, <2>2, SubSeqEmpty
  <2> QED BY <1>7, <2>1, <2>3, EmptySeq, ConcatEmptySeq
<1>14. ASSUME ~Completes(byte) PROVE Rest' = after \o T
  BY <1>2, <1>7, <1>14 DEF after
<1> QED BY <1>12, <1>13, <1>14 DEF byte

\* While nothing but the receiver is at work on it the frame stays as it is.
LEMMA CarriedAlong ==
  ASSUME Carried, Rest' = Rest, Quiet', polite' = polite, faults' = faults,
         answered' = answered, want' = want, state' = state, payload' = payload
  PROVE  Carried'
<1>1. Underway' <=> Underway
  BY DEF Underway
<1> QED BY <1>1, Zenon DEF Carried

\* The host begins a frame when the last has been heard.
LEMMA CarriedByHost ==
  ASSUME LinkInv, Carried, FramesFit, Host
  PROVE  /\ Carried'
         /\ polite /\ faults = 0 /\ SendFrame => answered
<1>1. CASE ~(polite' /\ faults' = 0)
  <2>1. Carried'
    BY <1>1 DEF Carried
  <2>2. SendFrame => polite' = polite /\ faults' = faults
    BY DEF SendFrame
  <2> QED BY <1>1, <2>1, <2>2
<1>2. CASE polite' /\ faults' = 0
  <2>1. faults \in Nat /\ polite = polite'
    BY LinkAssumption DEF LinkInv, LinkTypeOK, Host, SendFrame, LineByte, LineFault
  <2>2. ~LineFault
    <3>1. faults' # faults + 1
      <4>1. faults' = 0 /\ faults \in Nat
        BY <1>2, <2>1, Zenon
      <4> QED BY <4>1
    <3> QED BY <3>1, Zenon DEF LineFault
  <2>3. faults = 0 /\ (LineByte => rdr = None \/ ~armed)
    <3>1. faults' = 0 /\ faults \in Nat
      BY <1>2, <2>1, Zenon
    <3>2. faults' # faults + 1
      BY <3>1
    <3>3. CASE LineByte
      <4>1. faults' = IF Overruns THEN faults + 1 ELSE faults
        BY <3>3, Zenon DEF LineByte
      <4>2. ~Overruns
        BY <3>2, <4>1
      <4>3. faults = 0
        BY <3>1, <4>1, <4>2
      <4> QED BY <4>2, <4>3 DEF Overruns
    <3>4. CASE SendFrame
      <4>1. faults' = faults /\ ~LineByte
        BY <3>4 DEF SendFrame, LineByte
      <4> QED BY <3>1, <4>1
    <3> QED BY <2>2, <3>3, <3>4 DEF Host
  <2>4. Quiet /\ Len(Rest) <= RingCapacity /\ (answered => Rest = <<>> /\ state = "IDLE")
        /\ (~answered => Underway)
    BY <1>2, <2>1, <2>3 DEF Carried
  <2>5. CASE LineByte
    <3>1. rdr = None
      BY <2>3, <2>4, <2>5 DEF Quiet
    <3>2. BeforeTheRing' = BeforeTheRing /\ UNCHANGED <<buffer, bytes_read, j, ring>>
      BY <2>5, <3>1, RestAtTheLine DEF LineByte, transportVars
    <3>3. Rest' = Rest
      BY <3>2 DEF Rest
    <3>4. Quiet'
      BY <2>4, <2>5, <3>1 DEF LineByte, Arrive, Quiet
    <3>5. UNCHANGED <<polite, answered, want, state, payload>>
      BY <2>5 DEF LineByte, transportVars, receiverVars
    <3>6. ~SendFrame
      BY <2>5, LinkAssumption, HeadThenTail DEF SendFrame, LineByte
    <3> QED BY <1>2, <2>3, <3>3, <3>4, <3>5, <3>6, CarriedAlong
  <2>6. CASE SendFrame
    <3>1. /\ frame = <<>> /\ Drained /\ frame' = Frame(want') /\ answered' = FALSE
          /\ UNCHANGED <<rdr, ore, armed, isrflags, ring, buffer, bytes_read, j, state>>
      BY <1>2, <2>1, <2>6 DEF SendFrame, uartVars, transportVars, receiverVars
    <3>2. rdr = None /\ ring = <<>> /\ j = bytes_read
      BY <2>4, <3>1 DEF Drained, Quiet
    <3>3. SubSeq(buffer, j + 1, bytes_read) = <<>> /\ j \in Nat
      BY <3>2, RestType, SubSeqEmpty DEF LinkInv
    <3>4. Register = <<>> /\ Register' = <<>>
      BY <3>1, <3>2 DEF Register
    <3>5. \A p \in Seq(Byte) : <<>> \o (<<>> \o (<<>> \o p)) = p
      BY ConcatEmptySeq
    <3>6. Rest = <<>>
      BY <3>1, <3>2, <3>3, <3>4, <3>5, EmptySeq DEF Rest, BeforeTheRing
    <3>7. answered
      <4> SUFFICES ASSUME ~answered PROVE FALSE
        OBVIOUS
      <4>1. want \in Payloads /\ want \in Seq(Byte) /\ Len(want) \in Nat
        BY PayloadType DEF LinkInv, Asked
      <4>2. \A p \in Seq(Byte), x \in Byte : <<x>> \o p # <<>>
        <5>1. ASSUME NEW p \in Seq(Byte), NEW x \in Byte PROVE <<x>> \o p # <<>>
          <6>1. <<x>> \in Seq(Byte) /\ <<x>> # <<>>
            BY Appended
          <6> QED BY <6>1, ConcatEqualIffEmpty
        <5> QED BY <5>1
      <4>3. kFlag \in Byte /\ kEscape \in Byte
        BY FramingAssumption
      <4>4. Frame(want) # <<>>
        BY <4>1, <4>2, <4>3, FrameIsLeft
      <4>5. \A m \in 0 .. Len(want) : Left(want, m) # <<>> /\ Left(want, m) \in Seq(Byte)
        <5> SUFFICES ASSUME NEW m \in 0 .. Len(want)
                     PROVE  Left(want, m) # <<>> /\ Left(want, m) \in Seq(Byte)
          OBVIOUS
        <5>1. <<>> \in Seq(Byte) /\ Left(want, m) \in Seq(Byte)
          BY <4>1, LeftMore, EmptySeq
        <5>2. CASE m = Len(want)
          BY <4>1, <4>2, <4>3, <5>1, <5>2, LeftMore
        <5>3. CASE m # Len(want)
          <6>1. m < Len(want) /\ m + 1 \in 0 .. Len(want)
            BY <4>1, <5>3
          <6>2. Left(want, m + 1) \in Seq(Byte) /\ want[m + 1] \in Byte /\ Xor[want[m + 1]] \in Byte
            BY <4>1, <6>1, LeftMore, ByteStuffType
          <6>3. <<Xor[want[m + 1]]>> \o Left(want, m + 1) \in Seq(Byte)
            BY <6>2, Appended, ConcatIsSeq
          <6>4. CASE want[m + 1] \in Special
            <7>1. Left(want, m) = <<kEscape>> \o (<<Xor[want[m + 1]]>> \o Left(want, m + 1))
              BY <4>1, <6>1, <6>4, LeftMore
            <7> QED BY <4>2, <4>3, <5>1, <6>3, <7>1
          <6>5. CASE want[m + 1] \notin Special
            <7>1. Left(want, m) = <<want[m + 1]>> \o Left(want, m + 1)
              BY <4>1, <6>1, <6>5, LeftMore
            <7> QED BY <4>2, <5>1, <6>2, <7>1
          <6> QED BY <6>4, <6>5
        <5> QED BY <5>2, <5>3
      <4>6. ASSUME NEW m \in 0 .. Len(want), m < Len(want)
            PROVE  <<Xor[want[m + 1]]>> \o Left(want, m + 1) # <<>>
        <5>1. m + 1 \in 0 .. Len(want)
          BY <4>1, <4>6
        <5>2. want[m + 1] \in Byte /\ Xor[want[m + 1]] \in Byte
          BY <4>1, <4>6, LeftMore, ByteStuffType
        <5> QED BY <4>2, <4>5, <5>1, <5>2
      <4> QED BY <2>4, <3>6, <4>4, <4>5, <4>6 DEF Underway
    <3>8. want' \in Payloads /\ Frame(want') \in Seq(Byte)
      <4>1. want' \in Payloads
        BY <2>6, <3>7 DEF SendFrame
      <4> QED BY <4>1, PayloadType, FrameIsBegun
    <3>9. Rest' = Frame(want')
      BY <3>1, <3>2, <3>3, <3>4, <3>5, <3>8 DEF Rest, BeforeTheRing
    <3>10. state' = "IDLE" /\ Len(Rest') <= RingCapacity /\ Quiet' /\ Underway'
      <4>1. state' = "IDLE" /\ Quiet'
        BY <2>4, <3>1, <3>7 DEF Quiet
      <4> QED BY <3>8, <3>9, <4>1 DEF FramesFit, Underway
    <3> QED BY <3>1, <3>7, <3>10, Zenon DEF Carried
  <2> QED BY <2>2, <2>5, <2>6 DEF Host
<1> QED BY <1>1, <1>2

\* The interrupt moves a byte from the register to the ring.
LEMMA CarriedByInterrupt ==
  ASSUME LinkInv, Carried, Interrupt
  PROVE  Carried'
<1>1. UNCHANGED <<polite, faults, answered, want, state, payload>>
  BY DEF Interrupt, IrqEnter, IrqReturn, hostVars, transportVars, receiverVars
<1>2. CASE ~(polite /\ faults = 0)
  BY <1>1, <1>2, Zenon DEF Carried
<1>3. CASE polite /\ faults = 0
  <2>1. Quiet /\ Len(Rest) <= RingCapacity
    BY <1>3, Zenon DEF Carried
  <2>2. CASE IrqEnter
    <3>1. isrflags'.rxne /\ ~isrflags'.ore /\ UNCHANGED <<ore, armed>>
      <4>1. isrflags'.rxne = (rdr # None) /\ isrflags'.ore = ore /\ UNCHANGED <<ore, armed>>
        BY <2>2 DEF IrqEnter
      <4>2. ~ore /\ rdr # None
        BY <2>1, <2>2, Zenon DEF IrqEnter, Quiet
      <4> QED BY <4>1, <4>2
    <3>2. Rest' = Rest
      BY <2>2 DEF IrqEnter, Rest, BeforeTheRing, Register, transportVars, hostVars
    <3>3. Quiet'
      BY <2>1, <3>1 DEF Quiet
    <3> QED BY <1>1, <3>2, <3>3, CarriedAlong
  <2>3. CASE IrqReturn
    <3>1. isrflags.rxne /\ rdr # None
      BY <2>1, <2>3 DEF IrqReturn, Quiet, LinkInv, Served
    <3>2. Len(ring) < RingCapacity
      BY <2>1, <3>1, RoomForByte DEF LinkInv
    <3>3. ring' \o BeforeTheRing' = ring \o BeforeTheRing
      BY <2>3, <3>1, <3>2, RestAtTheRing
    <3>4. UNCHANGED <<buffer, bytes_read, j>>
      BY <2>3 DEF IrqReturn, transportVars
    <3>5. Rest' = Rest
      BY <3>3, <3>4 DEF Rest
    <3>6. Quiet'
      BY <2>1, <2>3, <3>1 DEF IrqReturn, Quiet
    <3> QED BY <1>1, <3>5, <3>6, CarriedAlong
  <2> QED BY <2>2, <2>3 DEF Interrupt
<1> QED BY <1>2, <1>3

\* A byte of the frame moves on, and the last completes the payload, which the
\* callback hears then and no earlier.
LEMMA CarriedByByte ==
  ASSUME LinkInv, Carried, ProcessByte, polite, faults = 0
  PROVE  /\ Carried'
         /\ \/ heard' = <<>> /\ answered' = answered
            \/ ~answered /\ answered' /\ heard' = Expected(want)
<1> DEFINE byte == buffer[j + 1]
<1>1. /\ Quiet /\ Len(Rest) <= RingCapacity
      /\ answered => Rest = <<>> /\ state = "IDLE"
      /\ ~answered => Underway
  BY Zenon DEF Carried
<1>2. /\ byte \in Byte /\ Process(byte) /\ ReceiverTypeOK
      /\ heard' = IF Completes(byte) THEN Hears ELSE <<>>
  <2>1. byte \in Byte
    <3>1. j + 1 \in 1 .. PayloadBufferSize /\ buffer \in [1 .. PayloadBufferSize -> Byte]
      BY FramingAssumption DEF LinkInv, LinkTypeOK, ProcessByte
    <3> QED BY <3>1
  <2> QED BY <2>1 DEF ProcessByte, LinkInv, LinkTypeOK
<1>3. PICK left \in Seq(Byte) :
        /\ Rest = <<byte>> \o left
        /\ ~Completes(byte) \/ left = <<>> => Rest' = left
  BY RestAtTheReceiver
<1>4. UNCHANGED <<polite, want, faults, ore, armed, isrflags>>
      /\ answered' = (answered \/ (want # <<>> /\ heard' = Expected(want)))
  BY DEF ProcessByte, uartVars
<1> HIDE DEF byte
<1>5. Quiet'
  BY <1>1, <1>4 DEF Quiet
<1>6. <<byte>> \in Seq(Byte) /\ Len(<<byte>>) = 1 /\ <<byte>> # <<>>
  BY <1>2
<1>7. ~answered /\ Underway
  <2>1. <<byte>> \o left # <<>>
    BY <1>6, ConcatEqualIffEmpty
  <2> QED BY <1>1, <1>3, <2>1
<1>8. /\ want \in Payloads /\ want \in Seq(Byte) /\ Len(want) \in Nat /\ Len(want) > 0
      /\ Len(want) <= PayloadBufferSize /\ Expected(want) # <<>> /\ PayloadBufferSize \in Nat
  BY <1>7, PayloadType, FramingAssumption DEF LinkInv, Asked
<1>9. kFlag \in Byte /\ kEscape \in Byte /\ kFlag # kEscape /\ <<>> \in Seq(Byte)
      /\ \A special \in Special : special \in Byte /\ Xor[special] \notin Special
                                 /\ Xor[Xor[special]] = special /\ Xor[special] \in Byte
  BY FramingAssumption, EmptySeq DEF Special
<1>10. Len(left) <= RingCapacity
  <2>1. Len(Rest) = 1 + Len(left) /\ Len(left) \in Nat /\ RingCapacity \in Nat
    BY <1>3, <1>6, ConcatProperties, LenProperties, LinkAssumption
  <2> QED BY <1>1, <2>1
<1>11. \A p \in Seq(Byte), x \in Byte : Rest = <<x>> \o p => byte = x /\ left = p
  <2>1. \A p, q \in Seq(Byte), x, y \in Byte : <<x>> \o p = <<y>> \o q => x = y /\ p = q
    BY SameCons
  <2> QED BY <1>2, <1>3, <2>1, Zenon
<1>12. \A m \in 0 .. Len(want) :
         /\ SubSeq(want, 1, m) \in Seq(Byte) /\ Len(SubSeq(want, 1, m)) = m
         /\ Left(want, m) \in Seq(Byte)
         /\ m < Len(want) =>
              /\ want[m + 1] \in Byte /\ m + 1 \in 0 .. Len(want)
              /\ SubSeq(want, 1, m + 1) = Append(SubSeq(want, 1, m), want[m + 1])
  <2>1. ASSUME NEW m \in 0 .. Len(want)
        PROVE  /\ SubSeq(want, 1, m) \in Seq(Byte) /\ Len(SubSeq(want, 1, m)) = m
               /\ m < Len(want) => /\ want[m + 1] \in Byte
                                   /\ SubSeq(want, 1, m + 1) = Append(SubSeq(want, 1, m), want[m + 1])
    BY <1>8, LongerPrefix
  <2>2. \A m \in 0 .. Len(want) : Left(want, m) \in Seq(Byte)
    BY <1>8, LeftMore
  <2>3. \A m \in 0 .. Len(want) : m < Len(want) => m + 1 \in 0 .. Len(want)
    BY <1>8
  <2> QED BY <2>1, <2>2, <2>3
<1>13. ASSUME ~Completes(byte), Underway'
       PROVE  /\ Carried'
              /\ heard' = <<>> /\ answered' = answered
  <2>1. heard' = <<>>
    BY <1>2, <1>13
  <2>2. answered' = answered
    <3>1. answered = FALSE
      BY <1>7 DEF LinkInv, LinkTypeOK
    <3>2. ~(want # <<>> /\ heard' = Expected(want))
      BY <1>8, <2>1, Zenon
    <3>3. answered' = (answered \/ (want # <<>> /\ heard' = Expected(want)))
      BY <1>4
    <3> QED BY <3>1, <3>2, <3>3
  <2>3. Len(Rest') <= RingCapacity
    BY <1>3, <1>10, <1>13
  <2> QED BY <1>5, <1>7, <1>13, <2>1, <2>2, <2>3, Zenon DEF Carried
<1>14. CASE state = "IDLE" /\ Rest = Frame(want)
  <2>1. byte = kFlag /\ left = Left(want, 0)
    <3>1. Frame(want) = <<kFlag>> \o Left(want, 0) /\ Left(want, 0) \in Seq(Byte)
      BY <1>8, FrameIsLeft
    <3> QED BY <1>9, <1>11, <1>14, <3>1
  <2>2. ~Completes(byte) /\ state' = "FRAME_DELIMETER" /\ payload' = <<>>
    BY <1>2, <1>14, <2>1, Processing DEF Completes
  <2>3. SubSeq(want, 1, 0) = <<>> /\ 0 \in 0 .. Len(want)
    BY <1>8, SubSeqEmpty
  <2>4. Underway'
    BY <1>3, <1>4, <2>1, <2>2, <2>3 DEF Underway
  <2> QED BY <1>13, <2>2, <2>4
<1>15. ASSUME NEW m \in 0 .. Len(want), payload = SubSeq(want, 1, m),
              state \in {"FRAME_DELIMETER", "DATA"}, Rest = Left(want, m)
       PROVE  /\ Carried'
              /\ \/ heard' = <<>> /\ answered' = answered
                 \/ ~answered /\ answered' /\ heard' = Expected(want)
  <2>1. CASE m = Len(want)
    <3>1. byte = kFlag /\ left = <<>>
      <4>1. Left(want, m) = <<kFlag>> \o <<>>
        BY <1>8, <2>1, LeftMore
      <4> QED BY <1>9, <1>11, <1>15, <4>1
    <3>2. payload = want /\ payload # <<>>
      BY <1>8, <1>15, <2>1, SubSeqFull, EmptySeq
    <3>3. Completes(byte)
      BY <1>2, <1>15, <3>1, <3>2 DEF Completes, ReceiverTypeOK
    <3>4. heard' = Expected(want)
      BY <1>2, <1>8, <3>2, <3>3, HearsPayload
    <3>5. answered'
      BY <1>4, <1>8, <3>2, <3>4
    <3>6. state' = "IDLE"
      BY <1>2, <3>1, <3>3, <1>9 DEF Process, Idle, FrameDelimeter, Escaped, Data, Completes, Reset
    <3>7. Rest' = <<>>
      BY <1>3, <3>1
    <3>8. Len(Rest') <= RingCapacity
      BY <1>10, <3>1, <3>7
    <3>9. Carried'
      BY <1>5, <3>5, <3>6, <3>7, <3>8, Zenon DEF Carried
    <3> QED BY <1>7, <3>4, <3>5, <3>9, Zenon
  <2>2. CASE m # Len(want)
    <3>1. m < Len(want) /\ m < PayloadBufferSize
      BY <1>8, <2>2
    <3>2. CASE want[m + 1] \in Special
      <4>1. byte = kEscape /\ left = <<Xor[want[m + 1]]>> \o Left(want, m + 1)
        <5> DEFINE p == <<Xor[want[m + 1]]>> \o Left(want, m + 1)
        <5>1. Left(want, m) = <<kEscape>> \o p
          BY <1>8, <3>1, <3>2, LeftMore
        <5>2. p \in Seq(Byte)
          BY <1>9, <1>12, <3>1, <3>2, Appended, ConcatIsSeq
        <5> HIDE DEF p
        <5>3. byte = kEscape /\ left = p
          BY <1>9, <1>11, <1>15, <5>1, <5>2
        <5> QED BY <5>3 DEF p
      <4>2. ~Completes(byte) /\ state' = "ESCAPE" /\ payload' = payload
        BY <1>2, <1>9, <1>15, <4>1, Processing DEF Completes
      <4>3. Underway'
        BY <1>3, <1>4, <1>15, <3>1, <3>2, <4>1, <4>2 DEF Underway
      <4> QED BY <1>13, <4>2, <4>3, Zenon
    <3>3. CASE want[m + 1] \notin Special
      <4>1. byte = want[m + 1] /\ left = Left(want, m + 1)
        BY <1>8, <1>11, <1>12, <1>15, <3>1, <3>3, LeftMore
      <4>2. ~Completes(byte) /\ state' = "DATA" /\ payload' = Append(payload, byte)
        <5>1. Len(payload) < PayloadBufferSize /\ byte \notin Special
          BY <1>12, <1>15, <3>1, <3>3, <4>1
        <5> QED BY <1>2, <1>15, <5>1, Processing DEF Completes, Special
      <4>3. payload' = SubSeq(want, 1, m + 1) /\ m + 1 \in 0 .. Len(want)
        BY <1>12, <1>15, <3>1, <4>1, <4>2
      <4>4. Underway'
        BY <1>3, <1>4, <4>1, <4>2, <4>3 DEF Underway
      <4> QED BY <1>13, <4>2, <4>4, Zenon
    <3> QED BY <3>2, <3>3
  <2> QED BY <2>1, <2>2
<1>16. ASSUME NEW m \in 0 .. Len(want), payload = SubSeq(want, 1, m),
              state = "ESCAPE", m < Len(want), want[m + 1] \in Special,
              Rest = <<Xor[want[m + 1]]>> \o Left(want, m + 1)
       PROVE  Carried' /\ heard' = <<>> /\ answered' = answered
  <2>1. byte = Xor[want[m + 1]] /\ left = Left(want, m + 1)
    BY <1>9, <1>11, <1>12, <1>16
  <2>2. Len(payload) < PayloadBufferSize
    BY <1>8, <1>12, <1>16
  <2>3. ~Completes(byte) /\ state' = "DATA" /\ payload' = Append(payload, Xor[byte])
    BY <1>2, <1>16, <2>2, Processing DEF Completes
  <2>4. payload' = SubSeq(want, 1, m + 1) /\ m + 1 \in 0 .. Len(want)
    BY <1>9, <1>12, <1>16, <2>1, <2>3
  <2>5. Underway'
    BY <1>3, <1>4, <2>1, <2>3, <2>4 DEF Underway
  <2> QED BY <1>13, <2>3, <2>5, Zenon
<1> QED BY <1>7, <1>14, <1>13, <1>15, <1>16 DEF Underway

\* What is on its way is the rest of one frame, until something goes wrong.
THEOREM FramesAreCarried ==
  ASSUME FramesFit
  PROVE  LinkSpec => [](LinkInv /\ Carried)
<1>1. LinkInit => Carried
  <2> SUFFICES ASSUME LinkInit PROVE Carried
    OBVIOUS
  <2>1. /\ answered = TRUE /\ frame = <<>> /\ ring = <<>> /\ rdr = None /\ j = 0 /\ bytes_read = 0
        /\ state = "IDLE" /\ Quiet
    BY DEF LinkInit, ReceiverInit, Quiet
  <2>2. SubSeq(buffer, j + 1, bytes_read) = <<>>
    BY <2>1, SubSeqEmpty
  <2>3. <<>> \o (<<>> \o (<<>> \o <<>>)) = <<>>
    BY EmptySeq, ConcatEmptySeq
  <2>4. Rest = <<>>
    BY <2>1, <2>2, <2>3 DEF Rest, BeforeTheRing, Register
  <2>5. Len(Rest) <= RingCapacity
    BY <2>4, EmptySeq, LinkAssumption
  <2> QED BY <2>1, <2>4, <2>5, Zenon DEF Carried
<1>2. LinkInv /\ Carried /\ [LinkNext]_linkVars => (LinkInv /\ Carried)'
  <2> SUFFICES ASSUME LinkInv, Carried, [LinkNext]_linkVars PROVE Carried'
    BY LinkInvNext
  <2>1. CASE Host
    BY <2>1, CarriedByHost
  <2>2. CASE Interrupt
    BY <2>2, CarriedByInterrupt
  <2>3. CASE ReadStream
    <3>1. UNCHANGED <<polite, faults, answered, want, state, payload, ore, armed, isrflags>>
      BY <2>3 DEF ReadStream, hostVars, uartVars, receiverVars
    <3>2. CASE polite /\ faults = 0
      <4>1. Quiet'
        BY <3>1, <3>2 DEF Carried, Quiet
      <4> QED BY <2>3, <3>1, <4>1, RestAtTheRead, CarriedAlong
    <3>3. CASE ~(polite /\ faults = 0)
      BY <3>1, <3>3, Zenon DEF Carried
    <3> QED BY <3>2, <3>3
  <2>4. CASE ProcessByte
    <3>1. CASE polite /\ faults = 0
      BY <2>4, <3>1, CarriedByByte
    <3>2. CASE ~(polite /\ faults = 0)
      <4>1. polite' = polite /\ faults' = faults
        BY <2>4 DEF ProcessByte
      <4> QED BY <3>2, <4>1, Zenon DEF Carried
    <3> QED BY <3>1, <3>2
  <2>5. CASE UNCHANGED linkVars
    <3>1. UNCHANGED <<polite, faults, answered, want, state, payload, ore, armed, isrflags,
                      buffer, j, bytes_read, ring, rdr, frame>>
      BY <2>5 DEF linkVars, hostVars, uartVars, transportVars, receiverVars
    <3>2. Rest' = Rest
      BY <3>1 DEF Rest, BeforeTheRing, Register
    <3>3. CASE polite /\ faults = 0
      <4>1. Quiet'
        BY <3>1, <3>3 DEF Carried, Quiet
      <4> QED BY <3>1, <3>2, <4>1, CarriedAlong
    <3>4. CASE ~(polite /\ faults = 0)
      BY <3>1, <3>4, Zenon DEF Carried
    <3> QED BY <3>3, <3>4
  <2> QED BY <2>1, <2>2, <2>3, <2>4, <2>5 DEF LinkNext, MainLoop
<1> QED BY <1>1, <1>2, LinkInvInit, PTL DEF LinkSpec

(***************************************************************************)
(* The link implements the channel for a host that waits, until something  *)
(* goes wrong on the line, if the ring has room for a frame: of 80 bytes   *)
(* at most (hdlc_transport.h:32-39, protocol.h:225), which stuffing and    *)
(* flags make 162, in a ring of 256 (main.cpp:29).                         *)
(***************************************************************************)
THEOREM LinkIsAChannel ==
  ASSUME FramesFit
  PROVE  LinkSpec => ChannelKept
<1>1. LinkInv /\ Carried /\ [LinkNext]_linkVars =>
        [polite /\ faults' = 0 => [Channel!ChannelNext]_<<answered, want, heard>>]_linkVars
  <2> SUFFICES ASSUME LinkInv, Carried, LinkNext, polite, faults' = 0
               PROVE  [Channel!ChannelNext]_<<answered, want, heard>>
    BY Zenon
  <2>1. CASE Host
    <3>1. CASE SendFrame
      <4>1. faults = 0
        BY <3>1 DEF SendFrame
      <4>2. answered /\ ~answered' /\ want' \in Payloads /\ heard' = heard
        BY <2>1, <3>1, <4>1, CarriedByHost DEF SendFrame, transportVars
      <4>3. Channel!Send
        BY <4>2 DEF Channel!Send
      <4> QED BY <4>3 DEF Channel!ChannelNext
    <3>2. CASE LineByte \/ LineFault
      BY <3>2 DEF LineByte, LineFault, transportVars
    <3> QED BY <2>1, <3>1, <3>2 DEF Host
  <2>2. CASE Interrupt
    BY <2>2 DEF Interrupt, IrqEnter, IrqReturn, hostVars, transportVars
  <2>3. CASE ReadStream
    BY <2>3 DEF ReadStream, hostVars
  <2>4. CASE ProcessByte
    <3>1. faults = 0 /\ want' = want
      BY <2>4 DEF ProcessByte
    <3>2. \/ heard' = <<>> /\ answered' = answered
          \/ ~answered /\ answered' /\ heard' = Expected(want)
      BY <2>4, <3>1, CarriedByByte
    <3>3. CASE heard' = <<>> /\ answered' = answered
      <4>1. Channel!Forget
        BY <3>1, <3>3 DEF Channel!Forget
      <4> QED BY <4>1 DEF Channel!ChannelNext
    <3>4. CASE ~answered /\ answered' /\ heard' = Expected(want)
      <4>1. want # <<>>
        BY <3>4, PayloadType, EmptySeq DEF LinkInv, Asked
      <4>2. Channel!Deliver
        BY <3>1, <3>4, <4>1 DEF Channel!Deliver
      <4> QED BY <4>2 DEF Channel!ChannelNext
    <3> QED BY <3>2, <3>3, <3>4
  <2> QED BY <2>1, <2>2, <2>3, <2>4 DEF LinkNext, MainLoop
<1> QED BY <1>1, FramesAreCarried, PTL DEF LinkSpec, ChannelKept

===============================================================================
