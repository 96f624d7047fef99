---------------------------- MODULE UartDmaProofs ----------------------------
(***************************************************************************)
(* Proofs about RingBuffer, for every capacity, every set of items and     *)
(* every set of offers; and, in the second half, about the transmit side   *)
(* of Uart, which has one.                                                 *)
(***************************************************************************)
EXTENDS UartDma, SequenceTheorems, TLAPS

------------------------------------------------------------------------------
\* The index arithmetic.  Each fact is linear once Advance and Size are open.

\* A moved index stays within the buffer.
LEMMA AdvanceType ==
  ASSUME NEW i \in Slots, NEW n \in 0 .. NumSlots
  PROVE  Advance(i, n) \in Slots
BY CapacityAssumption DEF Advance, Slots, NumSlots

\* increment() is a move by one.
LEMMA IncrementIsAdvance ==
  ASSUME NEW i \in Slots
  PROVE  Increment(i) = Advance(i, 1)
BY CapacityAssumption DEF Increment, Advance, Slots, NumSlots

\* size() and available() share the capacity between them.
LEMMA SizeType ==
  ASSUME NEW w \in Slots, NEW r \in Slots
  PROVE  /\ Size(w, r) \in 0 .. kCapacity
         /\ Available(w, r) \in 0 .. kCapacity
         /\ Available(w, r) = kCapacity - Size(w, r)
BY CapacityAssumption DEF Size, Available, Slots, NumSlots

\* isFull() and isEmpty() are the two ends of size().
LEMMA FullEmpty ==
  ASSUME NEW w \in Slots, NEW r \in Slots
  PROVE  /\ IsFull(w, r) <=> Available(w, r) = 0
         /\ IsEmpty(w, r) <=> Size(w, r) = 0
BY CapacityAssumption
DEF IsFull, IsEmpty, Increment, Size, Available, Slots, NumSlots

\* readBulk() shows no more than there is.
LEMMA BulkIsWithin ==
  ASSUME NEW w \in Slots, NEW r \in Slots
  PROVE  BulkSize(w, r) \in 0 .. Size(w, r)
BY CapacityAssumption DEF Size, BulkSize, Slots, NumSlots

\* Different distances lead to different slots.
LEMMA AdvanceInjective ==
  ASSUME NEW i \in Slots, NEW m \in 0 .. kCapacity, NEW n \in 0 .. kCapacity, m # n
  PROVE  Advance(i, m) # Advance(i, n)
BY CapacityAssumption DEF Advance, Slots, NumSlots

\* Two moves make one, as long as they do not go round.
LEMMA AdvanceAdd ==
  ASSUME NEW i \in Slots, NEW m \in Nat, NEW n \in Nat, m + n <= NumSlots
  PROVE  Advance(Advance(i, m), n) = Advance(i, m + n)
BY CapacityAssumption DEF Advance, Slots, NumSlots

\* The writer is size() places ahead of the reader.
LEMMA WriterFromReader ==
  ASSUME NEW w \in Slots, NEW r \in Slots
  PROVE  w = Advance(r, Size(w, r))
BY CapacityAssumption DEF Size, Advance, Slots, NumSlots

\* Storing write_index_ adds what was written to size().
LEMMA SizeAfterWrite ==
  ASSUME NEW w \in Slots, NEW r \in Slots, NEW n \in 0 .. Available(w, r)
  PROVE  Size(Advance(w, n), r) = Size(w, r) + n
BY CapacityAssumption DEF Size, Available, Advance, Slots, NumSlots

\* Storing read_index_ takes what was read from size().
LEMMA SizeAfterRead ==
  ASSUME NEW w \in Slots, NEW r \in Slots, NEW n \in 0 .. Size(w, r)
  PROVE  Size(w, Advance(r, n)) = Size(w, r) - n
BY CapacityAssumption DEF Size, Advance, Slots, NumSlots
------------------------------------------------------------------------------
\* The inductive invariant, one lemma for each kind of step.

\* A new buffer is empty, and nothing is in progress.
LEMMA InitRingInv == Init => RingInv
<1> SUFFICES ASSUME Init PROVE RingInv
  OBVIOUS
<1>1. Size(0, 0) = 0 /\ 0 \in Slots
  BY CapacityAssumption DEF Size, Slots
<1>2. TypeOK
  BY <1>1, CapacityAssumption DEF Init, TypeOK, Modes
<1>3. RoomHeld
  BY <1>1, SizeType, CapacityAssumption DEF Init, RoomHeld
<1> QED
  BY <1>1, <1>2, <1>3 DEF Init, RingInv, CopiesInPlace, SpanHeld, ItemsPresent, ReadsCurrent

\* What an enqueue decides to copy fits in the room it has measured.
LEMMA OfferFits ==
  ASSUME TypeOK, NEW items \in Offers
  PROVE  LET room == Available(write_index, read_index)
             n == IF Len(items) <= room THEN Len(items) ELSE room
         IN  /\ n \in 0 .. room
             /\ SubSeq(items, 1, n) \in Seq(Item)
             /\ Len(SubSeq(items, 1, n)) = n
<1> DEFINE room == Available(write_index, read_index)
           n == IF Len(items) <= room THEN Len(items) ELSE room
<1>1. items \in Seq(Item) /\ Len(items) \in Nat
  BY ItemAssumption, LenProperties
<1>2. room \in 0 .. kCapacity
  BY SizeType DEF TypeOK
<1>3. n \in 0 .. room /\ n <= Len(items) /\ n \in Int
  BY <1>1, <1>2, CapacityAssumption
<1> HIDE DEF n
<1>4. \A i \in 1 .. n : items[i] \in Item
  BY <1>1, <1>3, ElementOfSeq
<1>5. /\ SubSeq(items, 1, n) \in Seq(Item)
      /\ Len(SubSeq(items, 1, n)) = IF 1 <= n THEN n - 1 + 1 ELSE 0
  BY <1>3, <1>4, SubSeqProperties
<1> QED
  BY <1>3, <1>5 DEF n

\* The start of an enqueue: nothing is copied yet, and the offer fits.
LEMMA BeginEnqueue ==
  ASSUME RingInv,
         \/ \E item \in Item : EnqueueItem(item)
         \/ \E items \in Offers : EnqueueSpan(items)
  PROVE  RingInv'
<1> USE DEF RingInv
<1>1. /\ UNCHANGED <<buffer, write_index, read_index, copied, mode, span, got, received>>
      /\ todo = <<>> /\ copied = 0
  BY DEF TypeOK, EnqueueItem, EnqueueSpan, consumerVars
<1>2. /\ todo' \in Seq(Item)
      /\ Len(todo') <= Available(write_index, read_index)
      /\ whole' \in BOOLEAN /\ accepted' \in BOOLEAN
  <2>1. CASE \E item \in Item : EnqueueItem(item)
    <3>1. ~IsFull(write_index, read_index) => 1 <= Available(write_index, read_index)
      BY FullEmpty, SizeType DEF TypeOK
    <3>2. PICK item \in Item : EnqueueItem(item)
      BY <2>1
    <3>3. CASE IsFull(write_index, read_index)
      BY <3>2, <3>3 DEF EnqueueItem, TypeOK, RoomHeld
    <3>4. CASE ~IsFull(write_index, read_index)
      <4>1. todo' = <<item>> /\ whole' = TRUE /\ UNCHANGED accepted
        BY <3>2, <3>4 DEF EnqueueItem
      <4>2. <<item>> \in Seq(Item) /\ Len(<<item>>) = 1
        OBVIOUS
      <4> QED
        BY <3>1, <3>4, <4>1, <4>2 DEF TypeOK
    <3> QED
      BY <3>3, <3>4
  <2>2. CASE \E items \in Offers : EnqueueSpan(items)
    <3>1. PICK items \in Offers : EnqueueSpan(items)
      BY <2>2
    <3> DEFINE room == Available(write_index, read_index)
               n == IF Len(items) <= room THEN Len(items) ELSE room
    <3>2. /\ n \in 0 .. room
          /\ SubSeq(items, 1, n) \in Seq(Item)
          /\ Len(SubSeq(items, 1, n)) = n
      BY OfferFits
    <3>3. CASE n = 0
      BY <3>1, <3>3, <1>1 DEF EnqueueSpan, TypeOK, RoomHeld
    <3>4. CASE n # 0
      <4>1. todo' = SubSeq(items, 1, n) /\ whole' \in BOOLEAN /\ UNCHANGED accepted
        BY <3>1, <3>4 DEF EnqueueSpan
      <4>2. room \in 0 .. kCapacity
        BY SizeType DEF TypeOK
      <4> HIDE DEF n
      <4> QED
        BY <3>2, <4>1, <4>2, CapacityAssumption DEF TypeOK
    <3> QED
      BY <3>3, <3>4
  <2> QED
    BY <2>1, <2>2
<1>3. TypeOK'
  BY <1>1, <1>2, LenProperties DEF TypeOK
<1> QED
  BY <1>1, <1>2, <1>3
  DEF RoomHeld, CopiesInPlace, SpanHeld, ItemsPresent, ReadsCurrent

\* A slot of the room is none of the slots that hold the contents.
LEMMA RoomApart ==
  ASSUME TypeOK,
         NEW i \in 0 .. (Size(write_index, read_index) - 1),
         NEW k \in 0 .. (Available(write_index, read_index) - 1)
  PROVE  Advance(write_index, k) # Advance(read_index, i)
<1> DEFINE n == Size(write_index, read_index)
<1>1. /\ n \in 0 .. kCapacity
      /\ Available(write_index, read_index) = kCapacity - n
      /\ write_index = Advance(read_index, n)
  BY SizeType, WriterFromReader DEF TypeOK
<1>2. Advance(write_index, k) = Advance(read_index, n + k)
  BY <1>1, AdvanceAdd, CapacityAssumption DEF TypeOK, NumSlots
<1>3. Advance(read_index, n + k) # Advance(read_index, i)
  BY <1>1, AdvanceInjective, CapacityAssumption DEF TypeOK
<1> QED
  BY <1>2, <1>3

\* A copied item goes to the room, which nobody else looks at.
LEMMA StepCopyItem == RingInv /\ CopyItem => RingInv'
<1> SUFFICES ASSUME RingInv, CopyItem PROVE RingInv'
  OBVIOUS
<1> USE DEF RingInv
<1> DEFINE n == Size(write_index, read_index)
           slot == Advance(write_index, copied)
<1>1. /\ copied \in Nat /\ Len(todo) \in Nat
      /\ copied < Len(todo)
      /\ n \in 0 .. kCapacity
      /\ Len(todo) <= kCapacity - n
      /\ Available(write_index, read_index) = kCapacity - n
      /\ span <= n
  BY SizeType DEF TypeOK, CopyItem, RoomHeld, SpanHeld
<1>2. /\ buffer' = [buffer EXCEPT ![slot] = todo[copied + 1]]
      /\ copied' = copied + 1
      /\ UNCHANGED <<write_index, read_index, todo, whole, accepted, mode, span, got, received>>
  BY DEF CopyItem, consumerVars
<1>3. slot \in Slots /\ todo[copied + 1] \in Item
  <2>1. copied \in 0 .. NumSlots /\ copied + 1 \in 1 .. Len(todo)
    BY <1>1, CapacityAssumption DEF NumSlots
  <2> QED
    BY <2>1, AdvanceType, ElementOfSeq DEF TypeOK
<1>4. \A i \in 1 .. n : buffer'[Advance(read_index, i - 1)] = buffer[Advance(read_index, i - 1)]
  <2> SUFFICES ASSUME NEW i \in 1 .. n
               PROVE  buffer'[Advance(read_index, i - 1)] = buffer[Advance(read_index, i - 1)]
    OBVIOUS
  <2>1. i - 1 \in 0 .. (n - 1) /\ copied \in 0 .. (Available(write_index, read_index) - 1)
    BY <1>1, CapacityAssumption
  <2>2. slot # Advance(read_index, i - 1)
    BY <2>1, RoomApart
  <2> QED
    BY <1>2, <2>2 DEF TypeOK
<1>5. \A i \in 1 .. copied : buffer'[Advance(write_index, i - 1)] = buffer[Advance(write_index, i - 1)]
  <2> SUFFICES ASSUME NEW i \in 1 .. copied
               PROVE  buffer'[Advance(write_index, i - 1)] = buffer[Advance(write_index, i - 1)]
    OBVIOUS
  <2>1. i - 1 \in 0 .. kCapacity /\ copied \in 0 .. kCapacity /\ i - 1 # copied
    BY <1>1, CapacityAssumption
  <2>2. slot # Advance(write_index, i - 1)
    BY <2>1, AdvanceInjective DEF TypeOK
  <2> QED
    BY <1>2, <2>2 DEF TypeOK
<1>6. TypeOK'
  BY <1>1, <1>2, <1>3 DEF TypeOK
<1>7. CopiesInPlace'
  <2> SUFFICES ASSUME NEW i \in 1 .. (copied + 1)
               PROVE  buffer'[Advance(write_index, i - 1)] = todo[i]
    BY <1>2 DEF CopiesInPlace
  <2>1. CASE i \in 1 .. copied
    BY <2>1, <1>5 DEF CopiesInPlace
  <2>2. CASE i = copied + 1
    <3>1. i - 1 = copied
      BY <1>1, <2>2
    <3> QED
      BY <3>1, <2>2, <1>2, <1>3 DEF TypeOK
  <2> QED
    BY <1>1, <2>1, <2>2
<1>8. ItemsPresent'
  BY <1>2, <1>4 DEF ItemsPresent
<1>9. ReadsCurrent'
  <2> SUFFICES ASSUME NEW i \in 1 .. Len(got)
               PROVE  got[i] = buffer'[Advance(read_index, i - 1)]
    BY <1>2 DEF ReadsCurrent
  <2>1. i \in 1 .. n
    BY <1>1 DEF TypeOK
  <2> QED
    BY <2>1, <1>4 DEF ReadsCurrent
<1> QED
  BY <1>2, <1>6, <1>7, <1>8, <1>9 DEF RoomHeld, SpanHeld

\* What the published items become: the old ones, then those just copied.
LEMMA PublishedItems ==
  ASSUME RingInv, PublishWrite
  PROVE  LET n == Size(write_index, read_index)
         IN  /\ write_index' = Advance(write_index, Len(todo))
             /\ write_index' \in Slots
             /\ Size(write_index', read_index') = n + Len(todo)
             /\ \A i \in 1 .. Len(todo) : buffer[Advance(read_index, n + i - 1)] = todo[i]
<1> USE DEF RingInv
<1> DEFINE n == Size(write_index, read_index)
<1>1. /\ copied = Len(todo) /\ Len(todo) \in Nat
      /\ n \in 0 .. kCapacity
      /\ Available(write_index, read_index) = kCapacity - n
      /\ Len(todo) \in 0 .. Available(write_index, read_index)
      /\ write_index = Advance(read_index, n)
  BY SizeType, WriterFromReader, CapacityAssumption DEF TypeOK, PublishWrite, RoomHeld
<1>2. write_index' = Advance(write_index, Len(todo)) /\ UNCHANGED <<buffer, read_index>>
  BY <1>1 DEF PublishWrite, consumerVars
<1>3. write_index' \in Slots
  BY <1>1, <1>2, AdvanceType, CapacityAssumption DEF TypeOK, NumSlots
<1>4. Size(write_index', read_index') = n + Len(todo)
  BY <1>1, <1>2, SizeAfterWrite DEF TypeOK
<1>5. ASSUME NEW i \in 1 .. Len(todo)
      PROVE  buffer[Advance(read_index, n + i - 1)] = todo[i]
  <2>1. i - 1 \in Nat /\ n + (i - 1) <= NumSlots /\ n + (i - 1) = n + i - 1
    BY <1>1, CapacityAssumption DEF NumSlots
  <2>2. Advance(write_index, i - 1) = Advance(read_index, n + i - 1)
    BY <1>1, <2>1, AdvanceAdd DEF TypeOK
  <2> QED
    BY <1>1, <2>2 DEF CopiesInPlace
<1> QED
  BY <1>2, <1>3, <1>4, <1>5

\* Storing write_index_ turns the copied items into contents.
LEMMA StepPublishWrite == RingInv /\ PublishWrite => RingInv'
<1> SUFFICES ASSUME RingInv, PublishWrite PROVE RingInv'
  OBVIOUS
<1> USE DEF RingInv
<1> DEFINE n == Size(write_index, read_index)
<1>1. /\ write_index' \in Slots
      /\ Size(write_index', read_index') = n + Len(todo)
      /\ \A i \in 1 .. Len(todo) : buffer[Advance(read_index, n + i - 1)] = todo[i]
  BY PublishedItems
<1>2. /\ todo' = <<>> /\ copied' = 0 /\ accepted' = whole
      /\ UNCHANGED <<buffer, whole, read_index, mode, span, got, received>>
  BY DEF PublishWrite, consumerVars
<1>3. n \in 0 .. kCapacity /\ Len(todo) \in Nat
  BY SizeType, LenProperties DEF TypeOK
<1>4. TypeOK'
  BY <1>1, <1>2 DEF TypeOK
<1>5. RoomHeld'
  <2>1. Available(write_index', read_index') \in 0 .. kCapacity
    BY <1>1, <1>2, SizeType DEF TypeOK
  <2> QED
    BY <2>1, <1>2 DEF RoomHeld
<1>6. SpanHeld'
  BY <1>1, <1>2, <1>3 DEF SpanHeld, TypeOK
<1>7. ItemsPresent'
  <2> SUFFICES ASSUME NEW i \in 1 .. (n + Len(todo))
               PROVE  buffer[Advance(read_index, i - 1)] \in Item
    BY <1>1, <1>2 DEF ItemsPresent
  <2>1. CASE i <= n
    BY <2>1, <1>3 DEF ItemsPresent
  <2>2. CASE i > n
    <3>1. i - n \in 1 .. Len(todo) /\ n + (i - n) - 1 = i - 1
      BY <1>3, <2>2
    <3>2. buffer[Advance(read_index, n + (i - n) - 1)] = todo[i - n]
      BY <3>1, <1>1
    <3>3. todo[i - n] \in Item
      BY <3>1, ElementOfSeq DEF TypeOK
    <3> QED
      BY <3>1, <3>2, <3>3
  <2> QED
    BY <2>1, <2>2, <1>3
<1> QED
  BY <1>2, <1>4, <1>5, <1>6, <1>7 DEF CopiesInPlace, ReadsCurrent

\* Dequeue, Peek and ReadBulk: what the call may read has been published.
LEMMA StepBeginRead == RingInv /\ (Dequeue \/ Peek \/ ReadBulk) => RingInv'
<1> SUFFICES ASSUME RingInv, Dequeue \/ Peek \/ ReadBulk PROVE RingInv'
  OBVIOUS
<1> USE DEF RingInv
<1> DEFINE n == Size(write_index, read_index)
<1>1. /\ n \in 0 .. kCapacity
      /\ BulkSize(write_index, read_index) \in 0 .. n
      /\ ~IsEmpty(write_index, read_index) => 1 <= n
  BY SizeType, BulkIsWithin, FullEmpty DEF TypeOK
<1>2. UNCHANGED <<buffer, write_index, read_index, todo, copied, whole, accepted>>
  BY DEF Dequeue, Peek, ReadBulk, Begin, Miss, producerVars
<1>3. CASE Miss
  <2>1. /\ received' = <<>>
        /\ UNCHANGED <<buffer, write_index, read_index, todo, copied, whole, accepted, mode, span,
                       got>>
    BY <1>2, <1>3 DEF Miss
  <2>2. TypeOK'
    BY <2>1 DEF TypeOK
  <2>3. RoomHeld' /\ CopiesInPlace'
    BY <2>1 DEF RoomHeld, CopiesInPlace
  <2>4. SpanHeld' /\ ItemsPresent' /\ ReadsCurrent'
    BY <2>1 DEF SpanHeld, ItemsPresent, ReadsCurrent
  <2> QED BY <2>2, <2>3, <2>4
<1>4. ASSUME NEW call \in {"dequeue", "peek", "bulk"}, NEW k \in 0 .. n,
             call # "bulk" => k = 1, Begin(call, k)
      PROVE  RingInv'
  <2>1. /\ mode' = call /\ span' = k /\ got' = <<>>
        /\ UNCHANGED received
    BY <1>4 DEF Begin
  <2>2. k \in 0 .. kCapacity
    BY <1>1, CapacityAssumption
  <2>3. TypeOK'
    BY <1>2, <2>1, <2>2 DEF TypeOK, Modes
  <2>4. SpanHeld'
    BY <1>1, <1>2, <1>4, <2>1 DEF SpanHeld
  <2> QED
    BY <1>2, <2>1, <2>3, <2>4 DEF RoomHeld, CopiesInPlace, ItemsPresent, ReadsCurrent
<1>5. CASE Dequeue
  BY <1>1, <1>3, <1>4, <1>5 DEF Dequeue
<1>6. CASE Peek
  BY <1>1, <1>3, <1>4, <1>6 DEF Peek
<1>7. CASE ReadBulk
  BY <1>1, <1>4, <1>7 DEF ReadBulk
<1> QED
  BY <1>5, <1>6, <1>7

\* An item read is one of the published ones.
LEMMA StepReadItem == RingInv /\ ReadItem => RingInv'
<1> SUFFICES ASSUME RingInv, ReadItem PROVE RingInv'
  OBVIOUS
<1> USE DEF RingInv
<1> DEFINE n == Size(write_index, read_index)
           item == buffer[Advance(read_index, Len(got))]
<1>1. /\ n \in 0 .. kCapacity /\ span <= n
      /\ Len(got) \in Nat /\ Len(got) + 1 <= span
      /\ got' = Append(got, item)
      /\ UNCHANGED <<buffer, write_index, todo, copied, whole, accepted,
                      read_index, mode, span, received>>
  <2>1. n \in 0 .. kCapacity /\ span <= n
    BY SizeType DEF TypeOK, SpanHeld
  <2>2. Len(got) \in Nat /\ Len(got) < span /\ span \in Nat
    BY CapacityAssumption DEF TypeOK, ReadItem
  <2>3. Len(got) + 1 <= span
    BY <2>2
  <2>4. /\ got' = Append(got, item)
        /\ UNCHANGED <<buffer, write_index, todo, copied, whole, accepted,
                        read_index, mode, span, received>>
    BY DEF ReadItem, producerVars
  <2> QED
    BY <2>1, <2>2, <2>3, <2>4
<1>2. item \in Item
  <2>1. Len(got) + 1 \in 1 .. n /\ (Len(got) + 1) - 1 = Len(got)
    BY <1>1 DEF TypeOK
  <2> QED
    BY <2>1 DEF ItemsPresent
<1>3. /\ got' \in Seq(Item) /\ Len(got') = Len(got) + 1
      /\ \A i \in 1 .. Len(got) : got'[i] = got[i]
      /\ got'[Len(got) + 1] = item
  BY <1>1, <1>2, AppendProperties DEF TypeOK
<1>4. TypeOK'
  BY <1>1, <1>3 DEF TypeOK
<1>5. ReadsCurrent'
  <2> SUFFICES ASSUME NEW i \in 1 .. (Len(got) + 1)
               PROVE  got'[i] = buffer[Advance(read_index, i - 1)]
    BY <1>1, <1>3 DEF ReadsCurrent
  <2>1. CASE i \in 1 .. Len(got)
    BY <2>1, <1>3 DEF ReadsCurrent
  <2>2. CASE i = Len(got) + 1
    <3>1. i - 1 = Len(got)
      BY <2>2, <1>1
    <3> QED
      BY <3>1, <2>2, <1>3
  <2> QED
    BY <1>1, <2>1, <2>2
<1> QED
  BY <1>1, <1>4, <1>5 DEF RoomHeld, CopiesInPlace, SpanHeld, ItemsPresent

\* What a released run leaves: the contents from its end on.
LEMMA RemainingItems ==
  ASSUME RingInv, NEW k \in 0 .. Size(write_index, read_index)
  PROVE  /\ Advance(read_index, k) \in Slots
         /\ Size(write_index, Advance(read_index, k)) = Size(write_index, read_index) - k
         /\ Available(write_index, Advance(read_index, k))
              = Available(write_index, read_index) + k
         /\ \A i \in 1 .. (Size(write_index, read_index) - k) :
               buffer[Advance(Advance(read_index, k), i - 1)] = buffer[Advance(read_index, k + i - 1)]
<1> USE DEF RingInv
<1> DEFINE n == Size(write_index, read_index)
           r == Advance(read_index, k)
<1>1. n \in 0 .. kCapacity
  BY SizeType DEF TypeOK
<1>2. r \in Slots
  BY <1>1, AdvanceType, CapacityAssumption DEF TypeOK, NumSlots
<1>3. Size(write_index, r) = n - k
  BY SizeAfterRead DEF TypeOK
<1>4. Available(write_index, r) = Available(write_index, read_index) + k
  BY <1>1, <1>2, <1>3, SizeType, CapacityAssumption DEF TypeOK
<1>5. ASSUME NEW i \in 1 .. (n - k)
      PROVE  Advance(r, i - 1) = Advance(read_index, k + i - 1)
  <2>1. i - 1 \in Nat /\ k + (i - 1) <= NumSlots /\ k + (i - 1) = k + i - 1
    BY <1>1, CapacityAssumption DEF NumSlots
  <2> QED
    BY <2>1, AdvanceAdd, <1>1 DEF TypeOK
<1> QED
  BY <1>2, <1>3, <1>4, <1>5

\* ReleaseRead and DiscardBulk release what they have read.
LEMMA ReleaseCount ==
  ASSUME RingInv, ReleaseRead \/ DiscardBulk
  PROVE  /\ Len(got) \in 0 .. Size(write_index, read_index)
         /\ read_index' = Advance(read_index, Len(got))
         /\ Finish
<1> USE DEF RingInv
<1>1. Len(got) \in 0 .. Size(write_index, read_index)
  BY SizeType DEF TypeOK, SpanHeld
<1>2. CASE ReleaseRead
  BY <1>1, <1>2, IncrementIsAdvance DEF ReleaseRead, SpanHeld, TypeOK
<1>3. CASE DiscardBulk
  BY <1>1, <1>3 DEF DiscardBulk
<1> QED
  BY <1>2, <1>3

\* Storing read_index_ leaves the rest of the contents, and more room.
LEMMA StepRelease == RingInv /\ (ReleaseRead \/ DiscardBulk) => RingInv'
<1> SUFFICES ASSUME RingInv, ReleaseRead \/ DiscardBulk PROVE RingInv'
  OBVIOUS
<1> USE DEF RingInv
<1> DEFINE n == Size(write_index, read_index)
           k == Len(got)
<1>1. k \in 0 .. n /\ read_index' = Advance(read_index, k) /\ Finish
  BY ReleaseCount
<1>2. /\ mode' = "idle" /\ span' = 0 /\ got' = <<>> /\ received' = got
      /\ UNCHANGED <<buffer, write_index, todo, copied, whole, accepted>>
  BY <1>1 DEF Finish, producerVars
<1>3. n \in 0 .. kCapacity /\ Available(write_index, read_index) \in 0 .. kCapacity
  BY SizeType DEF TypeOK
<1>4. /\ read_index' \in Slots
      /\ Size(write_index', read_index') = n - k
      /\ Available(write_index', read_index') = Available(write_index, read_index) + k
      /\ \A i \in 1 .. (n - k) :
            buffer[Advance(read_index', i - 1)] = buffer[Advance(read_index, k + i - 1)]
  BY <1>1, <1>2, RemainingItems
<1>5. TypeOK'
  BY <1>2, <1>4, CapacityAssumption DEF TypeOK, Modes
<1>6. RoomHeld'
  BY <1>1, <1>2, <1>3, <1>4, LenProperties DEF RoomHeld, TypeOK
<1>7. SpanHeld'
  BY <1>1, <1>2, <1>3, <1>4 DEF SpanHeld
<1>8. ItemsPresent'
  <2> SUFFICES ASSUME NEW i \in 1 .. (n - k)
               PROVE  buffer[Advance(read_index, k + i - 1)] \in Item
    BY <1>2, <1>4 DEF ItemsPresent
  <2>1. k + i \in 1 .. n /\ (k + i) - 1 = k + i - 1
    BY <1>1, <1>3
  <2> QED
    BY <2>1 DEF ItemsPresent
<1> QED
  BY <1>2, <1>5, <1>6, <1>7, <1>8 DEF CopiesInPlace, ReadsCurrent

\* A peek leaves the buffer as it was.
LEMMA StepFinishPeek == RingInv /\ FinishPeek => RingInv'
<1> SUFFICES ASSUME RingInv, FinishPeek PROVE RingInv'
  OBVIOUS
<1>1. /\ mode' = "idle" /\ span' = 0 /\ got' = <<>> /\ received' = got
      /\ UNCHANGED <<buffer, write_index, read_index, todo, copied, whole, accepted>>
  BY DEF FinishPeek, Finish, producerVars
<1>2. 0 <= Size(write_index, read_index)
  BY SizeType DEF RingInv, TypeOK
<1>3. TypeOK'
  BY <1>1, CapacityAssumption DEF RingInv, TypeOK, Modes
<1> QED
  BY <1>1, <1>2, <1>3 DEF RingInv, RoomHeld, CopiesInPlace, SpanHeld, ItemsPresent, ReadsCurrent

\* Every step of either side preserves the invariant.
LEMMA StepRingInv == RingInv /\ [Next]_ringVars => RingInv'
<1> SUFFICES ASSUME RingInv, [Next]_ringVars PROVE RingInv'
  OBVIOUS
<1>1. CASE \/ \E item \in Item : EnqueueItem(item)
           \/ \E items \in Offers : EnqueueSpan(items)
  BY <1>1, BeginEnqueue
<1>2. CASE CopyItem
  BY <1>2, StepCopyItem
<1>3. CASE PublishWrite
  BY <1>3, StepPublishWrite
<1>4. CASE Dequeue \/ Peek \/ ReadBulk
  BY <1>4, StepBeginRead
<1>5. CASE ReadItem
  BY <1>5, StepReadItem
<1>6. CASE FinishPeek
  BY <1>6, StepFinishPeek
<1>7. CASE ReleaseRead \/ DiscardBulk
  BY <1>7, StepRelease
<1>8. CASE UNCHANGED ringVars
  BY <1>8 DEF ringVars, producerVars, consumerVars, RingInv, TypeOK, RoomHeld,
              CopiesInPlace, SpanHeld, ItemsPresent, ReadsCurrent
<1> QED
  BY <1>1, <1>2, <1>3, <1>4, <1>5, <1>6, <1>7, <1>8 DEF Next, Producer, Consumer

(***************************************************************************)
(* The invariant holds of every run, and with it the types.                *)
(***************************************************************************)
THEOREM RingInvariant == Spec => []RingInv
BY InitRingInv, StepRingInv, PTL DEF Spec

\* The types of TypeOK hold in every run: no index leaves the buffer.
THEOREM TypeCorrect == Spec => []TypeOK
<1>1. RingInv => TypeOK
  BY DEF RingInv
<1> QED
  BY <1>1, RingInvariant, PTL
------------------------------------------------------------------------------
\* Safety.

\* The room of the producer and the span of the consumer do not meet.
LEMMA InvSlotsDisjoint == RingInv => SlotsDisjoint
<1> SUFFICES ASSUME RingInv,
                    NEW k \in 0 .. (Len(todo) - 1), NEW i \in 0 .. (span - 1)
             PROVE  Advance(write_index, k) # Advance(read_index, i)
  BY DEF SlotsDisjoint, Run
<1>1. TypeOK /\ Len(todo) \in Nat /\ span \in Nat
  BY LenProperties, CapacityAssumption DEF RingInv, TypeOK
<1>2. /\ Size(write_index, read_index) \in 0 .. kCapacity
      /\ Available(write_index, read_index) \in 0 .. kCapacity
  BY <1>1, SizeType DEF TypeOK
<1>3. /\ i \in 0 .. (Size(write_index, read_index) - 1)
      /\ k \in 0 .. (Available(write_index, read_index) - 1)
  BY <1>1, <1>2, CapacityAssumption DEF RingInv, RoomHeld, SpanHeld
<1> QED
  BY <1>1, <1>3, RoomApart

\* The items between two indices are a sequence, as long as the indices say.
LEMMA ItemsBetween ==
  ASSUME NEW w \in Slots, NEW r \in Slots, NEW b,
         \A i \in 1 .. Size(w, r) : b[Advance(r, i - 1)] \in Item
  PROVE  LET c == [i \in 1 .. Size(w, r) |-> b[Advance(r, i - 1)]]
         IN  /\ c \in Seq(Item)
             /\ Len(c) = Size(w, r)
             /\ \A i \in 1 .. Size(w, r) : c[i] = b[Advance(r, i - 1)]
<1> DEFINE n == Size(w, r)
           c == [i \in 1 .. n |-> b[Advance(r, i - 1)]]
<1>1. n \in Nat
  BY SizeType, CapacityAssumption
<1>2. c \in [1 .. n -> Item] /\ \A i \in 1 .. n : c[i] = b[Advance(r, i - 1)]
  OBVIOUS
<1> HIDE DEF n, c
<1>3. c \in Seq(Item) /\ Len(c) = n
  BY <1>1, <1>2
<1> QED
  BY <1>2, <1>3 DEF n, c

\* The contents are a sequence of items, as long as size() says.
LEMMA ContentsType ==
  ASSUME RingInv
  PROVE  /\ contents \in Seq(Item)
         /\ Len(contents) = Size(write_index, read_index)
         /\ Size(write_index, read_index) \in 0 .. kCapacity
         /\ \A i \in 1 .. Size(write_index, read_index) :
              contents[i] = buffer[Advance(read_index, i - 1)]
BY SizeType, ItemsBetween DEF RingInv, TypeOK, ItemsPresent, contents

\* The same after a step.
LEMMA ContentsTypeNext ==
  ASSUME RingInv'
  PROVE  /\ contents' \in Seq(Item)
         /\ Len(contents') = Size(write_index', read_index')
         /\ Size(write_index', read_index') \in 0 .. kCapacity
         /\ \A i \in 1 .. Size(write_index', read_index') :
              contents'[i] = buffer'[Advance(read_index', i - 1)]
BY SizeType, ItemsBetween DEF RingInv, TypeOK, ItemsPresent, contents

\* What has been read so far is the front of the contents.
LEMMA InvReadFaithful == RingInv => ReadFaithful
<1> SUFFICES ASSUME RingInv PROVE ReadFaithful
  OBVIOUS
<1> DEFINE front == SubSeq(contents, 1, Len(got))
<1>1. /\ contents \in Seq(Item) /\ Len(contents) = Size(write_index, read_index)
      /\ Len(contents) \in Nat
  BY ContentsType, CapacityAssumption
<1>2. /\ got \in Seq(Item) /\ Len(got) \in Nat
      /\ span <= Len(contents) /\ Len(got) <= Len(contents)
  BY <1>1, CapacityAssumption DEF RingInv, TypeOK, SpanHeld
<1>3. \A i \in 1 .. Len(got) : contents[i] \in Item
  BY <1>1, <1>2, ElementOfSeq
<1>4. /\ front \in Seq(Item)
      /\ Len(front) = Len(got)
      /\ \A i \in 1 .. Len(got) : front[i] = contents[i]
  <2>1. /\ front \in Seq(Item)
        /\ Len(front) = IF 1 <= Len(got) THEN Len(got) - 1 + 1 ELSE 0
        /\ \A i \in 1 .. Len(got) - 1 + 1 : front[i] = contents[1 + i - 1]
    BY <1>2, <1>3, SubSeqProperties
  <2> HIDE DEF front
  <2> QED
    BY <1>2, <2>1
<1>5. \A i \in 1 .. Len(got) : got[i] = contents[i]
  BY <1>1, <1>2, ContentsType DEF RingInv, ReadsCurrent
<1> HIDE DEF front
<1>6. got = front
  BY <1>2, <1>4, <1>5, SeqEqual
<1> QED
  BY <1>2, <1>6 DEF ReadFaithful, front

(***************************************************************************)
(* For every capacity: the producer never writes a slot that the consumer  *)
(* may be reading, although neither locks the other out.                   *)
(***************************************************************************)
THEOREM NoDataRace == Spec => []SlotsDisjoint
BY InvSlotsDisjoint, RingInvariant, PTL

(***************************************************************************)
(* For every capacity: what a call of the consumer has read is the front   *)
(* of the queue until the call ends.                                       *)
(***************************************************************************)
THEOREM ReadsTheFront == Spec => []ReadFaithful
BY InvReadFaithful, RingInvariant, PTL
------------------------------------------------------------------------------
\* The refinement: every step is an operation of the queue, or none.

\* A step that leaves the indices and the published slots alone leaves the contents.
LEMMA SameContents ==
  ASSUME UNCHANGED <<write_index, read_index>>,
         \A i \in 1 .. Size(write_index, read_index) :
           buffer'[Advance(read_index, i - 1)] = buffer[Advance(read_index, i - 1)]
  PROVE  UNCHANGED contents
BY DEF contents

\* Init maps to the initial state of BoundedFifo.
LEMMA MapInit == Init => Fifo!Init
<1> SUFFICES ASSUME Init PROVE contents = <<>>
  BY DEF Init, Fifo!Init
<1>1. RingInv /\ Size(write_index, read_index) = 0
  BY InitRingInv, CapacityAssumption DEF Init, Size
<1> QED
  BY <1>1, ContentsType, EmptySeq

\* The room of the queue is the room that enqueue() measures.
LEMMA SameRoom ==
  ASSUME RingInv
  PROVE  /\ Fifo!Room = Available(write_index, read_index)
         /\ Fifo!Room \in 0 .. kCapacity
<1>1. Available(write_index, read_index) = kCapacity - Size(write_index, read_index)
  BY SizeType DEF RingInv, TypeOK
<1> QED
  BY <1>1, ContentsType, CapacityAssumption DEF Fifo!Room

\* An enqueue(const T&) that begins or is refused is an Offer of one item.
LEMMA MapEnqueueItem ==
  ASSUME RingInv, NEW item \in Item, EnqueueItem(item)
  PROVE  Fifo!Offer(<<item>>)
<1>1. UNCHANGED <<contents, mode, span, received>>
  <2>1. UNCHANGED <<buffer, write_index, read_index, mode, span, received>>
    BY DEF EnqueueItem, consumerVars
  <2> QED
    BY <2>1, SameContents
<1>2. /\ <<item>> # <<>> /\ Len(<<item>>) = 1
      /\ SubSeq(<<item>>, 1, 1) = <<item>>
  <2> DEFINE one == <<item>>
             same == SubSeq(one, 1, 1)
  <2>1. one \in Seq(Item) /\ one # <<>> /\ Len(one) = 1
    OBVIOUS
  <2> HIDE DEF one
  <2>2. \A i \in 1 .. 1 : one[i] \in Item
    BY <2>1, ElementOfSeq
  <2>3. /\ same \in Seq(Item)
        /\ Len(same) = IF 1 <= 1 THEN 1 - 1 + 1 ELSE 0
        /\ \A i \in 1 .. 1 - 1 + 1 : same[i] = one[1 + i - 1]
    BY <2>2, SubSeqProperties
  <2> HIDE DEF same
  <2>4. Len(same) = 1 /\ \A i \in 1 .. 1 : same[i] = one[i]
    BY <2>3
  <2>5. same = one
    BY <2>1, <2>3, <2>4, SeqEqual
  <2> QED
    BY <2>1, <2>5 DEF one, same
<1>3. IsFull(write_index, read_index) <=> Fifo!Room = 0
  BY SameRoom, FullEmpty DEF RingInv, TypeOK
<1>4. Fifo!Room # 0 => 1 <= Fifo!Room
  BY SameRoom, CapacityAssumption
<1> HIDE DEF Fifo!Room
<1>5. CASE IsFull(write_index, read_index)
  BY <1>1, <1>2, <1>3, <1>5 DEF EnqueueItem, Fifo!Offer, Fifo!getVars
<1>6. CASE ~IsFull(write_index, read_index)
  BY <1>1, <1>2, <1>3, <1>4, <1>6 DEF EnqueueItem, Fifo!Offer, Fifo!getVars
<1> QED
  BY <1>5, <1>6

\* An enqueue(Span) that begins or is answered at once is an Offer of the span.
LEMMA MapEnqueueSpan ==
  ASSUME RingInv, NEW items \in Offers, EnqueueSpan(items)
  PROVE  Fifo!Offer(items)
<1> DEFINE room == Available(write_index, read_index)
           n == IF Len(items) <= room THEN Len(items) ELSE room
<1>1. UNCHANGED <<contents, mode, span, received>> /\ todo = <<>>
  <2>1. UNCHANGED <<buffer, write_index, read_index, mode, span, received>>
    BY DEF EnqueueSpan, consumerVars
  <2> QED
    BY <2>1, SameContents DEF EnqueueSpan
<1>2. Fifo!Room = room /\ room \in Nat
  BY SameRoom, CapacityAssumption
<1>3. items \in Seq(Item) /\ Len(items) \in Nat /\ (items = <<>> <=> Len(items) = 0)
  BY ItemAssumption, EmptySeq, LenProperties
<1>4. IF n = 0
        THEN accepted' = (items = <<>>) /\ UNCHANGED <<todo, whole>>
        ELSE /\ todo' = SubSeq(items, 1, n)
             /\ whole' = (n = Len(items))
             /\ UNCHANGED accepted
  BY DEF EnqueueSpan
<1> HIDE DEF room
<1>5. n = 0 <=> items = <<>> \/ room = 0
  BY <1>2, <1>3
<1>6. n = Len(items) <=> Len(items) <= room
  BY <1>2, <1>3
<1>7. CASE n = 0
  BY <1>1, <1>2, <1>4, <1>5, <1>7 DEF Fifo!Offer, Fifo!getVars
<1>8. CASE n # 0
  <2>1. whole' = (Len(items) <= room)
    BY <1>4, <1>6, <1>8
  <2> QED
    BY <1>1, <1>2, <1>4, <1>5, <1>8, <2>1 DEF Fifo!Offer, Fifo!getVars
<1> QED
  BY <1>7, <1>8

\* A copied item, which is not published yet, is a stutter.
LEMMA MapCopyItem == RingInv /\ CopyItem => UNCHANGED Fifo!fifoVars
<1> SUFFICES ASSUME RingInv, CopyItem PROVE UNCHANGED Fifo!fifoVars
  OBVIOUS
<1> DEFINE n == Size(write_index, read_index)
<1>1. /\ n \in 0 .. kCapacity
      /\ Available(write_index, read_index) = kCapacity - n
      /\ Available(write_index, read_index) \in 0 .. kCapacity
      /\ copied \in Nat /\ Len(todo) \in Nat /\ copied < Len(todo)
      /\ Len(todo) <= Available(write_index, read_index)
  BY SizeType DEF RingInv, TypeOK, RoomHeld, CopyItem
<1>2. ASSUME NEW i \in 1 .. n
      PROVE  buffer'[Advance(read_index, i - 1)] = buffer[Advance(read_index, i - 1)]
  <2>1. i - 1 \in 0 .. (n - 1) /\ copied \in 0 .. (Available(write_index, read_index) - 1)
    BY <1>1, CapacityAssumption
  <2>2. Advance(write_index, copied) # Advance(read_index, i - 1)
    BY <2>1, RoomApart DEF RingInv
  <2> QED
    BY <2>2 DEF CopyItem, RingInv, TypeOK
<1>3. UNCHANGED <<write_index, read_index, todo, whole, accepted, mode, span, received>>
  BY DEF CopyItem, consumerVars
<1>4. UNCHANGED contents
  BY <1>2, <1>3, SameContents
<1> QED
  BY <1>3, <1>4 DEF Fifo!fifoVars, Fifo!putVars, Fifo!getVars

\* Storing write_index_ is the append of the queue.
LEMMA MapPublishWrite == RingInv /\ RingInv' /\ PublishWrite => Fifo!Put
<1> SUFFICES ASSUME RingInv, RingInv', PublishWrite PROVE Fifo!Put
  OBVIOUS
<1> DEFINE n == Size(write_index, read_index)
           m == Len(todo)
<1>1. /\ contents \in Seq(Item) /\ Len(contents) = n /\ n \in 0 .. kCapacity
      /\ \A i \in 1 .. n : contents[i] = buffer[Advance(read_index, i - 1)]
  BY ContentsType
<1>2. /\ todo \in Seq(Item) /\ m \in Nat /\ m # 0 /\ todo \in [1 .. m -> Item]
      /\ m <= kCapacity - n
  BY SizeType, EmptySeq, LenProperties DEF RingInv, TypeOK, RoomHeld, PublishWrite
<1>3. /\ Size(write_index', read_index') = n + m
      /\ \A i \in 1 .. m : buffer[Advance(read_index, n + i - 1)] = todo[i]
  BY PublishedItems
<1>4. /\ UNCHANGED <<buffer, read_index, whole, mode, span, received>>
      /\ todo # <<>> /\ todo' = <<>> /\ accepted' = whole
  BY DEF PublishWrite, consumerVars
<1>5. /\ contents' \in Seq(Item) /\ Len(contents') = n + m
      /\ \A i \in 1 .. (n + m) : contents'[i] = buffer[Advance(read_index, i - 1)]
  <2>1. /\ contents' \in Seq(Item)
        /\ Len(contents') = Size(write_index', read_index')
        /\ \A i \in 1 .. Size(write_index', read_index') :
              contents'[i] = buffer'[Advance(read_index', i - 1)]
    BY ContentsTypeNext
  <2> QED
    BY <2>1, <1>3, <1>4
<1>6. /\ contents \o todo \in Seq(Item) /\ Len(contents \o todo) = n + m
      /\ \A i \in 1 .. (n + m) :
            (contents \o todo)[i] = IF i <= n THEN contents[i] ELSE todo[i - n]
  <2> HIDE DEF n, m
  <2>1. /\ contents \o todo \in Seq(Item)
        /\ Len(contents \o todo) = Len(contents) + Len(todo)
        /\ \A i \in 1 .. Len(contents) + Len(todo) :
              (contents \o todo)[i] =
                IF i <= Len(contents) THEN contents[i] ELSE todo[i - Len(contents)]
    BY <1>1, <1>2, ConcatProperties
  <2> QED
    BY <2>1, <1>1 DEF m
<1>7. ASSUME NEW i \in 1 .. (n + m)
      PROVE  contents'[i] = (contents \o todo)[i]
  <2>1. CASE i <= n
    <3>1. i \in 1 .. n
      BY <2>1, <1>1
    <3> QED
      BY <2>1, <3>1, <1>1, <1>5, <1>6
  <2>2. CASE i > n
    <3>1. i - n \in 1 .. m /\ n + (i - n) - 1 = i - 1
      BY <2>2, <1>1, <1>2
    <3>2. buffer[Advance(read_index, n + (i - n) - 1)] = todo[i - n]
      BY <3>1, <1>3
    <3> QED
      BY <2>2, <3>1, <3>2, <1>1, <1>5, <1>6
  <2> QED
    BY <2>1, <2>2, <1>1
<1>8. contents' = contents \o todo
  BY <1>5, <1>6, <1>7, SeqEqual
<1> QED
  BY <1>4, <1>8 DEF Fifo!Put, Fifo!getVars

\* A view is empty only of an empty buffer.
LEMMA ViewOfSome ==
  ASSUME NEW w \in Slots, NEW r \in Slots
  PROVE  BulkSize(w, r) = 0 <=> Size(w, r) = 0
BY CapacityAssumption DEF Size, BulkSize, Slots, NumSlots

\* A read that begins is an Ask or a View; one that finds nothing is a Miss.
LEMMA MapBeginRead ==
  RingInv /\ (Dequeue \/ Peek \/ ReadBulk) => Fifo!Miss \/ Fifo!Ask \/ Fifo!View
<1> SUFFICES ASSUME RingInv, Dequeue \/ Peek \/ ReadBulk
             PROVE  Fifo!Miss \/ Fifo!Ask \/ Fifo!View
  OBVIOUS
<1>1. mode = "idle" /\ UNCHANGED <<buffer, read_index, producerVars>>
  BY DEF Dequeue, Peek, ReadBulk, Begin, Miss
<1>2. UNCHANGED contents /\ UNCHANGED <<todo, whole, accepted>>
  BY <1>1, SameContents DEF producerVars
<1>3. ASSUME NEW call, NEW k, Begin(call, k)
      PROVE  Fifo!Begin(call, k)
  BY <1>1, <1>2, <1>3 DEF Begin, Fifo!Begin, Fifo!putVars
<1>4. /\ IsEmpty(write_index, read_index) <=> contents = <<>>
      /\ BulkSize(write_index, read_index) = 0 <=> contents = <<>>
      /\ BulkSize(write_index, read_index) \in 0 .. Len(contents)
  <2>1. /\ IsEmpty(write_index, read_index) <=> Size(write_index, read_index) = 0
        /\ BulkSize(write_index, read_index) = 0 <=> Size(write_index, read_index) = 0
        /\ BulkSize(write_index, read_index) \in 0 .. Size(write_index, read_index)
    BY FullEmpty, ViewOfSome, BulkIsWithin DEF RingInv, TypeOK
  <2>2. contents \in Seq(Item) /\ Len(contents) = Size(write_index, read_index)
    BY ContentsType
  <2>3. contents = <<>> <=> Len(contents) = 0
    BY <2>2, EmptySeq
  <2> QED
    BY <2>1, <2>2, <2>3
<1>5. CASE IsEmpty(write_index, read_index) /\ Miss
  BY <1>1, <1>2, <1>4, <1>5 DEF Miss, Fifo!Miss, Fifo!putVars
<1>6. CASE /\ ~IsEmpty(write_index, read_index)
           /\ Begin("dequeue", 1) \/ Begin("peek", 1)
  BY <1>3, <1>4, <1>6 DEF Fifo!Ask
<1>7. CASE ReadBulk
  BY <1>3, <1>4, <1>7 DEF ReadBulk, Fifo!View
<1> QED
  BY <1>5, <1>6, <1>7 DEF Dequeue, Peek

\* Reading an item is a stutter.
LEMMA MapReadItem == ReadItem => UNCHANGED Fifo!fifoVars
<1> SUFFICES ASSUME ReadItem PROVE UNCHANGED Fifo!fifoVars
  OBVIOUS
<1>1. /\ UNCHANGED <<buffer, write_index, read_index, todo, whole, accepted>>
      /\ UNCHANGED <<mode, span, received>>
  BY DEF ReadItem, producerVars
<1> QED
  BY <1>1, SameContents DEF Fifo!fifoVars, Fifo!putVars, Fifo!getVars

\* A call that ends hands over the front of the queue.
LEMMA MapFinish == RingInv /\ Finish => Fifo!HandOver(Len(got))
<1> SUFFICES ASSUME RingInv, Finish PROVE Fifo!HandOver(Len(got))
  OBVIOUS
<1>1. got = SubSeq(contents, 1, Len(got))
  BY InvReadFaithful DEF ReadFaithful
<1> QED
  BY <1>1 DEF Finish, producerVars, Fifo!HandOver, Fifo!putVars

\* A peek that ends is a Look.
LEMMA MapFinishPeek == RingInv /\ FinishPeek => Fifo!Look
<1> SUFFICES ASSUME RingInv, FinishPeek PROVE Fifo!Look
  OBVIOUS
<1>1. mode = "peek" /\ Finish /\ Len(got) = 1
  BY DEF FinishPeek, RingInv, SpanHeld
<1>2. UNCHANGED contents
  <2>1. UNCHANGED <<buffer, write_index, read_index>>
    BY DEF FinishPeek, Finish, producerVars
  <2> QED
    BY <2>1, SameContents
<1>3. Fifo!HandOver(1)
  BY <1>1, MapFinish
<1> QED
  BY <1>1, <1>2, <1>3 DEF Fifo!Look

\* Storing read_index_ removes from the queue what was handed over.
LEMMA MapRelease ==
  ASSUME RingInv, RingInv', ReleaseRead \/ DiscardBulk
  PROVE  Fifo!Remove(Len(got))
<1> DEFINE n == Size(write_index, read_index)
           k == Len(got)
           rest == SubSeq(contents, k + 1, n)
<1>1. k \in 0 .. n /\ read_index' = Advance(read_index, k) /\ Finish
  BY ReleaseCount
<1>2. UNCHANGED <<buffer, write_index>>
  BY <1>1 DEF Finish, producerVars
<1>3. /\ contents \in Seq(Item) /\ Len(contents) = n /\ n \in 0 .. kCapacity
      /\ \A i \in 1 .. n : contents[i] = buffer[Advance(read_index, i - 1)]
  BY ContentsType
<1>4. Fifo!HandOver(k)
  BY <1>1, MapFinish
<1>5. /\ contents' \in Seq(Item) /\ Len(contents') = n - k
      /\ \A i \in 1 .. (n - k) : contents'[i] = buffer[Advance(read_index, k + i - 1)]
  BY <1>1, <1>2, ContentsTypeNext, RemainingItems
<1>6. /\ rest \in Seq(Item) /\ Len(rest) = n - k
      /\ \A i \in 1 .. (n - k) : rest[i] = contents[k + i]
  <2>1. \A i \in (k + 1) .. n : contents[i] \in Item
    BY <1>1, <1>3, ElementOfSeq, CapacityAssumption
  <2>2. k + 1 \in Int /\ n \in Int
    BY <1>1, <1>3, CapacityAssumption
  <2>3. /\ rest \in Seq(Item)
        /\ Len(rest) = IF k + 1 <= n THEN n - (k + 1) + 1 ELSE 0
        /\ \A i \in 1 .. n - (k + 1) + 1 : rest[i] = contents[(k + 1) + i - 1]
    BY <2>1, <2>2, SubSeqProperties
  <2> HIDE DEF n, k, rest
  <2>4. k \in Nat /\ n \in Nat /\ k <= n
    BY <1>1, <1>3, CapacityAssumption
  <2>5. Len(rest) = n - k
    BY <2>3, <2>4
  <2>6. ASSUME NEW i \in 1 .. (n - k)
        PROVE  rest[i] = contents[k + i]
    <3>1. i \in 1 .. n - (k + 1) + 1 /\ (k + 1) + i - 1 = k + i
      BY <2>4
    <3>2. rest[i] = contents[(k + 1) + i - 1]
      BY <2>3, <3>1
    <3> QED
      BY <3>1, <3>2
  <2> QED
    BY <2>3, <2>5, <2>6
<1>7. ASSUME NEW i \in 1 .. (n - k)
      PROVE  contents'[i] = rest[i]
  <2>1. k + i \in 1 .. n /\ (k + i) - 1 = k + i - 1
    BY <1>1, <1>3, CapacityAssumption
  <2> HIDE DEF rest
  <2> QED
    BY <2>1, <1>3, <1>5, <1>6
<1> HIDE DEF rest
<1>8. contents' = rest
  BY <1>5, <1>6, <1>7, SeqEqual
<1> QED
  BY <1>3, <1>4, <1>8 DEF Fifo!Remove, rest

\* The end of a dequeue is a Take, and a discard a TakeSome of what was viewed.
LEMMA MapRemove ==
  ASSUME RingInv, RingInv', ReleaseRead \/ DiscardBulk
  PROVE  Fifo!Take \/ Fifo!TakeSome
<1>1. Fifo!Remove(Len(got))
  BY MapRelease
<1>2. CASE ReleaseRead
  <2>1. mode = "dequeue" /\ Len(got) = 1
    BY <1>2 DEF ReleaseRead, RingInv, SpanHeld
  <2> QED
    BY <1>1, <2>1 DEF Fifo!Take
<1>3. CASE DiscardBulk
  <2>1. mode = "bulk" /\ Len(got) \in 0 .. span
    BY <1>3, LenProperties, CapacityAssumption DEF DiscardBulk, RingInv, TypeOK
  <2> QED
    BY <1>1, <2>1 DEF Fifo!TakeSome
<1> QED
  BY <1>2, <1>3

\* Every step maps to a step of BoundedFifo or to a stutter.
LEMMA MapStep ==
  RingInv /\ RingInv' /\ [Next]_ringVars => [Fifo!Next]_(Fifo!fifoVars)
<1> SUFFICES ASSUME RingInv, RingInv', [Next]_ringVars
             PROVE  [Fifo!Next]_(Fifo!fifoVars)
  OBVIOUS
<1>1. CASE \E item \in Item : EnqueueItem(item)
  BY <1>1, MapEnqueueItem DEF Fifo!Next
<1>2. CASE \E items \in Offers : EnqueueSpan(items)
  BY <1>2, MapEnqueueSpan DEF Fifo!Next
<1>3. CASE CopyItem
  BY <1>3, MapCopyItem
<1>4. CASE PublishWrite
  BY <1>4, MapPublishWrite DEF Fifo!Next
<1>5. CASE Dequeue \/ Peek \/ ReadBulk
  BY <1>5, MapBeginRead DEF Fifo!Next
<1>6. CASE ReadItem
  BY <1>6, MapReadItem
<1>7. CASE FinishPeek
  BY <1>7, MapFinishPeek DEF Fifo!Next
<1>8. CASE ReleaseRead \/ DiscardBulk
  BY <1>8, MapRemove DEF Fifo!Next
<1>9. CASE UNCHANGED ringVars
  BY <1>9, SameContents
  DEF ringVars, producerVars, consumerVars, Fifo!fifoVars, Fifo!putVars, Fifo!getVars
<1> QED
  BY <1>1, <1>2, <1>3, <1>4, <1>5, <1>6, <1>7, <1>8, <1>9 DEF Next, Producer, Consumer

(***************************************************************************)
(* For every capacity, and however the steps of the two sides interleave,  *)
(* the ring buffer implements the bounded queue: order, room and answers.  *)
(***************************************************************************)
THEOREM RingImplementsFifo == Spec => ImplementsFifo
BY MapInit, MapStep, RingInvariant, PTL DEF Spec, ImplementsFifo, Fifo!Spec
------------------------------------------------------------------------------
(***************************************************************************)
(* The transmit side of Uart, for every capacity of the buffer, every set  *)
(* of messages and every count of serial numbers.  The invariant of the    *)
(* ring buffer is carried over to its use by write(), the handler and the  *)
(* stream, where a chunk is released by the count that the handler         *)
(* remembers instead of the items that were read.  The theorems assume     *)
(* that no other handler logs: with LogFromIsr the claims about the chunk  *)
(* are false, as the run uart_log shows.                                   *)
(***************************************************************************)

\* Who is at work excludes who else is, and the handler knows its chunk.
Roles ==
  /\ mode \in {"idle", "bulk"}
  /\ mode = "bulk" => span > 0
  /\ writer = "copy" <=> todo # <<>>
  /\ writer # "idle" => isr = "none"
  /\ hisr # "none" => mode = "bulk"
  /\ isr # "none" => mode = "idle"
  /\ isr = "none" => dma_current_size = span
  /\ isr \in {"check", "view", "start"} => dma_current_size = 0
  /\ isr = "start" => view = BulkSize(write_index, read_index) /\ view > 0

UartInv == RingInv /\ UartTypeOK /\ Roles

LEMMA Serials ==
  /\ NumBytes \in Nat /\ NumBytes > 0 /\ Item = 0 .. NumBytes - 1
  /\ kCapacity \in Nat /\ kCapacity > 0
  /\ \A n \in Nat : n % NumBytes \in Item
<1>1. NumBytes \in Nat /\ NumBytes > 0 /\ Item = 0 .. NumBytes - 1
      /\ kCapacity \in Nat /\ kCapacity > 0
  BY UartAssumption, CapacityAssumption
<1> QED BY <1>1

LEMMA BulkType ==
  ASSUME RingInv
  PROVE  /\ BulkSize(write_index, read_index) \in 0 .. Size(write_index, read_index)
         /\ BulkSize(write_index, read_index) \in 0 .. kCapacity
         /\ span \in Nat /\ span <= Size(write_index, read_index)
         /\ Len(got) \in Nat /\ Len(got) <= span
<1>1. write_index \in Slots /\ read_index \in Slots /\ span \in 0 .. kCapacity
      /\ got \in Seq(Item) /\ Len(got) <= span /\ span <= Size(write_index, read_index)
  BY DEF RingInv, TypeOK, SpanHeld
<1>2. /\ BulkSize(write_index, read_index) \in 0 .. Size(write_index, read_index)
      /\ Size(write_index, read_index) \in 0 .. kCapacity
  BY <1>1, BulkIsWithin, SizeType
<1>3. Len(got) \in Nat
  BY <1>1, LenProperties
<1> QED BY <1>1, <1>2, <1>3, Serials

LEMMA UartStarts ==
  ASSUME UartInit
  PROVE  UartInv
<1>1. RingInv
  BY InitRingInv DEF UartInit
<1>2. 0 \in Item /\ NumBytes - 1 \in Item /\ 0 \in 0 .. kCapacity
  BY Serials
<1>3. UartTypeOK
  BY <1>1, <1>2 DEF RingInv, UartInit, UartTypeOK
<1>4. Roles
  BY DEF UartInit, Init, Roles
<1> QED BY <1>1, <1>3, <1>4 DEF UartInv

(***************************************************************************)
(* write().                                                                *)
(***************************************************************************)

LEMMA WriteKeeps ==
  ASSUME UartInv, ~LogFromIsr, NEW items \in Offers, Write(items)
  PROVE  UartInv'
<1> USE DEF UartInv
<1>1. RingInv'
  BY StepRingInv DEF Write, Next, Producer
<1>2. /\ writer = "idle" /\ isr = "none" /\ hisr = "none"
      /\ writer' = IF todo' # <<>> THEN "copy" ELSE IF accepted' THEN "start" ELSE "idle"
      /\ UNCHANGED <<dma_current_size, dma_error_flags, hisr, isr, error, view, next, sent, lost>>
      /\ UNCHANGED <<write_index, read_index, mode, span>>
  BY DEF Write, MayWrite, EnqueueSpan, handlerVars, wireVars, consumerVars
<1>3. UartTypeOK'
  BY <1>1, <1>2 DEF RingInv, UartTypeOK
<1>4. Roles'
  BY <1>2 DEF Roles
<1> QED BY <1>1, <1>3, <1>4

LEMMA CopyKeeps ==
  ASSUME UartInv, WriteCopy
  PROVE  UartInv'
<1> USE DEF UartInv
<1>1. RingInv'
  BY StepRingInv DEF WriteCopy, Next, Producer
<1>2. /\ UNCHANGED <<dma_current_size, dma_error_flags, hisr, writer, isr, error, view, next, sent, lost>>
      /\ UNCHANGED <<write_index, read_index, mode, span, todo>>
  BY DEF WriteCopy, CopyItem, handlerVars, wireVars, consumerVars
<1>3. UartTypeOK'
  BY <1>1, <1>2 DEF RingInv, UartTypeOK
<1>4. Roles'
  BY <1>2 DEF Roles
<1> QED BY <1>1, <1>3, <1>4

LEMMA PublishKeeps ==
  ASSUME UartInv, WritePublish
  PROVE  UartInv'
<1> USE DEF UartInv
<1>1. RingInv'
  BY StepRingInv DEF WritePublish, Next, Producer
<1>2. /\ writer = "copy" /\ writer' = IF whole THEN "start" ELSE "idle"
      /\ UNCHANGED <<dma_current_size, dma_error_flags, hisr, isr, error, view, sent, lost>>
      /\ UNCHANGED <<read_index, mode, span>> /\ todo' = <<>>
      /\ next' = (next + Len(todo)) % NumBytes
  BY DEF WritePublish, PublishWrite, handlerVars, consumerVars
<1>3. next' \in Item
  <2>1. next + Len(todo) \in Nat
    BY Serials, LenProperties DEF UartTypeOK, TypeOK
  <2> QED BY <1>2, <2>1, Serials
<1>4. UartTypeOK'
  BY <1>1, <1>2, <1>3 DEF RingInv, UartTypeOK
<1>5. Roles'
  BY <1>2 DEF Roles
<1> QED BY <1>1, <1>4, <1>5

\* A start of the stream by write() is a bulk read of the buffer, or nothing.
LEMMA StartKeeps ==
  ASSUME UartInv, WriteStart
  PROVE  UartInv'
<1> USE DEF UartInv
<1> DEFINE size == BulkSize(write_index, read_index)
<1>1. /\ writer = "start" /\ writer' = "idle" /\ isr = "none" /\ dma_current_size = span
      /\ todo = <<>>
      /\ UNCHANGED <<buffer, write_index, todo, copied, whole, accepted, read_index, received>>
      /\ UNCHANGED <<dma_error_flags, hisr, isr, error, view, next, sent, lost>>
  BY DEF WriteStart, Roles, producerVars, handlerVars, wireVars
<1>2. size \in 0 .. kCapacity /\ span \in Nat
  BY BulkType
<1>3. CASE dma_current_size # 0 \/ size = 0
  <2>1. UNCHANGED <<dma_current_size, mode, span, got>>
    BY <1>3 DEF WriteStart
  <2>2. UNCHANGED ringVars
    BY <1>1, <2>1 DEF ringVars, producerVars, consumerVars
  <2>3. RingInv'
    BY <2>2, StepRingInv
  <2>4. UartTypeOK' /\ Roles'
    BY <1>1, <2>1, <2>3 DEF RingInv, UartTypeOK, Roles
  <2> QED BY <2>3, <2>4
<1>4. CASE dma_current_size = 0 /\ size # 0
  <2>1. mode = "idle"
    BY <1>1, <1>4 DEF Roles
  <2>2. dma_current_size' = size /\ mode' = "bulk" /\ span' = size /\ got' = <<>>
    BY <1>4, <2>1 DEF WriteStart, StartStream, Enabled
  <2>3. ReadBulk
    BY <1>1, <2>1, <2>2 DEF ReadBulk, Begin, producerVars
  <2>4. RingInv'
    BY <2>3, StepRingInv DEF Next, Consumer
  <2>5. UartTypeOK'
    BY <1>1, <1>2, <2>2, <2>4 DEF RingInv, UartTypeOK
  <2>6. Roles'
    BY <1>1, <1>2, <1>4, <2>1, <2>2 DEF Roles
  <2> QED BY <2>4, <2>5, <2>6
<1> QED BY <1>3, <1>4

(***************************************************************************)
(* The stream.                                                             *)
(***************************************************************************)

LEMMA ByteKeeps ==
  ASSUME UartInv, DmaByte
  PROVE  UartInv'
<1> USE DEF UartInv
<1>1. RingInv'
  BY StepRingInv DEF DmaByte, Next, Consumer
<1>2. /\ UNCHANGED <<dma_current_size, dma_error_flags, hisr, writer, isr, error, view, next>>
      /\ UNCHANGED <<write_index, read_index, mode, span, todo>>
      /\ sent' = got'[Len(got')] /\ lost' = 0
  BY DEF DmaByte, ReadItem, handlerVars, producerVars
<1>3. sent' \in Item /\ lost' \in Item
  <2>1. got' \in Seq(Item) /\ got \in Seq(Item)
    BY <1>1 DEF RingInv, TypeOK
  <2>2. got' = Append(got, buffer[Advance(read_index, Len(got))])
    BY DEF DmaByte, ReadItem
  <2>3. Len(got') = Len(got) + 1 /\ Len(got) \in Nat
    BY <2>1, <2>2
  <2>4. Len(got') \in 1 .. Len(got')
    BY <2>3
  <2> QED BY <1>2, <2>1, <2>4, Serials
<1>4. UartTypeOK'
  BY <1>1, <1>2, <1>3 DEF RingInv, UartTypeOK
<1>5. Roles'
  BY <1>2 DEF Roles
<1> QED BY <1>1, <1>4, <1>5

LEMMA EndKeeps ==
  ASSUME UartInv, DmaComplete \/ DmaError
  PROVE  UartInv'
<1> USE DEF UartInv
<1>1. /\ UNCHANGED ringVars /\ mode = "bulk" /\ hisr' \in {"complete", "error"}
      /\ UNCHANGED <<dma_current_size, dma_error_flags, writer, isr, error, view, next, sent, lost>>
  BY DEF DmaComplete, DmaError, Enabled, handlerVars, wireVars
<1>2. RingInv'
  BY <1>1, StepRingInv
<1>3. UNCHANGED <<write_index, read_index, mode, span, todo>>
  BY <1>1 DEF ringVars, producerVars, consumerVars
<1>4. UartTypeOK' /\ Roles'
  BY <1>1, <1>2, <1>3 DEF RingInv, UartTypeOK, Roles
<1> QED BY <1>2, <1>4

(***************************************************************************)
(* The handler.                                                            *)
(***************************************************************************)

\* What stopDma() discards is the chunk of the stream, all of it: the rest of
\* the contents stays, whether or not all of the chunk was read.
LEMMA StopKeeps ==
  ASSUME UartInv, IsrStop
  PROVE  UartInv'
<1> USE DEF UartInv
<1> DEFINE n == Size(write_index, read_index)
           k == dma_current_size
<1>1. /\ writer = "idle" /\ isr = "none" /\ hisr # "none"
      /\ isr' = "clear" /\ error' = (hisr = "error") /\ hisr' = "none"
      /\ read_index' = Advance(read_index, k)
      /\ mode' = "idle" /\ span' = 0 /\ got' = <<>>
      /\ UNCHANGED <<buffer, write_index, todo, copied, whole, accepted, received>>
      /\ UNCHANGED <<dma_current_size, dma_error_flags, writer, view, next, sent>>
  BY DEF IsrStop, producerVars
<1>2. /\ n \in 0 .. kCapacity /\ Available(write_index, read_index) \in 0 .. kCapacity
      /\ k = span /\ k \in 0 .. n /\ Len(got) \in Nat /\ Len(got) <= k
  <2>1. k = span
    BY <1>1 DEF Roles
  <2>2. n \in 0 .. kCapacity /\ Available(write_index, read_index) \in 0 .. kCapacity
    BY SizeType DEF RingInv, TypeOK
  <2>3. span \in Nat /\ span <= n /\ Len(got) \in Nat /\ Len(got) <= span
    BY BulkType
  <2> QED BY <2>1, <2>2, <2>3, Serials
<1>3. /\ read_index' \in Slots
      /\ Size(write_index', read_index') = n - k
      /\ Available(write_index', read_index') = Available(write_index, read_index) + k
      /\ \A i \in 1 .. (n - k) :
            buffer[Advance(read_index', i - 1)] = buffer[Advance(read_index, k + i - 1)]
  BY <1>1, <1>2, RemainingItems
<1>4. TypeOK'
  BY <1>1, <1>3, Serials DEF RingInv, TypeOK, Modes
<1>5. RoomHeld'
  BY <1>1, <1>2, <1>3, LenProperties DEF RingInv, RoomHeld, TypeOK
<1>6. SpanHeld'
  BY <1>1, <1>2, <1>3 DEF SpanHeld
<1>7. ItemsPresent'
  <2> SUFFICES ASSUME NEW i \in 1 .. (n - k)
               PROVE  buffer[Advance(read_index, k + i - 1)] \in Item
    BY <1>1, <1>3 DEF ItemsPresent
  <2>1. k + i \in 1 .. n /\ (k + i) - 1 = k + i - 1
    BY <1>2
  <2> QED BY <2>1 DEF RingInv, ItemsPresent
<1>8. RingInv'
  BY <1>1, <1>4, <1>5, <1>6, <1>7 DEF RingInv, CopiesInPlace, ReadsCurrent
<1>9. lost' \in Item
  <2>1. lost' = (lost + k - Len(got)) % NumBytes \/ lost' = lost
    BY <1>2 DEF IsrStop
  <2>2. lost \in Nat /\ lost \in Item
    BY Serials DEF UartTypeOK
  <2>3. lost + k - Len(got) \in Nat
    BY <1>2, <2>2
  <2> QED BY <2>1, <2>2, <2>3, Serials
<1>10. UartTypeOK'
  BY <1>1, <1>4, <1>9 DEF UartTypeOK
<1>11. Roles'
  BY <1>1 DEF Roles
<1> QED BY <1>8, <1>10, <1>11

LEMMA HandlerKeeps ==
  ASSUME UartInv, IsrClear \/ IsrCheck \/ IsrView \/ IsrStart
  PROVE  UartInv'
<1> USE DEF UartInv
<1>0. BulkSize(write_index, read_index) \in 0 .. kCapacity /\ 0 \in 0 .. kCapacity
  BY BulkType, Serials
<1>1. CASE IsrClear
  <2>1. UNCHANGED ringVars /\ RingInv'
    BY <1>1, StepRingInv DEF IsrClear
  <2>2. UNCHANGED <<write_index, read_index, mode, span, todo>>
    BY <2>1 DEF ringVars, producerVars, consumerVars
  <2>3. UartTypeOK'
    BY <1>0, <1>1, <2>1 DEF IsrClear, wireVars, RingInv, UartTypeOK
  <2>4. Roles'
    BY <1>1, <2>2 DEF IsrClear, Roles
  <2> QED BY <2>1, <2>3, <2>4
<1>2. CASE IsrCheck
  <2>1. UNCHANGED ringVars /\ RingInv'
    BY <1>2, StepRingInv DEF IsrCheck
  <2>2. UNCHANGED <<write_index, read_index, mode, span, todo>>
    BY <2>1 DEF ringVars, producerVars, consumerVars
  <2>3. isr' = "view" /\ dma_current_size = 0 /\ UNCHANGED dma_error_flags
    BY <1>2 DEF IsrCheck, Roles
  <2>4. UartTypeOK'
    BY <1>2, <2>1, <2>3 DEF IsrCheck, wireVars, RingInv, UartTypeOK
  <2>5. Roles'
    BY <1>2, <2>2, <2>3 DEF IsrCheck, Roles
  <2> QED BY <2>1, <2>4, <2>5
<1>3. CASE IsrView
  <2>1. UNCHANGED ringVars /\ RingInv'
    BY <1>3, StepRingInv DEF IsrView
  <2>2. UNCHANGED <<write_index, read_index, mode, span, todo>>
    BY <2>1 DEF ringVars, producerVars, consumerVars
  <2>3. /\ isr = "view" /\ dma_current_size = 0 /\ mode = "idle" /\ span = 0
        /\ view' = BulkSize(write_index, read_index)
        /\ UNCHANGED <<dma_current_size, hisr, writer, error, next, sent, lost>>
    BY <1>3 DEF IsrView, Roles, wireVars, RingInv, SpanHeld
  <2>4. \/ view' = 0 /\ isr' = "none" /\ dma_error_flags' = (dma_error_flags \/ error)
        \/ view' # 0 /\ isr' = "start" /\ UNCHANGED dma_error_flags
    BY <1>3 DEF IsrView, IsrReturn
  <2>5. (dma_error_flags \/ error) \in BOOLEAN
    BY DEF UartTypeOK
  <2>6. UartTypeOK'
    BY <1>0, <2>1, <2>3, <2>4, <2>5 DEF RingInv, UartTypeOK
  <2>7. Roles'
    BY <1>0, <2>2, <2>3, <2>4 DEF Roles
  <2> QED BY <2>1, <2>6, <2>7
<1>4. CASE IsrStart
  <2>1. /\ isr = "start" /\ mode = "idle" /\ writer = "idle"
        /\ view = BulkSize(write_index, read_index) /\ view > 0
        /\ dma_current_size' = view /\ mode' = "bulk" /\ span' = view /\ got' = <<>>
        /\ isr' = "none" /\ dma_error_flags' = (dma_error_flags \/ error)
        /\ UNCHANGED <<buffer, write_index, todo, copied, whole, accepted, read_index, received>>
        /\ UNCHANGED <<hisr, writer, error, view, next, sent, lost>>
    BY <1>4 DEF IsrStart, Roles, StartStream, Enabled, IsrReturn, producerVars, wireVars
  <2>2. ReadBulk
    BY <2>1 DEF ReadBulk, Begin, producerVars
  <2>3. RingInv'
    BY <2>2, StepRingInv DEF Next, Consumer
  <2>4. UartTypeOK'
    <3>1. (dma_error_flags \/ error) \in BOOLEAN
      BY DEF UartTypeOK
    <3> QED BY <1>0, <2>1, <2>3, <3>1 DEF RingInv, UartTypeOK
  <2>5. Roles'
    BY <2>1 DEF Roles
  <2> QED BY <2>3, <2>4, <2>5
<1> QED BY <1>1, <1>2, <1>3, <1>4

LEMMA UartStutters ==
  ASSUME UartInv, UNCHANGED uartVars
  PROVE  UartInv'
<1>1. UNCHANGED ringVars /\ RingInv'
  BY StepRingInv DEF UartInv, uartVars
<1>2. UNCHANGED <<write_index, read_index, mode, span, todo>>
  BY <1>1 DEF ringVars, producerVars, consumerVars
<1>3. UartTypeOK' /\ Roles'
  BY <1>1, <1>2 DEF uartVars, handlerVars, wireVars, UartInv, RingInv, UartTypeOK, Roles
<1> QED BY <1>1, <1>3 DEF UartInv

LEMMA UartInvNext ==
  ASSUME UartInv, ~LogFromIsr, [UartNext]_uartVars
  PROVE  UartInv'
BY WriteKeeps, CopyKeeps, PublishKeeps, StartKeeps, ByteKeeps, EndKeeps, StopKeeps,
   HandlerKeeps, UartStutters DEF UartNext, Writing, Stream, Handler

THEOREM UartInvariant == ASSUME ~LogFromIsr PROVE UartSpec => []UartInv
<1>1. UartInit => UartInv
  BY UartStarts
<1>2. UartInv /\ [UartNext]_uartVars => UartInv'
  BY UartInvNext
<1> QED BY <1>1, <1>2, PTL DEF UartSpec

(***************************************************************************)
(* What follows from it.                                                   *)
(***************************************************************************)

\* Every variable of the driver keeps its range.
THEOREM UartTypes == ASSUME ~LogFromIsr PROVE UartSpec => []UartTypeOK
<1>1. UartInv => UartTypeOK
  BY DEF UartInv
<1> QED BY <1>1, UartInvariant, PTL

\* The handler knows the chunk the stream is sending, so that it discards what
\* was sent and nothing else, whenever the stream ends.
THEOREM ChunkIsKnown == ASSUME ~LogFromIsr PROVE UartSpec => []ChunkKnown
<1>1. UartInv => ChunkKnown
  BY DEF UartInv, Roles, ChunkKnown
<1> QED BY <1>1, UartInvariant, PTL

\* write() never touches a slot of the chunk that the stream is reading.
THEOREM StreamSlotsApart == ASSUME ~LogFromIsr PROVE UartSpec => []SlotsDisjoint
<1>1. UartInv => SlotsDisjoint
  BY InvSlotsDisjoint DEF UartInv
<1> QED BY <1>1, UartInvariant, PTL

\* Without a logging handler "DMA already active" means what it says: the size
\* of an active chunk changes to zero or not at all.
THEOREM ActiveChunkIsKept == ASSUME ~LogFromIsr PROVE UartSpec => ActiveChunkKept
<1>1. ASSUME UartInv, UartNext, Enabled, dma_current_size # 0
      PROVE  dma_current_size' \in {dma_current_size, 0}
  <2>1. ~IsrStart
    BY <1>1 DEF IsrStart, UartInv, Roles
  <2>2. CASE WriteStart
    BY <1>1, <2>2 DEF WriteStart
  <2>3. CASE Stream \/ IsrStop \/ IsrClear \/ IsrCheck \/ IsrView
    BY <2>3 DEF Stream, DmaByte, DmaComplete, DmaError, IsrStop, IsrClear, IsrCheck, IsrView
  <2>4. CASE Writing /\ ~WriteStart
    BY <2>4 DEF Writing, Write, WriteCopy, WritePublish
  <2> QED BY <1>1, <2>1, <2>2, <2>3, <2>4 DEF UartNext, Writing, Handler
<1>2. UartInv /\ [UartNext]_uartVars
        => [Enabled /\ dma_current_size # 0
              => dma_current_size' \in {dma_current_size, 0}]_uartVars
  BY <1>1
<1> QED BY <1>2, UartInvariant, PTL DEF UartSpec, ActiveChunkKept

(***************************************************************************)
(* Nothing is left behind.  An idle stream means an empty buffer, except   *)
(* while somebody is about to start it; a write that finds the stream idle *)
(* finds the buffer empty too, and so takes the whole of its message.      *)
(***************************************************************************)

Resting ==
  isr = "none" /\ mode = "idle" =>
    /\ writer \in {"idle", "copy"} => write_index = read_index
    /\ writer = "copy" => whole

LEMMA EmptySize ==
  ASSUME NEW w \in Slots
  PROVE  Available(w, w) = kCapacity
BY Serials DEF Slots, Size, Available, NumSlots

LEMMA NothingToView ==
  ASSUME NEW w \in Slots, NEW r \in Slots, BulkSize(w, r) = 0
  PROVE  w = r
BY Serials DEF Slots, BulkSize, NumSlots

LEMMA RestingNext ==
  ASSUME UartInv, Resting, ~LogFromIsr, \A items \in Offers : Len(items) <= kCapacity,
         [UartNext]_uartVars
  PROVE  Resting'
<1> USE DEF UartInv
<1>0. write_index \in Slots /\ read_index \in Slots
  BY DEF RingInv, TypeOK
<1>1. ASSUME NEW items \in Offers, Write(items) PROVE Resting'
  <2>1. /\ writer = "idle" /\ todo = <<>>
        /\ writer' = IF todo' # <<>> THEN "copy" ELSE IF accepted' THEN "start" ELSE "idle"
        /\ UNCHANGED <<isr, write_index, read_index, mode>>
    BY <1>1 DEF Write, MayWrite, EnqueueSpan, handlerVars, consumerVars
  <2>2. items \in Seq(Item) /\ Len(items) \in Nat /\ Len(items) <= kCapacity
    BY ItemAssumption, LenProperties
  <2>3. write_index = read_index => whole' \/ todo' = <<>>
    <3>1. write_index = read_index => Available(write_index, read_index) = kCapacity
      BY <1>0, EmptySize
    <3> QED BY <1>1, <2>1, <2>2, <3>1 DEF Write, EnqueueSpan
  <2> QED BY <2>1, <2>3 DEF Resting
<1>2. CASE WriteCopy
  BY <1>2 DEF WriteCopy, CopyItem, handlerVars, consumerVars, Resting
<1>3. CASE WritePublish
  BY <1>3 DEF WritePublish, PublishWrite, handlerVars, consumerVars, Resting
<1>4. CASE WriteStart
  <2>1. /\ isr = "none" /\ dma_current_size = span /\ UNCHANGED <<isr, write_index, read_index>>
        /\ writer' = "idle"
    BY <1>4 DEF WriteStart, Roles, producerVars, handlerVars
  <2>2. CASE dma_current_size # 0
    <3>1. mode # "idle" /\ mode' = mode
      BY <1>4, <2>1, <2>2 DEF WriteStart, RingInv, SpanHeld
    <3> QED BY <2>1, <3>1 DEF Resting
  <2>3. CASE dma_current_size = 0 /\ BulkSize(write_index, read_index) = 0
    <3>1. write_index = read_index
      BY <1>0, <2>3, NothingToView
    <3> QED BY <2>1, <3>1 DEF Resting
  <2>4. CASE dma_current_size = 0 /\ BulkSize(write_index, read_index) # 0
    <3>1. mode = "idle"
      BY <2>1, <2>4 DEF Roles
    <3>2. mode' = "bulk"
      BY <1>4, <2>4, <3>1 DEF WriteStart, StartStream, Enabled
    <3> QED BY <3>2 DEF Resting
  <2> QED BY <2>2, <2>3, <2>4
<1>5. CASE Stream
  <2>1. mode = "bulk" /\ mode' = mode
    BY <1>5 DEF Stream, DmaByte, DmaComplete, DmaError, Enabled, ReadItem, ringVars, consumerVars
  <2> QED BY <2>1 DEF Resting
<1>6. CASE IsrStop \/ IsrClear \/ IsrCheck
  <2>1. isr' # "none"
    BY <1>6 DEF IsrStop, IsrClear, IsrCheck, Roles
  <2> QED BY <2>1 DEF Resting
<1>7. CASE IsrView
  <2>1. /\ view' = BulkSize(write_index, read_index) /\ (view' # 0 => isr' = "start")
        /\ writer' = "idle" /\ UNCHANGED <<write_index, read_index>>
    BY <1>7 DEF IsrView, ringVars, producerVars, consumerVars
  <2> QED BY <1>0, <2>1, NothingToView DEF Resting
<1>8. CASE IsrStart
  <2>1. mode' = "bulk"
    BY <1>8 DEF IsrStart, StartStream, Enabled
  <2> QED BY <2>1 DEF Resting
<1>9. CASE UNCHANGED uartVars
  BY <1>9 DEF uartVars, ringVars, producerVars, consumerVars, handlerVars, Resting
<1> QED BY <1>1, <1>2, <1>3, <1>4, <1>5, <1>6, <1>7, <1>8, <1>9
        DEF UartNext, Writing, Handler

\* No accepted byte is left behind, as long as no message is longer than the
\* buffer, whichever of write() and the handler is the last to look at it.
THEOREM NothingIsStranded ==
  ASSUME ~LogFromIsr, \A items \in Offers : Len(items) <= kCapacity
  PROVE  UartSpec => []NothingStranded
<1>1. UartInit => UartInv /\ Resting
  BY UartStarts DEF UartInit, Init, Resting
<1>2. UartInv /\ Resting /\ [UartNext]_uartVars => UartInv' /\ Resting'
  BY UartInvNext, RestingNext
<1>3. Resting => NothingStranded
  BY DEF Resting, NothingStranded
<1> QED BY <1>1, <1>2, <1>3, PTL DEF UartSpec

(***************************************************************************)
(* The order of the bytes.  Counted from some number, which is that of the *)
(* first byte in the buffer, the bytes in the buffer, those that write()   *)
(* is about to add and those it will accept next are consecutive, and the  *)
(* byte the wire wants is the one the stream reads next.                   *)
(***************************************************************************)

Serial(n) == n % NumBytes

InRing(first) ==
  \A i \in 1 .. Size(write_index, read_index) :
    buffer[Advance(read_index, i - 1)] = Serial(first + (i - 1))

Offered(first) ==
  /\ next = Serial(first + Size(write_index, read_index))
  /\ \A i \in 1 .. Len(todo) :
       todo[i] = Serial(first + Size(write_index, read_index) + (i - 1))

OnWire(first) == Serial(sent + 1 + lost) = Serial(first + Len(got))

NumberedFrom(first) == InRing(first) /\ Offered(first) /\ OnWire(first)

Numbered ==
  /\ \E first \in Nat : NumberedFrom(first)
  /\ hisr = "complete" => Len(got) = span

\* A number is made of a quotient and a remainder in one way only.
LEMMA Remainder ==
  ASSUME NEW m \in Nat, NEW q \in Nat, NEW r \in 0 .. NumBytes - 1, m = q * NumBytes + r
  PROVE  m % NumBytes = r
BY Serials

\* A serial number is wrapped once or twice, with the same result.
LEMMA SerialAdd ==
  ASSUME NEW m \in Nat, NEW n \in Nat
  PROVE  Serial(m) \in Nat /\ Serial(Serial(m) + n) = Serial(m + n)
<1>1. NumBytes \in Nat /\ NumBytes > 0
  BY Serials
<1> DEFINE q == m \div NumBytes
           r == m % NumBytes
           p == (r + n) \div NumBytes
           s == (r + n) % NumBytes
<1>2. q \in Nat /\ r \in Nat /\ m = q * NumBytes + r
  BY <1>1
<1>3. p \in Nat /\ s \in 0 .. NumBytes - 1 /\ r + n = p * NumBytes + s
  BY <1>1, <1>2
<1>4. (q + p) * NumBytes = q * NumBytes + p * NumBytes
  BY <1>1, <1>2, <1>3
<1>5. m + n = (q + p) * NumBytes + s
  <2> HIDE DEF q, r, p, s
  <2>1. q * NumBytes \in Nat /\ p * NumBytes \in Nat
    BY <1>1, <1>2, <1>3
  <2> QED BY <1>2, <1>3, <1>4, <2>1
<1>6. (m + n) % NumBytes = s
  <2> HIDE DEF q, r, p, s
  <2>1. q + p \in Nat
    BY <1>2, <1>3
  <2> QED BY <1>3, <1>5, <2>1, Remainder
<1> QED BY <1>2, <1>6 DEF Serial

\* Numbers that stand for one serial number still do when both are moved on.
LEMMA SerialMoved ==
  ASSUME NEW m \in Nat, NEW n \in Nat, NEW k \in Nat, Serial(m) = Serial(n)
  PROVE  Serial(m + k) = Serial(n + k)
<1>1. Serial(Serial(m) + k) = Serial(m + k)
  BY SerialAdd
<1>2. Serial(Serial(n) + k) = Serial(n + k)
  BY SerialAdd
<1> QED BY <1>1, <1>2

\* What is counted.
LEMMA Counted ==
  ASSUME UartInv
  PROVE  /\ Size(write_index, read_index) \in 0 .. kCapacity
         /\ Size(write_index, read_index) \in Nat
         /\ Len(todo) \in Nat /\ copied \in Nat
         /\ Len(got) \in Nat /\ span \in Nat
         /\ Len(got) <= span /\ span <= Size(write_index, read_index)
         /\ next \in Nat /\ sent \in Nat /\ lost \in Nat
<1>1. Size(write_index, read_index) \in 0 .. kCapacity
  BY SizeType DEF UartInv, RingInv, TypeOK
<1>2. Len(todo) \in Nat /\ copied \in Nat
  BY LenProperties DEF UartInv, RingInv, TypeOK
<1>3. next \in Nat /\ sent \in Nat /\ lost \in Nat
  BY Serials DEF UartInv, UartTypeOK
<1> QED BY <1>1, <1>2, <1>3, BulkType, Serials DEF UartInv

\* With nothing accepted yet, counting starts at the next byte.
LEMMA NumberedStarts ==
  ASSUME UartInit
  PROVE  Numbered
<1>1. /\ Size(write_index, read_index) = 0 /\ Len(todo) = 0 /\ Len(got) = 0
      /\ next = 0 /\ sent = NumBytes - 1 /\ lost = 0 /\ hisr = "none"
  BY Serials DEF UartInit, Init, Size
<1>2. Serial(0) = 0 /\ Serial(NumBytes) = 0
  BY Serials DEF Serial
<1>3. sent + 1 + lost = NumBytes
  BY <1>1, Serials
<1>4. NumberedFrom(0)
  BY <1>1, <1>2, <1>3 DEF NumberedFrom, InRing, Offered, OnWire
<1> QED BY <1>1, <1>4 DEF Numbered

\* An offer continues the numbers accepted so far; what is taken of it does too.
LEMMA WriteNumbers ==
  ASSUME UartInv, NEW first \in Nat, NumberedFrom(first), NEW items \in Offers, Write(items)
  PROVE  NumberedFrom(first)'
<1> USE DEF UartInv
<1> DEFINE n == Size(write_index, read_index)
<1>1. /\ UNCHANGED <<buffer, write_index, read_index, got, span, next, sent, lost, hisr>>
      /\ todo = <<>>
  BY DEF Write, EnqueueSpan, consumerVars, wireVars
<1>2. \A i \in 1 .. Len(todo') : todo'[i] = Serial(next + (i - 1))
  <2> DEFINE room == Available(write_index, read_index)
             k == IF Len(items) <= room THEN Len(items) ELSE room
  <2>1. /\ k \in 0 .. room /\ Len(SubSeq(items, 1, k)) = k /\ k <= Len(items)
        /\ items \in Seq(Item) /\ Len(items) \in Nat /\ room \in Nat
    <3>1. k \in 0 .. room /\ Len(SubSeq(items, 1, k)) = k
      <4>1. TypeOK
        BY DEF RingInv
      <4> QED BY <4>1, OfferFits
    <3>2. items \in Seq(Item) /\ Len(items) \in Nat /\ room \in Nat
      BY ItemAssumption, LenProperties, SizeType DEF RingInv, TypeOK
    <3> QED BY <3>1, <3>2
  <2>2. todo' = todo \/ todo' = SubSeq(items, 1, k)
    BY DEF Write, EnqueueSpan
  <2> HIDE DEF k
  <2>3. CASE todo' = todo
    BY <1>1, <2>3
  <2>4. CASE todo' = SubSeq(items, 1, k)
    <3> SUFFICES ASSUME NEW i \in 1 .. k
                 PROVE  todo'[i] = Serial(next + (i - 1))
      BY <2>1, <2>4
    <3>1. todo'[i] = items[i] /\ i \in 1 .. Len(items)
      BY <2>1, <2>4, SubSeqProperties
    <3>2. items[i] = (next + i - 1) % NumBytes
      BY <3>1 DEF Write, InSequence
    <3>3. next + i - 1 = next + (i - 1)
      BY <2>1, Counted
    <3> QED BY <3>1, <3>2, <3>3 DEF Serial
  <2> QED BY <2>2, <2>3, <2>4
<1>3. Len(todo') \in Nat
  <2>1. RingInv'
    BY StepRingInv DEF Write, Next, Producer
  <2> QED BY <2>1, LenProperties DEF RingInv, TypeOK
<1>4. \A i \in 1 .. Len(todo') : todo'[i] = Serial(first + n + (i - 1))
  <2> SUFFICES ASSUME NEW i \in 1 .. Len(todo')
               PROVE  Serial(next + (i - 1)) = Serial(first + n + (i - 1))
    BY <1>2
  <2>1. i - 1 \in Nat /\ first + n \in Nat
    BY <1>3, Counted
  <2>2. next = Serial(first + n)
    BY DEF NumberedFrom, Offered
  <2> QED BY <2>1, <2>2, SerialAdd
<1> QED BY <1>1, <1>4 DEF NumberedFrom, InRing, Offered, OnWire

\* A copy goes to a slot that holds no accepted byte.
LEMMA CopyNumbers ==
  ASSUME UartInv, NEW first \in Nat, NumberedFrom(first), WriteCopy
  PROVE  NumberedFrom(first)'
<1> USE DEF UartInv, RingInv
<1> DEFINE n == Size(write_index, read_index)
<1>1. /\ UNCHANGED <<write_index, read_index, todo, got, span, next, sent, lost, hisr>>
      /\ buffer' = [buffer EXCEPT ![Advance(write_index, copied)] = todo[copied + 1]]
      /\ copied < Len(todo)
  BY DEF WriteCopy, CopyItem, consumerVars, wireVars
<1>2. ASSUME NEW i \in 1 .. n
      PROVE  buffer'[Advance(read_index, i - 1)] = buffer[Advance(read_index, i - 1)]
  <2> DEFINE room == Available(write_index, read_index)
  <2>1. n \in Nat /\ room \in Nat
    BY SizeType, CapacityAssumption DEF TypeOK
  <2>2. copied \in Nat /\ Len(todo) \in Nat /\ Len(todo) <= room
    BY LenProperties DEF TypeOK, RoomHeld
  <2> HIDE DEF n, room
  <2>3. i - 1 \in 0 .. (n - 1) /\ copied \in 0 .. (room - 1)
    BY <1>1, <2>1, <2>2
  <2>4. Advance(write_index, copied) # Advance(read_index, i - 1)
    BY <2>3, RoomApart DEF n, room
  <2> QED BY <1>1, <2>4 DEF TypeOK
<1> QED BY <1>1, <1>2 DEF NumberedFrom, InRing, Offered, OnWire

\* The bytes published follow those that are there, and are numbered so.
LEMMA PublishNumbers ==
  ASSUME UartInv, NEW first \in Nat, NumberedFrom(first), WritePublish
  PROVE  NumberedFrom(first)'
<1> DEFINE n == Size(write_index, read_index)
           k == Len(todo)
<1>1. /\ Size(write_index', read_index') = n + k
      /\ \A i \in 1 .. k : buffer[Advance(read_index, n + i - 1)] = todo[i]
  BY PublishedItems DEF UartInv, WritePublish
<1>2. /\ UNCHANGED <<buffer, read_index, got, span, sent, lost, hisr>> /\ todo' = <<>>
      /\ next' = Serial(next + k)
  BY DEF WritePublish, PublishWrite, consumerVars, Serial
<1>3. n \in Nat /\ k \in Nat /\ first + n \in Nat
  BY Counted
<1>4. next' = Serial(first + (n + k))
  <2>1. Serial(Serial(first + n) + k) = Serial(first + n + k)
    BY <1>3, SerialAdd
  <2>2. first + n + k = first + (n + k)
    BY <1>3
  <2> QED BY <1>2, <2>1, <2>2 DEF NumberedFrom, Offered
<1>5. ASSUME NEW i \in 1 .. (n + k)
      PROVE  buffer[Advance(read_index, i - 1)] = Serial(first + (i - 1))
  <2>1. CASE i \in 1 .. n
    BY <2>1 DEF NumberedFrom, InRing
  <2>2. CASE i \notin 1 .. n
    <3>1. PICK j \in 1 .. k : i = n + j
      <4>1. i - n \in 1 .. k /\ i = n + (i - n)
        BY <1>3, <2>2
      <4> QED BY <4>1
    <3>2. i - 1 = n + j - 1 /\ first + n + (j - 1) = first + (i - 1)
      BY <1>3, <3>1
    <3>3. todo[j] = Serial(first + n + (j - 1))
      BY <3>1 DEF NumberedFrom, Offered
    <3> QED BY <1>1, <3>1, <3>2, <3>3
  <2> QED BY <2>1, <2>2
<1> QED BY <1>1, <1>2, <1>4, <1>5 DEF NumberedFrom, InRing, Offered, OnWire

\* The byte that the stream reads is the one that the wire wants.
LEMMA ByteInOrder ==
  ASSUME UartInv, NEW first \in Nat, NumberedFrom(first), DmaByte
  PROVE  /\ got'[Len(got')] = Serial(first + Len(got))
         /\ got'[Len(got')] = Serial(sent + 1 + lost)
         /\ Len(got') = Len(got) + 1
<1>1. /\ got' = Append(got, buffer[Advance(read_index, Len(got))])
      /\ Len(got) < span /\ got \in Seq(Item)
  BY DEF DmaByte, ReadItem, UartInv, RingInv, TypeOK
<1>2. /\ Len(got) + 1 \in 1 .. Size(write_index, read_index)
      /\ (Len(got) + 1) - 1 = Len(got)
  BY <1>1, Counted
<1>3. buffer[Advance(read_index, Len(got))] = Serial(first + Len(got))
  BY <1>2 DEF NumberedFrom, InRing
<1>4. Len(got') = Len(got) + 1 /\ got'[Len(got) + 1] = buffer[Advance(read_index, Len(got))]
  BY <1>1, Counted
<1> QED BY <1>3, <1>4 DEF NumberedFrom, OnWire

\* From then on it wants the next.
LEMMA ByteNumbers ==
  ASSUME UartInv, NEW first \in Nat, NumberedFrom(first), DmaByte
  PROVE  NumberedFrom(first)'
<1>1. /\ UNCHANGED <<buffer, write_index, read_index, todo, span, next, hisr>>
      /\ sent' = got'[Len(got')] /\ lost' = 0
  BY DEF DmaByte, ReadItem, producerVars
<1>2. sent' = Serial(first + Len(got)) /\ Len(got') = Len(got) + 1
  BY <1>1, ByteInOrder
<1>3. Serial(sent' + 1 + lost') = Serial(first + Len(got'))
  <2>1. first + Len(got) \in Nat /\ Len(got) \in Nat
    BY Counted
  <2>2. sent' \in Nat /\ Serial(sent' + 1) = Serial(first + Len(got) + 1)
    BY <1>2, <2>1, SerialAdd
  <2>3. sent' + 1 + lost' = sent' + 1 /\ first + Len(got) + 1 = first + Len(got')
    BY <1>1, <1>2, <2>1, <2>2
  <2> QED BY <2>2, <2>3
<1> QED BY <1>1, <1>3 DEF NumberedFrom, InRing, Offered, OnWire

\* A stopped stream takes its chunk along: what was read of it, and, after an
\* error, what is lost of it.
LEMMA StopNumbers ==
  ASSUME UartInv, NEW first \in Nat, NumberedFrom(first), IsrStop,
         hisr = "complete" => Len(got) = span,
         NEW left \in Nat, left = first + span
  PROVE  NumberedFrom(left)'
<1> USE DEF UartInv
<1> DEFINE n == Size(write_index, read_index)
<1>1. /\ isr = "none" /\ hisr # "none" /\ hisr \in {"none", "complete", "error"}
      /\ read_index' = Advance(read_index, dma_current_size)
      /\ mode' = "idle" /\ span' = 0 /\ got' = <<>> /\ hisr' = "none"
      /\ UNCHANGED <<buffer, write_index, todo, next, sent>>
      /\ todo = <<>>
  BY DEF IsrStop, Roles, producerVars, UartTypeOK
<1>2. dma_current_size = span
  BY <1>1 DEF Roles
<1>3. n \in Nat /\ span \in 0 .. n /\ span \in Nat /\ Len(got) \in Nat /\ Len(got) <= span
      /\ sent \in Nat /\ lost \in Nat
  BY Counted
<1>4. /\ Size(write_index', read_index') = n - span
      /\ \A i \in 1 .. (n - span) :
            buffer[Advance(read_index', i - 1)] = buffer[Advance(read_index, span + i - 1)]
  BY <1>1, <1>2, <1>3, RemainingItems
<1>5. ASSUME NEW i \in 1 .. (n - span)
      PROVE  buffer[Advance(read_index', i - 1)] = Serial(first + span + (i - 1))
  <2>1. span + i \in 1 .. n /\ (span + i) - 1 = span + i - 1
        /\ first + ((span + i) - 1) = first + span + (i - 1)
    BY <1>3
  <2>2. buffer[Advance(read_index, (span + i) - 1)] = Serial(first + ((span + i) - 1))
    BY <2>1 DEF NumberedFrom, InRing
  <2> QED BY <1>4, <2>1, <2>2
<1>6. next = Serial(first + span + (n - span))
  <2>1. first + span + (n - span) = first + n
    BY <1>3
  <2> QED BY <2>1 DEF NumberedFrom, Offered
<1>7. Serial(sent + 1 + lost') = Serial(first + span)
  <2>1. Serial(sent + 1 + lost) = Serial(first + Len(got))
    BY DEF NumberedFrom, OnWire
  <2>2. CASE hisr = "complete"
    BY <2>1, <2>2 DEF IsrStop
  <2>3. CASE hisr = "error"
    <3> DEFINE rest == span - Len(got)
    <3>1. rest \in Nat /\ lost + span - Len(got) = lost + rest /\ first + Len(got) + rest = first + span
          /\ sent + 1 \in Nat /\ lost + rest \in Nat /\ sent + 1 + lost \in Nat
          /\ first + Len(got) \in Nat
          /\ (sent + 1) + (lost + rest) = sent + 1 + lost + rest
      BY <1>3
    <3>2. lost' = Serial(lost + rest)
      BY <2>3, <3>1 DEF IsrStop, Serial
    <3> HIDE DEF rest
    <3>3. Serial(Serial(lost + rest) + (sent + 1)) = Serial((lost + rest) + (sent + 1))
          /\ Serial(lost + rest) \in Nat
      BY <3>1, SerialAdd
    <3>4. sent + 1 + lost' = lost' + (sent + 1)
          /\ (lost + rest) + (sent + 1) = sent + 1 + lost + rest
      BY <1>3, <3>1, <3>2, <3>3
    <3>5. Serial(sent + 1 + lost + rest) = Serial(first + Len(got) + rest)
      BY <2>1, <3>1, SerialMoved
    <3> QED BY <3>1, <3>2, <3>3, <3>4, <3>5
  <2> QED BY <1>1, <2>2, <2>3
<1>8. Len(todo') = 0 /\ Len(got') = 0 /\ first + span + 0 = first + span
  BY <1>1, <1>3
<1> QED BY <1>1, <1>4, <1>5, <1>6, <1>7, <1>8 DEF NumberedFrom, InRing, Offered, OnWire

\* A chunk starts where the last one was stopped.
LEMMA StartNumbers ==
  ASSUME UartInv, NEW first \in Nat, NumberedFrom(first), WriteStart \/ IsrStart
  PROVE  NumberedFrom(first)'
<1>1. UNCHANGED <<buffer, write_index, read_index, todo, next, sent, lost>>
  BY DEF WriteStart, IsrStart, producerVars, wireVars
<1>2. Len(got') = Len(got)
  <2>1. got' = got \/ (got' = <<>> /\ mode = "idle")
    <3>1. mode \in {"idle", "bulk"} /\ (isr # "none" => mode = "idle")
          /\ (isr = "none" => dma_current_size = span)
      BY DEF UartInv, Roles
    <3>2. CASE WriteStart
      <4>1. isr = "none" /\ (mode = "bulk" => span > 0) /\ span \in Nat
        BY <3>2, Counted DEF WriteStart, UartInv, Roles
      <4>2. dma_current_size = 0 => mode = "idle"
        BY <3>1, <4>1
      <4> QED BY <3>2, <4>2 DEF WriteStart, StartStream
    <3>3. CASE IsrStart
      BY <3>1, <3>3 DEF IsrStart, StartStream
    <3> QED BY <3>2, <3>3
  <2>2. mode = "idle" => Len(got) = 0
    BY Counted DEF UartInv, RingInv, SpanHeld
  <2> QED BY <2>1, <2>2
<1> QED BY <1>1, <1>2 DEF NumberedFrom, InRing, Offered, OnWire

\* The other steps leave the bytes alone.
LEMMA RestNumbers ==
  ASSUME NEW first \in Nat, NumberedFrom(first),
         UNCHANGED <<buffer, write_index, read_index, todo, got, next, sent, lost>>
  PROVE  NumberedFrom(first)'
BY DEF NumberedFrom, InRing, Offered, OnWire

LEMMA NumberedNext ==
  ASSUME UartInv, Numbered, [UartNext]_uartVars
  PROVE  Numbered'
<1>1. PICK first \in Nat : NumberedFrom(first)
  BY DEF Numbered
<1>2. first + span \in Nat
  BY Counted
<1>3. hisr = "complete" => Len(got) = span
  BY DEF Numbered
<1>4. \E n \in Nat : NumberedFrom(n)'
  <2>1. ASSUME NEW items \in Offers, Write(items) PROVE NumberedFrom(first)'
    BY <1>1, <2>1, WriteNumbers
  <2>2. CASE WriteCopy
    BY <1>1, <2>2, CopyNumbers
  <2>3. CASE WritePublish
    BY <1>1, <2>3, PublishNumbers
  <2>4. CASE WriteStart \/ IsrStart
    BY <1>1, <2>4, StartNumbers
  <2>5. CASE DmaByte
    BY <1>1, <2>5, ByteNumbers
  <2>6. CASE IsrStop
    <3>1. PICK left \in Nat : left = first + span
      BY <1>2
    <3>2. NumberedFrom(left)'
      BY <1>1, <1>3, <2>6, <3>1, StopNumbers
    <3> QED BY <3>2
  <2>7. CASE DmaComplete \/ DmaError \/ IsrClear \/ IsrCheck \/ IsrView \/ UNCHANGED uartVars
    <3>1. UNCHANGED <<buffer, write_index, read_index, todo, got, next, sent, lost>>
      BY <2>7 DEF DmaComplete, DmaError, IsrClear, IsrCheck, IsrView, uartVars, ringVars,
                  producerVars, consumerVars, wireVars
    <3> QED BY <1>1, <3>1, RestNumbers
  <2> QED BY <1>1, <1>2, <2>1, <2>2, <2>3, <2>4, <2>5, <2>6, <2>7
          DEF UartNext, Writing, Stream, Handler
<1>5. hisr' = "complete" => Len(got') = span'
  <2>1. CASE DmaComplete
    BY <2>1 DEF DmaComplete, ringVars, consumerVars
  <2>2. CASE DmaByte
    BY <2>2 DEF DmaByte, Enabled
  <2>3. CASE DmaError \/ IsrStop
    BY <2>3 DEF DmaError, IsrStop
  <2>4. CASE Writing \/ IsrClear \/ IsrCheck \/ IsrView \/ IsrStart \/ UNCHANGED uartVars
    <3>1. hisr' = hisr
      BY <2>4 DEF Writing, Write, WriteCopy, WritePublish, WriteStart, IsrClear, IsrCheck,
                  IsrView, IsrStart, uartVars
    <3>2. CASE UNCHANGED <<got, span>>
      BY <1>3, <3>1, <3>2
    <3>3. CASE ~UNCHANGED <<got, span>>
      <4>1. hisr = "none"
        <5>1. WriteStart \/ IsrStart
          BY <2>4, <3>3 DEF Writing, Write, EnqueueSpan, WriteCopy, CopyItem, WritePublish,
                PublishWrite, IsrClear, IsrCheck, IsrView, uartVars, ringVars, consumerVars
        <5>2. CASE WriteStart
          <6>1. isr = "none" /\ dma_current_size = 0
            BY <3>3, <5>2 DEF WriteStart, UartInv, Roles
          <6>2. mode # "bulk"
            BY <6>1, Counted DEF UartInv, Roles
          <6> QED BY <6>2 DEF UartInv, Roles
        <5>3. CASE IsrStart
          BY <5>3 DEF IsrStart, UartInv, Roles
        <5> QED BY <5>1, <5>2, <5>3
      <4> QED BY <3>1, <4>1
    <3> QED BY <3>2, <3>3
  <2> QED BY <2>1, <2>2, <2>3, <2>4 DEF UartNext, Stream, Handler
<1> QED BY <1>4, <1>5 DEF Numbered

\* Bytes reach the wire in the order in which write() accepted them, each once,
\* and only a transfer error makes a gap, which is as long as what it lost.
THEOREM BytesInOrder == ASSUME ~LogFromIsr PROVE UartSpec => WireInOrder
<1>1. UartInit => UartInv /\ Numbered
  BY UartStarts, NumberedStarts
<1>2. UartInv /\ Numbered /\ [UartNext]_uartVars => UartInv' /\ Numbered'
  BY UartInvNext, NumberedNext
<1>3. UartInv /\ Numbered /\ [UartNext]_uartVars
        => [Len(got') > Len(got) => got'[Len(got')] = (sent + 1 + lost) % NumBytes]_uartVars
  <2> SUFFICES ASSUME UartInv, Numbered, UartNext, Len(got') > Len(got)
               PROVE  got'[Len(got')] = (sent + 1 + lost) % NumBytes
    OBVIOUS
  <2>1. CASE DmaByte
    <3>1. PICK first \in Nat : NumberedFrom(first)
      BY DEF Numbered
    <3> QED BY <2>1, <3>1, ByteInOrder DEF Serial
  <2>2. CASE ~DmaByte
    <3>1. got' = got \/ got' = <<>>
      BY <2>2 DEF UartNext, Writing, Stream, Handler, Write, EnqueueSpan, WriteCopy, CopyItem,
           WritePublish, PublishWrite, WriteStart, StartStream, DmaComplete, DmaError, IsrStop,
           IsrClear, IsrCheck, IsrView, IsrStart, ringVars, consumerVars
    <3>2. Len(got') = Len(got) \/ Len(got') = 0
      BY <3>1
    <3> QED BY <3>2, Counted
  <2> QED BY <2>1, <2>2
<1> QED BY <1>1, <1>2, <1>3, PTL DEF UartSpec, WireInOrder
=============================================================================
