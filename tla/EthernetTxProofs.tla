-------------------------- MODULE EthernetTxProofs --------------------------
(***************************************************************************)
(* Proofs about the transmit path of Ethernet and the pool its buffers     *)
(* come from, for every number of buffers: as long as the handler does not *)
(* reset a handle in the middle of its assignment, which it cannot at the  *)
(* pace of main.cpp, no buffer is lost and none has two owners; and, at    *)
(* that pace, a frame given to the hardware stays where it is until it is  *)
(* sent, and at rest every buffer is back in the pool.                     *)
(***************************************************************************)
EXTENDS EthernetTx, FiniteSetTheorems, TLAPS

(***************************************************************************)
(* The free list.                                                          *)
(***************************************************************************)

Listed(list, c) == \E i \in 1 .. Len(list) : list[i] = c

Distinct(list) == \A i, j \in 1 .. Len(list) : list[i] = list[j] => i = j

LEMMA Buffers ==
  /\ kNumItems \in Nat /\ kNumItems > 0 /\ NoChunk \notin Chunk
  /\ Descriptor = 0 .. kNumItems - 1 /\ 0 \in Descriptor
  /\ \A d \in Descriptor : NextDescriptor(d) \in Descriptor
BY PoolAssumption, EthernetAssumption DEF Descriptor, NextDescriptor

\* A chunk given back is on the list once, and the others stay where they were.
LEMMA GivenBack ==
  ASSUME NEW h \in Chunk, free_list \in Seq(Chunk), Distinct(free_list), ~Listed(free_list, h)
  PROVE  /\ AfterFree(h) \in Seq(Chunk) /\ Distinct(AfterFree(h))
         /\ \A c : Listed(AfterFree(h), c) <=> (c = h \/ Listed(free_list, c))
<1> DEFINE list == <<h>> \o free_list
<1>1. AfterFree(h) = list
  BY Buffers DEF AfterFree
<1>2. /\ list \in Seq(Chunk) /\ Len(list) = Len(free_list) + 1 /\ Len(free_list) \in Nat
      /\ list[1] = h /\ \A i \in 1 .. Len(free_list) : list[i + 1] = free_list[i]
  OBVIOUS
<1>3. \A i \in 1 .. Len(list) : i # 1 =>
         i - 1 \in 1 .. Len(free_list) /\ list[i] = free_list[i - 1]
  <2>1. TAKE i \in 1 .. Len(list)
  <2>2. HAVE i # 1
  <2>3. i - 1 \in 1 .. Len(free_list) /\ (i - 1) + 1 = i
    BY <1>2, <2>2
  <2> QED BY <1>2, <2>3
<1> HIDE DEF list
<1>4. Distinct(list)
  <2> SUFFICES ASSUME NEW i \in 1 .. Len(list), NEW j \in 1 .. Len(list), list[i] = list[j]
               PROVE  i = j
    BY DEF Distinct
  <2>1. CASE i = 1 \/ j = 1
    BY <1>2, <1>3, <2>1 DEF Listed
  <2>2. CASE i # 1 /\ j # 1
    <3>1. /\ i - 1 \in 1 .. Len(free_list) /\ j - 1 \in 1 .. Len(free_list)
          /\ free_list[i - 1] = free_list[j - 1]
      BY <1>3, <2>2
    <3>2. i - 1 = j - 1
      BY <3>1 DEF Distinct
    <3> QED BY <1>2, <3>2
  <2> QED BY <2>1, <2>2
<1>5. ASSUME NEW c PROVE Listed(list, c) <=> (c = h \/ Listed(free_list, c))
  <2>1. ASSUME Listed(list, c) PROVE c = h \/ Listed(free_list, c)
    BY <1>2, <1>3, <2>1 DEF Listed
  <2>2. c = h => Listed(list, c)
    BY <1>2 DEF Listed
  <2>3. ASSUME NEW i \in 1 .. Len(free_list), free_list[i] = c PROVE Listed(list, c)
    <3>1. i + 1 \in 1 .. Len(list) /\ list[i + 1] = c
      BY <1>2, <2>3
    <3> QED BY <3>1 DEF Listed
  <2> QED BY <2>1, <2>2, <2>3 DEF Listed
<1> QED BY <1>1, <1>2, <1>4, <1>5

\* What allocate() hands out was on the list, and is no longer.
LEMMA HandedOut ==
  ASSUME free_list \in Seq(Chunk), Distinct(free_list), ~Exhausted
  PROVE  /\ Allocated \in Chunk /\ Listed(free_list, Allocated)
         /\ AfterAllocate \in Seq(Chunk) /\ Distinct(AfterAllocate)
         /\ \A c : Listed(AfterAllocate, c) <=> (c # Allocated /\ Listed(free_list, c))
<1> DEFINE list == Tail(free_list)
           h == Head(free_list)
<1>1. Allocated = h /\ AfterAllocate = list /\ free_list # <<>>
  BY DEF Allocated, AfterAllocate, Exhausted
<1>2. /\ list \in Seq(Chunk) /\ Len(free_list) \in Nat \ {0} /\ Len(list) = Len(free_list) - 1
      /\ h \in Chunk /\ h = free_list[1] /\ 1 \in 1 .. Len(free_list)
      /\ \A i \in 1 .. Len(list) : list[i] = free_list[i + 1]
  BY <1>1
<1> HIDE DEF list, h
<1>3. Distinct(list)
  <2> SUFFICES ASSUME NEW i \in 1 .. Len(list), NEW j \in 1 .. Len(list), list[i] = list[j]
               PROVE  i = j
    BY DEF Distinct
  <2>1. /\ i + 1 \in 1 .. Len(free_list) /\ j + 1 \in 1 .. Len(free_list)
        /\ free_list[i + 1] = free_list[j + 1]
    BY <1>2
  <2>2. i + 1 = j + 1
    BY <2>1 DEF Distinct
  <2> QED BY <1>2, <2>2
<1>4. ASSUME NEW c PROVE Listed(list, c) <=> (c # h /\ Listed(free_list, c))
  <2>1. ASSUME NEW i \in 1 .. Len(list), list[i] = c PROVE c # h /\ Listed(free_list, c)
    <3>1. i + 1 \in 1 .. Len(free_list) /\ free_list[i + 1] = c /\ i + 1 # 1
      BY <1>2, <2>1
    <3> QED BY <1>2, <3>1 DEF Distinct, Listed
  <2>2. ASSUME c # h, NEW i \in 1 .. Len(free_list), free_list[i] = c PROVE Listed(list, c)
    <3>1. i # 1
      BY <1>2, <2>2
    <3>2. i - 1 \in 1 .. Len(list) /\ (i - 1) + 1 = i
      BY <1>2, <3>1
    <3> QED BY <1>2, <2>2, <3>2 DEF Listed
  <2> QED BY <2>1, <2>2 DEF Listed
<1>5. Listed(free_list, h)
  BY <1>2 DEF Listed
<1> QED BY <1>1, <1>2, <1>3, <1>4, <1>5

(***************************************************************************)
(* The types, which no tearing of a handle disturbs.                       *)
(***************************************************************************)

LEMMA InitTypes ==
  ASSUME Init
  PROVE  TypeOK
<1>1. \A i \in 1 .. kNumItems : kNumItems - i \in Chunk
  BY Buffers DEF Chunk
<1>2. free_list \in Seq(Chunk)
  BY <1>1, Buffers DEF Init, PoolInit
<1>3. NoChunk \in Handle
  BY DEF Handle
<1> QED BY <1>2, <1>3, Buffers DEF Init, TypeOK, State

\* Whatever is freed, the list remains a list of chunks.
LEMMA FreedTypes ==
  ASSUME free_list \in Seq(Chunk), NEW h \in Handle
  PROVE  AfterFree(h) \in Seq(Chunk)
<1>1. CASE h = NoChunk
  BY <1>1 DEF AfterFree
<1>2. CASE h # NoChunk
  BY <1>2 DEF AfterFree, Handle
<1> QED BY <1>1, <1>2

LEMMA TypesNext ==
  ASSUME TypeOK, [Next]_ethVars
  PROVE  TypeOK'
<1> USE DEF TypeOK
<1>1. CASE AllocatePacketBuffer
  <2>1. Allocated \in Chunk /\ AfterAllocate \in Seq(Chunk)
    BY <1>1 DEF AllocatePacketBuffer, Allocated, AfterAllocate, Exhausted
  <2> QED BY <1>1, <2>1 DEF AllocatePacketBuffer, ringVars, handleVars, isrVars, dmaVars, Handle
<1>2. CASE SendRefused
  <2>1. free_list' \in Seq(Chunk) /\ NoChunk \in Handle
    BY <1>2, FreedTypes DEF SendRefused, Handle
  <2> QED BY <1>2, <2>1 DEF SendRefused, ringVars, handleVars, isrVars, dmaVars
<1>3. CASE AllocateTxDescriptor
  BY <1>3, Buffers DEF AllocateTxDescriptor, handleVars, isrVars, dmaVars
<1>4. CASE MoveHandle
  BY <1>4 DEF MoveHandle, ringVars, handleVars, isrVars, dmaVars
<1>5. CASE StoreHandle
  BY <1>5 DEF StoreHandle, isrVars, dmaVars, Handle
<1>6. CASE FreeOld
  <2>1. free_list' \in Seq(Chunk) /\ NoChunk \in Handle
    BY <1>6, FreedTypes DEF FreeOld, Deleted, Handle
  <2> QED BY <1>6, <2>1 DEF FreeOld, ringVars, handleVars, isrVars, dmaVars
<1>7. CASE SetDeleter
  BY <1>7 DEF SetDeleter, isrVars, dmaVars
<1>8. CASE SetBuffer
  BY <1>8 DEF SetBuffer, handleVars, isrVars, dmaVars
<1>9. CASE GiveToDma
  BY <1>9 DEF GiveToDma, handleVars, isrVars, dmaVars
<1>10. CASE PollDemand
  BY <1>10 DEF PollDemand, ringVars, handleVars, isrVars
<1>11. CASE RunLinkManagement
  BY <1>11 DEF RunLinkManagement, ringVars, handleVars, senderVars, isrVars
<1>12. CASE IsrEnter \/ IsrReclaimed \/ IsrClear
  BY <1>12 DEF IsrEnter, IsrReclaimed, IsrClear, ringVars, handleVars, senderVars, dmaVars
<1>13. CASE IsrReclaim
  <2>1. free_list' \in Seq(Chunk) /\ NoChunk \in Handle
    BY <1>13, FreedTypes DEF IsrReclaim, Deleted, Handle
  <2>2. torn' \in BOOLEAN
    BY <1>13 DEF IsrReclaim
  <2> QED BY <1>13, <2>1, <2>2, Buffers DEF IsrReclaim, isrVars, senderVars, dmaVars
<1>14. CASE Dma
  BY <1>14, Buffers DEF Dma, DmaFetch, DmaHalt, DmaSent, ringVars, handleVars, senderVars, isrVars
<1>15. CASE UNCHANGED ethVars
  BY <1>15 DEF ethVars, ringVars, handleVars, senderVars, isrVars, dmaVars
<1> QED BY <1>1, <1>2, <1>3, <1>4, <1>5, <1>6, <1>7, <1>8, <1>9, <1>10, <1>11, <1>12, <1>13,
           <1>14, <1>15 DEF Next, Send, Handler

\* Every variable of the transmit path keeps its range.
THEOREM TransmitTypes == Spec => []TypeOK
BY InitTypes, TypesNext, PTL DEF Spec

(***************************************************************************)
(* The inductive invariant, as long as no handle is torn: who has a chunk, *)
(* said three ways, each of which excludes the others, and what send()     *)
(* relies on while it assigns a handle.                                    *)
(***************************************************************************)

InRing(c) == \E d \in Descriptor : packet_buffer_handles[d] = c

\* What the main loop has in hand: the caller's buffer, or one that send() is to free.
InHand == IF sender = "free" THEN old ELSE packet_handle

OneDescriptor ==
  \A d, e \in Descriptor :
    packet_buffer_handles[d] = packet_buffer_handles[e] /\ packet_buffer_handles[d] # NoChunk
      => d = e

Apart ==
  \A c \in Chunk :
    /\ Listed(free_list, c) => ~InRing(c) /\ InHand # c
    /\ InRing(c) => InHand # c

Owned == \A c \in Chunk : Listed(free_list, c) \/ InRing(c) \/ InHand = c

Shared == Distinct(free_list) /\ OneDescriptor /\ Apart /\ Owned

HandleInUse == sender \notin {"send", "move", "store"} => packet_handle = NoChunk

\* A handle that holds a chunk knows the pool, but for the one being assigned.
DeletersSet ==
  \A d \in Descriptor :
    packet_buffer_handles[d] # NoChunk =>
      deleter[d] \/ (sender \in {"free", "deleter"} /\ index = d)

OldRead ==
  /\ sender = "store" => old = packet_buffer_handles[index]
  /\ sender = "free" => old # NoChunk /\ deleter[index]

OwnInv == TypeOK /\ Shared /\ HandleInUse /\ DeletersSet /\ OldRead

LEMMA OwnStarts ==
  ASSUME Init
  PROVE  OwnInv /\ ~torn
<1>1. free_list = [i \in 1 .. kNumItems |-> kNumItems - i]
  BY DEF Init, PoolInit
<1>2. \A i \in 1 .. kNumItems : kNumItems - i \in Chunk
  BY Buffers DEF Chunk
<1>3. Len(free_list) = kNumItems
  BY <1>1, <1>2, Buffers
<1>4. Distinct(free_list)
  BY <1>1, <1>3, Buffers DEF Distinct
<1>5. \A c \in Chunk : Listed(free_list, c)
  <2>1. TAKE c \in Chunk
  <2>2. kNumItems - c \in 1 .. kNumItems /\ kNumItems - (kNumItems - c) = c
    BY Buffers DEF Chunk
  <2> QED BY <1>1, <1>3, <2>2 DEF Listed
<1>6. OneDescriptor /\ Apart /\ HandleInUse /\ DeletersSet /\ OldRead /\ ~torn
  BY Buffers DEF Init, OneDescriptor, Apart, InRing, InHand, HandleInUse, DeletersSet, OldRead
<1> QED BY <1>4, <1>5, <1>6, InitTypes DEF OwnInv, Shared, Owned

\* A step that moves no buffer.
LEMMA BufferStays ==
  ASSUME Shared, UNCHANGED <<free_list, packet_buffer_handles, InHand>>
  PROVE  Shared'
<1>1. \A c : InRing(c)' <=> InRing(c)
  BY DEF InRing
<1>2. /\ Distinct(free_list)' <=> Distinct(free_list)
      /\ \A c : Listed(free_list, c)' <=> Listed(free_list, c)
  BY DEF Distinct, Listed
<1> QED BY <1>1, <1>2 DEF Shared, OneDescriptor, Apart, Owned

\* Such steps, and those of the DMA and of the link among them.
LEMMA OtherSteps ==
  ASSUME OwnInv,
         \/ AllocateTxDescriptor \/ MoveHandle \/ SetDeleter \/ SetBuffer \/ GiveToDma
         \/ PollDemand \/ RunLinkManagement \/ IsrEnter \/ IsrReclaimed \/ IsrClear \/ Dma
         \/ UNCHANGED ethVars
  PROVE  OwnInv'
<1> USE DEF OwnInv, HandleInUse, DeletersSet, OldRead
<1>1. TypeOK'
  BY TypesNext DEF Next, Send, Handler
<1>2. CASE AllocateTxDescriptor
  <2>1. Shared'
    BY <1>2, BufferStays DEF AllocateTxDescriptor, handleVars, InHand
  <2> QED BY <1>1, <1>2, <2>1 DEF AllocateTxDescriptor, handleVars
<1>3. CASE MoveHandle
  <2>1. Shared'
    BY <1>3, BufferStays DEF MoveHandle, ringVars, handleVars, InHand
  <2> QED BY <1>1, <1>3, <2>1 DEF MoveHandle, ringVars, handleVars
<1>4. CASE SetDeleter
  <2>1. Shared'
    BY <1>4, BufferStays DEF SetDeleter, InHand
  <2>2. \A d \in Descriptor : deleter'[d] = (d = index \/ deleter[d])
    BY <1>4 DEF SetDeleter, TypeOK
  <2> QED BY <1>1, <1>4, <2>1, <2>2 DEF SetDeleter
<1>5. CASE SetBuffer \/ GiveToDma
  <2>1. Shared'
    BY <1>5, BufferStays DEF SetBuffer, GiveToDma, handleVars, InHand
  <2> QED BY <1>1, <1>5, <2>1 DEF SetBuffer, GiveToDma, handleVars
<1>6. CASE PollDemand
  <2>1. Shared'
    BY <1>6, BufferStays DEF PollDemand, ringVars, handleVars, InHand
  <2> QED BY <1>1, <1>6, <2>1 DEF PollDemand, ringVars, handleVars
<1>7. CASE RunLinkManagement \/ IsrEnter \/ IsrReclaimed \/ IsrClear \/ Dma \/ UNCHANGED ethVars
  <2>1. UNCHANGED <<free_list, packet_buffer_handles, deleter, sender, packet_handle, index, old>>
    BY <1>7 DEF RunLinkManagement, IsrEnter, IsrReclaimed, IsrClear, Dma, DmaFetch, DmaHalt, DmaSent,
       ethVars, ringVars, handleVars, senderVars
  <2>2. Shared'
    BY <2>1, BufferStays DEF InHand
  <2> QED BY <1>1, <2>1, <2>2
<1> QED BY <1>2, <1>3, <1>4, <1>5, <1>6, <1>7

(***************************************************************************)
(* The steps that move a buffer.                                           *)
(***************************************************************************)

\* From the pool to the caller.
LEMMA AllocateKeeps ==
  ASSUME OwnInv, AllocatePacketBuffer
  PROVE  OwnInv'
<1> USE DEF OwnInv, Shared
<1>1. /\ packet_handle' = Allocated /\ free_list' = AfterAllocate /\ sender' = "send"
      /\ UNCHANGED <<packet_buffer_handles, deleter, index, old>>
      /\ InHand = NoChunk /\ InHand' = Allocated /\ sender = "idle"
  BY DEF AllocatePacketBuffer, HandleInUse, ringVars, handleVars, InHand
<1>2. /\ Allocated \in Chunk /\ Listed(free_list, Allocated)
      /\ AfterAllocate \in Seq(Chunk) /\ Distinct(AfterAllocate)
      /\ \A c : Listed(AfterAllocate, c) <=> (c # Allocated /\ Listed(free_list, c))
  BY HandedOut DEF AllocatePacketBuffer, TypeOK
<1>3. TypeOK'
  BY TypesNext DEF Next
<1>4. \A c : InRing(c)' <=> InRing(c)
  BY <1>1 DEF InRing
<1>5. OneDescriptor' /\ HandleInUse' /\ Distinct(free_list)' /\ DeletersSet' /\ OldRead'
  BY <1>1, <1>2 DEF OneDescriptor, HandleInUse, Distinct, DeletersSet, OldRead
<1>6. \A c : Listed(free_list', c) <=> (c # Allocated /\ Listed(free_list, c))
  BY <1>1, <1>2
<1>7. Apart'
  BY <1>1, <1>2, <1>4, <1>6 DEF Apart
<1>8. Owned'
  BY <1>1, <1>2, <1>4, <1>6, Buffers DEF Owned
<1> QED BY <1>3, <1>5, <1>7, <1>8

\* From the hand to the pool.
LEMMA HandGives ==
  ASSUME OwnInv, free_list' = AfterFree(InHand), InHand' = NoChunk,
         UNCHANGED packet_buffer_handles
  PROVE  Shared'
<1> USE DEF OwnInv, Shared
<1>1. InHand \in Handle
  BY DEF InHand, TypeOK
<1>2. CASE InHand = NoChunk
  <2>1. free_list' = free_list
    BY <1>2 DEF AfterFree
  <2> QED BY <1>2, <2>1, BufferStays
<1>3. CASE InHand # NoChunk
  <2>1. InHand \in Chunk /\ ~Listed(free_list, InHand)
    BY <1>1, <1>3 DEF Handle, Apart
  <2>2. /\ Distinct(free_list')
        /\ \A c : Listed(free_list', c) <=> (c = InHand \/ Listed(free_list, c))
    BY <2>1, GivenBack DEF TypeOK
  <2>3. \A c : InRing(c)' <=> InRing(c)
    BY DEF InRing
  <2>4. OneDescriptor' /\ Distinct(free_list)'
    BY <2>2 DEF OneDescriptor, Distinct
  <2>5. Apart'
    BY <2>1, <2>2, <2>3, Buffers DEF Apart
  <2>6. Owned'
    BY <2>2, <2>3 DEF Owned
  <2> QED BY <2>4, <2>5, <2>6
<1> QED BY <1>2, <1>3

LEMMA RefusedKeeps ==
  ASSUME OwnInv, SendRefused
  PROVE  OwnInv'
<1> USE DEF OwnInv
<1>1. /\ packet_handle' = NoChunk /\ free_list' = AfterFree(packet_handle) /\ sender' = "idle"
      /\ UNCHANGED <<packet_buffer_handles, deleter, index, old>> /\ sender = "send"
  BY DEF SendRefused, ringVars, handleVars
<1>2. Shared'
  BY <1>1, HandGives DEF InHand
<1>3. TypeOK'
  BY TypesNext DEF Next, Send
<1> QED BY <1>1, <1>2, <1>3 DEF HandleInUse, DeletersSet, OldRead

\* What send() has read from the handle it overwrites is freed, through the deleter
\* the handle got with it.
LEMMA FreeKeeps ==
  ASSUME OwnInv, FreeOld
  PROVE  OwnInv'
<1> USE DEF OwnInv
<1>1. /\ old' = NoChunk /\ free_list' = AfterFree(old) /\ sender' = "deleter"
      /\ UNCHANGED <<packet_buffer_handles, deleter, index, packet_handle>> /\ sender = "free"
      /\ packet_handle = NoChunk
  BY DEF FreeOld, Deleted, OldRead, HandleInUse, ringVars, handleVars
<1>2. Shared'
  BY <1>1, HandGives DEF InHand
<1>3. TypeOK'
  BY TypesNext DEF Next, Send
<1> QED BY <1>1, <1>2, <1>3 DEF HandleInUse, DeletersSet, OldRead

\* The caller's buffer and the one in the handle change places: what was in the handle
\* is in send()'s hand.
LEMMA StoreKeeps ==
  ASSUME OwnInv, StoreHandle
  PROVE  OwnInv'
<1> USE DEF OwnInv, Shared
<1>1. /\ index \in Descriptor /\ packet_handle' = NoChunk /\ sender = "store"
      /\ old = packet_buffer_handles[index] /\ InHand = packet_handle
      /\ packet_buffer_handles' = [packet_buffer_handles EXCEPT ![index] = packet_handle]
      /\ UNCHANGED <<free_list, deleter, index, old>>
      /\ sender' = IF old = NoChunk THEN "deleter" ELSE "free"
      /\ InHand' = old
  BY DEF TypeOK, StoreHandle, OldRead, InHand
<1>2. /\ packet_buffer_handles \in [Descriptor -> Handle] /\ packet_handle \in Handle
      /\ old \in Handle
  BY DEF TypeOK
<1>3. \A e \in Descriptor :
        packet_buffer_handles'[e] = IF e = index THEN packet_handle ELSE packet_buffer_handles[e]
  BY <1>1, <1>2
<1>4. packet_handle # NoChunk => packet_handle \in Chunk /\ ~InRing(packet_handle)
  BY <1>1, <1>2 DEF Handle, Apart
<1>5. OneDescriptor'
  BY <1>3, <1>4 DEF OneDescriptor, InRing
<1>6. ASSUME NEW c \in Chunk
      PROVE  InRing(c)' <=> (c = packet_handle \/ (c # old /\ InRing(c)))
  <2>1. c # NoChunk
    BY Buffers
  <2>2. ASSUME NEW e \in Descriptor, packet_buffer_handles'[e] = c
        PROVE  c = packet_handle \/ (c # old /\ InRing(c))
    BY <1>1, <1>3, <2>1, <2>2 DEF OneDescriptor, InRing
  <2>3. c = packet_handle => InRing(c)'
    BY <1>1, <1>3 DEF InRing
  <2>4. ASSUME c # old, NEW e \in Descriptor, packet_buffer_handles[e] = c
        PROVE  InRing(c)'
    BY <1>1, <1>3, <2>4 DEF InRing
  <2> QED BY <2>2, <2>3, <2>4 DEF InRing
<1>7. old \in Chunk => InRing(old)
  BY <1>1 DEF InRing
<1>8. ASSUME NEW c \in Chunk
      PROVE  /\ Listed(free_list, c) => ~InRing(c)' /\ old # c
             /\ InRing(c)' => old # c
             /\ Listed(free_list, c) \/ InRing(c)' \/ old = c
  BY <1>1, <1>6, <1>7 DEF Apart, Owned
<1>9. Apart' /\ Owned'
  BY <1>1, <1>8 DEF Apart, Owned
<1>10. Distinct(free_list)'
  BY <1>1 DEF Distinct
<1>11. TypeOK'
  BY TypesNext DEF Next, Send
<1>12. HandleInUse' /\ DeletersSet'
  BY <1>1, <1>3 DEF HandleInUse, DeletersSet
<1>13. OldRead'
  BY <1>1 DEF OldRead, DeletersSet
<1> QED BY <1>5, <1>9, <1>10, <1>11, <1>12, <1>13

\* From the handle of a descriptor to the pool.
LEMMA RingGives ==
  ASSUME OwnInv, NEW d \in Descriptor,
         free_list' = AfterFree(packet_buffer_handles[d]),
         packet_buffer_handles' = [packet_buffer_handles EXCEPT ![d] = NoChunk],
         InHand' = InHand
  PROVE  Shared'
<1> USE DEF OwnInv, Shared
<1> DEFINE gone == packet_buffer_handles[d]
<1>1. /\ packet_buffer_handles \in [Descriptor -> Handle] /\ free_list \in Seq(Chunk)
      /\ gone \in Handle
  BY DEF TypeOK
<1>2. \A e \in Descriptor : packet_buffer_handles'[e] = IF e = d THEN NoChunk
                                                       ELSE packet_buffer_handles[e]
  BY <1>1
<1>3. gone # NoChunk => gone \in Chunk /\ InRing(gone) /\ ~Listed(free_list, gone)
  BY <1>1 DEF Handle, InRing, Apart
<1>4. /\ Distinct(free_list')
      /\ \A c \in Chunk : Listed(free_list', c) <=> (c = gone \/ Listed(free_list, c))
  <2>1. CASE gone = NoChunk
    BY <1>1, <2>1, Buffers DEF AfterFree
  <2>2. CASE gone # NoChunk
    BY <1>1, <1>3, <2>2, GivenBack
  <2> QED BY <2>1, <2>2
<1>5. OneDescriptor'
  BY <1>2 DEF OneDescriptor
<1>6. ASSUME NEW c \in Chunk PROVE InRing(c)' <=> (c # gone /\ InRing(c))
  <2>1. c # NoChunk
    BY Buffers
  <2>2. ASSUME NEW e \in Descriptor, packet_buffer_handles'[e] = c
        PROVE  c # gone /\ InRing(c)
    BY <1>2, <2>1, <2>2 DEF OneDescriptor, InRing
  <2>3. ASSUME c # gone, NEW e \in Descriptor, packet_buffer_handles[e] = c PROVE InRing(c)'
    BY <1>2, <2>3 DEF InRing
  <2> QED BY <2>2, <2>3 DEF InRing
<1>7. ASSUME NEW c \in Chunk
      PROVE  /\ Listed(free_list', c) => ~InRing(c)' /\ InHand' # c
             /\ InRing(c)' => InHand' # c
             /\ Listed(free_list', c) \/ InRing(c)' \/ InHand' = c
  <2>1. /\ InRing(c)' <=> (c # gone /\ InRing(c))
        /\ Listed(free_list', c) <=> (c = gone \/ Listed(free_list, c))
        /\ c # NoChunk
    BY <1>4, <1>6, Buffers
  <2>2. /\ Listed(free_list, c) => ~InRing(c) /\ InHand # c
        /\ InRing(c) => InHand # c
        /\ Listed(free_list, c) \/ InRing(c) \/ InHand = c
    BY DEF Apart, Owned
  <2> HIDE DEF gone
  <2> QED BY <1>3, <2>1, <2>2
<1>8. Apart' /\ Owned'
  BY <1>7 DEF Apart, Owned
<1>9. Distinct(free_list)'
  BY <1>4 DEF Distinct
<1> QED BY <1>5, <1>8, <1>9

\* The handler, when it does not tear a handle: the chunk it finds is the handle's
\* alone, and the handle knows the pool.
LEMMA ReclaimKeeps ==
  ASSUME OwnInv, IsrReclaim, ~torn'
  PROVE  OwnInv'
<1> USE DEF OwnInv
<1>1. /\ pending_index \in Descriptor /\ UNCHANGED <<sender, packet_handle, index, old, deleter>>
      /\ free_list' = Deleted(pending_index, packet_buffer_handles[pending_index])
      /\ packet_buffer_handles' = [packet_buffer_handles EXCEPT ![pending_index] = NoChunk]
      /\ ~Tears
  BY DEF TypeOK, IsrReclaim, senderVars
<1>2. packet_buffer_handles[pending_index] # NoChunk => deleter[pending_index]
  BY <1>1 DEF Tears, DeletersSet
<1>3. free_list' = AfterFree(packet_buffer_handles[pending_index])
  BY <1>1, <1>2 DEF Deleted, AfterFree
<1>4. InHand' = InHand
  BY <1>1 DEF InHand
<1>5. Shared'
  BY <1>1, <1>3, <1>4, RingGives
<1>6. TypeOK'
  BY TypesNext DEF Next, Handler
<1>7. \A e \in Descriptor : packet_buffer_handles'[e] = IF e = pending_index THEN NoChunk
                                                       ELSE packet_buffer_handles[e]
  BY <1>1 DEF TypeOK
<1>8. HandleInUse' /\ DeletersSet'
  BY <1>1, <1>7 DEF HandleInUse, DeletersSet
<1>9. OldRead'
  <2>1. sender = "store" /\ index = pending_index => old = NoChunk
    BY <1>1 DEF Tears
  <2>2. index \in Descriptor
    BY DEF TypeOK
  <2> QED BY <1>1, <1>7, <2>1, <2>2 DEF OldRead
<1> QED BY <1>5, <1>6, <1>8, <1>9

\* Once a handle is torn it has been torn.
LEMMA TornStays ==
  ASSUME [Next]_ethVars, ~torn'
  PROVE  ~torn
BY DEF Next, AllocatePacketBuffer, Send, SendRefused, AllocateTxDescriptor, MoveHandle, StoreHandle,
   FreeOld, SetDeleter, SetBuffer, GiveToDma, PollDemand, RunLinkManagement, Handler, IsrEnter,
   IsrReclaim, IsrReclaimed, IsrClear, Dma, DmaFetch, DmaHalt, DmaSent, ethVars

LEMMA OwnNext ==
  ASSUME OwnInv, [Next]_ethVars, ~torn'
  PROVE  OwnInv'
BY OtherSteps, AllocateKeeps, RefusedKeeps, StoreKeeps, FreeKeeps, ReclaimKeeps
DEF Next, Send, Handler

(***************************************************************************)
(* Of the kinds of owner, the invariant names one and only one.            *)
(***************************************************************************)
LEMMA OneOwner ==
  ASSUME OwnInv, NEW c \in Chunk
  PROVE  \E x : Owners(c) = {x}
<1> USE DEF OwnInv, Shared
<1>1. c # NoChunk /\ DOMAIN free_list = 1 .. Len(free_list)
  <2>1. free_list \in Seq(Chunk)
    BY DEF TypeOK
  <2> QED BY <2>1, Buffers
<1> DEFINE pool == {<<"pool", i>> : i \in {i \in DOMAIN free_list : free_list[i] = c}}
           ring == {<<"ring", d>> : d \in {d \in Descriptor : packet_buffer_handles[d] = c}}
           caller == {<<"caller", 0>> : h \in {packet_handle} \cap {c}}
           send == {<<"send", 0>> : h \in {h \in {old} \cap {c} : sender = "free"}}
<1>2. Owners(c) = ((pool \cup ring) \cup caller) \cup send
  BY DEF Owners
<1>3. ~Listed(free_list, c) => pool = {}
  BY <1>1 DEF Listed
<1>4. ~InRing(c) => ring = {}
  BY DEF InRing
<1>5. InHand # c => caller = {} /\ send = {}
  BY <1>1 DEF InHand, HandleInUse
<1>6. CASE Listed(free_list, c)
  <2>1. PICK i \in 1 .. Len(free_list) : free_list[i] = c
    BY <1>6 DEF Listed
  <2>2. {j \in DOMAIN free_list : free_list[j] = c} = {i}
    BY <1>1, <2>1 DEF Distinct
  <2>3. pool = {<<"pool", i>>}
    BY <2>2
  <2>4. ring = {} /\ caller = {} /\ send = {}
    BY <1>4, <1>5, <1>6 DEF Apart
  <2> HIDE DEF pool, ring, caller, send
  <2> QED BY <1>2, <2>3, <2>4
<1>7. CASE InRing(c)
  <2>1. PICK d \in Descriptor : packet_buffer_handles[d] = c
    BY <1>7 DEF InRing
  <2>2. {e \in Descriptor : packet_buffer_handles[e] = c} = {d}
    BY <1>1, <2>1 DEF OneDescriptor
  <2>3. ring = {<<"ring", d>>}
    BY <2>2
  <2>4. pool = {} /\ caller = {} /\ send = {}
    BY <1>3, <1>5, <1>7 DEF Apart
  <2> HIDE DEF pool, ring, caller, send
  <2> QED BY <1>2, <2>3, <2>4
<1>8. CASE InHand = c
  <2>1. pool = {} /\ ring = {}
    BY <1>3, <1>4, <1>8 DEF Apart
  <2>2. CASE sender = "free"
    <3>1. packet_handle # c /\ old = c
      BY <1>1, <1>8, <2>2 DEF InHand, HandleInUse
    <3>2. caller = {} /\ send = {<<"send", 0>>}
      BY <2>2, <3>1
    <3> HIDE DEF pool, ring, caller, send
    <3> QED BY <1>2, <2>1, <3>2
  <2>3. CASE sender # "free"
    <3>1. packet_handle = c
      BY <1>8, <2>3 DEF InHand
    <3>2. caller = {<<"caller", 0>>} /\ send = {}
      BY <2>3, <3>1
    <3> HIDE DEF pool, ring, caller, send
    <3> QED BY <1>2, <2>1, <3>2
  <2> QED BY <2>2, <2>3
<1> QED BY <1>6, <1>7, <1>8 DEF Owned

(***************************************************************************)
(* What pacing buys.  At most one frame is in the ring: the invariant      *)
(* follows it from send() through the DMA and the handler to its reclaim,  *)
(* and says where both indices and the DMA are at each stage.              *)
(***************************************************************************)

AllReturned == \A d \in Descriptor : ~own[d]

NoneHeld == \A d \in Descriptor : packet_buffer_handles[d] = NoChunk

OnlyHeld(i) == \A d \in Descriptor : packet_buffer_handles[d] # NoChunk => d = i

OnlyGiven(i) == \A d \in Descriptor : own[d] <=> d = i

OneTaken == free_index = NextDescriptor(pending_index)

\* The DMA does not move before send() wakes it, and so nothing interrupts.
Still == dma = "suspended" /\ dmasr = {} /\ isr = "none"

Empty ==
  /\ pending_index = free_index /\ NoneHeld /\ AllReturned
  /\ dma_index = free_index /\ dma # "sending"

InFlight ==
  /\ OneTaken /\ OnlyGiven(pending_index) /\ OnlyHeld(pending_index)
  /\ packet_buffer_handles[pending_index] # NoChunk
  /\ buffer_ptr[pending_index] = packet_buffer_handles[pending_index]
  /\ dma_index = pending_index /\ isr = "none" /\ dmasr = {}

\* Either the handler has the completion before it, or, in a ring of one
\* descriptor, it will never see it: that ring is full and empty alike.
Sent ==
  /\ OneTaken /\ AllReturned /\ OnlyHeld(pending_index)
  /\ packet_buffer_handles[pending_index] # NoChunk
  /\ dma_index = free_index /\ dma # "sending"
  /\ \/ isr = "none" /\ "TS" \in dmasr
     \/ isr = "reclaim"
     \/ kNumTxBuffers = 1

BeingSent ==
  /\ OneTaken /\ AllReturned /\ Still
  /\ index = pending_index /\ dma_index = pending_index

Stage ==
  \/ sender = "idle" /\ (Empty \/ InFlight \/ Sent)
  \/ sender = "send" /\ Empty /\ Still /\ packet_handle # NoChunk
  \/ sender = "move" /\ BeingSent /\ NoneHeld /\ packet_handle # NoChunk
  \/ sender = "store" /\ BeingSent /\ NoneHeld /\ packet_handle # NoChunk /\ old = NoChunk
  \/ /\ sender = "deleter" /\ BeingSent /\ OnlyHeld(index)
     /\ packet_buffer_handles[index] # NoChunk
  \/ /\ sender = "point" /\ BeingSent /\ OnlyHeld(index)
     /\ packet_buffer_handles[index] # NoChunk
  \/ /\ sender = "own" /\ BeingSent /\ OnlyHeld(index)
     /\ packet_buffer_handles[index] # NoChunk
     /\ buffer_ptr[index] = packet_buffer_handles[index]
  \/ sender = "poll" /\ InFlight /\ Still

PaceInv == paced => Stage

LEMMA NextIsAnother ==
  ASSUME kNumTxBuffers # 1, NEW d \in Descriptor
  PROVE  NextDescriptor(d) # d
BY Buffers, EthernetAssumption DEF Descriptor, NextDescriptor

LEMMA PaceStarts ==
  ASSUME Init
  PROVE  PaceInv
BY DEF Init, PaceInv, Stage, Empty, NoneHeld, AllReturned

\* Main.cpp sends when the ring is empty: were the last frame still with the
\* DMA or the handler, Quiet would not hold; a ring of one has no buffer left.
LEMMA PacedAllocate ==
  ASSUME OwnInv, PaceInv, paced, AllocatePacketBuffer
  PROVE  Stage'
<1>1. /\ sender = "idle" /\ dmasr = {} /\ dma = "suspended" /\ AllReturned /\ isr = "none"
      /\ packet_handle' = Allocated /\ ~Exhausted /\ sender' = "send"
      /\ UNCHANGED <<ringVars, isrVars, dmasr, dmaVars>>
  BY DEF AllocatePacketBuffer, Quiet, MainRuns, AllReturned
<1>2. Allocated \in Chunk /\ Listed(free_list, Allocated)
  BY HandedOut, <1>1 DEF OwnInv, Shared, TypeOK
<1>3. ~InFlight
  BY <1>1 DEF InFlight, OnlyGiven, AllReturned, OwnInv, TypeOK
<1>4. ~Sent
  <2> SUFFICES ASSUME Sent PROVE FALSE
    OBVIOUS
  <2>1. kNumTxBuffers = 1
    BY <1>1 DEF Sent
  <2>2. Chunk = {0}
    BY <2>1, EthernetAssumption DEF Chunk
  <2>3. pending_index \in Descriptor /\ packet_buffer_handles[pending_index] = Allocated
    BY <1>2, <2>2 DEF Sent, OwnInv, TypeOK, Handle
  <2> QED BY <1>2, <2>3 DEF OwnInv, Shared, Apart, InRing
<1>5. Empty
  BY <1>1, <1>3, <1>4 DEF PaceInv, Stage
<1>6. Empty'
  BY <1>1, <1>5 DEF Empty, NoneHeld, AllReturned, ringVars, handleVars, dmaVars
<1>7. Still' /\ packet_handle' # NoChunk
  BY <1>1, <1>2, Buffers DEF Still, isrVars, dmaVars
<1> QED BY <1>1, <1>6, <1>7 DEF Stage

\* The handle moved into is empty, so that nothing is freed.
LEMMA PacedMove ==
  ASSUME OwnInv, PaceInv, paced, MoveHandle \/ StoreHandle \/ FreeOld \/ SetDeleter
  PROVE  Stage'
<1> USE DEF PaceInv, Stage
<1>1. index \in Descriptor
  BY DEF OwnInv, TypeOK
<1>2. BeingSent
  BY DEF MoveHandle, StoreHandle, FreeOld, SetDeleter
<1>3. BeingSent'
  BY <1>2 DEF MoveHandle, StoreHandle, FreeOld, SetDeleter, ringVars, handleVars, isrVars, dmaVars, Still,
     BeingSent, AllReturned, OneTaken
<1>4. CASE MoveHandle
  <2>1. NoneHeld /\ packet_handle # NoChunk
    BY <1>4 DEF MoveHandle
  <2>2. NoneHeld' /\ packet_handle' # NoChunk /\ old' = NoChunk
    BY <1>1, <1>4, <2>1 DEF MoveHandle, ringVars, handleVars, NoneHeld
  <2> QED BY <1>3, <1>4, <2>2 DEF MoveHandle
<1>5. CASE StoreHandle
  <2>1. NoneHeld /\ packet_handle # NoChunk /\ old = NoChunk
    BY <1>5 DEF StoreHandle
  <2>2. OnlyHeld(index)' /\ packet_buffer_handles'[index'] # NoChunk
    BY <1>5, <2>1 DEF StoreHandle, OnlyHeld, NoneHeld, OwnInv, TypeOK
  <2> QED BY <1>3, <1>5, <2>1, <2>2 DEF StoreHandle
<1>6. ~FreeOld
  BY DEF FreeOld
<1>7. CASE SetDeleter
  <2>1. OnlyHeld(index) /\ packet_buffer_handles[index] # NoChunk
    BY <1>7 DEF SetDeleter
  <2>2. OnlyHeld(index)' /\ packet_buffer_handles'[index'] # NoChunk
    BY <1>7, <2>1 DEF SetDeleter, OnlyHeld
  <2> QED BY <1>3, <1>7, <2>2 DEF SetDeleter
<1> QED BY <1>4, <1>5, <1>6, <1>7

LEMMA PacedSend ==
  ASSUME OwnInv, PaceInv, paced, Send
  PROVE  Stage'
<1> USE DEF PaceInv, Stage
<1>1. CASE SendRefused
  <2>1. Empty /\ sender' = "idle" /\ UNCHANGED <<ringVars, dmaVars>>
    BY <1>1 DEF SendRefused
  <2> QED BY <2>1 DEF Empty, NoneHeld, AllReturned, ringVars, handleVars, dmaVars
<1>2. CASE AllocateTxDescriptor
  <2>1. Empty /\ Still /\ packet_handle # NoChunk
    BY <1>2 DEF AllocateTxDescriptor
  <2>2. BeingSent' /\ NoneHeld'
    BY <1>2, <2>1
    DEF AllocateTxDescriptor, handleVars, isrVars, dmaVars, Empty, Still, BeingSent, NoneHeld,
       AllReturned, OneTaken
  <2> QED BY <1>2, <2>1, <2>2 DEF AllocateTxDescriptor
<1>3. CASE MoveHandle \/ StoreHandle \/ FreeOld \/ SetDeleter
  BY <1>3, PacedMove
<1>4. CASE SetBuffer
  <2>1. BeingSent /\ OnlyHeld(index) /\ packet_buffer_handles[index] # NoChunk
    BY <1>4 DEF SetBuffer
  <2>2. BeingSent' /\ OnlyHeld(index)'
    BY <1>4, <2>1
    DEF SetBuffer, handleVars, isrVars, dmaVars, Still, BeingSent, AllReturned, OneTaken, OnlyHeld
  <2>3. /\ packet_buffer_handles'[index'] # NoChunk
        /\ buffer_ptr'[index'] = packet_buffer_handles'[index']
    BY <1>4, <2>1 DEF SetBuffer, handleVars, OwnInv, TypeOK
  <2> QED BY <1>4, <2>2, <2>3 DEF SetBuffer
<1>5. CASE GiveToDma
  <2>1. /\ BeingSent /\ OnlyHeld(index) /\ packet_buffer_handles[index] # NoChunk
        /\ buffer_ptr[index] = packet_buffer_handles[index]
    BY <1>5 DEF GiveToDma
  <2>2. OnlyGiven(pending_index)'
    BY <1>5, <2>1 DEF GiveToDma, BeingSent, AllReturned, OnlyGiven, OwnInv, TypeOK
  <2>3. InFlight' /\ Still'
    BY <1>5, <2>1, <2>2
    DEF GiveToDma, handleVars, isrVars, dmaVars, InFlight, Still, BeingSent, OneTaken, OnlyHeld
  <2> QED BY <1>5, <2>3 DEF GiveToDma
<1>6. CASE PollDemand
  <2>1. InFlight /\ sender' = "idle"
    BY <1>6 DEF PollDemand
  <2>2. InFlight'
    BY <1>6, <2>1 DEF PollDemand, ringVars, handleVars, isrVars, InFlight, OneTaken, OnlyGiven, OnlyHeld
  <2> QED BY <2>1, <2>2
<1> QED BY <1>1, <1>2, <1>3, <1>4, <1>5, <1>6 DEF Send

\* A link that goes down stops the DMA between two frames, not within one.
LEMMA PacedLink ==
  ASSUME PaceInv, paced, RunLinkManagement
  PROVE  Stage'
<1>1. /\ sender = "idle" /\ (dma' = dma \/ dma' = "running")
      /\ UNCHANGED <<ringVars, senderVars, isrVars, dmasr, dma_index>>
  BY DEF RunLinkManagement
<1>2. sender' = "idle" /\ (dma # "sending" => dma' # "sending")
  BY <1>1 DEF senderVars
<1>3. CASE Empty
  BY <1>1, <1>2, <1>3 DEF Stage, Empty, NoneHeld, AllReturned, ringVars, handleVars
<1>4. CASE InFlight
  BY <1>1, <1>2, <1>4 DEF Stage, InFlight, OneTaken, OnlyGiven, OnlyHeld, ringVars, handleVars, isrVars
<1>5. CASE Sent
  BY <1>1, <1>2, <1>5 DEF Stage, Sent, OneTaken, AllReturned, OnlyHeld, ringVars, handleVars, isrVars
<1> QED BY <1>1, <1>3, <1>4, <1>5 DEF PaceInv, Stage

LEMMA PacedHandler ==
  ASSUME OwnInv, PaceInv, paced, Handler
  PROVE  Stage'
<1>1. ~Still /\ ~InFlight
  BY DEF Handler, IsrEnter, IsrReclaim, IsrReclaimed, IsrClear, Still, InFlight
<1>2. sender = "idle" /\ (Empty \/ Sent)
  BY <1>1 DEF PaceInv, Stage, BeingSent
<1>3. sender' = "idle" /\ UNCHANGED dmaVars
  BY <1>2 DEF Handler, IsrEnter, IsrReclaim, IsrReclaimed, IsrClear, senderVars
<1>4. CASE Empty
  <2>1. UNCHANGED ringVars
    BY <1>4 DEF Handler, IsrEnter, IsrReclaim, IsrReclaimed, IsrClear, Reclaimable, Empty
  <2> QED BY <1>3, <1>4, <2>1 DEF Stage, Empty, NoneHeld, AllReturned, ringVars, handleVars, dmaVars
<1>5. CASE Sent /\ kNumTxBuffers = 1
  <2>1. pending_index = free_index
    BY <1>5 DEF Sent, OneTaken, OwnInv, TypeOK, Descriptor, NextDescriptor
  <2>2. UNCHANGED ringVars
    BY <2>1 DEF Handler, IsrEnter, IsrReclaim, IsrReclaimed, IsrClear, Reclaimable
  <2> QED BY <1>3, <1>5, <2>2 DEF Stage, Sent, OneTaken, AllReturned, OnlyHeld, ringVars, handleVars, dmaVars
<1>6. CASE Sent /\ kNumTxBuffers # 1 /\ IsrEnter
  <2>1. isr' = "reclaim" /\ UNCHANGED ringVars
    BY <1>6 DEF IsrEnter, Sent
  <2> QED BY <1>3, <1>6, <2>1 DEF Stage, Sent, OneTaken, AllReturned, OnlyHeld, ringVars, handleVars, dmaVars
<1>7. CASE Sent /\ kNumTxBuffers # 1 /\ isr = "reclaim"
  <2>1. pending_index \in Descriptor /\ Reclaimable
    BY <1>7, NextIsAnother DEF Sent, OneTaken, AllReturned, Reclaimable, OwnInv, TypeOK
  <2>2. IsrReclaim
    BY <1>7, <2>1 DEF Handler, IsrEnter, IsrReclaimed, IsrClear
  <2>3. pending_index' = free_index' /\ NoneHeld'
    BY <1>7, <2>2 DEF IsrReclaim, Sent, OneTaken, OnlyHeld, NoneHeld, OwnInv, TypeOK
  <2>4. AllReturned' /\ dma_index' = free_index' /\ dma' # "sending"
    BY <1>3, <1>7, <2>2 DEF IsrReclaim, Sent, AllReturned, dmaVars
  <2> QED BY <1>3, <2>3, <2>4 DEF Stage, Empty
<1>8. Sent /\ kNumTxBuffers # 1 => IsrEnter \/ isr = "reclaim"
  BY DEF Sent, Handler, IsrReclaim, IsrReclaimed, IsrClear
<1> QED BY <1>2, <1>4, <1>5, <1>6, <1>7, <1>8

LEMMA PacedDma ==
  ASSUME OwnInv, PaceInv, paced, Dma
  PROVE  Stage'
<1>1. dma # "suspended" /\ UNCHANGED <<free_index, pending_index, buffer_ptr,
                                      packet_buffer_handles, senderVars, isrVars>>
  BY DEF Dma, DmaFetch, DmaHalt, DmaSent, ringVars, handleVars
<1>2. sender = "idle" /\ sender' = "idle" /\ (Empty \/ InFlight \/ Sent)
  BY <1>1 DEF PaceInv, Stage, Still, BeingSent, senderVars
<1>3. dma_index \in Descriptor /\ pending_index \in Descriptor /\ own \in [Descriptor -> BOOLEAN]
  BY DEF OwnInv, TypeOK
<1>4. CASE DmaFetch \/ DmaHalt
  <2>1. UNCHANGED <<own, dma_index>> /\ dmasr \subseteq dmasr'
    BY <1>4 DEF DmaFetch, DmaHalt, ringVars, handleVars
  <2>2. CASE Empty
    <3>1. dma' # "sending"
      BY <1>3, <1>4, <2>2 DEF DmaFetch, DmaHalt, Empty, AllReturned
    <3> QED BY <1>1, <1>2, <2>1, <2>2, <3>1 DEF Stage, Empty, NoneHeld, AllReturned
  <2>3. CASE InFlight
    <3>1. dmasr' = {}
      BY <1>3, <1>4, <2>3 DEF DmaFetch, DmaHalt, InFlight, OnlyGiven
    <3> QED BY <1>1, <1>2, <2>1, <2>3, <3>1 DEF Stage, InFlight, OneTaken, OnlyGiven, OnlyHeld,
               isrVars
  <2>4. CASE Sent
    <3>1. dma' # "sending"
      BY <1>3, <1>4, <2>4 DEF DmaFetch, DmaHalt, Sent, AllReturned
    <3> QED BY <1>1, <1>2, <2>1, <2>4, <3>1 DEF Stage, Sent, OneTaken, AllReturned, OnlyHeld,
               isrVars
  <2> QED BY <1>2, <2>2, <2>3, <2>4
<1>5. CASE DmaSent
  <2>1. InFlight
    BY <1>2, <1>5 DEF DmaSent, Empty, Sent
  <2>2. AllReturned'
    BY <1>3, <1>5, <2>1 DEF DmaSent, InFlight, OnlyGiven, AllReturned
  <2>3. /\ dma' = "running" /\ "TS" \in dmasr' /\ isr' = "none" /\ dma_index' = free_index'
        /\ OneTaken' /\ OnlyHeld(pending_index)' /\ packet_buffer_handles'[pending_index'] # NoChunk
    BY <1>1, <1>5, <2>1 DEF DmaSent, InFlight, OneTaken, OnlyHeld, isrVars
  <2> QED BY <1>2, <2>2, <2>3 DEF Stage, Sent
<1> QED BY <1>4, <1>5 DEF Dma

LEMMA PaceNext ==
  ASSUME OwnInv, PaceInv, paced, [Next]_ethVars
  PROVE  Stage'
<1>1. ASSUME UNCHANGED ethVars PROVE Stage'
  BY <1>1 DEF PaceInv, Stage, Empty, InFlight, Sent, BeingSent, Still, OneTaken, OnlyHeld, OnlyGiven,
     NoneHeld, AllReturned, ethVars, ringVars, handleVars, senderVars, isrVars, dmaVars
<1> QED BY <1>1, PacedAllocate, PacedSend, PacedLink, PacedHandler, PacedDma DEF Next

\* The pace never changes, and at that of main.cpp the handler has nothing to do while
\* send() runs: it tears no handle.
LEMMA PacedNoTear ==
  ASSUME PaceInv, paced, ~torn, [Next]_ethVars
  PROVE  ~torn'
<1>1. CASE IsrReclaim
  <2>1. ~Still /\ ~InFlight
    BY <1>1 DEF IsrReclaim, Still, InFlight
  <2>2. sender = "idle"
    BY <2>1 DEF PaceInv, Stage, BeingSent
  <2> QED BY <1>1, <2>2 DEF IsrReclaim, Tears
<1>2. CASE ~IsrReclaim
  BY <1>2 DEF Next, AllocatePacketBuffer, Send, SendRefused, AllocateTxDescriptor, MoveHandle,
     StoreHandle, FreeOld, SetDeleter, SetBuffer, GiveToDma, PollDemand, RunLinkManagement, Handler,
     IsrEnter, IsrReclaimed, IsrClear, Dma, DmaFetch, DmaHalt, DmaSent, ethVars
<1> QED BY <1>1, <1>2

LEMMA PaceStays ==
  ASSUME [Next]_ethVars
  PROVE  paced' = paced
BY DEF Next, AllocatePacketBuffer, Send, SendRefused, AllocateTxDescriptor, MoveHandle, StoreHandle,
   FreeOld, SetDeleter, SetBuffer, GiveToDma, PollDemand, RunLinkManagement, Handler, IsrEnter,
   IsrReclaim, IsrReclaimed, IsrClear, Dma, DmaFetch, DmaHalt, DmaSent, ethVars

(***************************************************************************)
(* The whole of it: a handle may be torn only out of pace, and until one   *)
(* is, every buffer has its one owner.                                     *)
(***************************************************************************)
EthInv ==
  /\ TypeOK
  /\ paced => ~torn
  /\ torn \/ (OwnInv /\ PaceInv)

LEMMA EthStarts == Init => EthInv
BY OwnStarts, PaceStarts, InitTypes DEF EthInv

LEMMA EthNext == EthInv /\ [Next]_ethVars => EthInv'
<1> SUFFICES ASSUME EthInv, [Next]_ethVars PROVE EthInv'
  OBVIOUS
<1>1. TypeOK' /\ paced' = paced
  BY TypesNext, PaceStays DEF EthInv
<1>2. paced => ~torn'
  BY PacedNoTear DEF EthInv
<1>3. ASSUME ~torn' PROVE OwnInv' /\ PaceInv'
  <2>1. OwnInv /\ PaceInv
    BY <1>3, TornStays DEF EthInv
  <2>2. OwnInv'
    BY <1>3, <2>1, OwnNext
  <2>3. PaceInv'
    BY <1>1, <2>1, PaceNext DEF PaceInv
  <2> QED BY <2>2, <2>3
<1> QED BY <1>1, <1>2, <1>3 DEF EthInv

(***************************************************************************)
(* For any number of buffers: no buffer is lost and none has two owners,   *)
(* at the pace of main.cpp always, and at any other pace until the handler *)
(* has reset a handle in the middle of its assignment - in a way that      *)
(* frees a buffer twice or never, for an interruption that does not is no  *)
(* tear.  Not even the overtaking that makes send() overwrite a handle the *)
(* handler has yet to reclaim breaks it.                                   *)
(***************************************************************************)
THEOREM PoolIsPartitioned == Spec => []PoolPartition
<1>1. EthInv => PoolPartition
  <2> SUFFICES ASSUME EthInv, paced \/ ~torn, NEW c \in Chunk PROVE Cardinality(Owners(c)) = 1
    BY DEF PoolPartition, OneOwnerEach
  <2>1. OwnInv
    BY DEF EthInv
  <2>2. PICK x : Owners(c) = {x}
    BY <2>1, OneOwner
  <2> QED BY <2>2, FS_Singleton
<1> QED BY <1>1, EthStarts, EthNext, PTL DEF Spec

\* What the DMA has been given stays in the ring's hands until it is sent,
\* for any number of buffers, with the one frame at a time of main.cpp.
THEOREM PacedFrameIsKept == Spec => []PacedFrameKept
<1>1. EthInv => PacedFrameKept
  <2> SUFFICES ASSUME EthInv, paced, NEW d \in Descriptor, own[d]
               PROVE  buffer_ptr[d] # NoChunk /\ packet_buffer_handles[d] = buffer_ptr[d]
    BY DEF PacedFrameKept, FrameKept
  <2>1. Stage
    BY DEF EthInv, PaceInv
  <2>2. InFlight
    BY <2>1 DEF Stage, Empty, Sent, BeingSent, AllReturned
  <2> QED BY <2>2 DEF InFlight, OnlyGiven
<1> QED BY <1>1, EthStarts, EthNext, PTL DEF Spec

\* A list that names every chunk, none twice, is as long as there are chunks.
LEMMA FullList ==
  ASSUME free_list \in Seq(Chunk), Distinct(free_list), \A c \in Chunk : Listed(free_list, c)
  PROVE  Len(free_list) = kNumItems
<1>1. Len(free_list) \in Nat /\ kNumItems \in Nat /\ free_list \in [1 .. Len(free_list) -> Chunk]
  BY Buffers
<1>2. free_list \in Bijection(1 .. Len(free_list), Chunk)
  BY <1>1 DEF Distinct, Listed, Bijection, Injection, Surjection, IsInjective
<1>3. IsFiniteSet(1 .. Len(free_list)) /\ Cardinality(1 .. Len(free_list)) = Len(free_list)
  <2>1. Cardinality(1 .. Len(free_list)) = IF 1 > Len(free_list) THEN 0 ELSE Len(free_list) - 1 + 1
    BY <1>1, FS_Interval
  <2> QED BY <1>1, <2>1, FS_Interval
<1>4. Cardinality(Chunk) = Len(free_list)
  BY <1>2, <1>3, FS_Bijection DEF ExistsBijection
<1>5. Cardinality(Chunk) = kNumItems
  BY <1>1, Buffers, FS_Interval DEF Chunk
<1> QED BY <1>4, <1>5

\* Whenever the DMA and the handler have come to rest every buffer is back in
\* the pool, in a ring of two descriptors or more.  (The code has eight; a
\* ring of one never reclaims, for it cannot tell a taken descriptor.)
THEOREM PacedRingIsDrained ==
  ASSUME kNumTxBuffers # 1
  PROVE  Spec => []PacedRingDrained
<1>1. EthInv => PacedRingDrained
  <2> SUFFICES ASSUME EthInv, paced, Quiet, isr = "none", sender = "idle"
               PROVE  /\ pending_index = free_index /\ NoneHeld /\ Len(free_list) = kNumItems
    BY DEF PacedRingDrained, NoneHeld
  <2>1. OwnInv /\ Stage
    BY DEF EthInv, PaceInv
  <2>2. ~InFlight /\ ~Sent
    BY <2>1 DEF InFlight, Sent, Quiet, OnlyGiven, OwnInv, TypeOK
  <2>3. pending_index = free_index /\ NoneHeld
    BY <2>1, <2>2 DEF Stage, Empty
  <2>4. InHand = NoChunk
    BY <2>1 DEF OwnInv, HandleInUse, InHand
  <2>5. \A c \in Chunk : Listed(free_list, c)
    BY <2>1, <2>3, <2>4, Buffers DEF OwnInv, Shared, Owned, InRing, NoneHeld
  <2> QED BY <2>1, <2>3, <2>5, FullList DEF OwnInv, Shared, TypeOK
<1> QED BY <1>1, EthStarts, EthNext, PTL DEF Spec
=============================================================================
