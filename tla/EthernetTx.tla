----------------------------- MODULE EthernetTx -----------------------------
(***************************************************************************)
(* The transmit path of Ethernet (stm32/f746g-disco/ethernet.cpp): a ring  *)
(* of DMA descriptors, the handles of the packet buffers the ring has in   *)
(* hand, and the pool the buffers come from.                               *)
(*                                                                         *)
(* Three parties move here.  The main loop runs send() and the link        *)
(* management; the interrupt handler preempts it between any two           *)
(* statements, except in a critical section; the Ethernet DMA walks the    *)
(* descriptors whatever the CPU does.  The handler takes and clears the    *)
(* DMA's status in separate steps, and reclaims one descriptor a step.     *)
(*                                                                         *)
(* A buffer handle is a unique_ptr, a pointer and a deleter, and moving    *)
(* into one is four statements the handler may come between: the old       *)
(* pointer is read, the new one stored, the old chunk freed and the        *)
(* deleter stored.                                                         *)
(*                                                                         *)
(* The main loop of main.cpp sends one frame every 500 ms and only with    *)
(* the link up.  That is paced; not paced, a frame may be sent at any time.*)
(***************************************************************************)
EXTENDS ObjectPool, FiniteSets

CONSTANT kNumTxBuffers

ASSUME EthernetAssumption == kNumTxBuffers \in Nat \ {0} /\ kNumItems = kNumTxBuffers

Descriptor == 0 .. kNumTxBuffers - 1

NextDescriptor(d) == (d + 1) % kNumTxBuffers

State == {"kUninitialized", "kAutoNegotiation", "kLinkUp", "kLinkDown", "kError"}

VARIABLES
  paced,          \* how the main loop sends; never changes
  state,          \* state_
  own,            \* descriptor |-> its OWN bit: the DMA's, or the driver's
  buffer_ptr,     \* descriptor |-> the buffer it points at
  packet_buffer_handles,  \* descriptor |-> the pointer of its handle
  deleter,        \* descriptor |-> whether the deleter of its handle knows the pool
  free_index,     \* the next descriptor send() will take
  pending_index,  \* the next descriptor the handler will reclaim
  sender,         \* where send() is
  packet_handle,  \* the caller's handle
  index,          \* the descriptor send() has taken
  old,            \* the pointer it has read from the handle it overwrites
  torn,           \* whether a handle was reset in the middle of its assignment
  isr,            \* where the handler is
  status,         \* the DMASR value it has read
  dmasr,          \* ETH->DMASR: TS, a frame is sent; TBU, no descriptor to send
  started,        \* the ST bit of DMAOMR
  dma,            \* what the transmit DMA does
  dma_index       \* the descriptor it is at

senderVars == <<sender, packet_handle, index, old>>
isrVars == <<isr, status>>
dmaVars == <<dma, dma_index>>
handleVars == <<packet_buffer_handles, deleter>>
ringVars == <<own, buffer_ptr, handleVars, free_index, pending_index>>
ethVars ==
  <<free_list, paced, torn, state, ringVars, senderVars, isrVars, dmasr, started, dmaVars>>

\* init() has run; it returns early, with nothing enabled, when the PHY does not answer.
Init ==
  /\ PoolInit
  /\ paced \in BOOLEAN
  /\ state \in {"kUninitialized", "kAutoNegotiation"}
  /\ own = [d \in Descriptor |-> FALSE]
  /\ buffer_ptr = [d \in Descriptor |-> NoChunk]
  /\ packet_buffer_handles = [d \in Descriptor |-> NoChunk]
  /\ deleter = [d \in Descriptor |-> FALSE]
  /\ free_index = 0 /\ pending_index = 0
  /\ sender = "idle" /\ packet_handle = NoChunk /\ index = 0
  /\ old = NoChunk /\ torn = FALSE
  /\ isr = "none" /\ status = {}
  /\ dmasr = {} /\ started = FALSE
  /\ dma = "suspended" /\ dma_index = 0
------------------------------------------------------------------------------
\* The main loop, which runs when the handler does not.

MainRuns == isr = "none"

\* Half a second after the last frame nothing of it is left to do.
Quiet ==
  /\ dmasr = {} /\ dma = "suspended"
  /\ \A d \in Descriptor : ~own[d]

\* What has become of a chunk freed twice is not followed: its link, which makes the
\* free list a cycle, is in the bytes of the frame it is next handed out for.
FreedTwice == \E i, j \in DOMAIN free_list : i # j /\ free_list[i] = free_list[j]

\* EthernetTest::tick(): a buffer, or nothing this time.
AllocatePacketBuffer ==
  /\ MainRuns /\ sender = "idle"
  /\ paced => Quiet /\ state = "kLinkUp"
  /\ ~Exhausted /\ ~FreedTwice
  /\ packet_handle' = Allocated /\ free_list' = AfterAllocate
  /\ sender' = "send"
  /\ UNCHANGED <<paced, torn, state, ringVars, index, old, isrVars, dmasr, started, dmaVars>>

\* send() returns false; the caller's handle goes out of scope.
Refused == state # "kLinkUp" \/ own[NextDescriptor(free_index)]

SendRefused ==
  /\ MainRuns /\ sender = "send" /\ Refused
  /\ free_list' = AfterFree(packet_handle) /\ packet_handle' = NoChunk
  /\ sender' = "idle"
  /\ UNCHANGED <<paced, torn, state, ringVars, index, old, isrVars, dmasr, started, dmaVars>>

\* allocateTxDescriptor(): one critical section.  Only the DMA's claim on the next
\* descriptor is asked about, not whether the handler has reclaimed it.
AllocateTxDescriptor ==
  /\ MainRuns /\ sender = "send" /\ ~Refused
  /\ index' = free_index /\ free_index' = NextDescriptor(free_index)
  /\ sender' = "move"
  /\ UNCHANGED <<free_list, paced, torn, state, own, buffer_ptr, handleVars, pending_index,
                 packet_handle, old, isrVars, dmasr, started, dmaVars>>

\* The list once the handle of descriptor d has deleted pointer: a deleter that does not
\* know the pool deletes nothing.
Deleted(d, pointer) == IF deleter[d] THEN AfterFree(pointer) ELSE free_list

\* The move assignment of the unique_ptr begins: reset() reads the pointer it replaces.
MoveHandle ==
  /\ MainRuns /\ sender = "move"
  /\ old' = packet_buffer_handles[index]
  /\ sender' = "store"
  /\ UNCHANGED <<free_list, paced, torn, state, ringVars, packet_handle, index, isrVars, dmasr,
                 started, dmaVars>>

\* The pointer the caller's handle has released is stored; an old one is to be freed.
StoreHandle ==
  /\ MainRuns /\ sender = "store"
  /\ packet_buffer_handles' = [packet_buffer_handles EXCEPT ![index] = packet_handle]
  /\ packet_handle' = NoChunk
  /\ sender' = IF old = NoChunk THEN "deleter" ELSE "free"
  /\ UNCHANGED <<free_list, paced, torn, state, own, buffer_ptr, deleter, free_index,
                 pending_index, index, old, isrVars, dmasr, started, dmaVars>>

\* Mutant of FreeOld: what the handle held before is dropped.
DropOld ==
  /\ MainRuns /\ sender = "free"
  /\ old' = NoChunk
  /\ sender' = "deleter"
  /\ UNCHANGED <<free_list, paced, torn, state, ringVars, packet_handle, index, isrVars, dmasr,
                 started, dmaVars>>

FreeOld ==
  /\ MainRuns /\ sender = "free"
  /\ free_list' = Deleted(index, old)
  /\ old' = NoChunk
  /\ sender' = "deleter"
  /\ UNCHANGED <<paced, torn, state, ringVars, packet_handle, index, isrVars, dmasr, started,
                 dmaVars>>

\* The assignment ends: the deleter of the caller's handle comes after the pointer.
SetDeleter ==
  /\ MainRuns /\ sender = "deleter"
  /\ deleter' = [deleter EXCEPT ![index] = TRUE]
  /\ sender' = "point"
  /\ UNCHANGED <<free_list, paced, torn, state, own, buffer_ptr, packet_buffer_handles,
                 free_index, pending_index, packet_handle, index, old, isrVars, dmasr, started,
                 dmaVars>>

\* Mutant of SetBuffer: the descriptor is given away before its buffer is set.
SetBufferLate ==
  /\ MainRuns /\ sender = "point"
  /\ own' = [own EXCEPT ![index] = TRUE]
  /\ sender' = "own"
  /\ UNCHANGED <<free_list, paced, torn, state, buffer_ptr, handleVars, free_index,
                 pending_index, packet_handle, index, old, isrVars, dmasr, started, dmaVars>>

\* Through an empty handle this reads from address zero, which does not fault here.
SetBuffer ==
  /\ MainRuns /\ sender = "point"
  /\ buffer_ptr' = [buffer_ptr EXCEPT ![index] = packet_buffer_handles[index]]
  /\ sender' = "own"
  /\ UNCHANGED <<free_list, paced, torn, state, own, handleVars, free_index, pending_index,
                 packet_handle, index, old, isrVars, dmasr, started, dmaVars>>

GiveToDma ==
  /\ MainRuns /\ sender = "own"
  /\ own' = [own EXCEPT ![index] = TRUE]
  /\ sender' = "poll"
  /\ UNCHANGED <<free_list, paced, torn, state, buffer_ptr, handleVars, free_index,
                 pending_index, packet_handle, index, old, isrVars, dmasr, started, dmaVars>>

\* Mutant of PollDemand: send() does not wake the DMA.
NoPollDemand ==
  /\ MainRuns /\ sender = "poll" /\ sender' = "idle"
  /\ UNCHANGED <<free_list, paced, torn, state, ringVars, packet_handle, index, old, isrVars,
                 dmasr, started, dmaVars>>

\* ETH->DMATPDR = 0: a started DMA that had nothing to send looks again.
PollDemand ==
  /\ MainRuns /\ sender = "poll" /\ sender' = "idle"
  /\ dma' = IF started /\ dma = "suspended" THEN "running" ELSE dma
  /\ UNCHANGED <<free_list, paced, torn, state, ringVars, packet_handle, index, old, isrVars,
                 dmasr, started, dma_index>>

\* runLinkManagement(), with the PHY's answers: what it says is next.
NextState(next) ==
  \/ state = "kUninitialized" /\ next = state
  \/ state = "kAutoNegotiation" /\ next \in {state, "kLinkDown", "kError"}
  \/ state = "kLinkUp" /\ next \in {state, "kLinkDown"}
  \/ state = "kLinkDown" /\ next \in {state, "kLinkUp"}
  \/ state = "kError" /\ next = state

\* enableTxRx() starts the DMA as the link comes up, disableTxRx() stops it as the
\* link goes down, and again and again in the terminal error state.
RunLinkManagement ==
  /\ MainRuns /\ sender = "idle"
  /\ \E next \in State : NextState(next) /\ state' = next
  /\ IF state = "kLinkDown" /\ state' = "kLinkUp"
       THEN started' = TRUE /\ dma' = IF dma = "suspended" THEN "running" ELSE dma
     ELSE IF state = "kError" \/ (state = "kLinkUp" /\ state' = "kLinkDown")
       THEN started' = FALSE /\ UNCHANGED dma
     ELSE UNCHANGED <<started, dma>>
  /\ UNCHANGED <<free_list, paced, torn, ringVars, senderVars, isrVars, dmasr, dma_index>>
------------------------------------------------------------------------------
\* handleInterruptInstance().

\* DMASR is read once; only a finished frame makes the handler look at the ring.
IsrEnter ==
  /\ isr = "none" /\ dmasr # {}
  /\ status' = dmasr
  /\ isr' = IF "TS" \in dmasr THEN "reclaim" ELSE "clear"
  /\ UNCHANGED <<free_list, paced, torn, state, ringVars, senderVars, dmasr, started, dmaVars>>

Reclaimable == pending_index # free_index /\ ~own[pending_index]

\* The handler is at the very handle send() is assigning, and both are going to free
\* what was in it, or neither what is in it now.
Tears ==
  /\ index = pending_index
  /\ \/ sender = "store" /\ old # NoChunk
     \/ sender \in {"free", "deleter"} /\ ~deleter[index]

IsrReclaim ==
  /\ isr = "reclaim" /\ Reclaimable
  /\ free_list' = Deleted(pending_index, packet_buffer_handles[pending_index])
  /\ packet_buffer_handles' = [packet_buffer_handles EXCEPT ![pending_index] = NoChunk]
  /\ torn' = (torn \/ Tears)
  /\ pending_index' = NextDescriptor(pending_index)
  /\ UNCHANGED <<paced, state, own, buffer_ptr, deleter, free_index, senderVars, isrVars, dmasr,
                 started, dmaVars>>

IsrReclaimed ==
  /\ isr = "reclaim" /\ ~Reclaimable
  /\ isr' = "clear"
  /\ UNCHANGED <<free_list, paced, torn, state, ringVars, senderVars, status, dmasr, started,
                 dmaVars>>

\* All flags are cleared, those set since DMASR was read included.
IsrClear ==
  /\ isr = "clear" /\ isr' = "none"
  /\ dmasr' = {} /\ status' = {}
  /\ UNCHANGED <<free_list, paced, torn, state, ringVars, senderVars, started, dmaVars>>
------------------------------------------------------------------------------
\* The transmit DMA; stopped, it ends the frame it is sending and fetches no other.

DmaFetch ==
  /\ dma = "running" /\ started
  /\ IF own[dma_index]
       THEN dma' = "sending" /\ UNCHANGED dmasr
       ELSE dma' = "suspended" /\ dmasr' = dmasr \cup {"TBU"}
  /\ UNCHANGED <<free_list, paced, torn, state, ringVars, senderVars, isrVars, started, dma_index>>

DmaHalt ==
  /\ dma = "running" /\ ~started
  /\ dma' = "suspended"
  /\ UNCHANGED <<free_list, paced, torn, state, ringVars, senderVars, isrVars, dmasr, started,
                 dma_index>>

DmaSent ==
  /\ dma = "sending"
  /\ dma' = "running"
  /\ own' = [own EXCEPT ![dma_index] = FALSE]
  /\ dma_index' = NextDescriptor(dma_index)
  /\ dmasr' = dmasr \cup {"TS"}
  /\ UNCHANGED <<free_list, paced, torn, state, buffer_ptr, handleVars, free_index,
                 pending_index, senderVars, isrVars, started>>
------------------------------------------------------------------------------
Send ==
  \/ SendRefused
  \/ AllocateTxDescriptor
  \/ MoveHandle
  \/ StoreHandle
  \/ FreeOld
  \/ SetDeleter
  \/ SetBuffer
  \/ GiveToDma
  \/ PollDemand

Handler == IsrEnter \/ IsrReclaim \/ IsrReclaimed \/ IsrClear

Dma == DmaFetch \/ DmaHalt \/ DmaSent

Next == AllocatePacketBuffer \/ Send \/ RunLinkManagement \/ Handler \/ Dma

(***************************************************************************)
(* A call of send() runs to its end, a raised interrupt is served, and the *)
(* DMA sends.  Nobody has to send again, and the link may stay down.       *)
(***************************************************************************)
Fairness == WF_ethVars(Send) /\ WF_ethVars(Handler) /\ WF_ethVars(Dma)

Spec == Init /\ [][Next]_ethVars /\ Fairness
------------------------------------------------------------------------------
TypeOK ==
  /\ free_list \in Seq(Chunk)
  /\ paced \in BOOLEAN /\ state \in State
  /\ own \in [Descriptor -> BOOLEAN]
  /\ buffer_ptr \in [Descriptor -> Handle]
  /\ packet_buffer_handles \in [Descriptor -> Handle]
  /\ deleter \in [Descriptor -> BOOLEAN]
  /\ free_index \in Descriptor /\ pending_index \in Descriptor /\ index \in Descriptor
  /\ sender \in {"idle", "send", "move", "store", "free", "deleter", "point", "own", "poll"}
  /\ packet_handle \in Handle /\ old \in Handle /\ torn \in BOOLEAN
  /\ isr \in {"none", "reclaim", "clear"}
  /\ status \subseteq {"TS", "TBU"} /\ dmasr \subseteq {"TS", "TBU"}
  /\ started \in BOOLEAN
  /\ dma \in {"suspended", "running", "sending"}
  /\ dma_index \in Descriptor

(***************************************************************************)
(* A handle is "a unique pointer which returns the object to the pool"     *)
(* (object_pool.h:80): no buffer is lost and none has two owners.  Each is *)
(* free once, or in the caller's handle, or in the handle of one           *)
(* descriptor, or it was there and send() is about to free it.             *)
(***************************************************************************)
Owners(c) ==
  {<<"pool", i>> : i \in {i \in DOMAIN free_list : free_list[i] = c}}
    \cup {<<"ring", d>> : d \in {d \in Descriptor : packet_buffer_handles[d] = c}}
    \cup {<<"caller", 0>> : h \in {packet_handle} \cap {c}}
    \cup {<<"send", 0>> : h \in {h \in {old} \cap {c} : sender = "free"}}

OneOwnerEach == \A c \in Chunk : Cardinality(Owners(c)) = 1

(***************************************************************************)
(* So it always is with the frames of main.cpp, however the handler and    *)
(* send() interleave, and with any others until the handler resets the     *)
(* very handle whose assignment it has interrupted.  From then on it is    *)
(* not: what the handle held is in no handle any more, or is freed twice.  *)
(***************************************************************************)
PoolPartition == paced \/ ~torn => OneOwnerEach

(***************************************************************************)
(* "true when the frame was queued" (ethernet.h:63): what the DMA has been *)
(* given stays in the ring's hands until the DMA has sent it, so that      *)
(* nobody else is handed the buffer meanwhile.                             *)
(***************************************************************************)
FrameKept ==
  \A d \in Descriptor :
    own[d] => buffer_ptr[d] # NoChunk /\ packet_buffer_handles[d] = buffer_ptr[d]

\* So it is with the frames of main.cpp, each sent when the last one is long gone.
PacedFrameKept == paced => FrameKept

(***************************************************************************)
(* Once the DMA and the handler have come to rest, the ring has given back *)
(* every buffer and the pool is full: no completion went by unnoticed.     *)
(***************************************************************************)
PacedRingDrained ==
  paced /\ Quiet /\ isr = "none" /\ sender = "idle" =>
    /\ pending_index = free_index
    /\ \A d \in Descriptor : packet_buffer_handles[d] = NoChunk
    /\ Len(free_list) = kNumItems

\* Every queued frame is sent and its buffer given back, unless the link goes down.
PacedReclaimed ==
  \A d \in Descriptor :
    paced /\ packet_buffer_handles[d] # NoChunk
      ~> packet_buffer_handles[d] = NoChunk \/ ~started
==============================================================================
