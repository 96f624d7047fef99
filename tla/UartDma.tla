------------------------------- MODULE UartDma -------------------------------
(***************************************************************************)
(* The transmit side of Uart (stm32/f746g-disco/uart.cpp): write() queues  *)
(* bytes in a RingBuffer, and DMA2 stream 7 sends them to the wire one     *)
(* chunk of consecutive slots at a time, the next chunk started by the     *)
(* interrupt that ends the last.                                           *)
(*                                                                         *)
(* Three parties move here.  The writer runs write() with interrupts       *)
(* masked (RaiiCriticalSection); the handler DMA2_Stream7_IRQHandler runs  *)
(* with them enabled, at priority 7; the DMA reads memory whatever the CPU *)
(* does.  The writer is the main loop, which runs only when no handler     *)
(* does, or, with LogFromIsr, also the Ethernet handler, whose LOG_ERROR   *)
(* (ethernet.cpp:37) ends in write() and whose priority 2 lets it preempt  *)
(* the DMA handler between any two of its steps.                           *)
(*                                                                         *)
(* The bytes are their own serial numbers, modulo NumBytes.                *)
(***************************************************************************)
EXTENDS RingBuffer

CONSTANTS
  NumBytes,     \* serial numbers are 0 .. NumBytes - 1
  LogFromIsr    \* whether the Ethernet handler logs

ASSUME UartAssumption ==
  /\ NumBytes \in Nat /\ NumBytes > 2 * kCapacity
  /\ Item = 0 .. NumBytes - 1
  /\ LogFromIsr \in BOOLEAN

VARIABLES
  dma_current_size,  \* dma_current_size_
  dma_error_flags,   \* dma_error_flags_ # 0
  hisr,              \* DMA2->HISR: what the stream reports to the handler
  writer,            \* where write() is
  isr,               \* where the DMA handler is
  error,             \* the handler's local hisr shows an error
  view,              \* the handler's local payload_view.size()
  next,              \* serial number of the next byte to be accepted
  sent,              \* serial number of the last byte on the wire
  lost               \* bytes discarded unsent since then, modulo NumBytes

handlerVars == <<isr, error, view>>
wireVars == <<next, sent, lost>>
uartVars == <<ringVars, dma_current_size, dma_error_flags, hisr, writer,
              handlerVars, wireVars>>

UartInit ==
  /\ Init
  /\ dma_current_size = 0 /\ dma_error_flags = FALSE /\ hisr = "none"
  /\ writer = "idle"
  /\ isr = "none" /\ error = FALSE /\ view = 0
  /\ next = 0 /\ sent = NumBytes - 1 /\ lost = 0

Enabled == mode = "bulk" /\ hisr = "none"  \* the stream's EN bit

\* The register writes that start a chunk at the reader, ignored while EN is set.
StartStream(size) ==
  IF Enabled
    THEN UNCHANGED <<mode, span, got>>
    ELSE mode' = "bulk" /\ span' = size /\ got' = <<>>
------------------------------------------------------------------------------
\* write(), in its critical section.

InSequence(items) ==
  \A i \in 1 .. Len(items) : items[i] = (next + i - 1) % NumBytes

MayWrite == writer = "idle" /\ (LogFromIsr \/ (isr = "none" /\ hisr = "none"))

\* enqueue(data) measures the room; without room, or without data, it is over.
Write(items) ==
  /\ MayWrite
  /\ InSequence(items)
  /\ EnqueueSpan(items)
  /\ writer' = IF todo' # <<>> THEN "copy"
               ELSE IF accepted' THEN "start" ELSE "idle"
  /\ UNCHANGED <<dma_current_size, dma_error_flags, hisr, handlerVars, wireVars>>

WriteCopy ==
  /\ writer = "copy"
  /\ CopyItem
  /\ UNCHANGED <<dma_current_size, dma_error_flags, hisr, writer, handlerVars, wireVars>>

\* A partial enqueue returns 0 to the caller and does not go on to startDma().
WritePublish ==
  /\ writer = "copy"
  /\ PublishWrite
  /\ writer' = IF whole THEN "start" ELSE "idle"
  /\ next' = (next + Len(todo)) % NumBytes
  /\ UNCHANGED <<dma_current_size, dma_error_flags, hisr, handlerVars, sent, lost>>

\* Mutant of WriteStart: startDma() is left to the handler.
WriteNoStart ==
  /\ writer = "start" /\ writer' = "idle"
  /\ UNCHANGED <<ringVars, dma_current_size, dma_error_flags, hisr, handlerVars, wireVars>>

\* Mutant of WriteStart: it does not ask whether the DMA is active.
WriteStartAlways ==
  /\ writer = "start" /\ writer' = "idle"
  /\ LET size == BulkSize(write_index, read_index)
     IN  IF size = 0
           THEN UNCHANGED <<dma_current_size, mode, span, got>>
           ELSE dma_current_size' = size /\ StartStream(size)
  /\ UNCHANGED <<buffer, producerVars, read_index, received, dma_error_flags, hisr,
                 handlerVars, wireVars>>

\* startDma(), with nothing to preempt it.
WriteStart ==
  /\ writer = "start" /\ writer' = "idle"
  /\ LET size == BulkSize(write_index, read_index)
     IN  IF dma_current_size # 0 \/ size = 0
           THEN UNCHANGED <<dma_current_size, mode, span, got>>
           ELSE dma_current_size' = size /\ StartStream(size)
  /\ UNCHANGED <<buffer, producerVars, read_index, received, dma_error_flags, hisr,
                 handlerVars, wireVars>>
------------------------------------------------------------------------------
\* The stream.

DmaByte ==
  /\ Enabled
  /\ ReadItem
  /\ sent' = got'[Len(got')] /\ lost' = 0
  /\ UNCHANGED <<dma_current_size, dma_error_flags, hisr, writer, handlerVars, next>>

\* NDTR reaches zero.
DmaComplete ==
  /\ Enabled /\ Len(got) = span
  /\ hisr' = "complete"
  /\ UNCHANGED <<ringVars, dma_current_size, dma_error_flags, writer, handlerVars, wireVars>>

\* A transfer error stops the stream.
DmaError ==
  /\ Enabled /\ Len(got) < span
  /\ hisr' = "error"
  /\ UNCHANGED <<ringVars, dma_current_size, dma_error_flags, writer, handlerVars, wireVars>>
------------------------------------------------------------------------------
\* handleInterrupt(); no step of it runs inside write().

\* Mutant of IsrStop: the size is zeroed before it tells how much to discard.
IsrStopCleared ==
  /\ writer = "idle" /\ isr = "none" /\ hisr # "none"
  /\ isr' = "clear" /\ error' = (hisr = "error") /\ hisr' = "none"
  /\ mode' = "idle" /\ span' = 0 /\ got' = <<>>
  /\ UNCHANGED <<buffer, producerVars, read_index, received, dma_current_size,
                 dma_error_flags, writer, view, wireVars>>

\* stopDma(): the flags are cleared and the whole chunk discarded, even when the
\* stream stopped in the middle of it.
IsrStop ==
  /\ writer = "idle" /\ isr = "none" /\ hisr # "none"
  /\ isr' = "clear" /\ error' = (hisr = "error") /\ hisr' = "none"
  /\ read_index' = Advance(read_index, dma_current_size)
  /\ mode' = "idle" /\ span' = 0 /\ got' = <<>>
  /\ lost' = IF hisr = "error" THEN (lost + span - Len(got)) % NumBytes ELSE lost
  /\ UNCHANGED <<buffer, producerVars, received, dma_current_size, dma_error_flags,
                 writer, view, next, sent>>

\* dma_current_size_.store(0) ends stopDma().
IsrClear ==
  /\ writer = "idle" /\ isr = "clear"
  /\ dma_current_size' = 0 /\ isr' = "check"
  /\ UNCHANGED <<ringVars, dma_error_flags, hisr, writer, error, view, wireVars>>

\* The end of the handler keeps the error bits it has seen.
IsrReturn == isr' = "none" /\ dma_error_flags' = (dma_error_flags \/ error)

\* Mutant of IsrCheck: the handler leaves it to write() to start the next chunk.
IsrCheckReturn ==
  /\ writer = "idle" /\ isr = "check"
  /\ IsrReturn
  /\ UNCHANGED <<ringVars, dma_current_size, hisr, writer, error, view, wireVars>>

\* startDma(): is the DMA already active?
IsrCheck ==
  /\ writer = "idle" /\ isr = "check"
  /\ IF dma_current_size # 0
       THEN IsrReturn
       ELSE isr' = "view" /\ UNCHANGED dma_error_flags
  /\ UNCHANGED <<ringVars, dma_current_size, hisr, writer, error, view, wireVars>>

IsrView ==
  /\ writer = "idle" /\ isr = "view"
  /\ view' = BulkSize(write_index, read_index)
  /\ IF view' = 0 THEN IsrReturn ELSE isr' = "start" /\ UNCHANGED dma_error_flags
  /\ UNCHANGED <<ringVars, dma_current_size, hisr, writer, error, wireVars>>

IsrStart ==
  /\ writer = "idle" /\ isr = "start"
  /\ dma_current_size' = view /\ StartStream(view)
  /\ IsrReturn
  /\ UNCHANGED <<buffer, producerVars, read_index, received, hisr, writer, error, view,
                 wireVars>>
------------------------------------------------------------------------------
Writing ==
  \/ \E items \in Offers : Write(items)
  \/ WriteCopy
  \/ WritePublish
  \/ WriteStart

Stream == DmaByte \/ DmaComplete \/ DmaError

Handler == IsrStop \/ IsrClear \/ IsrCheck \/ IsrView \/ IsrStart

UartNext == Writing \/ Stream \/ Handler

(***************************************************************************)
(* A call of write() and a handler run to their end, and an enabled stream *)
(* moves its bytes.  Nobody has to call write() again.                     *)
(***************************************************************************)
Fairness ==
  /\ WF_uartVars(WriteCopy \/ WritePublish \/ WriteStart)
  /\ WF_uartVars(DmaByte \/ DmaComplete)
  /\ WF_uartVars(Handler)

UartSpec == UartInit /\ [][UartNext]_uartVars /\ Fairness
------------------------------------------------------------------------------
UartTypeOK ==
  /\ TypeOK
  /\ dma_current_size \in 0 .. kCapacity /\ dma_error_flags \in BOOLEAN
  /\ hisr \in {"none", "complete", "error"}
  /\ writer \in {"idle", "copy", "start"}
  /\ isr \in {"none", "clear", "check", "view", "start"}
  /\ error \in BOOLEAN /\ view \in 0 .. kCapacity
  /\ next \in Item /\ sent \in Item /\ lost \in Item

(***************************************************************************)
(* The handler knows the chunk the stream is sending: between calls,       *)
(* dma_current_size_ is the stream's own count, and zero exactly when no   *)
(* chunk is in hand.                                                       *)
(***************************************************************************)
ChunkKnown ==
  isr = "none" /\ writer = "idle" => dma_current_size = span

(***************************************************************************)
(* Bytes leave in the order in which write() accepted them, each once; a   *)
(* transfer error alone makes a gap, of the bytes left of its chunk.       *)
(***************************************************************************)
WireInOrder ==
  [][Len(got') > Len(got) => got'[Len(got')] = (sent + 1 + lost) % NumBytes]_uartVars

(***************************************************************************)
(* No accepted byte is left behind: when nobody is at work on the buffer,  *)
(* neither a call, nor the handler, nor the stream, it is empty.  True as  *)
(* long as no message is longer than the buffer: write() then starts no    *)
(* DMA for the part it took.                                               *)
(***************************************************************************)
NothingStranded ==
  isr = "none" /\ writer = "idle" /\ mode = "idle" => write_index = read_index

\* Every accepted byte leaves the buffer, whatever the callers do.
AcceptedLeaves ==
  \A byte \in Item :
    (\E i \in DOMAIN contents : contents[i] = byte)
      ~> ~(\E i \in DOMAIN contents : contents[i] = byte)

(***************************************************************************)
(* "DMA already active" (uart.cpp:11): startDma() leaves an active chunk   *)
(* alone, so its size changes only to zero, when it is stopped.            *)
(***************************************************************************)
ActiveChunkKept ==
  [][Enabled /\ dma_current_size # 0 => dma_current_size' \in {dma_current_size, 0}]_uartVars
==============================================================================
