----------------------------- MODULE RingBuffer -----------------------------
(***************************************************************************)
(* RingBuffer<T, kCapacity> of Firmware/data_structures/ring_buffer.h,     *)
(* shared without a lock by one producer and one consumer.  Each side      *)
(* moves in its own steps: the load of the other side's index, the copy of *)
(* one item, the store of its own index.  A side's own index cannot change *)
(* under it, so loading that one is not a step.  The indices are           *)
(* std::atomic with sequentially consistent operations, hence the steps    *)
(* interleave; the slots are plain memory.                                 *)
(*                                                                         *)
(* isEmpty(), size(), available() and isFull() change nothing and appear   *)
(* where the mutating calls use them; dequeue(Span) and clear() are loops  *)
(* of dequeue(T&), a run of Dequeue ... ReleaseRead here.                  *)
(***************************************************************************)
EXTENDS RingIndex, Sequences

CONSTANTS
  Item,      \* values the buffer can hold
  Offers,    \* item sequences the producer may offer to enqueue(Span)
  NoItem     \* contents of a slot never written (T's default value)

ASSUME ItemAssumption == Offers \subseteq Seq(Item) /\ NoItem \notin Item

VARIABLES
  buffer,        \* buffer_
  write_index,   \* write_index_, stored by the producer alone
  read_index,    \* read_index_, stored by the consumer alone
  todo,          \* items the enqueue in progress decided to copy (<<>>: none in progress)
  copied,        \* how many of them it has copied
  whole,         \* num_to_enqueue == items.size()
  accepted,      \* value returned by the last enqueue
  mode,          \* the consumer's call in progress
  span,          \* number of items that call may read
  got,           \* items it has read
  received       \* items its last completed call handed over

producerVars == <<write_index, todo, copied, whole, accepted>>
consumerVars == <<read_index, mode, span, got, received>>
ringVars == <<buffer, producerVars, consumerVars>>

Modes == {"idle", "dequeue", "peek", "bulk"}

Init ==
  /\ buffer = [s \in Slots |-> NoItem]
  /\ write_index = 0 /\ read_index = 0
  /\ todo = <<>> /\ copied = 0 /\ whole = TRUE /\ accepted = TRUE
  /\ mode = "idle" /\ span = 0 /\ got = <<>> /\ received = <<>>
------------------------------------------------------------------------------
\* The producer.

\* enqueue(const T&): the full test, the only use of the consumer's index.
EnqueueItem(item) ==
  /\ todo = <<>>
  /\ IF IsFull(write_index, read_index)
       THEN accepted' = FALSE /\ UNCHANGED <<todo, whole>>
       ELSE todo' = <<item>> /\ whole' = TRUE /\ UNCHANGED accepted
  /\ UNCHANGED <<buffer, write_index, copied, consumerVars>>

\* enqueue(Span): how much of the offer fits is settled before the copy.
EnqueueSpan(items) ==
  /\ todo = <<>>
  /\ LET room == Available(write_index, read_index)
         num_to_enqueue == IF Len(items) <= room THEN Len(items) ELSE room
     IN  IF num_to_enqueue = 0
           THEN accepted' = (items = <<>>) /\ UNCHANGED <<todo, whole>>
           ELSE /\ todo' = SubSeq(items, 1, num_to_enqueue)
                /\ whole' = (num_to_enqueue = Len(items))
                /\ UNCHANGED accepted
  /\ UNCHANGED <<buffer, write_index, copied, consumerVars>>

\* One item of the copy, below the wrap or above it.
CopyItem ==
  /\ copied < Len(todo)
  /\ buffer' = [buffer EXCEPT ![Advance(write_index, copied)] = todo[copied + 1]]
  /\ copied' = copied + 1
  /\ UNCHANGED <<write_index, todo, whole, accepted, consumerVars>>

\* Mutant of PublishWrite: the index is stored before the last item is copied.
PublishEarly ==
  /\ todo # <<>> /\ copied + 1 >= Len(todo)
  /\ write_index' = Advance(write_index, Len(todo))
  /\ accepted' = whole
  /\ todo' = <<>> /\ copied' = 0
  /\ UNCHANGED <<buffer, whole, consumerVars>>

PublishWrite ==
  /\ todo # <<>> /\ copied = Len(todo)
  /\ write_index' = Advance(write_index, copied)
  /\ accepted' = whole
  /\ todo' = <<>> /\ copied' = 0
  /\ UNCHANGED <<buffer, whole, consumerVars>>
------------------------------------------------------------------------------
\* The consumer.

Begin(call, count) ==
  /\ mode' = call /\ span' = count /\ got' = <<>>
  /\ UNCHANGED <<buffer, producerVars, read_index, received>>

Miss ==
  /\ received' = <<>>
  /\ UNCHANGED <<buffer, producerVars, read_index, mode, span, got>>

\* dequeue(T&) and peek(T&): the empty test, the only use of the producer's index.
Dequeue ==
  /\ mode = "idle"
  /\ IF IsEmpty(write_index, read_index) THEN Miss ELSE Begin("dequeue", 1)

Peek ==
  /\ mode = "idle"
  /\ IF IsEmpty(write_index, read_index) THEN Miss ELSE Begin("peek", 1)

\* readBulk(): a view of the items up to the writer or to the end of the buffer.
ReadBulk ==
  /\ mode = "idle"
  /\ Begin("bulk", BulkSize(write_index, read_index))

\* One item is read through the view, or copied out by dequeue or peek.
\* Mutant of ReadItem: the copy starts one slot too far.
ReadNextItem ==
  /\ mode # "idle" /\ Len(got) < span
  /\ got' = Append(got, buffer[Advance(read_index, Len(got) + 1)])
  /\ UNCHANGED <<buffer, producerVars, read_index, mode, span, received>>

ReadItem ==
  /\ mode # "idle" /\ Len(got) < span
  /\ got' = Append(got, buffer[Advance(read_index, Len(got))])
  /\ UNCHANGED <<buffer, producerVars, read_index, mode, span, received>>

Finish ==
  /\ received' = got
  /\ mode' = "idle" /\ span' = 0 /\ got' = <<>>
  /\ UNCHANGED <<buffer, producerVars>>

FinishPeek == mode = "peek" /\ Len(got) = span /\ Finish /\ UNCHANGED read_index

ReleaseRead ==
  /\ mode = "dequeue" /\ Len(got) = span
  /\ read_index' = Increment(read_index)
  /\ Finish

\* discardBulk(count) of the items read through the view, not always all of it.
DiscardBulk ==
  /\ mode = "bulk"
  /\ read_index' = Advance(read_index, Len(got))
  /\ Finish
------------------------------------------------------------------------------
Producer ==
  \/ \E item \in Item : EnqueueItem(item)
  \/ \E items \in Offers : EnqueueSpan(items)
  \/ CopyItem
  \/ PublishWrite

Consumer ==
  \/ Dequeue
  \/ Peek
  \/ ReadBulk
  \/ ReadItem
  \/ FinishPeek
  \/ ReleaseRead
  \/ DiscardBulk

Next == Producer \/ Consumer

Spec == Init /\ [][Next]_ringVars
------------------------------------------------------------------------------
\* The slots a side may touch: the k slots from index on.
Run(index, k) == {Advance(index, i) : i \in 0 .. (k - 1)}

\* The items published and not yet released, oldest first.
contents ==
  [i \in 1 .. Size(write_index, read_index) |-> buffer[Advance(read_index, i - 1)]]

TypeOK ==
  /\ buffer \in [Slots -> Item \cup {NoItem}]
  /\ write_index \in Slots /\ read_index \in Slots
  /\ todo \in Seq(Item) /\ copied \in 0 .. Len(todo)
  /\ whole \in BOOLEAN /\ accepted \in BOOLEAN
  /\ mode \in Modes /\ span \in 0 .. kCapacity
  /\ got \in Seq(Item) /\ Len(got) <= span
  /\ received \in Seq(Item)

(***************************************************************************)
(* What each side relies on between its steps: the producer that the room  *)
(* it measured is still there and what it copied untouched, the consumer   *)
(* that the items it counted are still there and are items.  Inductive:    *)
(* SlotsDisjoint and ReadFaithful follow from it.                          *)
(***************************************************************************)
RoomHeld == Len(todo) <= Available(write_index, read_index)

CopiesInPlace ==
  \A i \in 1 .. copied : buffer[Advance(write_index, i - 1)] = todo[i]

SpanHeld ==
  /\ span <= Size(write_index, read_index)
  /\ mode = "idle" => span = 0
  /\ mode \in {"dequeue", "peek"} => span = 1

ItemsPresent ==
  \A i \in 1 .. Size(write_index, read_index) :
    buffer[Advance(read_index, i - 1)] \in Item

ReadsCurrent ==
  \A i \in 1 .. Len(got) : got[i] = buffer[Advance(read_index, i - 1)]

RingInv ==
  TypeOK /\ RoomHeld /\ CopiesInPlace /\ SpanHeld /\ ItemsPresent /\ ReadsCurrent

(***************************************************************************)
(* No data race on the plain slots: no slot an enqueue in progress still   *)
(* has to write or has written unpublished is one that the consumer's call *)
(* in progress may read, however far each side's knowledge of the other's  *)
(* index is out of date.                                                   *)
(***************************************************************************)
SlotsDisjoint ==
  Run(write_index, Len(todo)) \cap Run(read_index, span) = {}

(***************************************************************************)
(* What a dequeue, a peek or a bulk view has read is still the front of    *)
(* the queue when the call ends: no producer step changes a slot between   *)
(* the read and the release.                                               *)
(***************************************************************************)
ReadFaithful ==
  /\ span <= Len(contents)
  /\ got = SubSeq(contents, 1, Len(got))

(***************************************************************************)
(* The buffer implements the bounded queue: items come out once each and   *)
(* in order, and what a call answers is what the queue it found at its     *)
(* beginning says.  An enqueue takes all there is room for, tells whether  *)
(* that was the whole offer, and refuses outright only when the buffer is  *)
(* full; a dequeue, a peek or a view finds nothing only when there is      *)
(* nothing.                                                                *)
(***************************************************************************)
Fifo == INSTANCE BoundedFifo WITH queue <- contents, taken <- todo, view <- span

ImplementsFifo == Fifo!Spec
==============================================================================
