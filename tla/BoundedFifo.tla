----------------------------- MODULE BoundedFifo -----------------------------
(***************************************************************************)
(* What RingBuffer promises its one producer and its one consumer: a first *)
(* in, first out queue of at most kCapacity items.  A call has a beginning *)
(* and an end, between which the other side may move; what it answers is   *)
(* settled by the queue it found at its beginning, and the queue changes   *)
(* at its end, in one instant.                                             *)
(***************************************************************************)
EXTENDS Naturals, Sequences

CONSTANTS Item, Offers, kCapacity

VARIABLES
  queue,      \* the items held, oldest first
  taken,      \* the items the producer's call is about to add (<<>>: no call)
  whole,      \* whether these are all it was offered
  accepted,   \* the answer to the producer's last completed call
  mode,       \* the consumer's call
  view,       \* how many items it has found
  received    \* the items the consumer's last completed call handed it

putVars == <<taken, whole, accepted>>
getVars == <<mode, view, received>>
fifoVars == <<queue, putVars, getVars>>

Init ==
  /\ queue = <<>>
  /\ taken = <<>> /\ whole = TRUE /\ accepted = TRUE
  /\ mode = "idle" /\ view = 0 /\ received = <<>>
------------------------------------------------------------------------------
(***************************************************************************)
(* The producer offers some items, and as many of them are taken as there  *)
(* is room for.  It is told no if this is not all of them, and at once if  *)
(* there is no room at all.                                                *)
(***************************************************************************)
Room == kCapacity - Len(queue)

Offer(items) ==
  /\ taken = <<>>
  /\ IF items = <<>> \/ Room = 0
       THEN accepted' = (items = <<>>) /\ UNCHANGED <<taken, whole>>
       ELSE /\ taken' = SubSeq(items, 1, IF Len(items) <= Room THEN Len(items) ELSE Room)
            /\ whole' = (Len(items) <= Room)
            /\ UNCHANGED accepted
  /\ UNCHANGED <<queue, getVars>>

Put ==
  /\ taken # <<>>
  /\ queue' = queue \o taken
  /\ accepted' = whole
  /\ taken' = <<>>
  /\ UNCHANGED <<whole, getVars>>
------------------------------------------------------------------------------
(***************************************************************************)
(* The consumer asks for the oldest item, to have it or to look at it, and *)
(* misses only when there is none; or it asks for a view of the oldest     *)
(* items, which is empty only when the queue is, and removes as many of    *)
(* them as it likes.                                                       *)
(***************************************************************************)
Miss ==
  /\ mode = "idle" /\ queue = <<>>
  /\ received' = <<>>
  /\ UNCHANGED <<queue, putVars, mode, view>>

Begin(call, count) ==
  /\ mode = "idle"
  /\ mode' = call /\ view' = count
  /\ UNCHANGED <<queue, putVars, received>>

Ask == queue # <<>> /\ \E call \in {"dequeue", "peek"} : Begin(call, 1)

View ==
  \E count \in 0 .. Len(queue) : (count = 0 <=> queue = <<>>) /\ Begin("bulk", count)

HandOver(count) ==
  /\ received' = SubSeq(queue, 1, count)
  /\ mode' = "idle" /\ view' = 0
  /\ UNCHANGED putVars

Remove(count) == HandOver(count) /\ queue' = SubSeq(queue, count + 1, Len(queue))

Look == mode = "peek" /\ HandOver(1) /\ UNCHANGED queue

Take == mode = "dequeue" /\ Remove(1)

TakeSome == mode = "bulk" /\ \E count \in 0 .. view : Remove(count)
------------------------------------------------------------------------------
Next ==
  \/ \E items \in Offers \cup {<<item>> : item \in Item} : Offer(items)
  \/ Put
  \/ Miss
  \/ Ask
  \/ View
  \/ Look
  \/ Take
  \/ TakeSome

Spec == Init /\ [][Next]_fifoVars
==============================================================================
