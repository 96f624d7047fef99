------------------------------ MODULE ObjectPool ------------------------------
(***************************************************************************)
(* ObjectPool<T, kNumItems> of Firmware/data_structures/object_pool.h: a   *)
(* list of free chunks, taken and given back at its head, each in one      *)
(* critical section.  num_items_free_ is the length of the list.  A Handle *)
(* is a chunk or NoChunk, the empty handle; it is moved, never copied, and *)
(* gives its chunk back when it is reset, overwritten or destroyed.        *)
(***************************************************************************)
EXTENDS Naturals, Sequences

CONSTANTS kNumItems, NoChunk

Chunk == 0 .. kNumItems - 1

ASSUME PoolAssumption == kNumItems \in Nat \ {0} /\ NoChunk \notin Chunk

Handle == Chunk \cup {NoChunk}

VARIABLE free_list  \* the free chunks, free_list_head_ first

\* The constructor pushes the chunks one by one.
PoolInit == free_list = [i \in 1 .. kNumItems |-> kNumItems - i]

Exhausted == free_list = <<>>

\* What allocate() hands out: the head, or the empty handle.
Allocated == IF Exhausted THEN NoChunk ELSE Head(free_list)

\* The list once allocate() has returned.
AfterAllocate == IF Exhausted THEN free_list ELSE Tail(free_list)

\* Mutant of AfterFree: the chunk is dropped on the floor.
AfterFreeLost(handle) == free_list

\* Mutant of AfterFree: the deleter frees what an empty handle points at.
AfterFreeAny(handle) == <<handle>> \o free_list

\* The list once a handle has let go of what it held.
AfterFree(handle) == IF handle = NoChunk THEN free_list ELSE <<handle>> \o free_list
==============================================================================
