------------------------------ MODULE RingIndex ------------------------------
(***************************************************************************)
(* The index arithmetic of RingBuffer<T, kCapacity>                        *)
(* (Firmware/data_structures/ring_buffer.h).  The buffer has one slot more *)
(* than its capacity, so that equal indices mean empty and never full.     *)
(* The operators take the two indices as the caller has loaded them: in    *)
(* the class they are atomics that the other side may move meanwhile.      *)
(***************************************************************************)
EXTENDS Naturals

CONSTANT kCapacity  \* items the buffer can hold

\* static_assert(kCapacity > 0U)
ASSUME CapacityAssumption == kCapacity \in Nat \ {0}

NumSlots == kCapacity + 1

Slots == 0 .. kCapacity

\* An index moved by n <= NumSlots places, wrapped by one subtraction.
Advance(index, n) ==
  IF index + n >= NumSlots THEN index + n - NumSlots ELSE index + n

Increment(index) == IF index = kCapacity THEN 0 ELSE index + 1

IsEmpty(writer, reader) == writer = reader

IsFull(writer, reader) == Increment(writer) = reader

Size(writer, reader) ==
  IF writer >= reader THEN writer - reader ELSE (NumSlots - reader) + writer

\* Mutant of Available: the spare slot is counted as free.
AvailableAll(writer, reader) == NumSlots - Size(writer, reader)

Available(writer, reader) == NumSlots - 1 - Size(writer, reader)

\* Mutant of BulkSize: the view runs over the spare slot at the wrap.
BulkSizeWhole(writer, reader) ==
  IF writer > reader THEN writer - reader ELSE NumSlots - reader

\* The length of the run of items that starts at reader and does not wrap.
BulkSize(writer, reader) ==
  (IF writer >= reader THEN writer ELSE NumSlots) - reader
==============================================================================
