---------------------------- MODULE MCRingBuffer ----------------------------
(***************************************************************************)
(* RingBuffer with two kinds of item.  Every sequence of up to one item    *)
(* more than the capacity may be offered: the empty offer, one that fits,  *)
(* one that fits in part and one that could never fit.                     *)
(***************************************************************************)
EXTENDS RingBuffer

MCOffers == UNION {[1 .. n -> Item] : n \in 0 .. (kCapacity + 1)}
==============================================================================
