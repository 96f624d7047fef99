------------------------------ MODULE MCUartDma ------------------------------
(***************************************************************************)
(* UartDma with messages of up to MaxMessage consecutive bytes.            *)
(***************************************************************************)
EXTENDS UartDma

CONSTANT MaxMessage

MCItem == 0 .. NumBytes - 1

MCOffers ==
  {[i \in 1 .. n |-> (first + i - 1) % NumBytes] : first \in MCItem, n \in 0 .. MaxMessage}
==============================================================================
