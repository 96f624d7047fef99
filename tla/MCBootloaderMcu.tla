--------------------------- MODULE MCBootloaderMcu ---------------------------
(***************************************************************************)
(* BootloaderMcu with addresses of six bits and two regions.  Like the     *)
(* board's flash, region 1 is bootable and has no interface, and like the  *)
(* words the board's table may hold it goes round the end of the address   *)
(* space.  Region 2 ends six bytes before that end.                        *)
(***************************************************************************)
EXTENDS BootloaderMcu

MCRegions ==
  << [start_address |-> 4, size_bytes |-> 62, bootable |-> TRUE, interface |-> FALSE],
     [start_address |-> 44, size_bytes |-> 14, bootable |-> FALSE, interface |-> TRUE] >>

\* Word 6 is in region 1 alone, word 28 has the byte address of word 12, and word 63 is
\* UINT32_MAX.  From word 12 a transfer of 2 words fits region 2, one of 3 does not, and one
\* of 4 goes round the end.
MCStartWords == {6, 12, 28, 63}
MCSizeWords == {0, 2, 3, 4}
==============================================================================
