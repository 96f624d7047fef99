------------------------------ MODULE EchoLine ------------------------------
(***************************************************************************)
(* What the echo of the FPGA application promises: bytes go back in the    *)
(* order in which they came, and one is missing only because the host      *)
(* outran the program: the byte was still in the receiver when the next    *)
(* one came, or there were already Capacity bytes before it.               *)
(***************************************************************************)
EXTENDS Naturals, Sequences, SequencesExt

CONSTANTS Byte, Capacity

VARIABLE line   \* the bytes received and not yet sent back, oldest first

LineInit == line = <<>>

Arrive(b) == line' = Append(line, b)

Outrun(b) == line # <<>> /\ line' = Append(Front(line), b)

Lose(i) == i > Capacity /\ line' = RemoveAt(line, i)

Leave == line # <<>> /\ line' = Tail(line)

LineNext ==
    \/ \E b \in Byte : Arrive(b) \/ Outrun(b)
    \/ \E i \in DOMAIN line : Lose(i)
    \/ Leave

LineSpec == LineInit /\ [][LineNext]_line
=============================================================================
