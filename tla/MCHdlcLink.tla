------------------------------ MODULE MCHdlcLink ------------------------------
(* Two services: a command, which fits in one read when it needs no stuffing, *)
(* and a segment, which fills the buffer and needs two or three reads.        *)
EXTENDS HdlcLink, TLC

MCXor == [byte \in {"7E", "7D", "5E", "5D"} |->
            CASE byte = "7E" -> "5E" [] byte = "5E" -> "7E"
              [] byte = "7D" -> "5D" [] byte = "5D" -> "7D"]

MCPayloads == {<<"5E">>, <<"5D", "7E", "5E">>}
MCMinLength == "5E" :> 1 @@ "5D" :> 2
MCReadLength == "5E" :> 1 @@ "5D" :> 3
MCMaxFaults == TRUE :> 2 @@ FALSE :> 0
==============================================================================
