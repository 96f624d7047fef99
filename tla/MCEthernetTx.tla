----------------------------- MODULE MCEthernetTx -----------------------------
(***************************************************************************)
(* EthernetTx on a ring of three descriptors.                              *)
(***************************************************************************)
EXTENDS EthernetTx
==============================================================================
