--------------------------- MODULE MCExtendedTimer ---------------------------
(***************************************************************************)
(* ExtendedTimer on the devices the configuration names.                   *)
(***************************************************************************)
EXTENDS ExtendedTimer
==============================================================================
