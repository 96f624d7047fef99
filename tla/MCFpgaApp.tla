------------------------------ MODULE MCFpgaApp ------------------------------
(***************************************************************************)
(* The application with a counter of two bits by two and a half, rings of  *)
(* two bytes and a greeting of two.                                        *)
(***************************************************************************)
EXTENDS FpgaApp

MCStartTimes == {1, 3}
=============================================================================
