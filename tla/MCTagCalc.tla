----------------------------- MODULE MCTagCalc ------------------------------
(***************************************************************************)
(* TLC instances of TagCalc.                                               *)
(***************************************************************************)
EXTENDS TagCalc
=============================================================================
