----------------------------- MODULE MCIdleSpace -----------------------------
(* Instances of IdleSpace for TLC. *)
EXTENDS IdleSpace
=============================================================================
