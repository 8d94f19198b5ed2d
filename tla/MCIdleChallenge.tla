---- MODULE MCIdleChallenge ----
(* Model-checking instance of IdleChallenge. *)
EXTENDS IdleChallenge
====
