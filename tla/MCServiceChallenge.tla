---- MODULE MCServiceChallenge ----
(* Model-checking instance of ServiceChallenge. *)
EXTENDS ServiceChallenge
====
