--------------------------- MODULE MCChallengeMgt ---------------------------
(* Model-checking instance of ChallengeMgt. *)
EXTENDS ChallengeMgt
=============================================================================
