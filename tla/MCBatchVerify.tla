---------------------------- MODULE MCBatchVerify ---------------------------
(* Model-checking instance of BatchVerify. *)
EXTENDS BatchVerify, TLC

\* TEE endpoints are interchangeable.
TeeSymmetry == Permutations(Tee)
=============================================================================
