----------------------------- MODULE MCFragments -----------------------------
(* Instances of Fragments for TLC: file 2 is stored already and shares a       *)
(* fragment with file 1; z is the zero fragment.                               *)
EXTENDS Fragments
MCColumn == <<<<{"a", "z"}, {"z"}>>, <<{"a"}, {"z"}>>>>
MCUploads == {<<1, "a">>, <<1, "z">>}
MCRequests == {<<1, "a">>}
=============================================================================
