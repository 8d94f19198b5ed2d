---------------------------- MODULE MCTeeRecord -----------------------------
(* Instance of TeeRecord: two workers and two hosts, one announced with    *)
(* its scheme and the other with its port.                                 *)
EXTENDS TeeRecord

MCAnnounced == {[scheme |-> "https", name |-> "a", port |-> 0],
                [scheme |-> "none", name |-> "b", port |-> 8443]}

MCRole == [t \in Tee |-> IF t = "t1" THEN "marker" ELSE "full"]
=============================================================================
