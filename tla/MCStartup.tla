----------------------------- MODULE MCStartup -----------------------------
(* Instance of Startup: three configurations and one without an earnings   *)
(* account, two TEEs, half TiB units.                                      *)
EXTENDS Startup

In(way, space, port, earnings, endpoint, assigned, tees) ==
    [way |-> way, space |-> space, port |-> port, earnings |-> earnings,
     endpoint |-> endpoint, assigned |-> assigned, tees |-> tees]

MCInput == {In("start", 2, 70000, "a1", "", FALSE, {}),
            In("start", 3, 8001, "a2", "e1", FALSE, {}),
            In("start", 2, 8001, "", "e1", FALSE, {}),
            In("run", 4, 8001, "a1", "e2", TRUE, {"t1"})}

\* The operator of a registered miner presses Enter at the endpoint's prompt.
MCSkip == {In("start", 2, 8001, "a1", "", FALSE, {})}
=============================================================================
