--------------------------- MODULE MCProvisioning ---------------------------
(***************************************************************************)
(* Two builds of the CLI: the release of the second is complete, that of   *)
(* the first has the runner under one name.                                *)
(***************************************************************************)
EXTENDS Provisioning

CONSTANTS v1, v2

MCRequests ==
    {[how |-> "prebuilt", stock |-> FALSE, skip |-> {}]} \cup
    [how : {"source"}, stock : {FALSE}, skip : {{}, {"prover"}, {"runner"}}] \cup
    [how : {"source"}, stock : {TRUE}, skip : {{}}]
MCShips == [v \in Versions |-> IF v = v1 THEN Shipped \ {"alias"} ELSE Shipped]
=============================================================================
