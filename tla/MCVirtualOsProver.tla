------------------------- MODULE MCVirtualOsProver -------------------------
(***************************************************************************)
(* Two jobs on one port and one output path: a CLI job and one of any kind.*)
(* An answer may be without facts and messages: the files then stay.       *)
(***************************************************************************)
EXTENDS VirtualOsProver

CONSTANTS a, b

MCKinds == {k \in [Jobs -> {"cli", "script", "remote"}] : k[a] = "cli"}
MCOutput == [j \in Jobs |-> "virtual_os"]
MCAnswers == {{"proof", "facts", "messages"}, {"proof"}}
=============================================================================
