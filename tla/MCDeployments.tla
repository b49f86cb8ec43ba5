--------------------------- MODULE MCDeployments ---------------------------
(***************************************************************************)
(* Deployments with one game, two banks and one session.                   *)
(***************************************************************************)
EXTENDS Deployments
=============================================================================
