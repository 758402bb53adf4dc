--------------------------- MODULE MCRolloutPool ---------------------------
(***************************************************************************)
(* RolloutPool on two launchers of different capacities.                   *)
(***************************************************************************)
EXTENDS RolloutPool, TLC

TwoLaunchers == 0 :> 1 @@ 1 :> 2
=============================================================================
