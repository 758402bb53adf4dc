-------------------------- MODULE MCManagedReward --------------------------
(***************************************************************************)
(* ManagedReward on calls of two chunks.                                   *)
(***************************************************************************)
EXTENDS ManagedReward
=============================================================================
