-------------------------- MODULE MCRolloutManager --------------------------
(***************************************************************************)
(* RolloutManager on two prompts of two siblings each.                     *)
(***************************************************************************)
EXTENDS RolloutManager
=============================================================================
