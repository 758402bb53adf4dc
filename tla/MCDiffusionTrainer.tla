------------------------- MODULE MCDiffusionTrainer -------------------------
(***************************************************************************)
(* DiffusionTrainer with every residency policy.                           *)
(***************************************************************************)
EXTENDS DiffusionTrainer

AnyPolicy == SUBSET Roles
Defaults  == {{"train", "reward"}}   \* DEFAULT_RESIDENCY_POLICY
=============================================================================
