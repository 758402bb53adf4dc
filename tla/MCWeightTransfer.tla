-------------------------- MODULE MCWeightTransfer --------------------------
(***************************************************************************)
(* WeightTransfer to two engines, one of two GPUs and one of one.          *)
(***************************************************************************)
EXTENDS WeightTransfer

LeaderOf == <<1, 1, 3>>
=============================================================================
