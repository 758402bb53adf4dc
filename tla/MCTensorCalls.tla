--------------------------- MODULE MCTensorCalls ---------------------------
(***************************************************************************)
(* TensorCalls on two devices of two slots each.                           *)
(***************************************************************************)
EXTENDS TensorCalls
=============================================================================
