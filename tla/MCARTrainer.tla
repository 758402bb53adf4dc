----------------------------- MODULE MCARTrainer -----------------------------
(***************************************************************************)
(* ARTrainer in every layout.                                              *)
(***************************************************************************)
EXTENDS ARTrainer
=============================================================================
