----------------------------- MODULE MCShutdown -----------------------------
(***************************************************************************)
(* Shutdown needs no bounds: both trainers, and every point of a signal.   *)
(***************************************************************************)
EXTENDS Shutdown
=============================================================================
