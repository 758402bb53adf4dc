--------------------------- MODULE MCAsyncTrainer --------------------------
(***************************************************************************)
(* AsyncTrainer on batches of two prompts, configured as AsyncARTrainer,   *)
(* with an engine that suspends started work, and as AsyncDiffusionTrainer *)
(* may be.                                                                 *)
(***************************************************************************)
EXTENDS AsyncTrainer

\* Three batches in flight and a publication every other batch, so that a carry
\* spans a publication; nothing else stands in the way.
Streaming ==
  [maxInflight |-> 3, syncInterval |-> 2, maxStaleness |-> 3, updates |-> 1,
   evalInterval |-> 0, saveInterval |-> 0, singleGeneration |-> FALSE, canSuspend |-> TRUE]

\* A batch is one generation, so one batch is in flight.
Diffusion ==
  [maxInflight |-> 1, syncInterval |-> 2, maxStaleness |-> 1, updates |-> 2,
   evalInterval |-> 3, saveInterval |-> 0, singleGeneration |-> TRUE, canSuspend |-> FALSE]

\* Checkpoints every other batch and an evaluation every third, which interleave.
Saving == [Streaming EXCEPT !.syncInterval = 1, !.maxStaleness = 2,
                            !.evalInterval = 3, !.saveInterval = 2]
SavingDiffusion == [Diffusion EXCEPT !.saveInterval = 2]

Undisturbed == {Streaming, Diffusion}
Checkpointed == {Saving, SavingDiffusion}
=============================================================================
