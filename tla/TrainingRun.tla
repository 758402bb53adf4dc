----------------------------- MODULE TrainingRun -----------------------------
(***************************************************************************)
(* What a training run promises whoever reads its curve or resumes it: the *)
(* abstract specification that AsyncTrainer implements.                    *)
(*                                                                         *)
(* A run trains on NumRollouts batches of prompts, each prompt once, in an *)
(* order of its own choosing that never reaches past the next boundary: at *)
(* a boundary it has trained on exactly the prompts before it.  Only there *)
(* is a checkpoint taken, and a run resumed from one goes on as if nothing *)
(* had happened.                                                           *)
(***************************************************************************)
EXTENDS Integers, FiniteSetsExt

CONSTANTS
  BatchSize, NumRollouts

VARIABLES
  boundaries,     \* the steps at which the run stands still; the last is one
  step, trained,  \* batches and prompts trained on, from the first to here
  saved,          \* checkpoints taken, some perhaps not yet durable
  over            \* the run has ended

vars == <<boundaries, step, trained, saved, over>>

Scratch == [step |-> 0, trained |-> {}]
Window  == Min({b \in boundaries : b > step}) * BatchSize

Init ==
  /\ boundaries \subseteq 0 .. NumRollouts /\ NumRollouts \in boundaries
  /\ step = 0 /\ trained = {} /\ saved = {} /\ over = FALSE

Train ==
  /\ ~over /\ step < NumRollouts
  /\ step' = step + 1
  /\ trained \subseteq trained' /\ trained' \subseteq 0 .. Window - 1
  /\ Cardinality(trained' \ trained) = BatchSize
  /\ UNCHANGED <<boundaries, saved, over>>

\* A later checkpoint of the same step takes the place of the earlier.
Checkpoint ==
  /\ ~over /\ step \in boundaries
  /\ trained = 0 .. step * BatchSize - 1
  /\ saved' = {c \in saved : c.step # step} \cup {[step |-> step, trained |-> trained]}
  /\ UNCHANGED <<boundaries, step, trained, over>>

\* All batches are trained, or the run has failed.
End == ~over /\ over' = TRUE /\ UNCHANGED <<boundaries, step, trained, saved>>

\* Started again, the run goes on from a checkpoint; one may have been lost.
Resume ==
  /\ \E c \in saved \cup {Scratch} : step' = c.step /\ trained' = c.trained
  /\ saved' \subseteq saved
  /\ over' = FALSE
  /\ UNCHANGED boundaries

Next == Train \/ Checkpoint \/ End \/ Resume

Spec == Init /\ [][Next]_vars
=============================================================================
