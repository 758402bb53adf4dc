---------------------------- MODULE AsyncTrainer ----------------------------
(***************************************************************************)
(* The asynchronous batch loop that AsyncARTrainer and AsyncDiffusion-     *)
(* Trainer share: src/unirl/trainer/async_rollout.py, over the manager of  *)
(* src/unirl/rollout/manager/rollout.py.                                   *)
(*                                                                         *)
(* The driver admits prompts, collects whole batches of completed ones,    *)
(* trains on them and now and then publishes the weights to the engines,   *)
(* which go on generating all the while.  The pool's own two threads are   *)
(* the subject of RolloutPool; here a task is queued, out on an engine, or *)
(* back.  A prompt is its number in the data source's order; generation g  *)
(* is the g-th batch of prompts drawn from it.                             *)
(***************************************************************************)
EXTENDS Integers, Sequences, FiniteSetsExt

CONSTANTS
  BatchSize,    \* prompts in a trained batch
  NumRollouts,  \* batches to train
  Slots,        \* rollouts the engines run at once
  Recipes,      \* how the trainer is configured
  MaxCrashes    \* bound of the model: crashes

\* The checks of the two trainers' constructors.
Accepted(c) ==
  /\ {c.maxInflight, c.syncInterval, c.updates} \subseteq Nat \ {0}
  /\ {c.evalInterval, c.saveInterval} \subseteq Nat
  /\ c.maxStaleness \in Nat /\ c.maxStaleness >= c.syncInterval - 1
  /\ {c.singleGeneration, c.canSuspend} \subseteq BOOLEAN
  /\ c.singleGeneration => c.maxInflight = 1 /\ c.maxStaleness = c.syncInterval - 1

ASSUME TrainerAssumption ==
  /\ {BatchSize, Slots} \subseteq Nat \ {0} /\ {NumRollouts, MaxCrashes} \subseteq Nat
  /\ \A c \in Recipes : Accepted(c)

VARIABLES
  \* the driver
  recipe,           \* how it is configured
  pc,               \* where it stands
  initial,          \* it has not entered the loop yet
  resumed,          \* it started from a checkpoint
  step,             \* batches trained
  trainVersion, publishedVersion,
  sinceSync,        \* batches trained since the last publication
  nextGeneration,
  batch,            \* the groups collected and not yet trained
  carried,          \* the tasks a quiesce took back from the manager
  fault,            \* why the loop ended early, or "none"
  \* the manager and its engines
  queued, out,      \* tasks waiting, and running on an engine
  ready,            \* completed groups, in order of completion
  broken,           \* a rollout has failed
  \* stable storage
  saving,           \* checkpoints being written
  checkpoints,
  crashes,
  trained           \* history: the prompts trained on, from step 0 to here

loopVars    == <<recipe, initial, resumed, step, trainVersion>>
syncVars    == <<publishedVersion, sinceSync, carried>>
managerVars == <<queued, out, ready>>
storeVars   == <<saving, checkpoints, crashes, trained>>
vars == <<pc, loopVars, syncVars, nextGeneration, batch, fault, managerVars,
          broken, storeVars>>

MaxInflight      == recipe.maxInflight       \* batches' worth of prompts admitted at once
SyncInterval     == recipe.syncInterval      \* trained batches per publication
MaxStaleness     == recipe.maxStaleness      \* batches a rollout may lag when it is trained
UpdatesPerBatch  == recipe.updates           \* optimizer updates per batch, at most
EvalInterval     == recipe.evalInterval      \* batches per evaluation, 0: never
SaveInterval     == recipe.saveInterval      \* batches per checkpoint, 0: never
SingleGeneration == recipe.singleGeneration  \* a batch must be of one generation (diffusion)
CanSuspend       == recipe.canSuspend        \* the engine suspends work when told to stop

Elements(seq) == {seq[i] : i \in DOMAIN seq}
Budget == MaxStaleness * UpdatesPerBatch

\* A rollout: its prompt, the weight versions its turns were generated with,
\* and whether it was suspended half-way.
NewTask(p) == [prompt |-> p, versions |-> {}, suspended |-> FALSE]

Live  == queued # <<>> \/ out # {}
Empty == ~Live /\ ready = <<>>

\* Faulty variant: completed groups do not count.
Inflight == Len(queued) + Cardinality(out)

Outstanding == Len(queued) + Cardinality(out) + Len(ready)

\* keep_within_lag: the filter on completed groups and on carried tasks.
WithinLag(r) == \A v \in r.versions : trainVersion - v <= Budget
Filtered(seq) ==
  LET kept[i \in 0 .. Len(seq)] ==
        IF i = 0 THEN <<>>
        ELSE IF WithinLag(seq[i]) THEN Append(kept[i - 1], seq[i]) ELSE kept[i - 1]
  IN  kept[Len(seq)]

Init ==
  /\ recipe \in Recipes
  /\ pc = "setup" /\ initial = TRUE /\ resumed = FALSE
  /\ step = 0 /\ trainVersion = 0 /\ publishedVersion = 0 /\ sinceSync = 0
  /\ nextGeneration = 0 /\ batch = <<>> /\ carried = <<>> /\ fault = "none"
  /\ queued = <<>> /\ out = {} /\ ready = <<>> /\ broken = FALSE
  /\ saving = {} /\ checkpoints = {} /\ crashes = 0 /\ trained = {}

-----------------------------------------------------------------------------
(***************************************************************************)
(* Admission.                                                              *)
(***************************************************************************)

\* The next multiple of the interval after n.
NextMultiple(n, interval) == (n \div interval + 1) * interval

\* next_hard_boundary: the manager must be empty when that many are trained.
HardBoundary(n) ==
  Min({NumRollouts} \cup {NextMultiple(n, i) : i \in {EvalInterval, SaveInterval} \ {0}})

\* Faulty variant: one batch too many.
FreshnessOffByOne(since) == Max({0, MaxStaleness - since + 2})

\* Batches that may be outstanding so that the last is not too old when trained.
FreshnessBatches(since) == Max({0, MaxStaleness - since + 1})

\* boundary_launch_prompts.
LaunchPrompts(done, since) ==
  LET remaining == Max({0, HardBoundary(step) - done})
      allowed   == Min({FreshnessBatches(since), remaining}) * BatchSize
  IN  Max({0, Min({MaxInflight * BatchSize - Outstanding, allowed - Outstanding})})

\* _admit_prompts: draw whole generations from the data source and submit them.
Admit(done, since) ==
  LET n == LaunchPrompts(done, since)
  IN  /\ queued' = queued \o
           [i \in 1 .. n |-> NewTask(nextGeneration * BatchSize + i - 1)]
      /\ nextGeneration' = nextGeneration + n \div BatchSize

\* An exception ends the loop; before the loop nothing closes the manager.
Raise(why) ==
  /\ fault' = why
  /\ pc' = IF initial THEN "closed" ELSE "closing"
  /\ UNCHANGED <<loopVars, syncVars, nextGeneration, batch, managerVars, broken,
                 storeVars>>

\* The loop goes on if its own check passes, and raises otherwise.
Checked(check, action) == IF check THEN action ELSE Raise("check")

BatchAligned == Outstanding % BatchSize = 0

AdmitFirst ==
  /\ Admit(step, sinceSync)
  /\ pc' = "collect"
  /\ UNCHANGED <<loopVars, syncVars, batch, fault, out, ready, broken, storeVars>>

EndLoop ==
  /\ pc' = "closing"
  /\ UNCHANGED <<loopVars, syncVars, nextGeneration, batch, fault, managerVars, broken,
                 storeVars>>

\* The loop's head: the run is over, or the next batch's prompts are admitted.
Top ==
  /\ pc = "top"
  /\ IF step >= NumRollouts THEN EndLoop ELSE Checked(BatchAligned, AdmitFirst)

AdmitNext ==
  /\ Admit(step + 1, sinceSync + 1)
  /\ pc' = "train"
  /\ UNCHANGED <<loopVars, syncVars, batch, fault, out, ready, broken, storeVars>>

\* The batch is taken: the next prompts are admitted before it is trained on.
Refill == pc = "refill" /\ Checked(BatchAligned, AdmitNext)

-----------------------------------------------------------------------------
(***************************************************************************)
(* Collecting and training a batch.                                        *)
(***************************************************************************)
Versions(groups) == UNION {groups[i].versions : i \in DOMAIN groups}
Generations(groups) == {groups[i].prompt \div BatchSize : i \in DOMAIN groups}

\* combine_rollout_prompts accepts the batch.
Combines(groups) ==
  /\ Cardinality(Versions(groups)) = 1
  /\ SingleGeneration => Cardinality(Generations(groups)) = 1

Take(groups, rest) ==
  /\ batch' = groups
  /\ ready' = rest
  /\ pc' = "refill"
  /\ UNCHANGED <<loopVars, syncVars, nextGeneration, fault, queued, out, broken,
                 storeVars>>

\* With too few groups collect waits, and raises when there is nothing to wait for.
Collect ==
  /\ pc = "collect" /\ ~broken
  /\ LET kept  == Filtered(ready)
         taken == SubSeq(kept, 1, BatchSize)
         rest  == SubSeq(kept, BatchSize + 1, Len(kept))
     IN  IF Len(kept) >= BatchSize
         THEN Checked(Combines(taken), Take(taken, rest))
         ELSE ~Live /\ Raise("check")

\* An update whose gradient is not finite is skipped.
Update ==
  /\ \E updates \in 0 .. UpdatesPerBatch : trainVersion' = trainVersion + updates
  /\ step' = step + 1
  /\ sinceSync' = sinceSync + 1
  /\ trained' = trained \cup {batch[i].prompt : i \in DOMAIN batch}
  /\ batch' = <<>>
  /\ pc' = "boundary"
  /\ UNCHANGED <<recipe, initial, resumed, publishedVersion, carried, nextGeneration, fault,
                 managerVars, broken, saving, checkpoints, crashes>>

\* _advantage_and_train, after rollout_version_metrics has seen the versions.
Train ==
  /\ pc = "train"
  /\ Checked(\A v \in Versions(batch) : v <= trainVersion, Update)

-----------------------------------------------------------------------------
(***************************************************************************)
(* Boundaries: _sync_rollout, evaluation and checkpoints.                  *)
(***************************************************************************)
EvalDue == EvalInterval > 0 /\ step % EvalInterval = 0
SaveDue == SaveInterval > 0 /\ (step % SaveInterval = 0 \/ step >= NumRollouts)
SyncDue == step < NumRollouts /\ sinceSync >= SyncInterval
RequireEmpty == initial \/ EvalDue \/ SaveDue

SyncCalled ==
  \/ pc = "setup" /\ (resumed \/ EvalInterval > 0)
  \/ pc = "boundary" /\ (EvalDue \/ SaveDue \/ SyncDue)
NeedsPublish == pc = "setup" \/ publishedVersion # trainVersion

NoSync ==
  /\ pc \in {"setup", "boundary"} /\ ~SyncCalled
  /\ pc' = "after"
  /\ UNCHANGED <<loopVars, syncVars, nextGeneration, batch, fault, managerVars,
                 broken, storeVars>>

CountAfresh ==
  /\ sinceSync' = 0
  /\ pc' = "after"
  /\ UNCHANGED <<loopVars, publishedVersion, carried, nextGeneration, batch, fault,
                 managerVars, broken, storeVars>>

NothingToPublish ==
  /\ SyncCalled /\ ~NeedsPublish
  /\ Checked(RequireEmpty => Empty, CountAfresh)

\* quiesce, first half: pause takes the queue, then the engines are told to stop.
Quiesce ==
  /\ SyncCalled /\ NeedsPublish
  /\ carried' = queued
  /\ queued' = <<>>
  /\ pc' = "drain"
  /\ UNCHANGED <<loopVars, publishedVersion, sinceSync, nextGeneration, batch, fault,
                 out, ready, broken, storeVars>>

\* Faulty variant: drain waits for the queue that pause has taken away.
DrainWaitsForCarried == out = {} /\ carried = <<>>

\* What drain waits for.
Drained == out = {}

\* quiesce, second half: what came back is filtered, and so are the tails.
QuiesceReturns ==
  /\ pc = "drain" /\ ~broken
  /\ Drained
  /\ ready' = Filtered(ready)
  /\ carried' = Filtered(carried)
  /\ pc' = "align"
  /\ UNCHANGED <<loopVars, publishedVersion, sinceSync, nextGeneration, batch, fault,
                 queued, out, broken, storeVars>>

\* finish: run these tasks to the end while nothing else runs.
Finish(tasks, rest, next) ==
  /\ queued' = tasks
  /\ carried' = rest
  /\ pc' = next
  /\ UNCHANGED <<loopVars, publishedVersion, sinceSync, nextGeneration, batch, fault,
                 out, ready, broken, storeVars>>

\* Faulty variant: half-generated rollouts are carried over the publication.
NothingStarted == FALSE

\* A carried rollout is half-generated.
Started == \E r \in Elements(carried) : r.versions # {} \/ r.suspended

\* A publication must not split a batch: with half-generated rollouts, all are
\* finished; otherwise only a prefix is (FinishPrefix).
Align ==
  /\ pc = "align"
  /\ Checked(RequireEmpty => carried = <<>> /\ Empty,
             IF RequireEmpty THEN Finish(<<>>, carried, "publish")
             ELSE IF Started THEN Finish(carried, <<>>, "finishStarted")
             ELSE Finish(<<>>, carried, "prefix"))

\* Faulty variant: no prefix is finished.
NoPrefix == 0

\* How many pristine tasks must still be finished to complete the last batch.
PromptsToFinish == (-Len(ready)) % BatchSize

FinishPrefix ==
  /\ pc = "prefix"
  /\ Checked(Len(carried) >= PromptsToFinish,
             Finish(SubSeq(carried, 1, PromptsToFinish),
                    SubSeq(carried, PromptsToFinish + 1, Len(carried)),
                    "finishPrefix"))

FinishReturns ==
  /\ pc \in {"finishStarted", "finishPrefix"} /\ ~broken
  /\ ~Live
  /\ ready' = Filtered(ready)
  /\ pc' = IF pc = "finishStarted" THEN "prefix" ELSE "publish"
  /\ UNCHANGED <<loopVars, syncVars, nextGeneration, batch, fault, queued, out,
                 broken, storeVars>>

\* Faulty variant: the carried tasks are not submitted again.
ForgetCarried == queued' = <<>>

Resubmit == queued' = carried

SyncWeights ==
  /\ publishedVersion' = trainVersion
  /\ Resubmit
  /\ carried' = <<>>
  /\ sinceSync' = 0
  /\ pc' = "after"
  /\ UNCHANGED <<loopVars, nextGeneration, batch, fault, out, ready, broken,
                 storeVars>>

\* sync_weights, once the carry is aligned, then submit(carried).
Publish ==
  /\ pc = "publish"
  /\ Checked(~Live /\ Len(ready) % BatchSize = 0 /\ trainVersion >= publishedVersion,
             SyncWeights)

PassBoundary ==
  /\ pc' = IF ~initial /\ SaveDue THEN "save" ELSE "top"
  /\ initial' = FALSE
  /\ UNCHANGED <<recipe, resumed, step, trainVersion, syncVars, nextGeneration, batch, fault,
                 managerVars, broken, storeVars>>

\* Evaluation only reads; a checkpoint that is due is saved next.
After ==
  /\ pc = "after"
  /\ Checked(initial \/ step < NumRollouts \/ Empty, PassBoundary)

\* maybe_save_checkpoint: the previous write is awaited, a new one begins, in
\* the place of an older checkpoint of that step if there is one.
Save ==
  /\ pc = "save" /\ saving = {}
  /\ saving' = {[step |-> step, version |-> trainVersion, trained |-> trained]}
  /\ checkpoints' = {c \in checkpoints : c.step # step}
  /\ pc' = "top"
  /\ UNCHANGED <<loopVars, syncVars, nextGeneration, batch, fault, managerVars,
                 broken, crashes, trained>>

SaveCompletes ==
  /\ saving # {}
  /\ checkpoints' = checkpoints \cup saving
  /\ saving' = {}
  /\ UNCHANGED <<pc, loopVars, syncVars, nextGeneration, batch, fault, managerVars,
                 broken, crashes, trained>>

-----------------------------------------------------------------------------
(***************************************************************************)
(* The engines, behind the pool.                                           *)
(***************************************************************************)
Launch ==
  /\ ~broken /\ queued # <<>> /\ Cardinality(out) < Slots
  /\ out' = out \cup {Head(queued)}
  /\ queued' = Tail(queued)
  /\ UNCHANGED <<pc, loopVars, syncVars, nextGeneration, batch, fault, ready, broken,
                 storeVars>>

\* What a rollout generates is stamped with the version last published.
Stamped(r) == r.versions \cup {publishedVersion}

Complete(r) ==
  /\ ~broken
  /\ r \in out
  /\ out' = out \ {r}
  /\ ready' = Append(ready, [prompt |-> r.prompt, versions |-> Stamped(r)])
  /\ UNCHANGED <<pc, loopVars, syncVars, nextGeneration, batch, fault, queued, broken,
                 storeVars>>

\* Told to stop, an engine returns a rollout between two turns.
Suspend(r) ==
  /\ CanSuspend /\ pc = "drain" /\ ~broken
  /\ r \in out
  /\ out' = out \ {r}
  /\ \E vs \in {r.versions, Stamped(r)} :
       carried' = Append(carried, [r EXCEPT !.versions = vs, !.suspended = TRUE])
  /\ UNCHANGED <<pc, loopVars, publishedVersion, sinceSync, nextGeneration, batch,
                 fault, queued, ready, broken, storeVars>>

\* A launch or a remote call ends in an error.
EngineFails ==
  /\ ~broken /\ out # {}
  /\ broken' = TRUE
  /\ UNCHANGED <<pc, loopVars, syncVars, nextGeneration, batch, fault, managerVars,
                 storeVars>>

(***************************************************************************)
(* Errors from outside the loop, the end of the run, and crashes.          *)
(***************************************************************************)
\* The manager's calls raise a failed rollout's error; those that do not take
\* results (counts, submit) may succeed before it is seen.
ManagerRaises ==
  /\ broken
  /\ pc \in {"top", "collect", "refill", "boundary", "drain", "align", "prefix",
             "finishStarted", "finishPrefix", "publish", "after"}
  /\ Raise("engine")

\* The weight transfer raises, which makes the manager unusable.
TransferRaises == pc = "publish" /\ Raise("engine")

\* Reward scoring, training or saving raises.
WorkRaises == pc \in {"refill", "train", "save"} /\ Raise("work")

\* close: a manager still in order quiesces first, so it waits for what is out.
Close ==
  /\ pc = "closing"
  /\ queued' = <<>>
  /\ IF fault # "engine" /\ ~broken
     THEN out = {} /\ UNCHANGED out
     ELSE out' = {}
  /\ fault = "none" => saving = {}
  /\ pc' = "closed"
  /\ UNCHANGED <<loopVars, syncVars, nextGeneration, batch, fault, ready, broken,
                 storeVars>>

\* Faulty variant: a resumed run reads its data from the start.
DataFromTheStart(c) == 0

\* A resumed run skips the batches the checkpoint was trained on.
BatchesSkipped(c) == c.step

Scratch == [step |-> 0, version |-> 0, trained |-> {}]

\* The run dies, or has ended early, and is started again: from scratch, or
\* from a checkpoint whose write was complete.
Restart(c) ==
  /\ crashes < MaxCrashes /\ crashes' = crashes + 1
  /\ pc # "closed" \/ fault # "none"
  /\ pc' = "setup" /\ initial' = TRUE /\ resumed' = (c # Scratch)
  /\ step' = c.step /\ trainVersion' = c.version /\ trained' = c.trained
  /\ nextGeneration' = BatchesSkipped(c)
  /\ publishedVersion' = 0 /\ sinceSync' = 0
  /\ batch' = <<>> /\ carried' = <<>> /\ fault' = "none"
  /\ queued' = <<>> /\ out' = {} /\ ready' = <<>> /\ broken' = FALSE
  /\ saving' = {}
  /\ UNCHANGED <<recipe, checkpoints>>

Driver ==
  \/ Top \/ Collect \/ Refill \/ Train
  \/ NoSync \/ NothingToPublish \/ Quiesce \/ QuiesceReturns
  \/ Align \/ FinishPrefix \/ FinishReturns \/ Publish \/ After \/ Save
  \/ Close

Engines == Launch \/ \E r \in out : Complete(r) \/ Suspend(r)

Failures ==
  \/ EngineFails \/ TransferRaises \/ WorkRaises
  \/ \E c \in checkpoints \cup {Scratch} : Restart(c)

Next == Driver \/ Engines \/ ManagerRaises \/ SaveCompletes \/ Failures

Spec == Init /\ [][Next]_vars

(***************************************************************************)
(* The driver's thread goes on, a rollout ends (with a result or an error, *)
(* which the driver sees) and a checkpoint is written.  Nothing fails of   *)
(* necessity.                                                              *)
(***************************************************************************)
FairSpec ==
  Spec /\ WF_vars(Driver) /\ WF_vars(Engines) /\ WF_vars(ManagerRaises)
       /\ WF_vars(SaveCompletes)

-----------------------------------------------------------------------------
Prompts(tasks) == {r.prompt : r \in tasks}

(***************************************************************************)
(* The loop's own checks never raise: admission stays batch-aligned,       *)
(* collect is never starved (so the filter drops nothing it is waiting     *)
(* for), no batch mixes weight versions or, for diffusion, generations,    *)
(* the carry can always be aligned before a publication, and the manager   *)
(* is empty at every evaluation, checkpoint and at the end.                *)
(***************************************************************************)
ChecksHold == fault # "check"

(***************************************************************************)
(* A batch is trained on at most MaxStaleness batches' worth of optimizer  *)
(* updates after the weights that generated it, whatever order rollouts    *)
(* complete in and however often they are carried over a publication.  The *)
(* budget is spent at admission, long before: a group that waits behind k  *)
(* whole batches still has room for the k batches' updates.                *)
(***************************************************************************)
StalenessBudgeted ==
  /\ \A v \in Versions(batch) : trainVersion - v <= Budget
  /\ \A i \in DOMAIN ready : \A v \in ready[i].versions :
       LET ahead == (i - 1) \div BatchSize + (IF batch = <<>> THEN 0 ELSE 1)
       IN  trainVersion - v + ahead * UpdatesPerBatch <= Budget

(***************************************************************************)
(* No prompt is lost or used twice: each prompt drawn from the data source *)
(* is in exactly one place, and those places are the prompts drawn so far, *)
(* through quiesce, carry, a restart from a checkpoint, all of it.         *)
(***************************************************************************)
PromptsAccounted ==
  pc \notin {"closing", "closed"} =>
    LET places == <<Prompts(Elements(queued)), Prompts(out), Prompts(Elements(carried)),
                    Prompts(Elements(ready)), Prompts(Elements(batch)), trained>>
    IN  /\ UNION Elements(places) = 0 .. nextGeneration * BatchSize - 1
        /\ \A i, j \in DOMAIN places : i # j => places[i] \cap places[j] = {}
        /\ Len(queued) + Len(carried) + Len(ready) + Len(batch) + Cardinality(out)
             = Cardinality(UNION {places[i] : i \in 1 .. 5})

(***************************************************************************)
(* A checkpoint of step s stands for training on exactly the first s       *)
(* batches of the data source: the resumed loop, which skips s batches of  *)
(* it, neither repeats a prompt nor leaves one out.                        *)
(***************************************************************************)
CheckpointsExact ==
  \A c \in checkpoints \cup saving : c.trained = 0 .. c.step * BatchSize - 1

(***************************************************************************)
(* The completed groups form batches of one weight version each, and the   *)
(* batch still incomplete is of the version now published: publications    *)
(* fall between batches although rollouts complete in any order.           *)
(***************************************************************************)
OneVersionPerBatch ==
  LET Window(i) == (i - 1) \div BatchSize
  IN  \A i \in DOMAIN ready :
        /\ Cardinality(ready[i].versions) = 1
        /\ \A j \in DOMAIN ready :
             Window(i) = Window(j) => ready[i].versions = ready[j].versions
        /\ Window(i) = Len(ready) \div BatchSize =>
             ready[i].versions = {publishedVersion}

\* Never more prompts are in the manager's or the driver's hands, waiting to be
\* collected, than MaxInflight batches: what the engines and the host must hold.
InflightBounded ==
  Len(queued) + Len(carried) + Cardinality(out) + Len(ready)
    <= MaxInflight * BatchSize

(***************************************************************************)
(* The run ends: every batch is trained, or an error is reported.          *)
(***************************************************************************)
RunEnds == <>[](pc = "closed" /\ (fault = "none" => step >= NumRollouts))

(***************************************************************************)
(* AsyncTrainer implements TrainingRun: prompts that complete out of order *)
(* and are trained out of order still leave a run, at each evaluation and  *)
(* checkpoint, where a synchronous one would be.                           *)
(***************************************************************************)
Saved == {[step |-> c.step, trained |-> c.trained] : c \in checkpoints \cup saving}

Abstract == INSTANCE TrainingRun WITH
  boundaries <- {NumRollouts} \cup
    {n \in 1 .. NumRollouts :
       \E i \in {EvalInterval, SaveInterval} \ {0} : n % i = 0},
  saved <- Saved,
  over  <- pc = "closed"

ImplementsTrainingRun == Abstract!Spec
=============================================================================
