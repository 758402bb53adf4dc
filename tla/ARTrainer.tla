------------------------------ MODULE ARTrainer ------------------------------
(***************************************************************************)
(* The synchronous autoregressive trainer (trainer/ar.py) and the engine   *)
(* it shares its GPUs with: who holds memory in which phase, and whether   *)
(* an engine whose deep sleep discards its weights (rollout/engine/vllm)   *)
(* has some when it generates.  Both layouts are modelled: an engine rank  *)
(* beside every trainer rank, which enters and leaves a rollout with       *)
(* _prepare_rollout and _finish_rollout, and one engine anchored on one    *)
(* device, which keeps a record of what it last moved.                     *)
(*                                                                         *)
(* The driver is one thread; `todo' is the sequence of remote calls it has *)
(* still to make, each with the calls that its exception handlers make.    *)
(* A call may fail, which poisons the pool, so that every later call is    *)
(* refused; or it may be interrupted by the first signal (ShutdownRequest- *)
(* ed), made or not: then the handlers run.  Either ends the training.     *)
(***************************************************************************)
EXTENDS Integers, Sequences

CONSTANTS
  NumRollouts,  \* num_rollouts, those before a resumed checkpoint included
  Intervals,    \* weight_sync_interval
  Cadences,     \* eval_interval, 0 for never
  Starts        \* steps of checkpoints resumed from, 0 for a fresh run

ASSUME ScheduleAssumption ==
  /\ NumRollouts \in Nat \ {0} /\ Intervals \subseteq Nat \ {0}
  /\ Cadences \subseteq Nat /\ Starts \subseteq 0 .. NumRollouts

VARIABLES
  recipe,    \* the configuration, fixed
  train,     \* the parts of the train state on the GPU
  engine,    \* the engine: asleep, with its weights only, or awake
  weights,   \* the version of the weights the engine holds, or Discarded
  preserve,  \* _preserve_next_weight_sleep
  known,     \* the anchored layout's record of backend and rollout
  version,   \* the trainer's weights
  upcoming,  \* the next rollout
  ended,     \* an exception has ended the training
  todo

vars == <<recipe, train, engine, weights, preserve, known, version, upcoming, ended, todo>>

Discarded == -1
State     == {"model", "optimizer"}

Recipe ==
  [anchored : BOOLEAN, offload : BOOLEAN, sync : {"none", "whole", "streaming", "lora"},
   staged : BOOLEAN, interval : Intervals, evals : Cadences, start : Starts]

\* What the constructor, _prepare_rollout and the anchored session let through.
Accepted(c) ==
  /\ c.anchored => c.sync \in {"none", "lora"} /\ ~c.staged
  /\ c.sync = "streaming" => c.staged /\ c.offload

Offloads(c) == c.offload /\ (c.sync # "none" \/ c.anchored)
----------------------------------------------------------------------------
(* Sequences of calls.                                                     *)

Call(name) == <<[name |-> name, clean |-> <<>>]>>
If(condition, steps) == IF condition THEN steps ELSE <<>>

\* The calls, whose exceptions are answered with those of clean.
Guard(steps, clean) == [k \in DOMAIN steps |-> [steps[k] EXCEPT !.clean = clean]]

\* Faulty variant: the train state returns before the engine has left.
ReturnFirst(off) == If(off, Call("onload")) \o Call("sleep")

\* _finish_rollout: should sleep raise, the train state stays away.
Finish(off) == Call("sleep") \o If(off, Call("onload"))

\* _prepare_rollout.  From the moment the train state is gone and the engine is
\* being woken in full, an exception is passed on with nothing cleaned up.
Prepare(c, sync) ==
  IF sync /\ Offloads(c) /\ c.staged
  THEN IF c.sync = "streaming"
       THEN Guard(Call("offload optimizer"), Finish(FALSE)) \o Call("wake weights")
              \o Call("sync") \o Call("offload model") \o Call("wake")
       ELSE Guard(Call("wake weights") \o Call("sync"), Finish(FALSE))
              \o Guard(Call("offload"), Finish(TRUE)) \o Call("wake")
  ELSE IF sync
       THEN Guard(Call("wake") \o Call("sync"), Finish(FALSE))
              \o If(Offloads(c), Guard(Call("offload"), Finish(TRUE)))
       ELSE IF Offloads(c)
            THEN Guard(Call("offload"), Finish(TRUE)) \o Call("wake")
            ELSE Guard(Call("wake"), Finish(FALSE))

\* _anchored_rollout_session, which parks the engine whatever happens.
Anchored(c, sync, work) ==
  Guard(If(sync, Call("ensure loaded") \o Call("extract")) \o Call("ensure offloaded")
          \o Call("ensure awake") \o If(sync, Call("push")) \o work,
        Call("ensure asleep"))
    \o Call("ensure asleep")

\* A rollout or an evaluation: the work between entering and leaving.
Session(c, sync, keep, work) ==
  LET does  == sync /\ c.sync # "none"
      kept  == If(keep, Call("preserve")) \o work
  IN  IF c.anchored
      THEN Anchored(c, does, kept)
      ELSE Prepare(c, does) \o Guard(kept, Finish(Offloads(c))) \o Finish(Offloads(c))

\* must_preserve_rollout_weights
MustPreserve(c, nextSyncs, hasNext) == c.sync = "streaming" /\ hasNext /\ ~nextSyncs

\* Faulty variant: a resumed run does not sync at once.
OnSchedule(c, id) == id > 0 /\ id % c.interval = 0

SyncDue(c, id)    == (id > 0 /\ id % c.interval = 0) \/ (c.start > 0 /\ id = c.start)
NextSyncs(c, id)  == id < NumRollouts /\ id % c.interval = 0
EvalFollows(c, n) == c.evals > 0 /\ n % c.evals = 0

Evaluate(c, n, nextSyncs) ==
  Session(c, TRUE, MustPreserve(c, nextSyncs, n < NumRollouts), Call("evaluate"))

TrainStep(c, id) ==
  LET keep == MustPreserve(c, EvalFollows(c, id + 1) \/ NextSyncs(c, id + 1),
                           id + 1 < NumRollouts)
  IN  Session(c, SyncDue(c, id), keep, Call("generate"))
        \o If(c.anchored, Call("ensure loaded"))
        \o Guard(Call("train"), If(c.anchored, Call("ensure offloaded")))
        \o If(c.anchored, Call("ensure offloaded"))

\* The constructor.  The trainer makes room for the engine before it is built
\* (always awake), and comes back when the engine has been put to sleep.
Boot(c) ==
  LET room == c.offload /\ c.sync # "none"
  IN  IF c.anchored
      THEN If(c.offload, Call("offload")) \o Call("build engine") \o If(c.offload, Call("sleep"))
      ELSE If(room, Guard(Call("offload"), Call("onload")))
             \o Call("build engine")
             \o If(c.sync # "none",
                   Guard(Call("build sync"), If(room, Call("sleep") \o Call("onload")))
                     \o Call("sleep"))
             \o If(room, Call("onload"))
----------------------------------------------------------------------------
Init ==
  /\ recipe \in {c \in Recipe : Accepted(c)}
  /\ train = State /\ engine = "asleep" /\ weights = 0 /\ preserve = FALSE
  /\ known = [backend |-> "yes", rollout |-> "unknown"]
  /\ version = recipe.start /\ upcoming = recipe.start /\ ended = FALSE
  /\ todo = Boot(recipe) \o If(recipe.evals > 0,
                               Evaluate(recipe, recipe.start, recipe.start > 0))

\* One round of train(); saving a checkpoint moves nothing.
Round ==
  /\ todo = <<>> /\ ~ended /\ upcoming < NumRollouts
  /\ LET n == upcoming + 1
     IN  /\ upcoming' = n
         /\ todo' = TrainStep(recipe, upcoming)
                      \o If(EvalFollows(recipe, n), Evaluate(recipe, n, NextSyncs(recipe, n)))
  /\ UNCHANGED <<recipe, train, engine, weights, preserve, known, version, ended>>

At(name) == todo # <<>> /\ Head(todo).name = name

\* How a call ends.  Only one signal is answered with an exception.
Returns     == todo' = Tail(todo) /\ ended' = ended
Fails       == todo' = <<>> /\ ended' = TRUE
Interrupted == ~ended /\ todo' = Head(todo).clean /\ ended' = TRUE
Ends        == Returns \/ Fails \/ Interrupted

\* The call is made, however it ends.
Made(names) == todo # <<>> /\ Head(todo).name \in names /\ Ends

\* Faulty variant: the record is left as it was until a move has succeeded.
RecordKept(before) == before

\* The record of a role whose move has raised.
AfterRaise(before) == "unknown"

\* The anchored layout's record: unknown while a move is under way, and after one
\* that raised.
Record(role, on) ==
  known' = IF recipe.anchored
           THEN [known EXCEPT ![role] = IF todo' = Tail(todo) /\ ended' = ended
                                        THEN IF on THEN "yes" ELSE "no"
                                        ELSE AfterRaise(known[role])]
           ELSE known

\* _ensure_anchored_...: nothing to do without offloading, or if it is so already.
AlreadySo ==
  \/ ~recipe.offload
  \/ At("ensure loaded") /\ known.backend = "yes"
  \/ At("ensure offloaded") /\ known.backend = "no"
  \/ At("ensure awake") /\ known.rollout = "yes"
  \/ At("ensure asleep") /\ known.rollout = "no"

Ensures == {"ensure loaded", "ensure offloaded", "ensure awake", "ensure asleep"}

EnsureNothing ==
  /\ todo # <<>> /\ Head(todo).name \in Ensures /\ AlreadySo /\ Returns
  /\ UNCHANGED <<recipe, train, engine, weights, preserve, known, version, upcoming>>

Due == Head(todo).name \in Ensures => ~AlreadySo

\* backend.offload of a part or all of the train state, and backend.onload.
MoveTrain ==
  /\ \/ Made({"offload", "ensure offloaded"}) /\ train' = {}
     \/ Made({"offload optimizer"}) /\ train' = train \ {"optimizer"}
     \/ Made({"offload model"}) /\ train' = train \ {"model"}
     \/ Made({"onload", "ensure loaded"}) /\ train' = State
  /\ Due /\ Record("backend", train' = State)
  /\ UNCHANGED <<recipe, engine, weights, preserve, version, upcoming>>

\* An engine just built is awake.
Wake ==
  /\ \/ Made({"build engine", "wake", "ensure awake"}) /\ engine' = "awake"
     \/ Made({"wake weights"}) /\ engine' = IF engine = "asleep" THEN "weights" ELSE engine
  /\ Due /\ Record("rollout", TRUE)
  /\ UNCHANGED <<recipe, train, weights, preserve, version, upcoming>>

\* The level of a sleep: a streaming sync has set it to 2, which discards the
\* weights, except for the one sleep that was told to preserve them.
AfterSleep == IF recipe.sync = "streaming" /\ ~preserve THEN Discarded ELSE weights

\* An engine asleep does not sleep again, and keeps what it was told.
Sleep ==
  /\ Made({"sleep", "ensure asleep"}) /\ Due
  /\ engine' = "asleep" /\ Record("rollout", FALSE)
  /\ IF engine = "asleep" THEN UNCHANGED <<weights, preserve>>
     ELSE weights' = AfterSleep /\ preserve' = FALSE
  /\ UNCHANGED <<recipe, train, version, upcoming>>

\* A streaming sync is built telling the engine to preserve its next sleep.
Preserve ==
  /\ \/ Made({"preserve"}) /\ preserve' = TRUE
     \/ Made({"build sync"}) /\ preserve' = (preserve \/ recipe.sync = "streaming")
  /\ UNCHANGED <<recipe, train, engine, weights, known, version, upcoming>>

\* sync, or the push of what extract has just read.
Publish ==
  /\ Made({"sync", "push"}) /\ weights' = version
  /\ UNCHANGED <<recipe, train, engine, preserve, known, version, upcoming>>

\* train_track; a non-finite gradient leaves the weights as they were.
Train ==
  /\ Made({"train"}) /\ version' \in {version, version + 1}
  /\ UNCHANGED <<recipe, train, engine, weights, preserve, known, upcoming>>

ReadWeights ==
  /\ Made({"extract", "generate", "evaluate"})
  /\ UNCHANGED <<recipe, train, engine, weights, preserve, known, version, upcoming>>

\* The exception comes before the call has done anything.
NotMade ==
  /\ todo # <<>> /\ Due /\ (Fails \/ Interrupted)
  /\ known' = [backend |-> IF Head(todo).name \in {"ensure loaded", "ensure offloaded"}
                           THEN AfterRaise(known.backend) ELSE known.backend,
               rollout |-> IF Head(todo).name \in {"ensure awake", "ensure asleep"}
                           THEN AfterRaise(known.rollout) ELSE known.rollout]
  /\ UNCHANGED <<recipe, train, engine, weights, preserve, version, upcoming>>

Next == \/ Round \/ EnsureNothing \/ MoveTrain \/ Wake \/ Sleep \/ Preserve \/ Publish
        \/ Train \/ ReadWeights \/ NotMade

Spec == Init /\ [][Next]_vars
----------------------------------------------------------------------------
(* Properties.                                                             *)

\* Whatever was rolled out, evaluated or saved before: an engine generates awake
\* and with weights, at most a sync interval old and in an evaluation the
\* trainer's own, though a deep sleep has discarded them; the optimizer steps
\* with the whole train state there, a sync with the parameters and an engine to
\* load them into.
WorkFindsItsState ==
  LET lag == version - weights
  IN  /\ At("generate") \/ At("evaluate") => engine = "awake" /\ weights # Discarded
      /\ recipe.sync # "none" =>
           (At("generate") => lag < recipe.interval) /\ (At("evaluate") => lag = 0)
      /\ At("train") \/ At("extract") => train = State
      /\ At("sync") => "model" \in train /\ engine # "asleep"
      /\ At("push") => engine = "awake"

\* What a step may not do: wake the engine, or bring it weights, beside the train
\* state, or bring the train state beside an engine.
KeptApart ==
  Offloads(recipe) =>
    /\ engine' = "awake" /\ train' # {} =>
         \/ engine = "awake" /\ train' \subseteq train
         \/ At("wake") /\ ~recipe.staged /\ Len(todo) > 1 /\ todo[2].name = "sync"
    /\ recipe.sync = "streaming" /\ engine' # "asleep" /\ "optimizer" \in train' =>
         engine # "asleep" /\ train' \subseteq train

\* With enable_fsdp_offload the whole engine, KV cache included, and the train
\* state are never brought together on the GPU, on no path of an exception
\* either ("Keep training state offloaded if engine sleep fails."); only an engine
\* that cannot wake in stages is woken in full beside the trainer, to be synced.
\* A streaming sync spares the optimizer even an engine's weights.
ApartOnTheGpu == [][KeptApart]_vars

\* The anchored layout acts on a record of what it last moved; whatever raised,
\* a move it believes done is done.
RecordTrue ==
  recipe.anchored /\ recipe.offload =>
    /\ known.backend = "yes" => train = State
    /\ known.backend = "no" => train = {}
    /\ known.rollout = "yes" => engine = "awake"
    /\ known.rollout = "no" => engine = "asleep"
=============================================================================
