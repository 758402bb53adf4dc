-------------------------- MODULE DiffusionTrainer --------------------------
(***************************************************************************)
(* The synchronous diffusion trainer (trainer/diffusion.py) with the       *)
(* residency planner that shares one GPU slab between the trainer, the     *)
(* rollout engine and the reward (trainer/residency.py), the LoRA sync     *)
(* whose staged adapter outlives its push (weight_sync/lora), and an       *)
(* engine whose sleep drops its adapter (rollout/engine/sglang_diffusion). *)
(*                                                                         *)
(* The driver is one thread.  What it has still to do is `todo', a         *)
(* sequence of steps; a method of the source is an operator that yields    *)
(* its steps, and every step is an action.  A step that depends on the     *)
(* state, such as entering a phase, puts its own steps in its place, so    *)
(* the decisions are taken when the code takes them.  A remote call that   *)
(* fails poisons the pool and with it every later call; the run is over    *)
(* and nothing is left to go wrong here.                                   *)
(*                                                                         *)
(* The recipe is part of the state and never changes: Init admits every    *)
(* one the constructor accepts, within the constants.                      *)
(***************************************************************************)
EXTENDS Integers, Sequences, FiniteSets, SequencesExt

CONSTANTS
  NumRollouts,   \* num_rollouts: the total budget, resumed runs included
  Residents,     \* the candidates for the set of roles kept resident
  Intervals,     \* weight_sync_interval
  Windows,       \* accumulate_rollouts
  Starts,        \* the steps of checkpoints resumed from, 0 for a fresh run
  Cadences,      \* eval_interval and save_interval, 0 for never
  MaxChunks      \* bound: chunks of evaluation prompts, all sets together

ASSUME RecipesAssumption ==
  /\ NumRollouts \in Nat \ {0} /\ Intervals \subseteq Nat \ {0}
  /\ Windows \subseteq Nat \ {0} /\ Cadences \subseteq Nat
  /\ Starts \subseteq 0 .. NumRollouts /\ MaxChunks \in Nat

VARIABLES
  recipe,    \* the configuration
  recorded,  \* _RoleState.on_gpu: the roles the planner believes on the GPU
  gpu,       \* the roles whose weights are on the GPU
  version,   \* the trainer's weights, by the updates they have seen
  averaged,  \* the EMA weights stand in for the trainer's own
  staged,    \* LoraWeightSync._cached: the version extracted last
  adapter,   \* the version loaded into an engine that the weights are sent to
  upcoming,  \* the first rollout of the next window
  returns,   \* history: times the trainer came back since its last update or save
  todo       \* the driver's steps to come

vars == <<recipe, recorded, gpu, version, averaged, staged, adapter, upcoming, returns, todo>>
frozen == <<recipe, upcoming>>

Roles == {"train", "rollout", "reward"}
Nothing == -1   \* no adapter is staged, or none is loaded

Recipe ==
  [resident : Residents, sync : {"none", "full", "lora"}, trainside : BOOLEAN,
   separate : BOOLEAN, ema : BOOLEAN, reward : {"none", "apart", "slab"},
   stack : BOOLEAN, interval : Intervals, window : Windows,
   evals : Cadences, saves : Cadences, start : Starts]

Parkable(c) ==
  (IF c.separate \/ c.trainside THEN {} ELSE {"train"})
    \cup {"rollout"} \cup (IF c.reward = "slab" THEN {"reward"} ELSE {})

\* Train is parked while others work, so the push is split from the read.
ParksTrain(c) == "train" \in Parkable(c) \ c.resident

Accepted(c) ==
  /\ "train" \notin c.resident =>
       /\ "train" \in Parkable(c) /\ c.sync # "full"
       /\ ~(c.ema /\ ~c.trainside)
  /\ c.trainside => ~c.separate /\ c.sync = "none"
  /\ c.stack => c.reward = "slab" /\ "reward" \in c.resident /\ ~c.separate
  /\ c.evals > 0 => c.reward # "none"
  /\ c.window > 1 =>
       ~c.ema /\ \A n \in {c.evals, c.saves, NumRollouts} : n % c.window = 0
  /\ c.start % c.window = 0
----------------------------------------------------------------------------
(* The steps, and the methods as sequences of them.                        *)

Do(op)            == [op |-> op]
Enter(r, keep)    == [op |-> "enter", role |-> r, keep |-> keep]
Set(r, on)        == [op |-> "set", role |-> r, on |-> on]
Move(r, on)       == [op |-> "move", role |-> r, on |-> on]
Work(exact)       == [op |-> "generate", exact |-> exact]  \* exact: of today's weights
If(condition, steps) == IF condition THEN steps ELSE <<>>

\* _RoleState.request, for a list of roles in the planner's order.
Request(r, on) ==
  If(r \in Parkable(recipe) /\ (r \in recorded) # on /\ (on \/ r \notin recipe.resident),
     <<Move(r, on)>>)

\* Faulty variant: the role comes in before the others have left.
ComeInFirst(r, keep) ==
  LET out(x) == If(x # r /\ x \notin keep, Request(x, FALSE))
  IN  Request(r, TRUE) \o out("train") \o out("rollout") \o out("reward")

\* ResidencyPlanner.enter: everybody else leaves before the role comes in.
Transitions(r, keep) ==
  LET out(x) == If(x # r /\ x \notin keep, Request(x, FALSE))
  IN  out("train") \o out("rollout") \o out("reward") \o Request(r, TRUE)

Push(c, split) ==
  If(c.sync # "none", <<Do(IF split THEN "push" ELSE "sync")>>)

Generate(c, sync, sleep, exact) ==
  LET split == sync /\ ParksTrain(c) /\ c.sync = "lora"
      swap  == c.ema /\ c.trainside
  IN  If(split, <<Do("cache")>>) \o <<Enter("rollout", {})>> \o If(sync, Push(c, split))
      \o If(swap, <<Do("average")>>) \o <<Work(exact)>> \o If(swap, <<Do("restore")>>)
      \o If(sleep, <<Set("rollout", FALSE)>>)

Sleeps(c) == "rollout" \notin c.resident

SyncDue(c, id) ==
  \/ id > 0 /\ id % c.interval = 0
  \/ c.start > 0 /\ id = c.start   \* force_sync_at

\* Faulty variant: each rollout gives the GPU back to the trainer.
RolloutAndReturn(c, id) ==
  Generate(c, SyncDue(c, id), Sleeps(c), FALSE)
    \o If(c.reward # "none" /\ ~c.stack, <<Enter("reward", {}), Do("score")>>)
    \o <<Enter("train", {})>>

RolloutAndScore(c, id) ==
  Generate(c, SyncDue(c, id), Sleeps(c), FALSE)
    \o If(c.reward # "none" /\ ~c.stack, <<Enter("reward", {}), Do("score")>>)

TrainStep(c, ids) ==
  FlattenSeq([k \in 1 .. Len(ids) |-> RolloutAndScore(c, ids[k])])
    \o <<Enter("train", {})>> \o If(c.sync = "lora", <<Do("invalidate")>>) \o <<Do("train")>>

\* Evaluation as train() calls it: weights synced, the engine put to sleep.
\* An engine that sleeps after each chunk is sent the weights before each.
ChunkSync(c, k) == k = 1 \/ Sleeps(c)

EvalPass(c, chunks) ==
  FlattenSeq([k \in 1 .. chunks |->
    Generate(c, ChunkSync(c, k), Sleeps(c), TRUE)
      \o <<Enter("reward", IF Sleeps(c) THEN {} ELSE {"rollout"}), Do("score")>>])

EmptyEvaluation(c) ==
  LET split == c.sync = "lora"
  IN  If(split, <<Do("cache")>>) \o <<Enter("rollout", {})>> \o Push(c, split)
      \o If(Sleeps(c), <<Set("rollout", FALSE)>>)

Evaluate(c, chunks) == IF chunks = 0 THEN EmptyEvaluation(c) ELSE EvalPass(c, chunks)

EvalDue(c, step) == c.evals > 0 /\ step % c.evals = 0
SaveDue(c, step) == c.saves > 0 /\ (step % c.saves = 0 \/ step >= NumRollouts)
----------------------------------------------------------------------------
(* Everything is built on the GPU; the planner takes the engine to be      *)
(* asleep, since its first wake-up does no harm to one that is not.        *)

Init ==
  /\ recipe \in {c \in Recipe : Accepted(c)}
  /\ recorded = Parkable(recipe) \ {"rollout"} /\ gpu = Roles
  /\ version = recipe.start \div recipe.window
  /\ averaged = FALSE /\ staged = Nothing
  /\ adapter = IF recipe.sync = "full" THEN 0 ELSE Nothing
  /\ upcoming = recipe.start /\ returns = 0
  /\ \E chunks \in 0 .. MaxChunks :
       todo = If(recipe.evals > 0, Evaluate(recipe, chunks))

\* One round of train(): a window of rollouts, the step, what then is due.
Window ==
  /\ todo = <<>> /\ upcoming < NumRollouts
  /\ LET c   == recipe
         end == upcoming + c.window
     IN  /\ upcoming' = end
         /\ \E chunks \in 0 .. MaxChunks :
              todo' = TrainStep(c, [k \in 1 .. c.window |-> upcoming + k - 1])
                        \o If(EvalDue(c, end), Evaluate(c, chunks))
                        \o If(SaveDue(c, end), <<Enter("train", {}), Do("save")>>)
  /\ UNCHANGED <<recipe, recorded, gpu, version, averaged, staged, adapter, returns>>

At(op)   == todo # <<>> /\ Head(todo).op = op
Step(op) == At(op) /\ todo' = Tail(todo)

EnterPhase ==
  /\ At("enter")
  /\ todo' = Transitions(Head(todo).role, Head(todo).keep) \o Tail(todo)
  /\ UNCHANGED <<frozen, recorded, gpu, version, averaged, staged, adapter, returns>>

SetRole ==
  /\ At("set")
  /\ todo' = Request(Head(todo).role, Head(todo).on) \o Tail(todo)
  /\ UNCHANGED <<frozen, recorded, gpu, version, averaged, staged, adapter, returns>>

\* Put to sleep, an engine served by adapters loses the one it has.
AfterSleep == IF recipe.sync = "lora" THEN Nothing ELSE adapter

MoveRole ==
  /\ Step("move")
  /\ LET r == Head(todo).role
         set(roles) == IF Head(todo).on THEN roles \cup {r} ELSE roles \ {r}
     IN  /\ gpu' = set(gpu) /\ recorded' = set(recorded)
         /\ adapter' = IF r = "rollout" /\ ~Head(todo).on THEN AfterSleep ELSE adapter
         /\ returns' = IF r = "train" /\ Head(todo).on THEN returns + 1 ELSE returns
  /\ UNCHANGED <<frozen, version, averaged, staged>>

\* Faulty variant: the adapter is read wherever the trainer is.
ReadAnywhere ==
  /\ At("cache")
  /\ todo' = If(staged = Nothing, <<Do("extract")>>) \o Tail(todo)
  /\ UNCHANGED <<frozen, recorded, gpu, version, averaged, staged, adapter, returns>>

\* _cache_adapter_for_push: read the adapter unless one is held already.
CacheAdapter ==
  /\ At("cache")
  /\ todo' = If(staged = Nothing, <<Enter("train", {}), Do("extract")>>) \o Tail(todo)
  /\ UNCHANGED <<frozen, recorded, gpu, version, averaged, staged, adapter, returns>>

Extract ==
  /\ Step("extract") /\ staged' = version
  /\ UNCHANGED <<frozen, recorded, gpu, version, averaged, adapter, returns>>

PushStaged ==
  /\ Step("push") /\ adapter' = staged
  /\ UNCHANGED <<frozen, recorded, gpu, version, averaged, staged, returns>>

\* sync(): a LoRA sync extracts and pushes, and keeps what it extracted.
SyncWeights ==
  /\ Step("sync") /\ adapter' = version
  /\ staged' = IF recipe.sync = "lora" THEN version ELSE staged
  /\ UNCHANGED <<frozen, recorded, gpu, version, averaged, returns>>

\* Faulty variant: the staged adapter is kept across the optimizer step.
KeepStaged ==
  /\ Step("invalidate")
  /\ UNCHANGED <<frozen, recorded, gpu, version, averaged, staged, adapter, returns>>

Invalidate ==
  /\ Step("invalidate") /\ staged' = Nothing
  /\ UNCHANGED <<frozen, recorded, gpu, version, averaged, adapter, returns>>

\* train_track; a non-finite gradient leaves the weights as they were.
TrainTrack ==
  /\ Step("train") /\ version' \in {version, version + 1} /\ returns' = 0
  /\ UNCHANGED <<frozen, recorded, gpu, averaged, staged, adapter>>

SwapEma ==
  /\ \/ Step("average") /\ averaged' = TRUE
     \/ Step("restore") /\ averaged' = FALSE
  /\ UNCHANGED <<frozen, recorded, gpu, version, staged, adapter, returns>>

\* generate, score_and_attach and backend.save read weights and change none.
ReadWeights ==
  /\ \/ (Step("generate") \/ Step("score")) /\ UNCHANGED returns
     \/ Step("save") /\ returns' = 0
  /\ UNCHANGED <<frozen, recorded, gpu, version, averaged, staged, adapter>>

Next == \/ Window \/ EnterPhase \/ SetRole \/ MoveRole \/ CacheAdapter \/ Extract \/ PushStaged
        \/ SyncWeights \/ Invalidate \/ TrainTrack \/ SwapEma \/ ReadWeights

Spec == Init /\ [][Next]_vars
----------------------------------------------------------------------------
(* Properties.                                                             *)

\* The roles whose weights a step works with, and the steps that do work.
Needs ==
  LET c == recipe
  IN  [generate |-> {"rollout"} \cup (IF c.trainside THEN {"train"} ELSE {})
                      \cup (IF c.stack THEN {"reward"} ELSE {}),
       score |-> {"reward"}, train |-> {"train"}, save |-> {"train"},
       extract |-> {"train"}, push |-> {"rollout"}, sync |-> {"train", "rollout"}]

Working == todo # <<>> /\ Head(todo).op \in DOMAIN Needs

\* Whatever phases came before, in whatever recipe, the role that works has its
\* weights on the GPU; a trainside rollout has the averaged weights if the
\* algorithm asks for them, and no step, save or push ever has them.
PhaseFindsItsWeights ==
  Working =>
    /\ Needs[Head(todo).op] \subseteq gpu
    /\ averaged <=> recipe.ema /\ recipe.trainside /\ At("generate")

\* "so the peak never holds two roles at once": of the roles that share the slab
\* and may be parked, none is there when another comes in or works.  The record
\* is true of the GPU, but for an engine still awake from its construction.
SlabNotShared ==
  LET parked(r) == r \in recipe.resident \/ r \notin recorded
  IN  /\ recorded \subseteq gpu
      /\ At("move") /\ Head(todo).on => \A r \in Parkable(recipe) : parked(r)
      /\ Working => \A r, s \in Parkable(recipe) : r # s => parked(r) \/ parked(s)

\* What an engine generates with: a fresh adapter changes nothing, so an engine
\* with none loaded serves the base model, version 0.
Served == IF recipe.trainside THEN version ELSE IF adapter = Nothing THEN 0 ELSE adapter

\* Training rollouts lag the trainer by less than the sync interval, evaluations
\* not at all, though the weights sent may have been extracted long before, and
\* the engine slept since.  (Sleep and sync interval together: see the next.)
ServesRecentWeights ==
  LET c == recipe
  IN  /\ At("push") => staged = version
      /\ At("generate") /\ (c.sync # "none" \/ c.trainside)
           /\ ~(c.sync = "lora" /\ Sleeps(c) /\ c.interval > 1 /\ ~Head(todo).exact)
         => version - Served < IF Head(todo).exact THEN 1 ELSE c.interval

\* A window before the one at hand has sent the engine an adapter.
SentBefore ==
  recipe.sync = "lora" /\
    \E id \in recipe.start .. upcoming - recipe.window - 1 : SyncDue(recipe, id)

\* SGLang's lora_dirty, "True when LoRA is in use but the adapter must be
\* (re)pushed before generate" (rollout/engine/sglang_diffusion/weight_sync.py):
\* an engine that has once been sent an adapter never generates without one.
AdapterPushedBeforeGenerate == At("generate") /\ SentBefore => adapter # Nothing

\* "The trainer returns once per optimizer step rather than once per rollout"
\* (trainer/README.md): once for each update or save, and once more only if a
\* sync in the middle of a window must read the adapter.
TrainerReturnsOnce ==
  returns <= IF recipe.sync # "lora" \/ recipe.interval % recipe.window = 0 THEN 1 ELSE 2
=============================================================================
