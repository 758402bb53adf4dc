# A TLA+ verification project for UniRL

UniRL trains generative models (language models, diffusion models, unified ones) with
reinforcement learning on a Ray cluster. A driver process owns the training loop; GPU
workers hold the trained model; rollout engines, often on GPUs of their own, generate
samples with the weights last published to them. What makes the program hard is the
asynchronous path: rollouts are generated while training runs, complete in any order, may be
suspended half-way, and must still come out as batches that are complete, fresh enough and of
one policy version, with checkpoints that can be resumed exactly.

The repository has no tests of this code; the reference is `src/unirl/` itself, read with its
docstrings and comments. Paths below are relative to `src/unirl/`.

## 1. Inventory

The column "correct when" names the property that makes the component right. `PROJECT.json`
lists the same components with their files and status, and under `hazards` every place where
this code can go wrong in a way a test would hardly reach.

| Component | State | Operations | Hard part | Correct when | Status |
|---|---|---|---|---|---|
| Rollout pool, `rollout/manager/dispatch.py` | queue, running and completed units, reserved slots, paused/closed/failure, one Condition | `add`, `pause`, `take_completed`, `drain`, `run_to_completion`, `close`; a dispatch thread plans, launches, polls | two threads and the engines; a launch loop outside the lock; failure in mid-plan; lost wake-ups | capacities hold, no task is lost or run twice, pause quietens, calls return | modelled: `RolloutPool` |
| Rollout manager, `rollout/manager/{rollout,buffers,filters}.py` | pending siblings by root, complete groups, published version, failure | `submit`, `collect`, `quiesce`, `finish`, `sync_weights`, `close` | siblings of a root in three places at once; the lag filter; results lost by a call that raises | roots whole, siblings accounted for, `collect` gives up when starved | modelled: `RolloutManager` |
| Asynchronous loop, `trainer/async_rollout.py`, `async_ar.py`, `async_diffusion.py` | step, versions, batches since sync, next generation, the batch in hand | admit, collect, train, publish, evaluate, save, close, resume | admission decides staleness several updates ahead; publications between batches; boundaries that interleave | its own checks never fire, staleness is bounded, checkpoints are exact | modelled: `AsyncTrainer` |
| Residency planner, `trainer/residency.py`, `rollout_sleep.py` | which roles it believes on the GPU | request, set, enter a phase | the record against the GPU, over phases, evaluations and saves | the role that works has its weights, no other shares the slab | modelled: `DiffusionTrainer`, `ARTrainer` |
| Synchronous trainers, `trainer/{diffusion,ar,pe,unified_model,sft}.py` | step, staged adapter, the anchored layout's record | sequential loops | schedules of sync, evaluation and save against engines whose sleep discards weights; a call that raises half-way | engines generate with the right weights; trainer and engine apart on the GPU | partly: `DiffusionTrainer`, `ARTrainer` |
| Trainer base, checkpoints, `trainer/base.py`, `train/backend/base_backend.py` | pending asynchronous save; what is offloaded | save, drain, load, offload, onload, EMA swap | a crash while a save is written | resumed run = uninterrupted run | partly: `AsyncTrainer` and the synchronous trainers |
| Engine contract, agentic engine, `rollout/engine/`, `rollout/harness/tool_agent.py` | weight version, stop flag, sleep level, loaded adapter | generate (turns), `set_stopping`, `set_version`, `sleep`, `wake_up` | suspension between turns; a stale stop flag; a sleep that drops weights | versions stamped truly, nothing suspended unasked | partly: in the modules of their callers |
| Agentic trainer, `trainer/agentic.py` | the manager, engine awake/asleep | one barrier per step; shutdown with a timeout | teardown under a signal and a thread given up | each part released once | partly: its end in `Shutdown`, its calls in `RolloutManager` |
| Handles, device pool, `distributed/group/{handle,device_pool}.py` | call leases, poison, allocated devices | call, result, discard, shutdown | callbacks on several threads; calls out when the pool is poisoned | arguments live until every rank has fetched them | partly: `TensorCalls` |
| Worker and remote roles, `distributed/group/{worker,remote,dispatch}.py` | roles per worker | call by rank | mailboxes served in order | as above | partly: `TensorCalls` |
| Tensor stores, `distributed/tensor/` | reference counts, moves | put, copy, finalize, move | increments and decrements nobody waits for; two ends of a move | nothing live is freed, everything dead is; launches end | partly: `TensorCalls` |
| Tensor transport and transfer queue, `distributed/tensor/{transport,batch}.py` | spans, per-round queues | fetch, batch | data movement | - | not modelled |
| Weight synchronisation, `distributed/weight_sync/` | process group, staged adapter, transfer buffer and socket | bucketed transfer in agreed phases; broadcast against engine receives | a rank, worker or server that fails or hangs half-way; collectives paired with queued engine calls | an engine has the new weights whole or generates no more; engines serve recent weights | partly: `WeightTransfer`; elsewhere what a sync reads, stages and writes |
| Managed reward process, `reward/managed_process.py` | child process, residency | start, onload/score/offload, dispose | requests given up and served later; cleanup that fails too | scorer off the GPU between calls | partly: `ManagedReward` |
| Reward clients and service, `reward/`, `src/unirl-reward-service` | retries, idempotency cache | HTTP calls | retry of what was done | a lost answer is not paid for twice | partly: `ManagedReward` |
| Graceful shutdown, `utils/graceful_shutdown.py` | signal count, timer | handler, teardown, hard exit | a signal inside teardown | process ends, status tells, teardown once | modelled: `Shutdown` |
| Algorithms, models, samplers | - | numerical code | - | - | not modelled: no control state |
| Data sources, `data/data_source.py` | position | draw a batch | resume | same order after resume | partly: the order, in `AsyncTrainer` |

How they interact: the trainer loop calls the manager; the manager calls the pool and, through
`set_stopping` and `set_version`, all engines; the pool's dispatch thread calls engine handles
and polls the calls in flight; weight sync runs from trainer workers to engines when nothing is
out; checkpoints are written by trainer workers, possibly in the background. Every remote call of every
trainer goes through a handle, which moves the tensors it passes and holds them while the call is out. The
synchronous trainers share their GPUs with the engine and the reward, one phase at a time. A reward may
be a process of its own, asked over HTTP. The entry points wrap a trainer into the shutdown guard.

## 2. Modules

| Module | Models | Composition |
|---|---|---|
| `TaskPool` | abstract: what a pool promises its driver | - |
| `RolloutPool` | `dispatch.py`, both threads and the engines | implements `TaskPool` (`ImplementsTaskPool`) |
| `RolloutPoolProofs` | theorems about `RolloutPool`: types, capacities, places and order of tasks, pause, close, wake-ups, refinement of `TaskPool` | extends it |
| `RootStore` | abstract: what a manager promises the trainer that drives it | - |
| `RolloutManager` | `rollout.py`, `buffers.py`, `filters.py` with a multi-turn engine | over a pool as `TaskPool` describes it; implements `RootStore` (`ImplementsRootStore`) |
| `RolloutManagerProofs` | theorems about `RolloutManager`, with the refinement of `RootStore` | extends it |
| `TrainingRun` | abstract: what a run promises whoever reads its curve or resumes it | - |
| `AsyncTrainer` | the loop of `async_rollout.py` with the two trainers' settings, the manager's calls, saving and resuming | implements `TrainingRun` (`ImplementsTrainingRun`) |
| `AsyncTrainerProofs` | theorems about `AsyncTrainer`, with the refinement of `TrainingRun` | extends it |
| `DiffusionTrainer` | `trainer/diffusion.py` with the residency planner, the LoRA sync and an SGLang engine | trainer, planner, sync and engine in one |
| `DiffusionTrainerProofs` | theorems about `DiffusionTrainer`: each phase finds its weights, alone and recent | extends it |
| `ARTrainer` | `trainer/ar.py` in both layouts, with a vLLM engine, under failures and interruptions | trainer and engine in one |
| `ARTrainerProofs` | theorems about `ARTrainer`: the anchored layout's record; trainer and engine apart; work finds its state | extends it |
| `TensorCalls` | `handle.py`, `device_pool.py`, worker mailboxes and tensor stores | driver, workers and stores in one |
| `TensorCallsProofs` | theorems about `TensorCalls`: tensors are there; counts are exact; the ends of moves meet | extends it |
| `WeightTransfer` | `weight_sync/full/ckpt_engine_ipc.py` and `transfer/ckpt_engine_transfer.py`, with SGLang's workers | ranks, their agreement, workers and server in one |
| `WeightTransferProofs` | theorems about `WeightTransfer`: all or nothing; workers end; agreements meet | extends it |
| `Shutdown` | `graceful_shutdown.py` around the agentic and the AR trainer's `shutdown()` | guard and trainer's end in one |
| `ManagedReward` | the `per_call` mode of `managed_process.py`, its client, and `direct_server.py` | client and server in one |
| `ManagedRewardProofs` | theorems about `ManagedReward` | extends it |
| `MC...` | the constants of the runs | extend the modules they instantiate |

`PROJECT.json` (`map`) gives the source lines of each definition. Definitions commented
"Faulty variant" are plausible bugs used by the mutants (section 6); no action uses them.

### RolloutPool
Each region of code that holds the Condition's lock is one action; the code of the dispatch
thread between two such regions (calling a launcher, polling a call) is an action of its own, so
that the driver and the engines can step in between. `tpc` is the place in `_progress`, `dpc` the
driver call in progress; `plan`, `launched`, `snapshot` and `ready` are the thread's locals.
`asleep` is the set of threads inside `Condition.wait`: a thread in it takes no step until
`notify_all`. The 0.01 s probe is modelled by the thread polling again. A task is its sequence
number. `LaunchRaises`, `PollRaises` and a call that ends in an error set `failed`, as
`_record_failure` does.

### RolloutManager
A prompt is submitted as `GroupSize` sibling tasks (what `AgenticTrainer` does, and what
`PendingGroups` exists for). A task carries the versions its turns were generated with and its
status. Each call is split where it blocks in the pool (`Collect`/`CollectTurn`,
`Quiesce`/`QuiesceReturns`, `Finish`/`FinishReturns`, `Close`/`CloseReturns`); between the halves
the engines go on. The calls are made in the order the trainers make them: after a quiesce its
carry is finished, in part or in full, or resubmitted before anything else is submitted, and weights
are published when nothing is queued or running. A "malformed" result is one without the version
stamp `_require_stamped_generated_parts` demands. Two branches cannot be reached through the
callers and are left out: `CompleteGroups._split_front` on chunks of several roots (all callers
submit single prompts) and the error for more than `group_size` siblings. Two details make no difference and are simplified: the check
for versions of the future is made of results and tails, not again of the siblings that were joined before; and a
quiesce that raises after the engines were told to go on leaves `stopping` set, of a manager that takes no more calls.

In `RootStore` a root is open while any sibling of it is anywhere, and delivered or discarded when all of them
are; it is stale when some sibling holds a turn older than the lag allows, by the trainer's version.

### AsyncTrainer
`pc` is the driver's place in `_train_async_loop`. A single-turn engine returns all siblings of a
prompt in one result, so a rollout here is a whole prompt and joining siblings is not needed (that
is `RolloutManager`'s subject); `ready` is the pool's completed results followed through the
manager's complete groups, in order of completion, and `out` is what engines run. Filtering
at each manager call is kept. Points where the model abstracts:
- The initial publication and evaluation (lines 242-245) lie outside the loop's `try`, so an
  exception there ends the run without closing the manager: `Raise` while `initial` goes straight
  to `"closed"`.
- Where a result's error surfaces (in the pool or when the manager resolves the result) makes no
  difference to the loop: both are `broken`.
- The configuration is part of the state (`recipe`), so that one run checks both trainers; `Accepted` is what their
  constructors demand of it.
- Single-turn engines ignore `set_stopping`; `CanSuspend` adds engines that do suspend.
- The AR trainer admits the next prompts before scoring, the diffusion trainer after; scoring
  changes no modelled state, so one order stands for both. An update with a non-finite gradient
  norm is skipped, hence `0 .. UpdatesPerBatch` updates per batch.
- A checkpoint is the record of the step, the version, and the set of prompts trained on; it is
  written in the background (a synchronous save is the case where nothing happens meanwhile). An
  older checkpoint in the same directory is gone as soon as the new write starts.
- The data source delivers the same order of prompts in each run; as many batches as the checkpoint has steps are
  skipped on resume.

### DiffusionTrainer
The driver is one thread. What it has still to do is `todo`, a sequence of steps; each method of the
source is an operator that yields its steps (`Generate`, `RolloutAndScore`, `TrainStep`, `Evaluate`, ...), and
each step is an action. Entering a phase is a step that puts its own moves in its place, so the planner
decides when the code decides, by its record (`recorded`), while `gpu` is where the weights are. The recipe is
part of the state: `Init` admits every one the constructor accepts (which policy of resident roles,
which weight sync, trainside or separate rollout, EMA, reward layout, intervals, resumed or not). Putting an
SGLang engine to sleep drops its adapter. A remote call that fails poisons the device pool, so the run
is over: failures are not modelled here but in `ARTrainer`, which has exception handlers that act.

### ARTrainer
`todo` again, of remote calls, each with the calls its exception handlers make. A call returns, fails (the
pool is poisoned and every later call refused) or is interrupted by the first signal, made or not, and then
the handlers run. The *shared* layout (an engine rank beside each trainer rank) enters and leaves a
rollout with `_prepare_rollout` and `_finish_rollout`; the *anchored* one keeps a record (`known`) of what it
last moved. A level-2 sleep discards the engine's weights unless it was told to preserve them for the next
sleep.

### TensorCalls
A worker is an actor with a mailbox served in order (`max_concurrency = 1`, the default); the driver posts
calls, the two ends of a move, increments and decrements. The two slots of a device share its store;
moves go through slot 0. A handle has owners: the program, the launch under way, and the calls out that
hold it as a lease; one without owners is finalized, which posts a decrement nobody waits for. A rank
may raise, which poisons the pool when the driver notices. Left out, as data: dispatch and collect by rank, ranges of
rows, tensors on the CPU. Left out, as behaviour: two threads that localize at once, a move that fails on
one side (its other end then waits), and `_ray_get_timeout`, which releases leases without poisoning the
pool. Simplified: a failed call gives its leases up when the driver notices, where an exception raised in `ready()` may keep
them; and increments and decrements take one hop where the transport takes two.

### WeightTransfer
Each trainer rank streams the weights through one GPU buffer to the engine worker on its GPU, in phases; after
each phase all ranks of the world agree that nobody failed. `phase` and `pc` are a rank's place, `wire` the message under way on
its socket, which alternates between request and reply (`canSend`). The all-reduce of `_sender_consensus` is one action that waits for
all ranks (`Agree`, `Disagree`); that its phases match is part of `Agreed`, never assumed. `thread` is the thread
in which an engine's leader has its server told to connect the workers, `marked` the rollout's refusal to generate
after a failed update, `aborted` the process group that a rank has aborted because it failed inside a collective.
Materializing a tensor is a collective too, but any rank may fail in it alone. The workers are those of the `checkpoint_engine` package, modelled
from the protocol that the sender's comments describe: they wait without a timeout, may refuse the buffer, fail in
loading, or never answer. A message may be lost with the closing socket. Left out: a `shutdown()` of the server that
fails itself, a failing abort of the process group, a `send` that fails at once, a collective that fails on one rank although nobody
aborted the group, and a second sync.

### Shutdown
The main thread is at one point (`at`) of the run, of the release of the trainer's runtime or of the guard;
a signal raises at that point, and `Unwind` says where the exception leads. The first signal arms the
hard-exit timer, a second exits at once. `failing` is an exception on its way out, `released` counts how
often the release of each part was begun. The two trainers differ at both ends. Of a constructor that fails, the agentic
one releases the parts that it has built (`exists`, `Abandon`), the AR one does not, and the guard knows no
trainer before the assignment (`built`). The agentic `train()` is within its `try` from the start; the AR trainer loads its checkpoint, skips
data and starts wandb before it (`Prepare`, `trainer/ar.py:691-698`), so that a failure there leaves the release to the guard's own
teardown. And the agentic release is a nest of `finally`, the AR trainer's is not (`UnwindRelease`).
A pool whose own setup fails is not counted as existing.

### ManagedReward
The client posts onload, its rows in chunks of `request_batch_size` one after another, each with attempts of its own, and
offload, and may give up on each request; the server serves what reached its
lock in order, and a chunk reaches the lock only when it has been fingerprinted, so it may fall behind what was posted
later: an attempt given up may be served during the next chunk of its call or during a later call. A call ends with the
first chunk that fails; a chunk whose rows the scorer failed on does not end it. The idempotency cache holds rows, oldest first. The child has
booted, offloaded: its start is the initial state. `own` and `rescored` are history variables: the rows scored for the current call, of which
no other scoring has had a right to drop any, and whether one was scored again. Folded away: a row's scorer error, which the server keeps like a
score, and HTTP 500 (a decode that fails, results of the wrong number), which the client takes for a lost answer.

## 3. Runs

| Run | Instance | Properties | Shows |
|---|---|---|---|
| `pool` | 2 launchers of capacities 1 and 2, 4 tasks, up to 3 per `add`, fairness | `TypeOK`, `CapacityRespected`, `EachTaskInOnePlace`, `LaunchedInOrder`, `NoWakeUpLost`, `ImplementsTaskPool`, `BlockedCallsReturn`, `QueuedTasksComplete` | the pool's promises under every interleaving, launch failure and close; no lost wake-up |
| `manager` | 2 roots of 2 siblings, 2 slots, lag 0, 2 versions | `SiblingsAccounted`, `RootsWhole`, `ChecksHold`, `ImplementsRootStore` | siblings are neither lost nor separated; none is trained on too late or dropped too early |
| `manager_live` | 1 root of 2 siblings, fairness | `CallsReturn` | each call returns or raises |
| `async` | batch 2, 5 batches, 3 slots, publication every 2; AR: 3 batches in flight, staleness 3, suspending engine; diffusion: 1 in flight, up to 2 updates, evaluation every 3 | `ChecksHold`, `PromptsAccounted`, `OneVersionPerBatch`, `InflightBounded`, `StalenessBudgeted` | publications fall between batches; carried work is never too old when trained; no diffusion batch mixes generations |
| `async_checkpoints` | both trainers, 4 batches, save every 2, evaluation every 3, 1 crash, fairness | `ImplementsTrainingRun`, `RunEnds` | a resumed run is an uninterrupted one, and ends |
| `diffusion` | 4 rollouts from 0 or 2, every policy, intervals 1-3, windows 1-2, cadences 0 or 2, up to 2 chunks | `PhaseFindsItsWeights`, `SlabNotShared`, `ServesRecentWeights`, `TrainerReturnsOnce` | for every recipe the constructor accepts, each phase has its weights, alone |
| `diffusion_defaults` | the default policy, interval 2 | `AdapterPushedBeforeGenerate`, **violated** | the finding below |
| `ar_trainer` | 4 rollouts from 0 or 2, intervals 1-3, cadences 0, 2, 3, one failure or interruption | `WorkFindsItsState`, `RecordTrue`, `ApartOnTheGpu` | engines have weights when they generate; on no path do trainer and engine meet |
| `tensor_calls` | 2 devices of 2 slots, 2 calls, 1 copy, 1 failing rank, fairness | `TensorsThere`, `CountsExact`, `EndsMeet`, `LaunchesEnd` | leases and mailbox order suffice; no transfer waits behind another |
| `weight_transfer` | an engine of 2 GPUs and one of 1, 3 tensors, 2 to a bucket, fairness | `AllOrNothing`, `NoWorkerWedged`, `AgreementsMeet`, `SyncEnds` | failures and hangs of ranks, workers and servers at every step of a transfer |
| `shutdown` | both trainers, signals anywhere, fairness | `ReleasedExactlyOnce`, `ExitTold`, `ProcessEnds` | a failure or a signal at any step, from the constructor to the teardown |
| `managed_reward` | 2 calls of 3 rows in chunks of 2, 2 attempts of each, 2 failures, a cache of 1 or of 3 | `OffTheGpu`, `RetryNotRescored` | attempts given up in one chunk and served during the next one or the next call |

`ChecksHold` says that none of the `raise RuntimeError` checks of the loop (or of the manager) ever
fires: in the trainer these are the batch alignment of admission, `collect` finding nothing left to
wait for, `combine_rollout_prompts` rejecting a batch, the carry too short to align, and a manager
that is not empty at an evaluation, checkpoint or at the end.

**Finding.** `diffusion_defaults`: with LoRA, `weight_sync_interval: 2` and the default sleeping engine, the
trainer sends the adapter every other rollout and puts the engine to sleep after each
(`trainer/diffusion.py:925`). An SGLang engine's sleep drops the adapter, so the rollout between two syncs generates
from the base model: in the run's trace rollout 2 is sent adapter 1, and rollout 3 generates with none. (An engine that has not
been sent an adapter yet, up to the first sync, is ordinary lag, and is not what the property is about.) `rollout/engine/sglang_diffusion/weight_sync.py:246` documents `lora_dirty` as "True when
LoRA is in use but the adapter must be (re)pushed before generate", which nothing reads; the evaluation
path does push again after each wake-up (`trainer/diffusion.py:1083`), and
`examples/diffusion/sd3/sd3_sglang_rollout_colocate.yaml:178` expects a longer interval to do no more than lag the
weights. `ServesRecentWeights` leaves exactly this combination out, and holds for all others.

**An exception worth knowing.** `GracefulShutdown` is a "Context manager that runs ``teardown`` on every exit path"
(`utils/graceful_shutdown.py:122`), but `run_teardown` sets `_done` before it arms the timer and calls the teardown
(lines 222-225). A first signal in between raises out of `__exit__`, and the `run_teardown` that `atexit` runs returns at once; the process
ends in its own time without a teardown. After a `train()` that reached its `finally` nothing was left to
release. But if the AR trainer's checkpoint failed to load, before the `try` of its `train()`, engine and pool are
never released. This is the window that `ReleasedExactlyOnce` excepts as `hit = "arm" /\ ~flag`: without that exception `shutdown` fails there.

**Bounds.** Two launchers of different capacity make "most free" a real choice, and three slots
with four tasks let a plan be cut short, fail in its middle and be put back before tasks that are
still queued. Two roots of two siblings give a root split over queue, engine, buffer and carry while
another is whole; one publication with lag 0 makes the filter drop it. In the asynchronous trainer, batches of two
prompts are the smallest that can be half complete; three batches in flight with a staleness of
three and a publication every two let a batch be carried over a publication; boundaries every two and
every three batches meet and miss each other. In the synchronous trainers four rollouts hold two whole
periods of the longest-but-one interval, and intervals 2 and 3 neither divide each other; a resumed start is not a
multiple of 3. In `TensorCalls` a first call makes tensors and a second uses them on the other device and the other slot, so that
moves cross and a decrement travels beside the call; one copy gives a key two handles. In `WeightTransfer` two engines of different size make a failure in one that another must learn of, and a
rank that is not its engine's leader; three tensors fill one bucket and leave a second one partly filled. In `ManagedReward` two calls of two chunks, the second one
shorter, with two attempts each let an attempt of a chunk be served during the next chunk, during the other attempt's retry, and
during the next call; the smaller cache does not hold a chunk, the larger one holds a call. `Shutdown` has no bounds. `MaxTasks`, `MaxAdd`,
`MaxRoots`, `MaxVersion`, `MaxCrashes`, `MaxChunks`, `MaxCalls`, `MaxCopies` and `MaxFailures` are the bounds;
`NumRollouts` is one of the program's own. Deadlock is not checked: all these systems stop by design (after
`close`, at the end of training, or at their bound), and the liveness properties cover being stuck earlier.

**Fairness.**
- `RolloutPool`: `WF_vars(Dispatch)`, the dispatch thread is never blocked other than in the Condition;
  `WF_vars(Engines)`, a remote call ends with a result or an error (Ray reports a dead actor as an error; the
  rollout calls are launched without a timeout, so this is an assumption the code makes too);
  `WF_vars(DriverResumes)`, a driver call that can go on does so. Nothing obliges the driver to start a call.
- `RolloutManager`: `WF_vars(Returns)` and `WF_vars(Engines)`, likewise.
- `AsyncTrainer`: `WF_vars(Driver)` and `WF_vars(Engines)`, likewise; `WF_vars(ManagerRaises)`, an error is seen by the
  next call that resolves results; `WF_vars(SaveCompletes)`, a background save ends.
- `TensorCalls`: each worker serves its mailbox and returns from its calls, both ends of a transfer that are up let it happen,
  and a launch under way goes on. Each worker is an actor of its own, hence one condition for each.
- `WeightTransfer`: `WF_vars(Consensus)`, an all-reduce that every rank has entered completes, and `WF_vars(Rank(r))` for each
  rank, whose waits all end: the one for an answer by the deadline of the transfer, the one for the thread by the
  timeout of the join. Nothing is asked of SGLang.
- `Shutdown`: `WF_vars(Guard)`, the steps that cannot block (the engine's shutdown is given up after a minute),
  and `WF_vars(HardExit)`, a daemon timer. The rest may hang for ever: constructors, training, `manager.close` and `pool.shutdown`.

No failure, crash, restart or signal is fair.

## 4. What is proved

Each theorem holds for every value of the constants: any number of launchers, any capacities and any number of
tasks for the pool, from `PoolAssumption` (the constructor's checks) alone; any number of calls, attempts,
failures and rows, and any size of the chunks and of the cache for the reward, from `RewardAssumption` (the types of the constants, and that
calls, chunks, cache and attempts are not empty); any number of rollouts, any
intervals, cadences and starts for the AR trainer, of which only `WorkIsPrepared` uses `ScheduleAssumption` (their types); any number of devices,
calls, copies and failures for the calls, from `CallsAssumption` (devices are finitely many natural numbers, the others
natural numbers); any number of ranks, engines, tensors and
tensors to a bucket for the transfer, from `TransferAssumption` (each engine has a leader of its own); any size of a group, lag,
number of slots, of prompts and of versions for the manager, from `ManagerAssumption` (their types, and that
groups and slots are not empty); any size of a batch, number of slots, of batches and of crashes for the asynchronous
loop, from `TrainerAssumption` (the types of the constants), and every recipe that the constructors let pass (`Accepted`);
any sync interval, window, start and cadence, any number of rollouts and of evaluation chunks, and every set of resident roles for the
diffusion trainer, from `RecipesAssumption` (their types), and again every recipe accepted.

| Theorem | Module | States |
|---|---|---|
| `TypeCorrect` | `RolloutPoolProofs` | `Spec => []TypeOK` |
| `CapacityIsRespected` | `RolloutPoolProofs` | `Spec => []CapacityRespected` |
| `PauseQuietens` | `RolloutPoolProofs` | `Spec => []PausedIsQuiet` |
| `CloseReleases` | `RolloutPoolProofs` | `Spec => []CloseLeavesNothing` |
| `NoTaskLostOrRunTwice` | `RolloutPoolProofs` | `Spec => []EachTaskInOnePlace` |
| `LaunchesInOrder` | `RolloutPoolProofs` | `Spec => []LaunchedInOrder` |
| `WakeUpsArrive` | `RolloutPoolProofs` | `Spec => []NoWakeUpLost` |
| `Implements` | `RolloutPoolProofs` | `Spec => ImplementsTaskPool` |
| `SiblingsInOnePlace` | `RolloutManagerProofs` | `Spec => []SiblingsAccounted` |
| `RootsKeptWhole` | `RolloutManagerProofs` | `Spec => []RootsWhole` |
| `ChecksNeverFire` | `RolloutManagerProofs` | `Spec => []ChecksHold` |
| `TypeCorrect` | `RolloutManagerProofs` | `Spec => []TypeOK` |
| `Implements` | `RolloutManagerProofs` | `Spec => ImplementsRootStore` |
| `ChecksNeverRaise` | `AsyncTrainerProofs` | `Spec => []ChecksHold` |
| `VersionsOfABatch` | `AsyncTrainerProofs` | `Spec => []OneVersionPerBatch` |
| `StalenessWithinBudget` | `AsyncTrainerProofs` | `Spec => []StalenessBudgeted` |
| `FlightBounded` | `AsyncTrainerProofs` | `Spec => []InflightBounded` |
| `CheckpointsOfWholeBatches` | `AsyncTrainerProofs` | `Spec => []CheckpointsExact` |
| `PromptsInOnePlace` | `AsyncTrainerProofs` | `Spec => []PromptsAccounted` |
| `Implements` | `AsyncTrainerProofs` | `Spec => ImplementsTrainingRun` |
| `TensorsAreThere` | `TensorCallsProofs` | `Spec => []TensorsThere` |
| `CountsAreExact` | `TensorCallsProofs` | `Spec => []CountsExact` |
| `TransfersMeet` | `TensorCallsProofs` | `Spec => []EndsMeet` |
| `ScorerLeavesTheGpu` | `ManagedRewardProofs` | `Spec => []OffTheGpu` |
| `RetriesFindTheirRows` | `ManagedRewardProofs` | `Spec => []RetryNotRescored` |
| `EnginesWholeOrUntouched` | `WeightTransferProofs` | `Spec => []AllOrNothing` |
| `WorkersEnd` | `WeightTransferProofs` | `Spec => []NoWorkerWedged` |
| `AgreementsComplete` | `WeightTransferProofs` | `Spec => []AgreementsMeet` |
| `MovesBelievedAreDone` | `ARTrainerProofs` | `Spec => []RecordTrue` |
| `EngineAndTrainStateApart` | `ARTrainerProofs` | `Spec => ApartOnTheGpu` |
| `WorkIsPrepared` | `ARTrainerProofs` | `Spec => []WorkFindsItsState` |
| `PhasesFindTheirWeights` | `DiffusionTrainerProofs` | `Spec => []PhaseFindsItsWeights` |
| `SlabIsNotShared` | `DiffusionTrainerProofs` | `Spec => []SlabNotShared` |
| `RecentWeightsAreServed` | `DiffusionTrainerProofs` | `Spec => []ServesRecentWeights` |
| `TrainerReturnsRarely` | `DiffusionTrainerProofs` | `Spec => []TrainerReturnsOnce` |

None of these is inductive. Each invariant that makes one so was checked by TLC on the instance of the run before it was
proved; of `WorkInv` of `ARTrainer` and of `DiffusionTrainer`, which quantify over annotations, the parts that TLC can evaluate (what the first
call or step finds, what each one leads to, the state between two rounds). Four proved invariants are not listed for the runs. `PausedIsQuiet`,
`CloseLeavesNothing` and `CheckpointsExact` are there through the refinements: a pause that returns early, a close that does not wait for the thread and a
resumed run that skips the wrong batches each take a step that `TaskPool` or `TrainingRun` does not have. The fourth is the manager's `TypeOK`.

**Capacities, pause, close.** A launcher's capacity is safe in the unlocked stretch only because
reservations count what the plan has not committed, so `IInv` adds: a plan exists only while the
thread executes it (`PlanIsLocal`); each launcher's reservations are the planned launches, no more and
no less (`ReservedByPlan`); what runs plus what is reserved fits (`LoadBounded`); the flags agree with
the driver's place (`DriverAgrees`); and what runs is finite, so that it can be counted. The units
out of a plan on a launcher are at most those planned there (`LaunchedWithinPlan`), so
`RemoteWithinLoad` turns `LoadBounded` into `CapacityRespected`. `InitIInv` and `NextIInv` are the two
halves of the induction, with a lemma for each group of actions; `CountedPlan` and `CountedCommit` are
the ones that count: a legal plan fits the free slots, and committing exchanges reservations for
running units one for one.

**No task lost or overtaken.** The tasks of the plan and those of the queue are read as one line (`Line`). In these terms
planning changes nothing (`PlanPlaced`); committing a plan, or giving one up half-way, takes the launched tasks
from the front and leaves the others (`LaunchedLeave`, `CommitPlaced`); `pause` and `close` take the queue's part
(`QueueLeavesPlaced`); submitting adds larger numbers at the end (`EnqueuePlaced`); everything else moves units between
sets (`MovesPlaced`). The invariant `Placed` says that the line increases, that every unit out is older than all of it, that no
two units are of one task, that what was handed back or dropped is nowhere else, and that together this is
everything submitted. `PlacesOfLine` translates the line back into the places that the properties name.

**Nobody sleeps in vain.** A wait may go to sleep only on a condition that the other thread will change, with a notification. `DriverWaits` and
`DispatchWaits` say what each sleeper waits for, and are inductive together with `RunLiftsPause` (`Sleepers`): whatever makes a
sleeper's condition true also wakes it. That the two never sleep on each other follows, with `PlanIsReserved` (a plan holds a reservation,
so that a driver who waits for reservations waits for a thread that is awake).

**The pool implements its promise.** Planning, and giving a plan up, move tasks between queue and plan, in both of which they wait, so most steps are
stutters of `TaskPool` (`Hidden`). The steps that show are the launcher's acceptance of a task (`LaunchMaps`), for which there must be a
free slot: each launcher's calls are given slots of their own (`SlotsSuffice`, an injection put together from one for each launcher); the sweep
(`MoveMaps`), where no two units are of one task; and the driver's calls. That nothing happens after a failure needs `FailureEnds`: the dispatch thread
ends with the failure it records, and what its other steps do, they do in a sound pool.

**No sibling lost, roots whole.** Everything that the pool, the manager and the driver hold is read as three sets: siblings still to
come (`Unfinished`, in five places), finished ones whose root is not complete (`Buffered`), and those of complete groups. `Accounted` says of
these sets, with what has been delivered and discarded, that they share no sibling, that together they are all the siblings of the
prompts submitted, and that a root of which anything is unfinished or buffered has nothing in a group and has lost nothing. That last part is
what makes `RootsWhole` inductive: a root leaves the first two sets only as a whole. Every operation of the manager is then one of five moves
on the sets: `BufferOne`, `CompleteRoot`, `DropRoots`, `LeaveGroups` and `SubmitRoot`, while the pool's steps move
siblings between the five places (`MovesKeep`) or run one (`ReplaceOne`). `PendingGroups.add` is the case where counting decides
(`JoinKeeps`): a buffer has fewer siblings than a group, each once, so that when one more makes `GroupSize` they are one of each copy
(`WholeGroup`, a pigeonhole argument) and the root can go. `RouteKeeps` carries this along all results. `Settle` is the hard step: what it returns and
what it drops are computed from the tails and the buffers in three ways, and `SettleAccounts` shows that they are the two sides of one set of
roots. The manager's checks follow: engines suspend only while a quiesce or close is in progress (`AtCall`), and no
task is of a version that is not published (`Stamped`), which is at most the one any call judges at.

**The manager implements its promise.** `RootStore` speaks of roots, the manager moves siblings. A root the manager has anything of is one it
has all of (`RootIsHere`), so what an operation leaves of the siblings (`Leaves`) is a statement about roots (`RootsLeave`, from `Accounted`), and
`Takes`, `WholesLeft` and `StoreAfter` translate the one into the other. What the filter drops is stale by the trainer's version (`FilterJudges`), also in
`Settle`, where what is judged lies in tails and buffers (`SettleJudges`), and when `close` judges by the published version instead (`StaleIs`);
so what is discarded was stale (`GoneIsStale`). The groups of `collect` are as many roots as it was asked for, none of them stale (`FrontTaken`,
`TakenCount`). One more invariant is needed, `Tidy`: a `collect` asks for something, and what a quiesce returned is run or handed back before anything
else. Then there is one lemma for each call (`AgingSteps`, `RaiseMaps`, `CloseReturnsMaps`, ...), and the pool's other steps are stutters (`QuietSteps`).

**Admission decides everything.** `IInv` of `AsyncTrainer` counts generations: outside a failed end, what the manager and the driver hold is exactly
`(nextGeneration - step)` batches' worth of prompts (`Whole`), whatever is queued, running, carried, ready or in the
batch, so that each bound of the loop is linear in `nextGeneration` (`Bounded`): how many batches are in flight, how old
the last of them will be when it is trained, and that nothing is drawn beyond the next boundary. `boundary_launch_prompts` establishes the three; a
batch trained gives one back to the flight and, counted in updates until the next publication, one to the staleness; a
publication starts the count again. What `combine_rollout_prompts`, the alignment of a carry, and
`_require_empty` check at run time follows: at a boundary nothing is left in flight, a batch in the making is of the version published now, and the
remainder to align is no longer than the carry (`Residue`). Exactness of checkpoints needs the identity of the prompts besides (`Placed`).

**The loop implements a run.** Each action is a step of `TrainingRun` or leaves what it shows alone. Training maps to `Train`, since the batch in
hand is a whole one and no boundary is passed with prompts outstanding; the start of a write to `Checkpoint`, its completion
to a stutter; an end, regular or by an error, to `End`; a restart to `Resume`, for which `CheckpointsExact` is needed.

**Tensors are there, counts are exact.** The store keeps a number, which no induction can follow, so the proof names what is counted. The
copies of a tensor are numbered: 0 is what the call or the move that made it left in the store, the others are the handles copied.
A copy is counted (`InStore`) when it is alive, or has a decrement on its way, or is a result nobody has bound, unless its increment is still on
its way; `StoreKept` says that the count is the number of these. That a decrement cannot free a tensor somebody holds rests on
the order of one mailbox: `CopiesKept` says that an increment still on its way has another copy, alive or counted out only later, that
it was made of. All changes of a key's count go through one worker, the key's home, or there would be no such order;
a home is chosen when the tensor is made and never changes, which no variable of the program records, so the invariant (`LedgerKept`) says that there are homes
with which everything else holds. A live handle then has its tensor in the store (`LedgerUse`: of the copies alive or to
be counted in, the one whose increment is first in the mailbox was made of one that is counted). The rest says who is alive: a
call still in a mailbox has its arguments among its leases (`LeasesKept`), from the launch, whose shards the frame holds
(`FrameKept`), until it is settled, and it is settled when no rank owes an answer (`PartsKept`) or the pool is poisoned. A lemma for each
operation carries the ledger over it (`LedgerPut`, `LedgerBind`, `LedgerCopy`, `LedgerCollect`, `LedgerCountedIn`, `LedgerCountedOut`), and
one for each action the whole (`StartStep`, `MoveStep`, ...). `CountsExact` is the ledger's balance: positions of changes in the mailbox, handles
and results are matched with copies one for one (`ChangesCounted`, `ReferencesCounted`, `UncollectedCounted`).

**Ends meet.** A driver that waits for a transfer waits for two workers, which wait for each other. The mailboxes hold the ends of at most one
transfer, each end once (`EndsApart`), both as long as the driver waits (`EndsPosted`), and the ends are two different devices
(`FrameKept`); so neither end is without the other, and no second transfer stands crosswise between them.

**The scorer leaves the GPU.** The server may serve requests long after the client has given them up, so what matters is what is still in its
queue: from the moment a call posts its offload, either the scorer is unloaded and no onload waits, or an offload
waits with no onload behind it (`Leaving`). A call that returned scores had its offload answered, which is the last
of its kind in the queue (`OffloadIsLast`, for which `OffloadIsNew` says that a call posts one), so no onload was left
behind it and the scorer has left, whatever failed before (`OffloadAnswered`). Between calls a resident scorer has an offload coming, so that
only a move that failed can leave it there once all is served. `ServingPreserves` does this once for all requests, from their effects.

**A retry finds its rows.** The rows scored for the current call are in the cache, which holds no row twice, and behind each of them are only rows
of this call (`Young`, in `CacheInv`). A chunk that adds rows leaves all of its own at the end of the list, where an eviction reaches only what is
more than `CacheLimit`, at least the chunk, away from it; one that adds none evicts none (`RememberKeeps`). What another chunk of the call has scored is
safe in a cache that can hold a call: behind a young row are fewer rows than the call has, since they are different rows of one
call (`YoungCount`), so that it is among those that stay. In a smaller cache it may be dropped, which is why the history then starts
again with a chunk that adds rows (`Scoring`). How the list changes is three lists joined, the others, the rows found and the rows added (`Kept`), each
in its order, which is an argument about ranks in a finite set of numbers (`Ranked`, `Listed`).

**Whole or not at all.** The ranks are in one phase, or gather and stage the same tensor (`Together`), and the process group is aborted only
there, so that no rank can return once one has aborted. Of a rank that knows of no failure (`Sound`), the buffer and what
its worker has loaded are exactly what is staged, and worker and socket are where the phase says (`InStep`); a rank that has given up
promises nothing, and its worker may read a buffer that is gone. What survives its failure is weaker and holds of all ranks (`Exchanged`): only a worker
that has loaded everything releases the buffer. `Led` ties a leader to its receiver thread, its mark and its workers, those of other
ranks included: a leader that has raised either never started the thread or has marked its rollout and left no worker
running. A rank that agrees to "complete" therefore finds every engine whole (`AgreeKeeps`), and after that nothing moves (`AllReturned`).

**Agreements meet.** An agreement of the process group returns when all ranks have joined the same one. `Lockstep` says that all ranks that have not left
head for the same agreement (`Heading`), with the same number of tensors staged before it (`StagedBefore`), or that all have left
together; what a rank does within a phase, failures included, leaves that so (`WithinPhase`). No rank can therefore wait
at an agreement that another has skipped.

**The record is true.** The anchored layout never moves half of the train state, so each of its calls either did what it is
recorded to have done or raised before it was recorded. `WholeMoves` says so of the calls still to make, those of the
handlers included; that every part of the program yields only such calls is shown part by part (`AnchoredIsStep`, `TrainStepIsStep`,
`BootIsStep`, ...).

**Trainer and engine apart.** The argument is that of an annotated program. `Need` is what a call requires of the GPU (the
engine asleep, the train state gone, or at least its optimizer), `Gives` what it leaves behind; the calls still to make are a `Line`, each giving what the
next needs, and `Ready` says that the GPU satisfies the first. `Then` composes two such sequences as Hoare's rule does,
and `PrepareIsPart`, `SplitSession`, `AnchoredSession`, `TrainStepIsPart` and `BootIsPart` apply it to the methods of the
trainer. The hard part is a call that raises: what the handlers need is part of the `Need` of the call they guard, and the
handlers that need anything guard only calls that leave it alone (`Careful`, `Fit`), so that `Ready` survives the jump (`CleanReady`). One step, `EnsureNothingKeeps`, needs `RecordTrue`: a call that the record says is
not needed gives what it would have given.

**Work finds its state.** What a rollout needs depends on what was done rounds before: a deep sleep discards the weights unless the sleep before
it was told to keep them, and whether it is told depends on a forecast of the next sync. So the
annotations are sets of states of the GPU here: `Runs(c, s, P, Q)` says that the calls `s`, if they return, lead from `P` to `Q`
and that each finds what it needs, with a rule for each way to put calls together (`RunsThen`, `RunsIf`, `RunsGuard`) and for
each call. What is known of a state (`Known`) is where the train state and the engine are, whether it has weights, how many
updates they may be behind (the set of `Ages`), and whether the next sleep spares them. `Resting` is the invariant between two rounds: if rollout
`n` will not sync (`Unsynced`), the engine has weights and they are at most `n % interval` updates old. `RoundRuns` carries it
over a round: the forecast of `must_preserve_rollout_weights` is made of the same conditions as the
decision a round later, and a remainder grows by one until it is zero again (`RemainderGrows`). `BootRuns` establishes it, for
a fresh run because the first rollout of one has weights of age 0 and for a resumed one because it syncs. An exception leads to handlers, which
do no work (`EndsInHandlers`); a move that the record says is done leads where the move would have led (`CallLeads`, from `RecordTrue`).

**Each phase has its weights, alone.** What the diffusion trainer has still to do is annotated in the same way: `Runs(c, s, P, Q)`, with one lemma
for each method (`GenerateRuns`, `RolloutRuns`, `TrainStepRuns`, `EvaluateRuns`, `SavingRuns`), and `WorkInv` says that `todo` runs from the
state at hand to `Resting`, the states between two rounds. Two things are new. A window and an evaluation are sequences of unknown
length: `RunsFlat` joins the annotations of their parts, for which the library's `FlattenSeq` is first shown to be what is
joined piece by piece (`Flattened`). And a phase decides its moves only when it is entered: `Leads` says
of an `enter`, `set` or `cache` where the steps that replace it will have led, and `TransitionsRun`, `SleepingRuns` and
`CachingRuns` prove it of these steps, so that an expansion leaves the invariant as it was (`Expands`). What is known of a state (`Knows`)
is whose phase it is, which is how roles that share the slab are kept apart (`Alone`); how many updates the engine lags (`Since`,
`Old`), where an engine that loses its adapter in its sleep may lag by everything; what is staged; how often the trainer has returned (`Turns`);
and whose weights it has. That a sync within a window costs a second return, and that there is none if windows divide the
interval, is arithmetic (`NextRollout`, from `InWindow` and `Multiple`), as is that the lag stays below the interval (`RemainderGrows`).

## 5. What is only model-checked, and what is not modelled

Only model-checked:
- Liveness and fairness (`BlockedCallsReturn`, `QueuedTasksComplete`, `CallsReturn`, `RunEnds`, `LaunchesEnd`,
  `SyncEnds`, `ProcessEnds`), which the prover does not handle. What each of them rests on in
  the state is proved where it is an invariant: nobody sleeps in vain (`NoWakeUpLost`), transfers and agreements find all
  who take part in them (`EndsMeet`, `AgreementsMeet`).
- What a recursive definition computes for all inputs is not proved by the library's induction theorems, which take
  an operator that the installed provers cannot instantiate. Where a proof needs it, of `Select`, `Routed`, `GatherTails`, `Filtered` or
  the library's `FlattenSeq`, the induction is done on a set of numbers, from the
  least one outside it (`CountUp`), and the function is shown to exist (`Recursion`, `JoinsUpTo`) before it is unfolded.
- The invariants of `Shutdown`, `ReleasedExactlyOnce` and `ExitTold`: it has no parameters, its run is exhaustive.

Not modelled:
- Most of the repository is numerical: models, samplers, losses, reward functions, video and image codecs, and
  adaptations of inference engines. It has no control state to check, and it is by far most of the lines, so the
  modelled share of all lines stays small although the control code is covered.
- The other transfers of a weight sync: the order of NCCL broadcasts against the engines' receives, bucket by bucket; the
  IPC handles of the vLLM and SGLang tensor routes.
- The transfer queue and the span arithmetic of tensor batches; dispatch and collect by rank.
- The PE, unified-model and SFT trainers: sequential loops of the operations that the two modelled trainers make,
  for two policies with two syncs (PE), for two engines that are awake in turn (unified), and without rollouts (SFT).
- Gradients through remote calls; workers with more than one call thread, for which the code promises no order between an
  increment and a decrement; creation of workers and allocation of devices; resident mode of the managed reward; the multi-scorer
  service.

## 6. Mutants

For each property of each passing run `PROJECT.json` names a definition and a faulty variant of it, a bug
one could write in that code (reservations released twice, a pause that does not wait, a replayed data
source, a freshness horizon one batch too long, a call that does not hold its arguments, receives posted before all sends,
a sleeping scorer taken to need no offload, ...), with which TLC finds the property violated. It
shows that the property depends on the code.

## 7. Plan

1. Weight synchronisation over NCCL: the order of its collectives against engine calls; then the transfer queue.
2. Workers with several call threads, moves that fail on one side, and device allocation in `TensorCalls`.
3. Pure operators: dispatch and collect by rank, span arithmetic, splitting by bucket, against
   reference definitions over bounded inputs.
