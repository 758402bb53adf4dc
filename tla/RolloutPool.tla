---------------------------- MODULE RolloutPool ----------------------------
(***************************************************************************)
(* The bounded background dispatcher of src/unirl/rollout/manager/         *)
(* dispatch.py: class RolloutPool.                                         *)
(*                                                                         *)
(* Two threads share the pool's state under one Condition: the DRIVER,     *)
(* which calls add, pause, take_completed, drain, run_to_completion and    *)
(* close, and the DISPATCH thread, which runs _progress.  A region of code *)
(* that holds the lock is one action; what the dispatch thread does        *)
(* between two regions (calling the launchers, polling the remote calls)   *)
(* is an action of its own, so the driver and the engines may step in      *)
(* between.  Condition.wait is modelled by the set asleep: a thread in it  *)
(* takes no step until a notify_all empties the set.                       *)
(*                                                                         *)
(* A task is the number add gave it (_next_sequence); what a task carries  *)
(* is of no concern to the pool.                                           *)
(***************************************************************************)
EXTENDS Integers, Sequences, FiniteSets

CONSTANTS
  NumLaunchers,  \* number of launchers (engine slots)
  Capacity,      \* Capacity[l]: concurrent calls launcher l may run
  MaxTasks,      \* bound of the model: tasks ever submitted
  MaxAdd         \* bound of the model: tasks in one add / run_to_completion

Launchers == 0 .. NumLaunchers - 1

\* The constructor's checks: at least one launcher, positive capacities.
ASSUME PoolAssumption ==
  /\ NumLaunchers \in Nat \ {0}
  /\ Capacity \in [Launchers -> Nat \ {0}]
  /\ MaxTasks \in Nat
  /\ MaxAdd \in Nat \ {0}

VARIABLES
  \* guarded by the Condition
  queue,         \* submitted tasks that no launch is planned for
  running,       \* units launched and not yet seen ready
  completed,     \* units seen ready, to be taken by the driver
  reserved,      \* slots promised to planned launches, by launcher
  nextSequence,  \* number of the next task
  paused, closed,
  failed,        \* _failure is set
  asleep,        \* threads in Condition.wait
  \* local to the dispatch thread
  tpc,           \* where it stands in _progress
  plan,          \* the launches it is executing
  launched,      \* how many of them the launchers have accepted
  snapshot,      \* its copy of running
  ready,         \* the units its last sweep found ready
  \* local to the driver
  dpc,           \* the call it is blocked in, or "idle" / "closed"
  \* the engines
  finished,      \* units whose remote call is over
  \* history: what left the pool
  handedBack,    \* tasks pause returned
  delivered,     \* units take_completed, drain, run_to_completion returned
  discarded,     \* units close gave up
  dropped        \* tasks close cleared from the queue

dispatchVars == <<tpc, plan, launched, snapshot, ready>>
historyVars  == <<handedBack, delivered, discarded, dropped>>
vars == <<queue, running, completed, reserved, nextSequence, paused, closed,
          failed, asleep, dpc, finished, dispatchVars, historyVars>>

Task == Nat
Unit == [sequence : Task, launcher : Launchers]
At(l, units) == {u \in units : u.launcher = l}
Elements(seq) == {seq[i] : i \in DOMAIN seq}

\* Planned launches of launcher l, and the units of the plan that are out.
PlannedAt(l) == {i \in DOMAIN plan : plan[i].launcher = l}
LaunchedOfPlan == {plan[i] : i \in {j \in DOMAIN plan : j <= launched}}

AnyReserved   == \E l \in Launchers : reserved[l] > 0
HasRemoteWork == queue # <<>> \/ running # {} \/ AnyReserved
Load(l)       == reserved[l] + Cardinality(At(l, running))

NotifyAll == asleep' = {}
Wait(thread) == asleep' = asleep \cup {thread}

Init ==
  /\ queue = <<>> /\ running = {} /\ completed = {}
  /\ reserved = [l \in Launchers |-> 0]
  /\ nextSequence = 0
  /\ paused = TRUE /\ closed = FALSE /\ failed = FALSE
  /\ asleep = {}
  /\ tpc = "top" /\ plan = <<>> /\ launched = 0
  /\ snapshot = {} /\ ready = {}
  /\ dpc = "idle"
  /\ finished = {}
  /\ handedBack = {} /\ delivered = {} /\ discarded = {} /\ dropped = {}

-----------------------------------------------------------------------------
(***************************************************************************)
(* The driver.  A call on a failed pool raises and changes nothing, so the *)
(* actions below ask for ~failed and a blocked call that wakes up to a     *)
(* failure just ends (Raise).                                              *)
(***************************************************************************)

\* The n tasks one call submits, numbered in order.
NewTasks(n) == [i \in 1 .. n |-> nextSequence + i - 1]

\* Faulty variant: new work does not lift the pause.
EnqueueStayingPaused(n) ==
  /\ n \in 1 .. MaxAdd
  /\ nextSequence + n <= MaxTasks
  /\ queue' = queue \o NewTasks(n)
  /\ nextSequence' = nextSequence + n
  /\ UNCHANGED paused

Enqueue(n) ==
  /\ n \in 1 .. MaxAdd
  /\ nextSequence + n <= MaxTasks
  /\ queue' = queue \o NewTasks(n)
  /\ nextSequence' = nextSequence + n
  /\ paused' = FALSE

Add(n) ==
  /\ dpc = "idle" /\ ~failed /\ ~closed
  /\ Enqueue(n)
  /\ NotifyAll
  /\ UNCHANGED <<running, completed, reserved, closed, failed, dpc, finished,
                 dispatchVars, historyVars>>

TakeQueue ==
  /\ handedBack' = handedBack \cup Elements(queue)
  /\ queue' = <<>>
  /\ NotifyAll
  /\ dpc' = "idle"

\* Faulty variant: pause does not wait for launches under way.
PauseReturnsAtOnce == TRUE

\* What pause waits for: no launch that was planned before it is under way.
PauseMayReturn == ~AnyReserved

Pause ==
  /\ dpc = "idle" /\ ~failed /\ ~closed
  /\ paused' = TRUE
  /\ \/ PauseMayReturn /\ TakeQueue
     \/ ~PauseMayReturn /\ dpc' = "pause" /\ Wait("driver")
        /\ UNCHANGED <<queue, handedBack>>
  /\ UNCHANGED <<running, completed, reserved, nextSequence, closed, failed,
                 finished, dispatchVars, delivered, discarded, dropped>>

PauseReturns ==
  /\ dpc = "pause" /\ "driver" \notin asleep /\ ~failed
  /\ PauseMayReturn
  /\ TakeQueue
  /\ UNCHANGED <<running, completed, reserved, nextSequence, paused, closed,
                 failed, finished, dispatchVars, delivered, discarded, dropped>>

Deliver ==
  /\ delivered' = delivered \cup completed
  /\ completed' = {}
  /\ dpc' = "idle"

\* Faulty variant: a blocking take ignores that nothing is left to wait for.
TakeWaitsForAResult == completed = {}

\* The conditions under which each blocking call keeps waiting.
TakeWaits  == completed = {} /\ HasRemoteWork
DrainWaits == running # {} \/ AnyReserved
RunWaits   == HasRemoteWork

StillWaits(call) ==
  \/ call = "pause" /\ ~PauseMayReturn
  \/ call = "take"  /\ TakeWaits
  \/ call = "drain" /\ DrainWaits
  \/ call = "run"   /\ RunWaits

\* take_completed(block=False), and every call that need not block.
TakeCompleted ==
  /\ dpc = "idle" /\ ~failed /\ ~closed
  /\ Deliver
  /\ UNCHANGED <<queue, running, reserved, nextSequence, paused, closed,
                 failed, asleep, finished, dispatchVars, handedBack, discarded,
                 dropped>>

\* take_completed(block=True) and drain when they have to wait.
Block(call) ==
  /\ dpc = "idle" /\ ~failed /\ ~closed
  /\ call \in {"take", "drain"}
  /\ StillWaits(call)
  /\ dpc' = call
  /\ Wait("driver")
  /\ UNCHANGED <<queue, running, completed, reserved, nextSequence, paused,
                 closed, failed, finished, dispatchVars, historyVars>>

TakeReturns ==
  /\ dpc \in {"take", "drain"} /\ "driver" \notin asleep /\ ~failed
  /\ ~StillWaits(dpc)
  /\ Deliver
  /\ UNCHANGED <<queue, running, reserved, nextSequence, paused, closed,
                 failed, asleep, finished, dispatchVars, handedBack, discarded,
                 dropped>>

\* run_to_completion wants an idle pool; it notifies, then waits for its tasks.
RunToCompletion(n) ==
  /\ dpc = "idle" /\ ~failed /\ ~closed
  /\ ~HasRemoteWork /\ completed = {}
  /\ Enqueue(n)
  /\ dpc' = "run"
  /\ asleep' = {"driver"}
  /\ UNCHANGED <<running, completed, reserved, closed, failed, finished,
                 dispatchVars, historyVars>>

RunReturns ==
  /\ dpc = "run" /\ "driver" \notin asleep /\ ~failed
  /\ ~RunWaits
  /\ paused' = TRUE
  /\ Deliver
  /\ UNCHANGED <<queue, running, reserved, nextSequence, closed, failed,
                 asleep, finished, dispatchVars, handedBack, discarded,
                 dropped>>

\* A woken call whose condition does not hold yet waits again.
WaitAgain ==
  /\ dpc \in {"pause", "take", "drain", "run"} /\ "driver" \notin asleep
  /\ ~failed /\ StillWaits(dpc)
  /\ Wait("driver")
  /\ UNCHANGED <<queue, running, completed, reserved, nextSequence, paused,
                 closed, failed, dpc, finished, dispatchVars, historyVars>>

\* A woken call raises the pool's failure.
Raise ==
  /\ dpc \in {"pause", "take", "drain", "run"} /\ "driver" \notin asleep
  /\ failed
  /\ dpc' = "idle"
  /\ UNCHANGED <<queue, running, completed, reserved, nextSequence, paused,
                 closed, failed, asleep, finished, dispatchVars, historyVars>>

Close ==
  /\ dpc = "idle" /\ ~closed
  /\ closed' = TRUE /\ paused' = TRUE
  /\ dropped' = dropped \cup Elements(queue)
  /\ queue' = <<>>
  /\ NotifyAll
  /\ dpc' = "join"
  /\ UNCHANGED <<running, completed, reserved, nextSequence, failed, finished,
                 dispatchVars, handedBack, delivered, discarded>>

\* close goes on when the dispatch thread has ended.
CloseMayDiscard == tpc = "exit"

CloseDiscards ==
  /\ dpc = "join" /\ CloseMayDiscard
  /\ discarded' = discarded \cup running \cup completed
  /\ running' = {} /\ completed' = {}
  /\ dpc' = "closed"
  /\ UNCHANGED <<queue, reserved, nextSequence, paused, closed, failed, asleep,
                 finished, dispatchVars, handedBack, delivered, dropped>>

-----------------------------------------------------------------------------
(***************************************************************************)
(* The dispatch thread: _progress.                                         *)
(***************************************************************************)

\* Free slots of launcher l before the i-th pick of p, a list of launchers.
Free(l, p, i) ==
  Capacity[l] - Load(l) - Cardinality({j \in DOMAIN p : j < i /\ p[j] = l})

\* The code's max(range(n), key=free): the most free launcher, the lowest of equals.
MostFree(l, p, i) ==
  \A m \in Launchers \ {l} :
    \/ Free(m, p, i) < Free(l, p, i)
    \/ Free(m, p, i) = Free(l, p, i) /\ l < m

\* Faulty variant: off by one.
HasRoomOrIsFull(l, p, i) == Free(l, p, i) >= 0

HasRoom(l, p, i) == Free(l, p, i) > 0

\* p is the list of launchers that _plan_launches gives the head of the queue.
IsPlan(p) ==
  /\ \A i \in DOMAIN p : MostFree(p[i], p, i) /\ HasRoom(p[i], p, i)
  /\ \/ Len(p) = Len(queue)
     \/ \A l \in Launchers : ~HasRoom(l, p, Len(p) + 1)

Assignments == UNION {[1 .. k -> Launchers] : k \in 0 .. Len(queue)}

Exit ==
  /\ tpc = "top" /\ "dispatch" \notin asleep
  /\ failed \/ closed
  /\ tpc' = "exit"
  /\ UNCHANGED <<queue, running, completed, reserved, nextSequence, paused,
                 closed, failed, asleep, dpc, finished, plan, launched,
                 snapshot, ready, historyVars>>

\* One turn's locked region while launches are admitted: plan and reserve.
PlanLaunches ==
  /\ tpc = "top" /\ "dispatch" \notin asleep
  /\ ~failed /\ ~closed
  /\ ~paused /\ queue # <<>>
  /\ \E p \in Assignments :
       /\ p # <<>>
       /\ IsPlan(p)
       /\ plan' = [i \in 1 .. Len(p) |->
                     [sequence |-> queue[i], launcher |-> p[i]]]
       /\ queue' = SubSeq(queue, Len(p) + 1, Len(queue))
       /\ reserved' = [l \in Launchers |->
            reserved[l] + Cardinality({i \in DOMAIN p : p[i] = l})]
  /\ snapshot' = running
  /\ tpc' = "launch"
  /\ UNCHANGED <<running, completed, nextSequence, paused, closed, failed,
                 asleep, dpc, finished, launched, ready, historyVars>>

NothingToPlan ==
  \/ paused \/ queue = <<>>
  \/ \A l \in Launchers : ~HasRoom(l, <<>>, 1)

\* Nothing to launch: poll what runs, or wait when nothing does.
PollOrWait ==
  /\ tpc = "top" /\ "dispatch" \notin asleep
  /\ ~failed /\ ~closed
  /\ NothingToPlan
  /\ \/ running = {} /\ Wait("dispatch") /\ UNCHANGED <<tpc, snapshot>>
     \/ running # {} /\ tpc' = "poll" /\ snapshot' = running
        /\ UNCHANGED asleep
  /\ UNCHANGED <<queue, running, completed, reserved, nextSequence, paused,
                 closed, failed, dpc, finished, plan, launched, ready,
                 historyVars>>

\* The launcher accepts the next task of the plan: its remote call is out.
LaunchNext ==
  /\ tpc = "launch" /\ launched < Len(plan)
  /\ launched' = launched + 1
  /\ UNCHANGED <<queue, running, completed, reserved, nextSequence, paused,
                 closed, failed, asleep, dpc, finished, tpc, plan, snapshot,
                 ready, historyVars>>

\* The launcher raises instead.
LaunchRaises ==
  /\ tpc = "launch" /\ launched < Len(plan)
  /\ tpc' = "abort"
  /\ UNCHANGED <<queue, running, completed, reserved, nextSequence, paused,
                 closed, failed, asleep, dpc, finished, plan, launched,
                 snapshot, ready, historyVars>>

\* Faulty variant: the launched part of the plan is released twice.
ReleaseLaunchedTwice ==
  reserved' = [l \in Launchers |-> reserved[l] - Cardinality(PlannedAt(l))
                                     - Cardinality(At(l, LaunchedOfPlan))]

\* Give back what the whole plan reserved.
ReleaseReservations ==
  reserved' = [l \in Launchers |-> reserved[l] - Cardinality(PlannedAt(l))]

CommitLaunches ==
  /\ tpc = "launch" /\ launched = Len(plan)
  /\ running' = running \cup LaunchedOfPlan
  /\ ReleaseReservations
  /\ plan' = <<>> /\ launched' = 0
  /\ NotifyAll
  /\ tpc' = "poll"
  /\ UNCHANGED <<queue, completed, nextSequence, paused, closed, failed, dpc,
                 finished, snapshot, ready, historyVars>>

\* Faulty variants: the task whose launch raised is forgotten; the order is
\* that of extendleft without reversed.
UnlaunchedButTheFirst ==
  [i \in 1 .. Len(plan) - launched - 1 |-> plan[launched + 1 + i].sequence]
UnlaunchedReversed ==
  [i \in 1 .. Len(plan) - launched |-> plan[Len(plan) + 1 - i].sequence]

\* The launches that did not happen go back to the front, in order.
Unlaunched == [i \in 1 .. Len(plan) - launched |-> plan[launched + i].sequence]

AbortLaunches ==
  /\ tpc = "abort"
  /\ running' = running \cup LaunchedOfPlan
  /\ ReleaseReservations
  /\ queue' = Unlaunched \o queue
  /\ failed' = TRUE /\ paused' = TRUE
  /\ plan' = <<>> /\ launched' = 0
  /\ NotifyAll
  /\ tpc' = "exit"
  /\ UNCHANGED <<completed, nextSequence, closed, dpc, finished, snapshot,
                 ready, historyVars>>

\* A sweep over the snapshot.  One that finds nothing waits for at most
\* _PROBE_INTERVAL_S, a wait that always ends, and starts over.
Poll ==
  /\ tpc = "poll"
  /\ ready' = snapshot \cap finished
  /\ tpc' = IF ready' = {} THEN "top" ELSE "move"
  /\ snapshot' = {}
  /\ UNCHANGED <<queue, running, completed, reserved, nextSequence, paused,
                 closed, failed, asleep, dpc, finished, plan, launched,
                 historyVars>>

\* ready() raises: the remote call had ended in an error.
PollRaises ==
  /\ tpc = "poll" /\ snapshot \cap finished # {}
  /\ tpc' = "fail"
  /\ snapshot' = {}
  /\ UNCHANGED <<queue, running, completed, reserved, nextSequence, paused,
                 closed, failed, asleep, dpc, finished, plan, launched, ready,
                 historyVars>>

\* Faulty variant: a failed poll is recorded but nobody is told.
RecordFailureSilently ==
  /\ tpc = "fail"
  /\ failed' = TRUE /\ paused' = TRUE
  /\ tpc' = "exit"
  /\ UNCHANGED <<queue, running, completed, reserved, nextSequence, closed,
                 asleep, dpc, finished, plan, launched, snapshot, ready,
                 historyVars>>

RecordFailure ==
  /\ tpc = "fail"
  /\ failed' = TRUE /\ paused' = TRUE
  /\ NotifyAll
  /\ tpc' = "exit"
  /\ UNCHANGED <<queue, running, completed, reserved, nextSequence, closed,
                 dpc, finished, plan, launched, snapshot, ready, historyVars>>

MoveReady ==
  /\ tpc = "move"
  /\ running' = running \ ready
  /\ completed' = completed \cup (ready \cap running)
  /\ ready' = {}
  /\ NotifyAll
  /\ tpc' = "top"
  /\ UNCHANGED <<queue, reserved, nextSequence, paused, closed, failed, dpc,
                 finished, plan, launched, snapshot, historyVars>>

-----------------------------------------------------------------------------
\* The engines (external): a remote call ends, with a result or an error.
Remote == running \cup LaunchedOfPlan

Finish(u) ==
  /\ u \in Remote \ finished
  /\ finished' = finished \cup {u}
  /\ UNCHANGED <<queue, running, completed, reserved, nextSequence, paused,
                 closed, failed, asleep, dpc, dispatchVars, historyVars>>

Driver ==
  \/ \E n \in 1 .. MaxAdd : Add(n) \/ RunToCompletion(n)
  \/ \E call \in {"take", "drain"} : Block(call)
  \/ Pause \/ PauseReturns \/ TakeCompleted \/ TakeReturns \/ RunReturns
  \/ WaitAgain \/ Raise \/ Close \/ CloseDiscards

Dispatch ==
  \/ Exit \/ PlanLaunches \/ PollOrWait
  \/ LaunchNext \/ LaunchRaises \/ CommitLaunches \/ AbortLaunches
  \/ Poll \/ PollRaises \/ RecordFailure \/ MoveReady

Engines == \E u \in Remote : Finish(u)

Next == Driver \/ Dispatch \/ Engines

Spec == Init /\ [][Next]_vars

(***************************************************************************)
(* The dispatch thread and the engines always go on (a remote call ends,   *)
(* with a result or an error), and so does a driver call that is woken up. *)
(* Nothing makes the driver start a call.                                  *)
(***************************************************************************)
DriverResumes ==
  \/ PauseReturns \/ TakeReturns \/ RunReturns \/ WaitAgain \/ Raise
  \/ CloseDiscards

FairSpec ==
  Spec /\ WF_vars(Dispatch) /\ WF_vars(Engines) /\ WF_vars(DriverResumes)

-----------------------------------------------------------------------------
Tasks(units) == {u.sequence : u \in units}
Planned == {plan[i].sequence : i \in {j \in DOMAIN plan : j > launched}}
Waiting == Elements(queue) \cup Planned

TypeOK ==
  /\ queue \in Seq(Task) /\ plan \in Seq(Unit)
  /\ running \in SUBSET Unit /\ completed \in SUBSET Unit
  /\ reserved \in [Launchers -> Nat]
  /\ nextSequence \in Nat /\ launched \in 0 .. Len(plan)
  /\ paused \in BOOLEAN /\ closed \in BOOLEAN /\ failed \in BOOLEAN
  /\ asleep \in SUBSET {"driver", "dispatch"}
  /\ tpc \in {"top", "launch", "abort", "poll", "move", "fail", "exit"}
  /\ dpc \in {"idle", "pause", "take", "drain", "run", "join", "closed"}
  /\ snapshot \in SUBSET Unit /\ ready \in SUBSET Unit
  /\ finished \in SUBSET Unit
  /\ handedBack \in SUBSET Task /\ dropped \in SUBSET Task
  /\ delivered \in SUBSET Unit /\ discarded \in SUBSET Unit

(***************************************************************************)
(* No launcher ever has more calls in flight, counting those about to be   *)
(* made, than its capacity: the engine and the worker's call threads are   *)
(* sized for exactly that (validate_worker_inflight).  It rests on the     *)
(* reservations, which bridge the unlocked stretch between planning and    *)
(* committing launches.                                                    *)
(***************************************************************************)
CapacityRespected ==
  \A l \in Launchers :
    Cardinality(At(l, Remote)) <= Capacity[l] /\ Load(l) <= Capacity[l]

(***************************************************************************)
(* Every task the driver submitted is in exactly one place: waiting, out   *)
(* on one launcher, completed, or gone to exactly one of the driver        *)
(* (handed back by pause, or delivered) and close (dropped, discarded).    *)
(* No interleaving of pause, a launch that fails midway through a plan,    *)
(* the sweep and close loses a task or has it run twice.                   *)
(***************************************************************************)
EachTaskInOnePlace ==
  LET places == <<Elements(queue), Planned, Tasks(Remote), Tasks(completed),
                  handedBack, Tasks(delivered), Tasks(discarded), dropped>>
  IN  /\ UNION Elements(places) = 0 .. nextSequence - 1
      /\ \A i, j \in DOMAIN places : i # j => places[i] \cap places[j] = {}

(***************************************************************************)
(* Between driver calls a paused pool that has not failed is quiet: no     *)
(* task is queued and no launch is planned or under way.  This is what     *)
(* lets quiesce tell the engines to stop after pause, and what keeps a     *)
(* blocking take_completed from waiting for a task no one will launch.     *)
(***************************************************************************)
PausedIsQuiet ==
  paused /\ ~failed /\ dpc \in {"idle", "take", "drain"} =>
    queue = <<>> /\ plan = <<>> /\ ~AnyReserved

(***************************************************************************)
(* Tasks are launched in submission order: whatever still waits, in the    *)
(* queue or in the plan, came after everything launched, and the queue is  *)
(* in order even after a failed plan was put back at its front.            *)
(***************************************************************************)
LaunchedInOrder ==
  /\ \A i, j \in DOMAIN queue : i < j => queue[i] < queue[j]
  /\ \A t \in Waiting : \A u \in UNION {Remote, completed, delivered} :
       u.sequence < t

(***************************************************************************)
(* When close has returned the dispatch thread is gone and no remote call  *)
(* is left unaccounted for: each was delivered or handed to                *)
(* discard_on_completion, which releases what its result holds.            *)
(***************************************************************************)
CloseLeavesNothing ==
  dpc = "closed" =>
    tpc = "exit" /\ Remote = {} /\ completed = {} /\ ~AnyReserved

(***************************************************************************)
(* No wake-up is lost.  A thread inside Condition.wait waits for something *)
(* that has not happened yet: the driver for a result, a launch or the end *)
(* of one, on a pool that has not failed; the dispatch thread for a task   *)
(* it may launch, with nothing out that would have to be polled.  And the  *)
(* two never wait for each other.                                          *)
(***************************************************************************)
NoWakeUpLost ==
  /\ "driver" \in asleep => ~failed /\ StillWaits(dpc)
  /\ "dispatch" \in asleep =>
       /\ tpc = "top" /\ ~failed /\ ~closed
       /\ running = {} /\ NothingToPlan
  /\ asleep # {"driver", "dispatch"}

(***************************************************************************)
(* Every blocking call returns or raises: no wake-up is lost between the   *)
(* two threads, whatever fails.                                            *)
(***************************************************************************)
BlockedCallsReturn ==
  \A call \in {"pause", "take", "drain", "run", "join"} :
    dpc = call ~> dpc \in {"idle", "closed"}

(***************************************************************************)
(* A queued task does not stay queued: its result is seen, or pause hands  *)
(* it back, or the pool fails or is closed.                                *)
(***************************************************************************)
QueuedTasksComplete ==
  \A t \in 0 .. MaxTasks - 1 :
    t \in Elements(queue) ~>
      \/ t \in handedBack \/ failed \/ closed
      \/ t \in Tasks(completed \cup delivered)

(***************************************************************************)
(* RolloutPool implements TaskPool.                                        *)
(***************************************************************************)
\* One slot for each concurrent call of each launcher.
Slots == UNION {{l} \X (1 .. Capacity[l]) : l \in Launchers}

TotalCapacity == Cardinality(Slots)

Abstract == INSTANCE TaskPool WITH
  Task       <- 0 .. MaxTasks - 1,
  Slots      <- TotalCapacity,
  waiting    <- Waiting,
  executing  <- Tasks(Remote),
  done       <- Tasks(completed),
  delivered  <- Tasks(delivered),
  abandoned  <- dropped \cup Tasks(discarded),
  broken     <- failed,
  stage      <- IF dpc = "closed" THEN "closed"
                ELSE IF closed THEN "closing" ELSE "open"

ImplementsTaskPool == Abstract!Spec
=============================================================================
