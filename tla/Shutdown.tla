------------------------------ MODULE Shutdown ------------------------------
(***************************************************************************)
(* How a driver comes to its end: GracefulShutdown, of                     *)
(* src/unirl/utils/graceful_shutdown.py, around a trainer whose train()    *)
(* releases its runtime itself, in src/unirl/trainer/agentic.py and ar.py. *)
(*                                                                         *)
(* The main thread is at one point of the program.  A signal raises an     *)
(* exception at that point, wherever it is: in training, in the release    *)
(* that training ends with, or in the guard's own teardown.                *)
(***************************************************************************)
EXTENDS Integers

VARIABLES
  kind,       \* the trainer: "agentic", which has a rollout manager, or "ar"
  at,         \* the point of the main thread
  caller,     \* who releases the runtime: the "run", or the guard's "teardown"
  inExit,     \* the teardown is that of __exit__, not of atexit
  exists,     \* the parts that have been constructed
  built,      \* the entry point holds the trainer
  flag,       \* _runtime_shutdown_done
  done,       \* GracefulShutdown._done
  signals,    \* _signal_count
  hit,        \* where the first signal struck, or "none"
  timer,      \* the status of the hard exit that is armed, or 0
  failing,    \* an exception is on its way out of the with block
  released,   \* how often the release of each part was begun
  status      \* the exit status, or -1 while the process runs

guardVars == <<inExit, done, timer>>
runVars   == <<kind, exists, built, failing>>
vars == <<at, caller, flag, signals, hit, released, status, guardVars, runVars>>

Signum == 15
Part   == {"manager", "engine", "pool"}
Owned  == IF kind = "agentic" THEN Part ELSE Part \ {"manager"}

Init ==
  /\ kind \in {"agentic", "ar"} /\ at = "construct" /\ caller = "run"
  /\ inExit = TRUE /\ exists = {} /\ built = FALSE /\ flag = FALSE /\ done = FALSE
  /\ signals = 0 /\ hit = "none" /\ timer = 0 /\ failing = FALSE
  /\ released = [p \in Part |-> 0] /\ status = -1

Running == status = -1
Killed  == 128 + Signum
Begin(part) == released' = [released EXCEPT ![part] = @ + 1]
After(who) == IF who = "run" THEN "exit" ELSE "disarm"

-----------------------------------------------------------------------------
(***************************************************************************)
(* The run: construct the trainer, train, and release the runtime whatever *)
(* happened.                                                               *)
(***************************************************************************)
\* The part that is built next: each one needs those before it.
Upcoming == [pool |-> {}, engine |-> {"pool"}, manager |-> {"pool", "engine"}]

\* The agentic trainer's constructor releases what it has built when it fails,
\* from the pool's setup on; the AR trainer's does not.
Abandon == IF kind = "agentic" /\ exists # {} THEN "enter" ELSE "exit"

Construct ==
  /\ at = "construct"
  /\ \/ \E part \in Owned :
          /\ Upcoming[part] = exists /\ exists' = exists \cup {part}
          /\ UNCHANGED <<at, failing>>
     \/ /\ exists = Owned /\ at' = "assign" /\ UNCHANGED <<exists, failing>>
     \/ /\ at' = Abandon /\ failing' = TRUE /\ UNCHANGED exists
  /\ UNCHANGED <<kind, built, caller, flag, signals, hit, released, status, guardVars>>

\* The constructor has returned; only now does the teardown know the trainer.
Assign ==
  /\ at = "assign" /\ at' = "prepare" /\ built' = TRUE
  /\ UNCHANGED <<kind, exists, failing, caller, flag, signals, hit, released, status, guardVars>>

\* Up to the try of train(): the AR trainer loads its checkpoint, skips the data
\* it has used and starts wandb, each of which may fail, before it.
Prepare ==
  /\ at = "prepare"
  /\ \/ at' = "train" /\ UNCHANGED failing
     \/ kind = "ar" /\ at' = "exit" /\ failing' = TRUE
  /\ UNCHANGED <<kind, exists, built, caller, flag, signals, hit, released, status, guardVars>>

\* Training ends, or fails; then _finish_wandb, which may fail as well.
Train ==
  /\ at \in {"train", "wandb"}
  /\ at' = IF at = "train" THEN "wandb" ELSE "enter"
  /\ failing' \in {failing, TRUE}
  /\ UNCHANGED <<kind, exists, built, caller, flag, signals, hit, released, status, guardVars>>

\* Faulty variant: nothing remembers that the runtime has been released.
EnterUnflagged ==
  /\ at = "enter" /\ flag' = FALSE /\ at' = "flagged"
  /\ UNCHANGED <<caller, signals, hit, released, status, guardVars, runVars>>

\* _shutdown_runtime: only its first call does anything.
Enter ==
  /\ at = "enter" /\ flag' = TRUE
  /\ at' = IF flag THEN After(caller) ELSE "flagged"
  /\ UNCHANGED <<caller, signals, hit, released, status, guardVars, runVars>>

\* The release begins with the part built last.
Flagged ==
  /\ at = "flagged"
  /\ \E part \in exists :
       /\ \A other \in exists : Upcoming[other] \subseteq Upcoming[part]
       /\ at' = part /\ Begin(part)
  /\ UNCHANGED <<caller, flag, signals, hit, status, guardVars, runVars>>

\* manager.close returns or raises.
CloseManager ==
  /\ at = "manager" /\ at' = "engine" /\ Begin("engine")
  /\ failing' \in (IF caller = "run" THEN {failing, TRUE} ELSE {failing})
  /\ UNCHANGED <<kind, exists, built, caller, flag, signals, hit, status, guardVars>>

\* run_with_timeout: the engine's shutdown returns, raises, or is given up.
StopEngine ==
  /\ at = "engine" /\ at' = "pool" /\ Begin("pool")
  /\ UNCHANGED <<caller, flag, signals, hit, status, guardVars, runVars>>

\* pool.shutdown: what it raises is logged by the AR trainer.
StopPool ==
  /\ at = "pool" /\ at' = After(caller)
  /\ failing' \in (IF kind = "agentic" /\ caller = "run" THEN {failing, TRUE} ELSE {failing})
  /\ UNCHANGED <<kind, exists, built, caller, flag, signals, hit, released, status, guardVars>>

-----------------------------------------------------------------------------
(***************************************************************************)
(* The guard.                                                              *)
(***************************************************************************)
\* run_teardown, up to _done.
Exit ==
  /\ at = "exit"
  /\ IF done THEN at' = "restore" ELSE at' = "arm"
  /\ done' = TRUE
  /\ UNCHANGED <<caller, inExit, timer, flag, signals, hit, released, status, runVars>>

\* _arm_hard_exit: an armed timer stays as it is.
Armed(code) == IF timer = 0 THEN code ELSE timer

\* The entry point's teardown: trainer.shutdown() if there is a trainer.
Arm ==
  /\ at = "arm" /\ timer' = Armed(IF signals > 0 THEN Killed ELSE 1)
  /\ at' = (IF built THEN "enter" ELSE "disarm") /\ caller' = "teardown"
  /\ UNCHANGED <<inExit, done, flag, signals, hit, released, status, runVars>>

Disarm ==
  /\ at = "disarm" /\ timer' = 0 /\ at' = "restore"
  /\ UNCHANGED <<caller, inExit, done, flag, signals, hit, released, status, runVars>>

\* Faulty variant: the signal is forgotten.
StatusOfRun == IF failing THEN 1 ELSE 0

\* __exit__ ends with the signal's code; atexit, and a run nobody stopped, with
\* the status the interpreter gives.
StatusAtEnd ==
  IF inExit /\ signals > 0 THEN Killed ELSE IF failing THEN 1 ELSE 0

Restore ==
  /\ at = "restore" /\ at' = "ended" /\ status' = StatusAtEnd
  /\ UNCHANGED <<caller, flag, signals, hit, released, guardVars, runVars>>

-----------------------------------------------------------------------------
(***************************************************************************)
(* Signals.                                                                *)
(***************************************************************************)
\* Where the exception leads, in shutdown(): the agentic trainer's steps are in
\* each other's finally, the AR trainer's are not.
UnwindRelease(point) ==
  IF kind = "agentic" /\ point = "manager" THEN "engine"
  ELSE IF kind = "agentic" /\ point = "engine" THEN "pool"
  ELSE After(caller)

\* Elsewhere: a constructor is abandoned, training ends with its finally, and what
\* lies between them and the with block lead to __exit__;
\* what is raised in __exit__ outside of shutdown() escapes from it, and atexit
\* runs the teardown again.
Unwind(point) ==
  CASE point = "construct" -> Abandon
    [] point = "train" -> "wandb"
    [] point = "wandb" -> "enter"
    [] point \in {"enter", "flagged", "manager", "engine", "pool"} -> UnwindRelease(point)
    [] OTHER -> "exit"

\* Faulty variant: the handler only raises.
NotArmed == timer

\* The handler bounds what is left of the process before it raises.
ArmedBySignal == Armed(Killed)

\* run_teardown swallows what comes out of shutdown().
Signal ==
  /\ Running /\ signals = 0
  /\ signals' = 1 /\ hit' = at /\ timer' = ArmedBySignal
  /\ at' = Unwind(at)
  /\ IF at' \in Part THEN Begin(at') ELSE UNCHANGED released
  /\ inExit' = (at \notin {"exit", "arm", "disarm", "restore"})
  /\ failing' = (failing \/ caller = "run" \/ ~inExit')
  /\ UNCHANGED <<kind, exists, built, caller, flag, done, status>>

\* A second signal exits at once, and so does the timer when the grace is over.
SecondSignal ==
  /\ Running /\ signals = 1 /\ signals' = 2 /\ at' = "killed" /\ status' = Killed
  /\ UNCHANGED <<caller, flag, hit, released, guardVars, runVars>>

HardExit ==
  /\ Running /\ timer # 0 /\ at' = "killed" /\ status' = timer
  /\ UNCHANGED <<caller, flag, signals, hit, released, guardVars, runVars>>

Guard == Enter \/ Flagged \/ StopEngine \/ Exit \/ Arm \/ Disarm \/ Restore

Next == \/ Construct \/ Assign \/ Prepare \/ Train \/ CloseManager \/ StopPool
        \/ Guard \/ Signal \/ SecondSignal \/ HardExit

Spec == Init /\ [][Next]_vars

\* The main thread goes on where nothing can block it; the engine's shutdown is
\* given up after a minute.  The rest of the run may hang, and so may manager.close
\* and pool.shutdown.
FairSpec == Spec /\ WF_vars(Guard) /\ WF_vars(HardExit)

-----------------------------------------------------------------------------
\* The end of train(), a constructor that fails and the guard all release the
\* runtime: no part is released twice, whatever a signal interrupts, and a process
\* that is not forced out has released every part that exists.  The exceptions:
\* what an AR trainer had built when its constructor failed, and a signal
\*  - in the windows where a flag is set and nothing else is done: right after
\*    _runtime_shutdown_done, or between _done and the flag in the teardown (or
\*    before the flag in a constructor), when no release was begun before;
\*  - between the constructor's return and the assignment of its result;
\*  - in the AR trainer's wait for its engine, which leaves out the pool.
ReleasedExactlyOnce ==
  /\ \A p \in Part : released[p] <= 1
  /\ at = "ended" =>
       \/ \A p \in exists : released[p] = 1
       \/ hit = "flagged"
       \/ hit \in {"arm", "enter"} /\ ~flag
       \/ ~built /\ (kind = "ar" \/ hit = "assign")
       \/ kind = "ar" /\ hit = "engine"

\* A run that was told to stop does not report success, even if the teardown
\* swallowed the signal's exception or the timer ended it.
ExitTold == signals > 0 /\ ~Running => status # 0

\* Once a signal has come, the process ends, whatever hangs.
ProcessEnds == signals > 0 ~> ~Running
=============================================================================
