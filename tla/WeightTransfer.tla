--------------------------- MODULE WeightTransfer ---------------------------
(***************************************************************************)
(* The streaming of all weights into the SGLang engines beside the         *)
(* trainer: CkptEngineIPCWeightSync.sync, full/ckpt_engine_ipc.py, with    *)
(* the sender of transfer/ckpt_engine_transfer.py, both in                 *)
(* src/unirl/distributed/weight_sync.                                      *)
(*                                                                         *)
(* Every trainer rank stages one bucket of tensors after the other in a    *)
(* GPU buffer, for the engine's worker on its GPU, which reads the buffer  *)
(* and acknowledges.  After each thing a rank does all ranks of the world  *)
(* agree that nobody failed (_sender_consensus).  The first rank of each   *)
(* engine, its leader, also has the engine's server told, in a thread, to  *)
(* connect its workers, and terminates that server when a transfer fails.  *)
(* The workers and the server are SGLang's: they may fail and may hang.    *)
(***************************************************************************)
EXTENDS Integers

CONSTANTS
  Ranks,       \* the trainer's ranks
  Leader,      \* for each rank, the leader (tp_rank 0) of its engine
  NumTensors,  \* what _iter_full_tensors yields
  PerBucket    \* tensors that fit into the buffer

ASSUME TransferAssumption ==
  /\ Ranks # {} /\ Leader \in [Ranks -> Ranks]
  /\ \A r \in Ranks : Leader[Leader[r]] = Leader[r]
  /\ {NumTensors, PerBucket} \subseteq Nat \ {0}

VARIABLES
  pc,        \* a rank's place within its phase
  phase,     \* the phase it is in
  staged,    \* tensors it has staged
  fine,      \* what it votes in the consensus
  canSend,   \* its socket is bound and it is its turn to speak
  wire,      \* what is under way between the rank and its worker
  buffer,    \* the tensors in its buffer, {} when it has none
  worker,    \* what the worker is doing
  loaded,    \* the tensors the worker has loaded
  spoilt,    \* it loaded something else
  thread,    \* a leader's receiver thread
  marked,    \* the leader's rollout refuses to generate
  aborted    \* the training process group was aborted

rankVars   == <<pc, phase, staged, fine>>
socketVars == <<canSend, wire, buffer>>
workerVars == <<worker, loaded, spoilt>>
serverVars == <<thread, marked>>
vars == <<rankVars, socketVars, workerVars, serverVars, aborted>>

Leaders  == {l \in Ranks : Leader[l] = l}
Group(l) == {r \in Ranks : Leader[r] = l}
Tensors  == 1 .. NumTensors

\* The phases, and which follows the agreement on which.  In "next" a tensor is
\* gathered from all ranks, and no agreement is needed.
Follows ==
  [preflight |-> "topology", topology |-> "prepare", prepare |-> "socket",
   socket |-> "handshake", handshake |-> "next", load |-> "stage", stage |-> "next",
   done |-> "last", last |-> "release", release |-> "post", post |-> "complete",
   complete |-> "complete"]

Before    == {"preflight", "topology", "prepare"}       \* send_weights not called yet
Exchanges == {"handshake", "load", "last", "release", "post"}
Over      == {"returned", "raised"}

Init ==
  /\ pc = [r \in Ranks |-> "work"]
  /\ phase = [r \in Ranks |-> "preflight"]
  /\ staged = [r \in Ranks |-> 0]
  /\ fine = [r \in Ranks |-> TRUE]
  /\ canSend = [r \in Ranks |-> FALSE]
  /\ wire = [r \in Ranks |-> "nothing"]
  /\ buffer = [r \in Ranks |-> {}]
  /\ worker = [r \in Ranks |-> "away"]
  /\ loaded = [r \in Ranks |-> {}]
  /\ spoilt = [r \in Ranks |-> FALSE]
  /\ thread = [l \in Leaders |-> "none"]
  /\ marked = [l \in Leaders |-> FALSE]
  /\ aborted = FALSE

-----------------------------------------------------------------------------
(***************************************************************************)
(* What a rank does in a phase, up to its vote.                            *)
(***************************************************************************)

Working(r, ph) == pc[r] = "work" /\ phase[r] = ph

Vote(r, ok) ==
  /\ pc' = [pc EXCEPT ![r] = "wait"]
  /\ fine' = [fine EXCEPT ![r] = ok]

\* The checks of the topology, and the allocation of the buffer.
Prepare(r) ==
  /\ pc[r] = "work" /\ phase[r] \in Before
  /\ \E ok \in BOOLEAN : Vote(r, ok)
  /\ UNCHANGED <<phase, staged, socketVars, workerVars, serverVars, aborted>>

\* _run_exchange starts the receiver thread, then every rank binds its socket.
BindSocket(r) ==
  /\ Working(r, "socket")
  /\ thread' = IF r \in Leaders THEN [thread EXCEPT ![r] = "running"] ELSE thread
  /\ \E ok \in BOOLEAN : Vote(r, ok) /\ canSend' = [canSend EXCEPT ![r] = ok]
  /\ UNCHANGED <<phase, staged, wire, buffer, workerVars, marked, aborted>>

\* A payload goes out, or sending it fails or comes too late.
Send(r) ==
  /\ pc[r] = "work" /\ phase[r] \in Exchanges
  /\ \/ /\ pc' = [pc EXCEPT ![r] = "ack"]
        /\ wire' = [wire EXCEPT ![r] = phase[r]]
        /\ canSend' = [canSend EXCEPT ![r] = FALSE]
        /\ UNCHANGED fine
     \/ Vote(r, FALSE) /\ UNCHANGED <<canSend, wire>>
  /\ UNCHANGED <<phase, staged, buffer, workerVars, serverVars, aborted>>

\* The worker's answer.  One that could not open the buffer expects a last word.
Answer(r) ==
  /\ pc[r] = "ack" /\ wire[r] \in {"ok", "error"}
  /\ Vote(r, wire[r] = "ok")
  /\ LET refused == wire[r] = "error" /\ phase[r] = "handshake"
     IN  /\ wire' = [wire EXCEPT ![r] = IF refused THEN "last word" ELSE "nothing"]
         /\ canSend' = [canSend EXCEPT ![r] = ~refused]
  /\ UNCHANGED <<phase, staged, buffer, workerVars, serverVars, aborted>>

\* The deadline of the transfer passes while the rank waits for an answer.
GiveUp(r) ==
  /\ pc[r] = "ack"
  /\ Vote(r, FALSE)
  /\ UNCHANGED <<phase, staged, socketVars, workerVars, serverVars, aborted>>

\* A tensor that does not fit has the bucket sent first.
NextPhase(r) ==
  IF staged[r] = NumTensors THEN "done"
  ELSE IF staged[r] > 0 /\ staged[r] % PerBucket = 0 THEN "load" ELSE "stage"

\* Faulty variant: a rank that cannot gather a tensor raises, and the others are left to wait.
MaterializeAlone(r) ==
  /\ Working(r, "next")
  /\ \/ phase' = [phase EXCEPT ![r] = NextPhase(r)] /\ UNCHANGED pc
     \/ pc' = [pc EXCEPT ![r] = "thrown"] /\ UNCHANGED phase
  /\ UNCHANGED <<staged, fine, socketVars, workerVars, serverVars, aborted>>

\* next(weights): the ranks gather a tensor.  One that fails alone would leave
\* the others in the collective, so it aborts the training process group.
Materialize(r) ==
  /\ Working(r, "next")
  /\ \/ phase' = [phase EXCEPT ![r] = NextPhase(r)] /\ UNCHANGED <<pc, aborted>>
     \/ pc' = [pc EXCEPT ![r] = "thrown"] /\ aborted' = TRUE /\ UNCHANGED phase
  /\ UNCHANGED <<staged, fine, socketVars, workerVars, serverVars>>

\* The tensor is copied into the buffer, unless it is larger than that.
Stage(r) ==
  /\ Working(r, "stage")
  /\ \/ /\ Vote(r, TRUE)
        /\ staged' = [staged EXCEPT ![r] = @ + 1]
        /\ buffer' = [buffer EXCEPT ![r] =
                        (IF staged[r] % PerBucket = 0 THEN {} ELSE @) \cup {staged[r] + 1}]
     \/ Vote(r, FALSE) /\ UNCHANGED <<staged, buffer>>
  /\ UNCHANGED <<phase, canSend, wire, workerVars, serverVars, aborted>>

\* All tensors are staged.
Exhausted(r) ==
  /\ Working(r, "done")
  /\ Vote(r, TRUE)
  /\ UNCHANGED <<phase, staged, socketVars, workerVars, serverVars, aborted>>

-----------------------------------------------------------------------------
(***************************************************************************)
(* Agreement.  The all-reduce returns when every rank has voted.           *)
(***************************************************************************)

AllWait == \A r \in Ranks : pc[r] = "wait"
Agreed ==
  /\ \A r \in Ranks : fine[r]
  /\ \A r, s \in Ranks : phase[r] = phase[s] /\ staged[r] = staged[s]

\* All go on together.  After the release each rank drops its buffer.
Agree ==
  /\ AllWait /\ Agreed /\ ~aborted
  /\ pc' = [r \in Ranks |-> IF phase[r] = "complete" THEN "returned" ELSE "work"]
  /\ phase' = [r \in Ranks |-> Follows[phase[r]]]
  /\ buffer' = [r \in Ranks |-> IF phase[r] = "release" THEN {} ELSE buffer[r]]
  /\ UNCHANGED <<staged, fine, canSend, wire, workerVars, serverVars, aborted>>

\* Faulty variant: a failure at the end, when all has been sent, is not told the rollout.
DisagreeUnmarked ==
  /\ AllWait /\ ~Agreed /\ ~aborted
  /\ pc' = [r \in Ranks |->
              IF phase[r] \in Before \cup {"complete"} THEN "raised" ELSE "thrown"]
  /\ UNCHANGED <<phase, staged, fine, socketVars, workerVars, serverVars, aborted>>

\* All raise together.  Before anything was sent the engines are as they were;
\* at the end each rank marks its rollout.
Disagree ==
  /\ AllWait /\ ~Agreed /\ ~aborted
  /\ pc' = [r \in Ranks |->
              IF phase[r] \in Before \cup {"complete"} THEN "raised" ELSE "thrown"]
  /\ marked' = [l \in Leaders |-> marked[l] \/ phase[l] = "complete"]
  /\ UNCHANGED <<phase, staged, fine, socketVars, workerVars, thread, aborted>>

\* The consensus itself fails: the process group was aborted.
LoseConsensus(r) ==
  /\ aborted /\ pc[r] = "wait"
  /\ pc' = [pc EXCEPT ![r] = "thrown"]
  /\ UNCHANGED <<phase, staged, fine, socketVars, workerVars, serverVars, aborted>>

-----------------------------------------------------------------------------
(***************************************************************************)
(* Failure of send_weights: the worker is told if it is the rank's turn,   *)
(* and the socket and the buffer are gone.  A message not yet read may be  *)
(* lost with the socket.                                                   *)
(***************************************************************************)
AbortReceiver(r) ==
  /\ pc[r] = "thrown"
  /\ LET last == IF canSend[r] THEN "abort" ELSE wire[r]
     IN  \E w \in {last, "nothing"} : wire' = [wire EXCEPT ![r] = w]
  /\ canSend' = [canSend EXCEPT ![r] = FALSE]
  /\ buffer' = [buffer EXCEPT ![r] = {}]
  /\ pc' = [pc EXCEPT ![r] = IF r \in Leaders THEN "failing" ELSE "raised"]
  /\ UNCHANGED <<phase, staged, fine, workerVars, serverVars, aborted>>

\* rollout.shutdown() terminates the server, which ends the request too.
Terminate(l) ==
  /\ worker' = [r \in Ranks |-> IF r \in Group(l) THEN "killed" ELSE worker[r]]
  /\ thread' = [thread EXCEPT ![l] = IF @ = "running" THEN "raised" ELSE @]

\* Faulty variant: workers that were told to abort are trusted to end.
FailUnterminated(l) ==
  /\ l \in Leaders /\ pc[l] = "failing"
  /\ IF \A r \in Group(l) : wire[r] \in {"abort", "nothing"}
     THEN UNCHANGED <<worker, thread>> ELSE Terminate(l)
  /\ marked' = [marked EXCEPT ![l] = TRUE]
  /\ pc' = [pc EXCEPT ![l] = "raised"]
  /\ UNCHANGED <<phase, staged, fine, socketVars, loaded, spoilt, aborted>>

\* A leader whose transfer failed terminates the server and marks the rollout.
Fail(l) ==
  /\ l \in Leaders /\ pc[l] = "failing"
  /\ Terminate(l)
  /\ marked' = [marked EXCEPT ![l] = TRUE]
  /\ pc' = [pc EXCEPT ![l] = "raised"]
  /\ UNCHANGED <<phase, staged, fine, socketVars, loaded, spoilt, aborted>>

\* The others vote at once; a leader joins its thread, for a time.
Join(r) ==
  /\ Working(r, "complete")
  /\ \/ /\ r \in Leaders => thread[r] # "running"
        /\ Vote(r, r \in Leaders => thread[r] = "returned")
        /\ UNCHANGED <<worker, serverVars>>
     \/ /\ r \in Leaders /\ thread[r] = "running"
        /\ Vote(r, FALSE)
        /\ Terminate(r)
        /\ marked' = [marked EXCEPT ![r] = TRUE]
  /\ UNCHANGED <<phase, staged, socketVars, loaded, spoilt, aborted>>

-----------------------------------------------------------------------------
(***************************************************************************)
(* SGLang: the server's answer to the leader's request, and its workers.   *)
(***************************************************************************)

\* The request succeeds when every worker has; it may fail at any time, which
\* the rollout marks.
RequestEnds(l) ==
  /\ l \in Leaders /\ thread[l] = "running"
  /\ \/ /\ \A r \in Group(l) : worker[r] = "done"
        /\ thread' = [thread EXCEPT ![l] = "returned"] /\ UNCHANGED marked
     \/ /\ thread' = [thread EXCEPT ![l] = "raised"]
        /\ marked' = [marked EXCEPT ![l] = TRUE]
  /\ UNCHANGED <<rankVars, socketVars, workerVars, aborted>>

Becomes(r, what)  == worker' = [worker EXCEPT ![r] = what]
Replies(r, reply) == wire' = [wire EXCEPT ![r] = reply]

Connect(r) ==
  /\ worker[r] = "away" /\ thread[Leader[r]] = "running"
  /\ Becomes(r, "connected")
  /\ UNCHANGED <<rankVars, socketVars, loaded, spoilt, serverVars, aborted>>

\* The first message opens the buffer.  A worker that cannot open it says so and
\* waits for one more message before it ends.
Open(r) ==
  /\ worker[r] = "connected" /\ wire[r] \in {"handshake", "abort"}
  /\ \/ wire[r] = "handshake" /\ Becomes(r, "ready") /\ Replies(r, "ok")
     \/ Becomes(r, "refusing") /\ Replies(r, "error")
  /\ UNCHANGED <<rankVars, canSend, buffer, loaded, spoilt, serverVars, aborted>>

Take(r) ==
  /\ worker[r] = "ready" /\ wire[r] \in {"load", "last"}
  /\ Becomes(r, "loading") /\ Replies(r, "nothing")
  /\ UNCHANGED <<rankVars, canSend, buffer, loaded, spoilt, serverVars, aborted>>

\* The worker reads the buffer, which is gone if the rank has given up.
Load(r) ==
  /\ worker[r] = "loading"
  /\ Becomes(r, "ready")
  /\ \/ /\ loaded' = [loaded EXCEPT ![r] = @ \cup buffer[r]]
        /\ spoilt' = [spoilt EXCEPT ![r] = @ \/ buffer[r] = {}]
        /\ Replies(r, "ok")
     \/ Replies(r, "error") /\ spoilt' = [spoilt EXCEPT ![r] = TRUE] /\ UNCHANGED loaded
  /\ UNCHANGED <<rankVars, canSend, buffer, serverVars, aborted>>

\* The two last payloads, and an exception, which is raised without a reply.
Finish(r) ==
  /\ \/ /\ worker[r] = "ready" /\ wire[r] = "release"
        /\ \/ Becomes(r, "released") /\ Replies(r, "ok")
           \/ Becomes(r, "failed") /\ Replies(r, "error")
     \/ /\ worker[r] = "released" /\ wire[r] = "post"
        /\ \/ Becomes(r, "done") /\ Replies(r, "ok")
           \/ Becomes(r, "failed") /\ Replies(r, "error")
     \/ /\ worker[r] \in {"ready", "released"} /\ wire[r] = "abort"
        /\ Becomes(r, "failed") /\ Replies(r, "nothing")
     \/ /\ worker[r] = "refusing" /\ wire[r] = "last word"
        /\ Becomes(r, "failed") /\ Replies(r, "nothing")
  /\ UNCHANGED <<rankVars, canSend, buffer, loaded, spoilt, serverVars, aborted>>

-----------------------------------------------------------------------------
Rank(r) ==
  \/ Prepare(r) \/ BindSocket(r) \/ Send(r) \/ Answer(r) \/ GiveUp(r)
  \/ Materialize(r) \/ Stage(r) \/ Exhausted(r)
  \/ LoseConsensus(r) \/ AbortReceiver(r) \/ Fail(r) \/ Join(r)

Consensus == Agree \/ Disagree
Engine(r) == RequestEnds(r) \/ Connect(r) \/ Open(r) \/ Take(r) \/ Load(r) \/ Finish(r)

Next == (\E r \in Ranks : Rank(r) \/ Engine(r)) \/ Consensus
Spec == Init /\ [][Next]_vars

\* No step of a rank blocks for ever: waiting for an answer and for the thread
\* ends by a timeout, and an all-reduce by its last participant.  Nothing is asked of SGLang.
FairSpec == Spec /\ WF_vars(Consensus) /\ \A r \in Ranks : WF_vars(Rank(r))

-----------------------------------------------------------------------------
(***************************************************************************)
(* Properties.                                                             *)
(***************************************************************************)

Usable(l)    == ~marked[l] /\ \A r \in Group(l) : worker[r] # "killed"
Whole(l)     == \A r \in Group(l) :
                  loaded[r] = Tensors /\ ~spoilt[r] /\ worker[r] = "done"
Untouched(l) == \A r \in Group(l) : loaded[r] = {} /\ ~spoilt[r]

\* If one rank's sync returns, every engine has all of the new weights; where it
\* raises, an engine still used has none of them (ckpt_engine_ipc.py, _poison_rollout: "Prevent
\* generation after a possibly partial live-weight update").
AllOrNothing ==
  /\ (\E r \in Ranks : pc[r] = "returned") => \A l \in Leaders : Usable(l) /\ Whole(l)
  /\ \A l \in Leaders : pc[l] = "raised" /\ Usable(l) => Untouched(l)

\* A worker has no timeout of its own: when the ranks of an engine are done with it,
\* none of its workers waits for a message any more (_run_exchange: "terminate SRT
\* rather than leave its REP workers wedged").
NoWorkerWedged ==
  \A l \in Leaders : (\A r \in Group(l) : pc[r] \in Over) =>
    \A r \in Group(l) : \/ worker[r] \in {"done", "failed", "killed"}
                        \/ worker[r] = "away" /\ thread[l] # "running"

\* Unless the process group was aborted, an agreement that a rank waits for is the next
\* one of every other rank, and none has given up before it: the all-reduce completes,
\* and its votes are on the same phase (_sender_consensus: "reject mismatched phases").
AgreementsMeet ==
  ~aborted => \A r, s \in Ranks : pc[r] = "wait" =>
    /\ pc[s] \in {"work", "ack", "wait"}
    /\ phase[r] = IF phase[s] = "next" THEN NextPhase(s) ELSE phase[s]

\* Whatever fails or hangs in whichever engine, every rank's sync ends.
SyncEnds == <>(\A r \in Ranks : pc[r] \in Over)
=============================================================================
