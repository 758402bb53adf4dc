------------------------ MODULE WeightTransferProofs ------------------------
(***************************************************************************)
(* Proofs about WeightTransfer: an engine that is still used after a sync  *)
(* has the new weights whole or not at all, and none of its workers is     *)
(* left waiting, for any number of ranks, engines and tensors.             *)
(***************************************************************************)
EXTENDS WeightTransfer, TLAPS

-----------------------------------------------------------------------------
(***************************************************************************)
(* The inductive invariant.                                                *)
(***************************************************************************)

Streaming == {"next", "load", "stage", "done"}
Loads     == {"load", "last"}
Late      == {"release", "post", "complete"}
Phases    == Before \cup {"socket", "handshake", "last"} \cup Streaming \cup Late

Under == {"work", "ack", "wait"}

TypeInv ==
  /\ pc \in [Ranks -> Under \cup {"thrown", "failing"} \cup Over]
  /\ phase \in [Ranks -> Phases]
  /\ staged \in [Ranks -> Nat]
  /\ fine \in [Ranks -> BOOLEAN]
  /\ canSend \in [Ranks -> BOOLEAN]
  /\ DOMAIN wire = Ranks /\ DOMAIN worker = Ranks
  /\ buffer \in [Ranks -> SUBSET Nat]
  /\ loaded \in [Ranks -> SUBSET Nat]
  /\ spoilt \in [Ranks -> BOOLEAN]
  /\ thread \in [Leaders -> {"none", "running", "returned", "raised"}]
  /\ marked \in [Leaders -> BOOLEAN]
  /\ aborted \in BOOLEAN

\* The ranks are in one phase, but for the tensor that each of them gathers and
\* stages; the process group is aborted in there only.
Round(ph) == IF ph \in Streaming THEN "next" ELSE ph

Together ==
  /\ \A r, s \in Ranks : Round(phase[r]) = Round(phase[s])
  /\ aborted => \A r \in Ranks : phase[r] \in Streaming

\* Nothing has gone wrong with the rank, as far as it knows.
Sound(r) == pc[r] \in {"work", "ack"} \/ (pc[r] = "wait" /\ fine[r])

Full(r)   == loaded[r] = Tensors /\ ~spoilt[r]
Intact(r) ==
  /\ ~spoilt[r]
  /\ loaded[r] \cup buffer[r] = 1 .. staged[r]
  /\ buffer[r] = {} => staged[r] = 0

\* What a rank's exchange with its worker guarantees, whatever the rank knows, and
\* how much is staged in which phase.
Exchanged(r) ==
  /\ worker[r] = "away" => loaded[r] = {} /\ ~spoilt[r]
  /\ worker[r] \in {"released", "done"} \/ wire[r] \in {"release", "post"} => Full(r)
  /\ phase[r] \in {"done", "last"} => staged[r] = NumTensors
  /\ phase[r] = "load" => staged[r] > 0
  /\ phase[r] = "next" => pc[r] # "wait"
  /\ phase[r] = "complete" => worker[r] \in {"done", "killed"}

\* A sound rank and its worker are at the same point of the protocol.
InStep(r) ==
  /\ IF phase[r] \in Late THEN Full(r) ELSE wire[r] # "error" => Intact(r)
  /\ phase[r] \notin Loads => worker[r] # "loading" /\ wire[r] \notin Loads
  /\ pc[r] # "ack" => worker[r] # "loading" /\ wire[r] = "nothing"
  /\ pc[r] = "ack" => /\ phase[r] \in Exchanges
                      /\ wire[r] \in {phase[r], "nothing", "ok", "error"}
                      /\ worker[r] = "loading" => wire[r] = "nothing"
  /\ phase[r] \in Loads /\ (pc[r] = "wait" \/ (pc[r] = "ack" /\ wire[r] = "ok"))
       => loaded[r] = 1 .. staged[r]
  /\ phase[r] = "stage" /\ pc[r] = "work" /\ staged[r] % PerBucket = 0
       => loaded[r] = 1 .. staged[r]
  /\ phase[r] = "post" /\ (pc[r] = "wait" \/ (pc[r] = "ack" /\ wire[r] = "ok"))
       => worker[r] \in {"done", "killed"}

\* A leader, its receiver thread and the workers of its engine.
Led(l) ==
  /\ thread[l] = "none" <=> (phase[l] \in Before \/ (phase[l] = "socket" /\ pc[l] = "work"))
  /\ thread[l] = "none" => \A r \in Group(l) : worker[r] = "away"
  /\ marked[l] => thread[l] = "raised" \/ pc[l] \notin Under
  /\ thread[l] = "returned" /\ pc[l] \in Under => \A r \in Group(l) : worker[r] = "done"
  /\ phase[l] = "complete" /\ pc[l] = "wait" /\ fine[l] => thread[l] = "returned"
  /\ pc[l] \in {"thrown", "failing"} => phase[l] \notin Before
  /\ pc[l] = "raised" /\ phase[l] \notin Before =>
       marked[l] /\ \A r \in Group(l) : worker[r] \in {"done", "killed"}

\* When one rank's sync has returned, all have, and nothing happens any more.
AllReturned ==
  (\E r \in Ranks : pc[r] = "returned") =>
    /\ \A r \in Ranks : pc[r] = "returned" /\ worker[r] = "done"
    /\ \A l \in Leaders : thread[l] = "returned" /\ ~marked[l]

IInv ==
  /\ TypeInv
  /\ Together
  /\ \A r \in Ranks : Exchanged(r)
  /\ \A r \in Ranks : Sound(r) => InStep(r)
  /\ \A l \in Leaders : Led(l)
  /\ AllReturned

-----------------------------------------------------------------------------
(***************************************************************************)
(* The initial state.  The names of places and phases are expanded in all  *)
(* proofs below.                                                           *)
(***************************************************************************)
USE DEF Before, Exchanges, Over, Streaming, Loads, Late, Under

\* In the initial state all ranks are before the first check, and no engine knows of it.
LEMMA InitIInv == Init => IInv
<1> SUFFICES ASSUME Init PROVE IInv
    OBVIOUS
<1>1. TypeInv
      BY DEF Init, TypeInv, Phases
<1>2. Together
      BY DEF Init, Together
<1>3. ASSUME NEW r \in Ranks PROVE Exchanged(r) /\ InStep(r)
      BY 1 .. 0 = {} DEF Init, Exchanged, InStep, Intact
<1>4. ASSUME NEW l \in Leaders PROVE Led(l)
      BY DEF Init, Led, Leaders, Group
<1>5. AllReturned
      BY DEF Init, AllReturned
<1> QED
    BY <1>1, <1>2, <1>3, <1>4, <1>5 DEF IInv

-----------------------------------------------------------------------------
(***************************************************************************)
(* What a rank does up to its vote.                                        *)
(***************************************************************************)

\* The checks before anything is sent disturb nothing.
LEMMA PrepareKeeps == ASSUME IInv, NEW r \in Ranks, Prepare(r) PROVE IInv'
<1> USE DEF Prepare, Vote, socketVars, workerVars, serverVars
<1>1. TypeInv'
      BY DEF IInv, TypeInv
<1>2. Together'
      BY DEF IInv, Together
<1>3. ASSUME NEW q \in Ranks PROVE Exchanged(q)'
      BY DEF IInv, TypeInv, Exchanged, Full
<1>4. ASSUME NEW q \in Ranks, Sound(q)' PROVE InStep(q)'
      BY <1>4 DEF IInv, TypeInv, Sound, InStep, Full, Intact
<1>5. ASSUME NEW l \in Leaders PROVE Led(l)'
      BY DEF IInv, TypeInv, Led, Leaders, Group
<1>6. AllReturned'
      BY DEF IInv, TypeInv, AllReturned
<1> QED
    BY <1>1, <1>2, <1>3, <1>4, <1>5, <1>6 DEF IInv

\* A leader's thread is started exactly when the leader leaves "work" in "socket".
LEMMA BindSocketKeeps == ASSUME IInv, NEW r \in Ranks, BindSocket(r) PROVE IInv'
<1> USE DEF BindSocket, Working, Vote, workerVars
<1>1. TypeInv'
      BY DEF IInv, TypeInv
<1>2. Together'
      BY DEF IInv, Together
<1>3. ASSUME NEW q \in Ranks PROVE Exchanged(q)'
      BY DEF IInv, TypeInv, Exchanged, Full
<1>4. ASSUME NEW q \in Ranks, Sound(q)' PROVE InStep(q)'
      BY <1>4 DEF IInv, TypeInv, Sound, InStep, Full, Intact
<1>5. ASSUME NEW l \in Leaders PROVE Led(l)'
      BY DEF IInv, TypeInv, Led, Leaders, Group
<1>6. AllReturned'
      BY DEF IInv, TypeInv, AllReturned
<1> QED
    BY <1>1, <1>2, <1>3, <1>4, <1>5, <1>6 DEF IInv

\* A rank that releases the buffer, or asks for the hook, knows that all is loaded.
LEMMA SendKeeps == ASSUME IInv, NEW r \in Ranks, Send(r) PROVE IInv'
<1> USE DEF Send, Vote, workerVars, serverVars
<1>1. TypeInv'
      BY DEF IInv, TypeInv
<1>2. Together'
      BY DEF IInv, Together
<1>3. ASSUME NEW q \in Ranks PROVE Exchanged(q)'
      BY DEF IInv, TypeInv, Exchanged, Full, Sound, InStep
<1>4. ASSUME NEW q \in Ranks, Sound(q)' PROVE InStep(q)'
      BY <1>4 DEF IInv, TypeInv, Sound, InStep, Full, Intact
<1>5. ASSUME NEW l \in Leaders PROVE Led(l)'
      BY DEF IInv, TypeInv, Led, Leaders, Group
<1>6. AllReturned'
      BY DEF IInv, TypeInv, AllReturned
<1> QED
    BY <1>1, <1>2, <1>3, <1>4, <1>5, <1>6 DEF IInv

\* Only a worker's consent keeps the rank sound.
LEMMA AnswerKeeps == ASSUME IInv, NEW r \in Ranks, Answer(r) PROVE IInv'
<1> USE DEF Answer, Vote, workerVars, serverVars
<1>1. TypeInv'
      BY DEF IInv, TypeInv
<1>2. Together'
      BY DEF IInv, Together
<1>3. ASSUME NEW q \in Ranks PROVE Exchanged(q)'
      BY DEF IInv, TypeInv, Exchanged, Full, Sound, InStep
<1>4. ASSUME NEW q \in Ranks, Sound(q)' PROVE InStep(q)'
  <2>1. CASE q = r
    <3>1. wire[r] = "ok" /\ Sound(r) /\ InStep(r)
          BY <1>4, <2>1 DEF IInv, TypeInv, Sound
    <3>2. wire'[r] = "nothing" /\ pc'[r] = "wait"
          BY <3>1 DEF IInv, TypeInv
    <3> QED
        BY <2>1, <3>1, <3>2 DEF InStep, Full, Intact
  <2>2. CASE q # r
        BY <1>4, <2>2 DEF IInv, TypeInv, Sound, InStep, Full, Intact
  <2> QED
      BY <2>1, <2>2
<1>5. ASSUME NEW l \in Leaders PROVE Led(l)'
  <2>1. phase[r] # "complete" /\ phase[r] # "socket"
        BY DEF IInv, Sound, InStep
  <2>2. CASE l = r
        BY <2>1, <2>2 DEF IInv, TypeInv, Led, Leaders, Group
  <2>3. CASE l # r
    <3>1. pc'[l] = pc[l] /\ fine'[l] = fine[l]
          BY <2>3 DEF IInv, TypeInv, Leaders
    <3>2. UNCHANGED <<phase, worker, thread, marked>>
          OBVIOUS
    <3> HIDE DEF Answer
    <3> QED
        BY <3>1, <3>2 DEF IInv, Led
  <2> QED
      BY <2>2, <2>3
<1>6. AllReturned'
      BY DEF IInv, TypeInv, AllReturned
<1> QED
    BY <1>1, <1>2, <1>3, <1>4, <1>5, <1>6 DEF IInv

\* A rank that has given up is no longer sound, whatever its worker does.
LEMMA GiveUpKeeps == ASSUME IInv, NEW r \in Ranks, GiveUp(r) PROVE IInv'
<1> USE DEF GiveUp, Vote, socketVars, workerVars, serverVars
<1>1. TypeInv'
      BY DEF IInv, TypeInv
<1>2. Together'
      BY DEF IInv, Together
<1>3. ASSUME NEW q \in Ranks PROVE Exchanged(q)'
      BY DEF IInv, TypeInv, Exchanged, Full, Sound, InStep
<1>4. ASSUME NEW q \in Ranks, Sound(q)' PROVE InStep(q)'
      BY <1>4 DEF IInv, TypeInv, Sound, InStep, Full, Intact
<1>5. ASSUME NEW l \in Leaders PROVE Led(l)'
      BY DEF IInv, TypeInv, Led, Leaders, Group, Sound, InStep
<1>6. AllReturned'
      BY DEF IInv, TypeInv, AllReturned
<1> QED
    BY <1>1, <1>2, <1>3, <1>4, <1>5, <1>6 DEF IInv

\* The next phase depends on how much is staged; a failure here is within the round.
LEMMA MaterializeKeeps == ASSUME IInv, NEW r \in Ranks, Materialize(r) PROVE IInv'
<1> USE DEF Materialize, Working, rankVars, socketVars, workerVars, serverVars
<1>1. /\ NextPhase(r) \in {"done", "load", "stage"}
      /\ NextPhase(r) = "done" => staged[r] = NumTensors
      /\ NextPhase(r) = "load" => staged[r] > 0
      /\ NextPhase(r) = "stage" => staged[r] = 0 \/ staged[r] % PerBucket # 0
      BY DEF IInv, TypeInv, NextPhase
<1>2. TypeInv'
      BY <1>1 DEF IInv, TypeInv, Phases
<1>3. Together'
      BY <1>1 DEF IInv, TypeInv, Together, Round
<1>4. ASSUME NEW q \in Ranks PROVE Exchanged(q)'
      BY <1>1 DEF IInv, TypeInv, Exchanged, Full
<1>5. ASSUME NEW q \in Ranks, Sound(q)' PROVE InStep(q)'
  <2>1. Sound(q) /\ InStep(q)
        BY <1>5 DEF IInv, TypeInv, Sound
  <2>2. CASE q = r
    <3>1. phase'[r] = NextPhase(r) /\ pc'[r] = "work" /\ Intact(r)
          BY <1>5, <2>1, <2>2 DEF IInv, TypeInv, Sound, InStep
    <3>2. staged[r] = 0 => loaded[r] = 1 .. staged[r]
          BY <3>1, 1 .. 0 = {} DEF Intact
    <3> QED
        BY <1>1, <2>1, <2>2, <3>1, <3>2 DEF InStep, Intact
  <2>3. CASE q # r
        BY <2>1, <2>3 DEF IInv, TypeInv, InStep, Full, Intact
  <2> QED
      BY <2>2, <2>3
<1>6. ASSUME NEW l \in Leaders PROVE Led(l)'
      BY <1>1 DEF IInv, TypeInv, Led, Leaders, Group
<1>7. AllReturned'
      BY DEF IInv, TypeInv, AllReturned
<1> QED
    BY <1>2, <1>3, <1>4, <1>5, <1>6, <1>7 DEF IInv

\* A bucket is begun only when the last one was loaded, so nothing staged is lost.
LEMMA StageKeeps == ASSUME IInv, NEW r \in Ranks, Stage(r) PROVE IInv'
<1> USE DEF Stage, Working, Vote, workerVars, serverVars
<1> DEFINE n == staged[r]
<1>1. n \in Nat /\ 1 .. n + 1 = (1 .. n) \cup {n + 1}
      BY DEF IInv, TypeInv
<1>2. TypeInv'
  <2>1. buffer' \in [Ranks -> SUBSET Nat] /\ staged' \in [Ranks -> Nat]
    <3>1. CASE UNCHANGED <<staged, buffer>>
          BY <3>1 DEF IInv, TypeInv
    <3>2. CASE /\ staged' = [staged EXCEPT ![r] = @ + 1]
               /\ buffer' = [buffer EXCEPT ![r] =
                    (IF staged[r] % PerBucket = 0 THEN {} ELSE @) \cup {staged[r] + 1}]
          BY <1>1, <3>2 DEF IInv, TypeInv
    <3> QED
        BY <3>1, <3>2
  <2> QED
      BY <2>1 DEF IInv, TypeInv
<1>3. Together'
      BY DEF IInv, Together
<1>4. ASSUME NEW q \in Ranks PROVE Exchanged(q)'
      BY DEF IInv, TypeInv, Exchanged, Full
<1>5. ASSUME NEW q \in Ranks, Sound(q)' PROVE InStep(q)'
  <2>1. CASE q = r
    <3>1. Sound(r) /\ InStep(r) /\ Intact(r)
          BY DEF IInv, Sound, InStep
    <3>2. /\ staged'[r] = n + 1
          /\ buffer'[r] = (IF n % PerBucket = 0 THEN {} ELSE buffer[r]) \cup {n + 1}
          BY <1>5, <2>1 DEF IInv, TypeInv, Sound
    <3>3. n % PerBucket = 0 => loaded[r] = 1 .. n
          BY <3>1 DEF InStep
    <3>4. Intact(r)'
          BY <1>1, <3>1, <3>2, <3>3 DEF Intact
    <3> QED
        BY <2>1, <3>1, <3>4 DEF IInv, TypeInv, InStep
  <2>2. CASE q # r
        BY <1>5, <2>2 DEF IInv, TypeInv, Sound, InStep, Full, Intact
  <2> QED
      BY <2>1, <2>2
<1>6. ASSUME NEW l \in Leaders PROVE Led(l)'
      BY DEF IInv, TypeInv, Led, Leaders, Group
<1>7. AllReturned'
      BY DEF IInv, TypeInv, AllReturned
<1> QED
    BY <1>2, <1>3, <1>4, <1>5, <1>6, <1>7 DEF IInv

\* The last round of streaming votes as any other.
LEMMA ExhaustedKeeps == ASSUME IInv, NEW r \in Ranks, Exhausted(r) PROVE IInv'
<1> USE DEF Exhausted, Working, Vote, socketVars, workerVars, serverVars
<1>1. TypeInv'
      BY DEF IInv, TypeInv
<1>2. Together'
      BY DEF IInv, Together
<1>3. ASSUME NEW q \in Ranks PROVE Exchanged(q)'
      BY DEF IInv, TypeInv, Exchanged, Full
<1>4. ASSUME NEW q \in Ranks, Sound(q)' PROVE InStep(q)'
      BY <1>4 DEF IInv, TypeInv, Sound, InStep, Full, Intact
<1>5. ASSUME NEW l \in Leaders PROVE Led(l)'
      BY DEF IInv, TypeInv, Led, Leaders, Group
<1>6. AllReturned'
      BY DEF IInv, TypeInv, AllReturned
<1> QED
    BY <1>1, <1>2, <1>3, <1>4, <1>5, <1>6 DEF IInv

-----------------------------------------------------------------------------
(***************************************************************************)
(* Agreement.                                                              *)
(***************************************************************************)

\* All ranks are sound and in one phase; what their workers consented to holds.
LEMMA AgreeKeeps == ASSUME IInv, Agree PROVE IInv'
<1> USE TransferAssumption DEF Agree, AllWait, Agreed, workerVars, serverVars
<1>1. /\ \A r \in Ranks : pc[r] = "wait" /\ fine[r] /\ Sound(r) /\ InStep(r) /\ Exchanged(r)
      /\ \A r, s \in Ranks : phase[r] = phase[s]
      BY DEF IInv, Sound
<1>2. \A r \in Ranks :
        /\ phase[r] = "preflight" => phase'[r] = "topology"
        /\ phase[r] = "topology" => phase'[r] = "prepare"
        /\ phase[r] = "prepare" => phase'[r] = "socket"
        /\ phase[r] = "socket" => phase'[r] = "handshake"
        /\ phase[r] \in {"handshake", "stage"} => phase'[r] = "next"
        /\ phase[r] = "load" => phase'[r] = "stage"
        /\ phase[r] = "done" => phase'[r] = "last"
        /\ phase[r] = "last" => phase'[r] = "release"
        /\ phase[r] = "release" => phase'[r] = "post"
        /\ phase[r] \in {"post", "complete"} => phase'[r] = "complete"
      BY DEF Follows
<1>3. \A r \in Ranks : phase[r] \in Phases \ {"next"}
      BY <1>1 DEF IInv, TypeInv, Exchanged
<1>4. \A r \in Ranks : phase'[r] \in Phases
      BY <1>2, <1>3 DEF Phases
<1>5. TypeInv'
      BY <1>4 DEF IInv, TypeInv
<1>6. Together'
      BY <1>1 DEF IInv, Together
<1>7. ASSUME NEW r \in Ranks PROVE Exchanged(r)'
      BY <1>1, <1>2, <1>3 DEF IInv, TypeInv, Phases, Exchanged, InStep, Full
<1>8. ASSUME NEW r \in Ranks, Sound(r)' PROVE InStep(r)'
  <2>1. pc'[r] = "work" /\ phase[r] # "complete"
        BY <1>1, <1>8 DEF Sound
  <2>2. CASE phase[r] \in {"last", "release", "post"}
        BY <1>1, <1>2, <2>1, <2>2 DEF InStep, Exchanged, Full, Intact, Tensors
  <2>3. CASE phase[r] \notin {"last", "release", "post"}
        BY <1>1, <1>2, <1>3, <2>1, <2>3 DEF Phases, InStep, Intact
  <2> QED
      BY <2>2, <2>3
<1>9. ASSUME NEW l \in Leaders PROVE Led(l)'
      BY <1>1, <1>2, <1>3 DEF IInv, TypeInv, Phases, Led, Leaders, Group
<1>10. AllReturned'
  <2>1. SUFFICES ASSUME NEW r \in Ranks, phase[r] = "complete" PROVE AllReturned'
        BY <1>1 DEF AllReturned
  <2>2. \A q \in Ranks : phase[q] = "complete" /\ pc'[q] = "returned"
        BY <1>1, <2>1
  <2>3. \A l \in Leaders : thread[l] = "returned" /\ ~marked[l]
        BY <1>1, <2>2 DEF IInv, Led, Leaders
  <2>4. ASSUME NEW q \in Ranks PROVE worker[q] = "done"
    <3>1. Leader[q] \in Leaders /\ q \in Group(Leader[q])
          BY DEF Leaders, Group
    <3> QED
        BY <1>1, <2>3, <3>1 DEF IInv, Led, Leaders
  <2> QED
      BY <2>2, <2>3, <2>4 DEF AllReturned
<1> QED
    BY <1>5, <1>6, <1>7, <1>8, <1>9, <1>10 DEF IInv

\* No rank is sound any more.  At the end of the transfer the workers are done.
LEMMA DisagreeKeeps == ASSUME IInv, Disagree PROVE IInv'
<1> USE DEF Disagree, AllWait, socketVars, workerVars
<1>1. \A r \in Ranks : pc[r] = "wait" /\ pc'[r] \in {"raised", "thrown"}
      BY DEF IInv
<1>2. TypeInv'
      BY <1>1 DEF IInv, TypeInv
<1>3. Together'
      BY DEF IInv, Together
<1>4. ASSUME NEW r \in Ranks PROVE Exchanged(r)'
      BY <1>1 DEF IInv, Exchanged, Full
<1>5. ASSUME NEW r \in Ranks, Sound(r)' PROVE InStep(r)'
      BY <1>1, <1>5 DEF Sound
<1>6. ASSUME NEW l \in Leaders PROVE Led(l)'
  <2>1. phase[l] = "complete" =>
          \A r \in Group(l) : worker[r] \in {"done", "killed"}
    <3>1. phase[l] = "complete" => \A r \in Ranks : phase[r] = "complete"
          BY DEF IInv, TypeInv, Together, Round, Leaders
    <3> QED
        BY <3>1 DEF IInv, Exchanged, Group
  <2> QED
      BY <1>1, <2>1 DEF IInv, TypeInv, Led, Leaders
<1>7. AllReturned'
      BY <1>1 DEF AllReturned
<1> QED
    BY <1>2, <1>3, <1>4, <1>5, <1>6, <1>7 DEF IInv

\* The process group is aborted in a streaming round only, long after the checks.
LEMMA LoseConsensusKeeps == ASSUME IInv, NEW r \in Ranks, LoseConsensus(r) PROVE IInv'
<1> USE DEF LoseConsensus, socketVars, workerVars, serverVars
<1>1. TypeInv'
      BY DEF IInv, TypeInv
<1>2. Together'
      BY DEF IInv, Together
<1>3. ASSUME NEW q \in Ranks PROVE Exchanged(q)'
      BY DEF IInv, TypeInv, Exchanged, Full
<1>4. ASSUME NEW q \in Ranks, Sound(q)' PROVE InStep(q)'
      BY <1>4 DEF IInv, TypeInv, Sound, InStep, Full, Intact
<1>5. ASSUME NEW l \in Leaders PROVE Led(l)'
      BY DEF IInv, TypeInv, Together, Led, Leaders, Group
<1>6. AllReturned'
      BY DEF IInv, TypeInv, AllReturned
<1> QED
    BY <1>1, <1>2, <1>3, <1>4, <1>5, <1>6 DEF IInv

-----------------------------------------------------------------------------
(***************************************************************************)
(* Failure, and the end of the exchange.                                   *)
(***************************************************************************)

\* What is under way to the worker can only become an abort, or be lost.
LEMMA AbortReceiverKeeps == ASSUME IInv, NEW r \in Ranks, AbortReceiver(r) PROVE IInv'
<1> USE DEF AbortReceiver, workerVars, serverVars
<1>1. TypeInv'
      BY DEF IInv, TypeInv
<1>2. Together'
      BY DEF IInv, Together
<1>3. ASSUME NEW q \in Ranks PROVE Exchanged(q)'
      BY DEF IInv, TypeInv, Exchanged, Full
<1>4. ASSUME NEW q \in Ranks, Sound(q)' PROVE InStep(q)'
      BY <1>4 DEF IInv, TypeInv, Sound, InStep, Full, Intact
<1>5. ASSUME NEW l \in Leaders PROVE Led(l)'
      BY DEF IInv, TypeInv, Led, Leaders, Group
<1>6. AllReturned'
      BY DEF IInv, TypeInv, AllReturned
<1> QED
    BY <1>1, <1>2, <1>3, <1>4, <1>5, <1>6 DEF IInv

\* The leader marks its rollout and kills the workers of its own engine only.
LEMMA FailKeeps == ASSUME IInv, NEW r \in Ranks, Fail(r) PROVE IInv'
<1> USE DEF Fail, Terminate, socketVars
<1>1. TypeInv'
      BY DEF IInv, TypeInv
<1>2. Together'
      BY DEF IInv, Together
<1>3. ASSUME NEW q \in Ranks PROVE Exchanged(q)'
      BY DEF IInv, TypeInv, Exchanged, Full
<1>4. ASSUME NEW q \in Ranks, Sound(q)' PROVE InStep(q)'
      BY <1>4 DEF IInv, TypeInv, Sound, InStep, Full, Intact
<1>5. ASSUME NEW l \in Leaders PROVE Led(l)'
      BY DEF IInv, TypeInv, Led, Leaders, Group
<1>6. AllReturned'
      BY DEF IInv, TypeInv, AllReturned
<1> QED
    BY <1>1, <1>2, <1>3, <1>4, <1>5, <1>6 DEF IInv

\* A leader votes for the sync only if its engine's request has returned.
LEMMA JoinKeeps == ASSUME IInv, NEW r \in Ranks, Join(r) PROVE IInv'
<1> USE DEF Join, Working, Vote, Terminate, socketVars, serverVars
<1>1. TypeInv'
      BY DEF IInv, TypeInv
<1>2. Together'
      BY DEF IInv, Together
<1>3. ASSUME NEW q \in Ranks PROVE Exchanged(q)'
      BY DEF IInv, TypeInv, Exchanged, Full
<1>4. /\ pc' = [pc EXCEPT ![r] = "wait"] /\ \E ok \in BOOLEAN : fine' = [fine EXCEPT ![r] = ok]
      /\ fine'[r] /\ r \in Leaders => thread'[r] = "returned"
      /\ thread' = thread \/ (r \in Leaders /\ thread[r] = "running" /\ ~fine'[r])
      BY DEF IInv, TypeInv
<1>5. ASSUME NEW q \in Ranks, Sound(q)' PROVE InStep(q)'
  <2>1. Sound(q) /\ InStep(q)
        BY <1>4, <1>5 DEF IInv, TypeInv, Sound
  <2> QED
      BY <1>4, <2>1 DEF IInv, TypeInv, InStep, Full, Intact
<1>6. ASSUME NEW l \in Leaders PROVE Led(l)'
  <2>1. CASE l = r
        BY <1>4, <2>1 DEF IInv, TypeInv, Led, Leaders, Group
  <2>2. CASE l # r
    <3>1. pc'[l] = pc[l] /\ fine'[l] = fine[l] /\ thread'[l] = thread[l]
          BY <1>4, <2>2 DEF IInv, TypeInv, Leaders
    <3>2. marked'[l] = marked[l] /\ \A q \in Group(l) : worker'[q] = worker[q]
          BY <2>2 DEF IInv, TypeInv, Leaders, Group
    <3> QED
        BY <3>1, <3>2 DEF IInv, Led
  <2> QED
      BY <2>1, <2>2
<1>7. AllReturned'
      BY DEF IInv, TypeInv, AllReturned
<1> QED
    BY <1>1, <1>2, <1>3, <1>5, <1>6, <1>7 DEF IInv

-----------------------------------------------------------------------------
(***************************************************************************)
(* SGLang.                                                                 *)
(***************************************************************************)

\* The server's request returns when all workers of the engine are done.
LEMMA RequestEndsKeeps == ASSUME IInv, NEW r \in Ranks, RequestEnds(r) PROVE IInv'
<1> USE DEF RequestEnds, rankVars, socketVars, workerVars
<1>1. TypeInv'
      BY DEF IInv, TypeInv
<1>2. Together'
      BY DEF IInv, Together
<1>3. ASSUME NEW q \in Ranks PROVE Exchanged(q)'
      BY DEF IInv, Exchanged, Full
<1>4. ASSUME NEW q \in Ranks, Sound(q)' PROVE InStep(q)'
      BY <1>4 DEF IInv, Sound, InStep, Full, Intact
<1>5. ASSUME NEW l \in Leaders PROVE Led(l)'
      BY DEF IInv, TypeInv, Led, Leaders, Group
<1>6. AllReturned'
      BY DEF IInv, TypeInv, AllReturned
<1> QED
    BY <1>1, <1>2, <1>3, <1>4, <1>5, <1>6 DEF IInv

\* A worker connects for a request that has not ended.
LEMMA ConnectKeeps == ASSUME IInv, NEW r \in Ranks, Connect(r) PROVE IInv'
<1> USE DEF Connect, Becomes, rankVars, socketVars, serverVars
<1>1. TypeInv'
      BY DEF IInv, TypeInv
<1>2. Together'
      BY DEF IInv, Together
<1>3. ASSUME NEW q \in Ranks PROVE Exchanged(q)'
      BY DEF IInv, TypeInv, Exchanged, Full
<1>4. ASSUME NEW q \in Ranks, Sound(q)' PROVE InStep(q)'
      BY <1>4 DEF IInv, TypeInv, Sound, InStep, Full, Intact
<1>5. ASSUME NEW l \in Leaders PROVE Led(l)'
      BY DEF IInv, TypeInv, Led, Leaders, Group
<1>6. AllReturned'
      BY DEF IInv, TypeInv, AllReturned
<1> QED
    BY <1>1, <1>2, <1>3, <1>4, <1>5, <1>6 DEF IInv

\* A connected worker that goes on disturbs no rank, and its engine's request is open
\* or has failed.
LEMMA WorkerGoesOn ==
  ASSUME IInv, NEW r \in Ranks, worker[r] \notin {"away", "done", "killed"},
         NEW w, worker' = [worker EXCEPT ![r] = w],
         UNCHANGED <<rankVars, serverVars, aborted>>
  PROVE  Together' /\ (\A l \in Leaders : Led(l)') /\ AllReturned'
<1> USE DEF rankVars, serverVars
<1>1. Together'
      BY DEF IInv, Together
<1>2. ASSUME NEW l \in Leaders PROVE Led(l)'
      BY DEF IInv, TypeInv, Led, Leaders, Group
<1>3. AllReturned'
      BY DEF IInv, TypeInv, AllReturned
<1> QED
    BY <1>1, <1>2, <1>3

\* A worker that opens the buffer, or refuses it, has loaded nothing.
LEMMA OpenKeeps == ASSUME IInv, NEW r \in Ranks, Open(r) PROVE IInv'
<1> USE DEF Open, Becomes, Replies, rankVars, serverVars
<1>1. TypeInv'
      BY DEF IInv, TypeInv
<1>2. Together' /\ (\A l \in Leaders : Led(l)') /\ AllReturned'
      BY WorkerGoesOn
<1>3. ASSUME NEW q \in Ranks PROVE Exchanged(q)'
      BY DEF IInv, TypeInv, Exchanged, Full
<1>4. ASSUME NEW q \in Ranks, Sound(q)' PROVE InStep(q)'
      BY <1>4 DEF IInv, TypeInv, Sound, InStep, Full, Intact
<1> QED
    BY <1>1, <1>2, <1>3, <1>4 DEF IInv

\* A worker takes a bucket of a sound rank only when the rank waits for it.
LEMMA TakeKeeps == ASSUME IInv, NEW r \in Ranks, Take(r) PROVE IInv'
<1> USE DEF Take, Becomes, Replies, rankVars, serverVars
<1>1. TypeInv'
      BY DEF IInv, TypeInv
<1>2. Together' /\ (\A l \in Leaders : Led(l)') /\ AllReturned'
      BY WorkerGoesOn
<1>3. ASSUME NEW q \in Ranks PROVE Exchanged(q)'
      BY DEF IInv, TypeInv, Exchanged, Full
<1>4. ASSUME NEW q \in Ranks, Sound(q)' PROVE InStep(q)'
      BY <1>4 DEF IInv, TypeInv, Sound, InStep, Full, Intact
<1> QED
    BY <1>1, <1>2, <1>3, <1>4 DEF IInv

\* The buffer of a sound rank holds what the worker has not loaded yet.
LEMMA LoadKeeps == ASSUME IInv, NEW r \in Ranks, Load(r) PROVE IInv'
<1> USE DEF Load, Becomes, Replies, rankVars, serverVars
<1>1. TypeInv'
  <2>1. loaded' \in [Ranks -> SUBSET Nat]
    <3>1. loaded[r] \cup buffer[r] \in SUBSET Nat
          BY DEF IInv, TypeInv
    <3> QED
        BY <3>1 DEF IInv, TypeInv
  <2>2. spoilt' \in [Ranks -> BOOLEAN]
        BY DEF IInv, TypeInv
  <2> QED
      BY <2>1, <2>2 DEF IInv, TypeInv
<1>2. Together' /\ (\A l \in Leaders : Led(l)') /\ AllReturned'
      BY WorkerGoesOn
<1>3. ASSUME NEW q \in Ranks PROVE Exchanged(q)'
      BY DEF IInv, TypeInv, Exchanged, Full
<1>4. ASSUME NEW q \in Ranks, Sound(q)' PROVE InStep(q)'
  <2>1. Sound(q) /\ InStep(q)
        BY <1>4 DEF IInv, Sound
  <2>2. CASE q = r
    <3>1. /\ pc[r] = "ack" /\ phase[r] \in Loads /\ wire[r] = "nothing"
          /\ Intact(r) /\ staged[r] > 0
          BY <2>1, <2>2, TransferAssumption DEF IInv, InStep, Exchanged
    <3>2. CASE wire'[r] = "error"
          BY <2>2, <3>1, <3>2 DEF IInv, TypeInv, InStep
    <3>3. CASE wire'[r] # "error"
      <4>1. /\ loaded'[r] = loaded[r] \cup buffer[r] /\ wire'[r] = "ok"
            /\ ~spoilt'[r] /\ worker'[r] = "ready"
            BY <3>1, <3>3 DEF IInv, TypeInv, Intact
      <4>2. loaded'[r] = 1 .. staged[r] /\ Intact(r)'
            BY <3>1, <4>1 DEF Intact
      <4> QED
          BY <2>2, <3>1, <4>1, <4>2 DEF InStep
    <3> QED
        BY <3>2, <3>3
  <2>3. CASE q # r
        BY <2>1, <2>3 DEF IInv, TypeInv, InStep, Full, Intact
  <2> QED
      BY <2>2, <2>3
<1> QED
    BY <1>1, <1>2, <1>3, <1>4 DEF IInv

\* The worker releases, and is done, after everything was loaded.
LEMMA FinishKeeps == ASSUME IInv, NEW r \in Ranks, Finish(r) PROVE IInv'
<1> USE DEF rankVars, serverVars
<1>1. PICK w, reply :
        /\ worker' = [worker EXCEPT ![r] = w] /\ wire' = [wire EXCEPT ![r] = reply]
        /\ \/ w = "released" /\ wire[r] = "release" /\ reply = "ok"
           \/ w = "done" /\ wire[r] = "post" /\ reply = "ok"
           \/ w = "failed" /\ reply = "error"
           \/ w = "failed" /\ wire[r] \in {"abort", "last word"} /\ reply = "nothing"
      BY DEF Finish, Becomes, Replies
<1>2. /\ worker[r] \in {"ready", "released", "refusing"}
      /\ UNCHANGED <<rankVars, canSend, buffer, loaded, spoilt, serverVars, aborted>>
      /\ wire[r] \in {"release", "post", "abort", "last word"}
      BY DEF Finish
<1>3. TypeInv'
      BY <1>1, <1>2 DEF IInv, TypeInv
<1>4. Together' /\ (\A l \in Leaders : Led(l)') /\ AllReturned'
      BY <1>1, <1>2, WorkerGoesOn
<1>5. ASSUME NEW q \in Ranks PROVE Exchanged(q)'
      BY <1>1, <1>2 DEF IInv, TypeInv, Exchanged, Full
<1>6. ASSUME NEW q \in Ranks, Sound(q)' PROVE InStep(q)'
      BY <1>1, <1>2, <1>6 DEF IInv, TypeInv, Sound, InStep, Full, Intact
<1> QED
    BY <1>3, <1>4, <1>5, <1>6 DEF IInv

-----------------------------------------------------------------------------
(***************************************************************************)
(* The theorems.                                                           *)
(***************************************************************************)

\* IInv is inductive.
LEMMA NextIInv == ASSUME IInv, [Next]_vars PROVE IInv'
<1>1. CASE UNCHANGED vars
      BY <1>1 DEF vars, rankVars, socketVars, workerVars, serverVars, IInv, TypeInv,
         Together, Exchanged, Sound, InStep, Full, Intact, Led, AllReturned
<1>2. ASSUME NEW r \in Ranks, Rank(r) PROVE IInv'
      BY <1>2, PrepareKeeps, BindSocketKeeps, SendKeeps, AnswerKeeps, GiveUpKeeps,
         MaterializeKeeps, StageKeeps, ExhaustedKeeps, LoseConsensusKeeps,
         AbortReceiverKeeps, FailKeeps, JoinKeeps DEF Rank
<1>3. ASSUME NEW r \in Ranks, Engine(r) PROVE IInv'
      BY <1>3, RequestEndsKeeps, ConnectKeeps, OpenKeeps, TakeKeeps, LoadKeeps,
         FinishKeeps DEF Engine
<1>4. CASE Consensus
      BY <1>4, AgreeKeeps, DisagreeKeeps DEF Consensus
<1> QED
    BY <1>1, <1>2, <1>3, <1>4 DEF Next

LEMMA Invariance == Spec => []IInv
  BY InitIInv, NextIInv, PTL DEF Spec

\* The workers of a leader that has raised have never heard of the sync, or its
\* rollout is marked; when one rank's sync has returned, every worker is done.
LEMMA IInvAllOrNothing == IInv => AllOrNothing
<1> SUFFICES ASSUME IInv PROVE AllOrNothing
    OBVIOUS
<1>1. ASSUME NEW r \in Ranks, pc[r] = "returned", NEW l \in Leaders
      PROVE  Usable(l) /\ Whole(l)
  <2>1. ~marked[l] /\ \A q \in Group(l) : worker[q] = "done"
        BY <1>1 DEF IInv, AllReturned, Group
  <2>2. \A q \in Group(l) : Full(q)
        BY <2>1 DEF IInv, Exchanged, Group
  <2> QED
      BY <2>1, <2>2 DEF Usable, Whole, Full
<1>2. ASSUME NEW l \in Leaders, pc[l] = "raised", Usable(l) PROVE Untouched(l)
  <2>1. \A r \in Group(l) : worker[r] = "away"
        BY <1>2 DEF IInv, Led, Usable
  <2> QED
      BY <2>1 DEF IInv, Exchanged, Untouched, Group
<1> QED
    BY <1>1, <1>2 DEF AllOrNothing

\* Ranks of an engine that are over have all returned, or its leader has raised.
LEMMA IInvNoWorkerWedged == IInv => NoWorkerWedged
<1> SUFFICES ASSUME IInv, NEW l \in Leaders, \A r \in Group(l) : pc[r] \in Over,
                    NEW r \in Group(l)
             PROVE  \/ worker[r] \in {"done", "failed", "killed"}
                    \/ worker[r] = "away" /\ thread[l] # "running"
    BY DEF NoWorkerWedged
<1>1. l \in Ranks /\ r \in Ranks /\ pc[l] \in Over
      BY DEF Leaders, Group
<1>2. CASE pc[l] = "returned"
      BY <1>1, <1>2 DEF IInv, AllReturned
<1>3. CASE pc[l] = "raised"
      BY <1>1, <1>3 DEF IInv, Led
<1> QED
    BY <1>1, <1>2, <1>3

\* Whichever rank, worker or server fails or hangs: an engine that may still generate
\* after a sync has all of the new weights, or none of them if the sync raised.
THEOREM EnginesWholeOrUntouched == Spec => []AllOrNothing
  BY Invariance, IInvAllOrNothing, PTL

\* When the ranks of an engine are done, none of its workers waits for a message.
THEOREM WorkersEnd == Spec => []NoWorkerWedged
  BY Invariance, IInvNoWorkerWedged, PTL

-----------------------------------------------------------------------------
(***************************************************************************)
(* The ranks move in step.                                                 *)
(***************************************************************************)

\* The agreement a rank is on its way to, and what it had staged before it.
Heading(r) == IF phase[r] = "next" THEN NextPhase(r) ELSE phase[r]
StagedBefore(r)  == IF phase[r] = "stage" /\ pc[r] = "wait" /\ fine[r] THEN staged[r] - 1 ELSE staged[r]

\* As long as the process group is not aborted, all ranks are on their way to the same
\* agreement, from the same number of tensors, or all have left together.
Lockstep ==
  ~aborted =>
    \/ \A r \in Ranks : pc[r] \notin Under
    \/ /\ \A r \in Ranks : pc[r] \in Under
       /\ \A r, s \in Ranks : Heading(r) = Heading(s) /\ StagedBefore(r) = StagedBefore(s)

\* A rank that goes on within its phase, outside of "stage", is in step as before.
LEMMA WithinPhase ==
  ASSUME IInv, Lockstep, NEW r \in Ranks, NEW p \in Under, NEW f \in BOOLEAN,
         pc[r] \in Under, phase[r] # "stage",
         pc' = [pc EXCEPT ![r] = p], fine' = [fine EXCEPT ![r] = f],
         UNCHANGED <<phase, staged, aborted>>
  PROVE  Lockstep'
<1>1. \A q \in Ranks : Heading(q)' = Heading(q)
      BY DEF Heading, NextPhase
<1>2. \A q \in Ranks : StagedBefore(q)' = StagedBefore(q)
      BY DEF StagedBefore, IInv, TypeInv
<1>3. \A q \in Ranks : pc'[q] \in Under <=> pc[q] \in Under
      BY DEF IInv, TypeInv
<1> HIDE DEF Under
<1> QED
    BY <1>1, <1>2, <1>3 DEF Lockstep

\* Where a rank waits for its worker.
LEMMA AnswersAreExchanges ==
  ASSUME IInv, NEW r \in Ranks, pc[r] = "ack"
  PROVE  phase[r] \in Exchanges
BY DEF IInv, Sound, InStep

LEMMA RankInStep ==
  ASSUME IInv, Lockstep, NEW r \in Ranks, Rank(r)
  PROVE  Lockstep'
<1>1. CASE Prepare(r)
  <2>1. PICK ok \in BOOLEAN : Vote(r, ok)
        BY <1>1 DEF Prepare
  <2> QED
      BY <1>1, <2>1, WithinPhase DEF Prepare, Vote
<1>2. CASE BindSocket(r)
  <2>1. PICK ok \in BOOLEAN : Vote(r, ok)
        BY <1>2 DEF BindSocket
  <2> QED
      BY <1>2, <2>1, WithinPhase DEF BindSocket, Working, Vote
<1>3. CASE Send(r)
  <2>1. CASE pc' = [pc EXCEPT ![r] = "ack"] /\ UNCHANGED fine
    <3>1. fine' = [fine EXCEPT ![r] = fine[r]] /\ fine[r] \in BOOLEAN
          BY <2>1 DEF IInv, TypeInv
    <3> QED
        BY <1>3, <2>1, <3>1, WithinPhase DEF Send
  <2>2. CASE Vote(r, FALSE)
        BY <1>3, <2>2, WithinPhase DEF Send, Vote
  <2> QED
      BY <1>3, <2>1, <2>2 DEF Send
<1>4. CASE Answer(r)
  <2> DEFINE ok == wire[r] = "ok"
  <2>1. Vote(r, ok) /\ ok \in BOOLEAN /\ UNCHANGED <<phase, staged, aborted>>
        BY <1>4 DEF Answer
  <2>2. phase[r] \in Exchanges /\ pc[r] = "ack"
        BY <1>4, AnswersAreExchanges DEF Answer
  <2> HIDE DEF ok
  <2> QED
      BY <2>1, <2>2, WithinPhase DEF Vote
<1>5. CASE GiveUp(r)
      BY <1>5, AnswersAreExchanges, WithinPhase DEF GiveUp, Vote
<1>6. CASE Materialize(r)
  <2>1. CASE aborted'
        BY <2>1 DEF Lockstep
  <2>2. CASE ~aborted'
    <3>1. /\ phase' = [phase EXCEPT ![r] = NextPhase(r)] /\ phase[r] = "next" /\ pc[r] = "work"
          /\ UNCHANGED <<pc, aborted, staged, fine>>
          BY <1>6, <2>2 DEF Materialize, Working
    <3>2. NextPhase(r) \in {"done", "load", "stage"}
          BY DEF NextPhase
    <3>3. \A q \in Ranks : NextPhase(q)' = NextPhase(q)
          BY <3>1 DEF NextPhase
    <3>4. \A q \in Ranks : Heading(q)' = Heading(q)
          BY <3>1, <3>2, <3>3 DEF Heading, IInv, TypeInv
    <3>5. \A q \in Ranks : StagedBefore(q)' = StagedBefore(q)
          BY <3>1, <3>2 DEF StagedBefore, IInv, TypeInv
    <3> QED
        BY <3>1, <3>4, <3>5 DEF Lockstep
  <2> QED
      BY <2>1, <2>2
<1>7. CASE Stage(r)
  <2>1. /\ phase[r] = "stage" /\ pc[r] = "work" /\ UNCHANGED <<phase, aborted>>
        /\ pc' = [pc EXCEPT ![r] = "wait"]
        /\ \/ fine' = [fine EXCEPT ![r] = TRUE] /\ staged' = [staged EXCEPT ![r] = @ + 1]
           \/ fine' = [fine EXCEPT ![r] = FALSE] /\ UNCHANGED staged
        BY <1>7 DEF Stage, Working, Vote
  <2>2. \A q \in Ranks : Heading(q)' = Heading(q)
        BY <2>1 DEF Heading, NextPhase, IInv, TypeInv
  <2>3. \A q \in Ranks : StagedBefore(q)' = StagedBefore(q)
        BY <2>1 DEF StagedBefore, IInv, TypeInv
  <2>4. \A q \in Ranks : pc'[q] \in Under <=> pc[q] \in Under
        BY <2>1 DEF IInv, TypeInv
  <2> HIDE DEF Under
  <2> QED
      BY <2>1, <2>2, <2>3, <2>4 DEF Lockstep
<1>8. CASE Exhausted(r)
      BY <1>8, WithinPhase DEF Exhausted, Working, Vote
<1>9. CASE LoseConsensus(r)
      BY <1>9 DEF LoseConsensus, Lockstep
<1>10. CASE AbortReceiver(r) \/ Fail(r)
  <2>1. /\ pc[r] \notin Under /\ UNCHANGED aborted
        /\ \E p \in {"failing", "raised"} : pc' = [pc EXCEPT ![r] = p]
        BY <1>10 DEF AbortReceiver, Fail
  <2> QED
      BY <2>1 DEF Lockstep, IInv, TypeInv
<1>11. CASE Join(r)
  <2>1. PICK f \in BOOLEAN : Vote(r, f)
        BY <1>11 DEF Join
  <2> QED
      BY <1>11, <2>1, WithinPhase DEF Join, Working, Vote
<1> QED
    BY <1>1, <1>2, <1>3, <1>4, <1>5, <1>6, <1>7, <1>8, <1>9, <1>10, <1>11 DEF Rank

\* An agreement takes all ranks on together; without one they all leave.
LEMMA ConsensusInStep ==
  ASSUME IInv, Lockstep, Consensus
  PROVE  Lockstep'
<1>1. CASE Agree
  <2> DEFINE to(q) == Follows[phase[q]]
  <2>1. /\ \A q, s \in Ranks : phase[q] = phase[s] /\ staged[q] = staged[s]
        /\ \A q \in Ranks : pc'[q] = IF phase[q] = "complete" THEN "returned" ELSE "work"
        /\ \A q \in Ranks : phase'[q] = to(q)
        /\ UNCHANGED staged
        BY <1>1 DEF Agree, Agreed
  <2>2. \A q, s \in Ranks : to(q) = to(s)
        BY <2>1
  <2> HIDE DEF to
  <2>3. \A q, s \in Ranks : phase'[q] = phase'[s] /\ staged'[q] = staged'[s]
        BY <2>1, <2>2
  <2>4. \A q, s \in Ranks : Heading(q)' = Heading(s)' /\ StagedBefore(q)' = StagedBefore(s)'
        BY <2>1, <2>3 DEF Heading, StagedBefore, NextPhase
  <2>5. \/ \A q \in Ranks : pc'[q] \notin Under
        \/ \A q \in Ranks : pc'[q] \in Under
        BY <2>1
  <2> QED
      BY <2>4, <2>5 DEF Lockstep
<1>2. CASE Disagree
      BY <1>2 DEF Disagree, Lockstep
<1> QED
    BY <1>1, <1>2 DEF Consensus

LEMMA NextInStep ==
  ASSUME IInv, Lockstep, [Next]_vars
  PROVE  Lockstep'
<1>1. CASE Consensus
      BY <1>1, ConsensusInStep
<1>2. CASE \E r \in Ranks : Rank(r)
      BY <1>2, RankInStep
<1>3. CASE (\E r \in Ranks : Engine(r)) \/ UNCHANGED vars
  <2>1. UNCHANGED <<pc, phase, staged, fine, aborted>>
        BY <1>3 DEF Engine, RequestEnds, Connect, Open, Take, Load, Finish, rankVars, vars
  <2> QED
      BY <2>1 DEF Lockstep, Heading, StagedBefore, NextPhase
<1> QED
    BY <1>1, <1>2, <1>3 DEF Next

\* No agreement waits for a rank that is not on its way to it, so unless the process group
\* was aborted every all-reduce completes, with votes on one phase; for any number of
\* ranks, engines, tensors and buckets.
THEOREM AgreementsComplete == Spec => []AgreementsMeet
<1>1. Init => Lockstep
      BY DEF Init, Lockstep, Heading, StagedBefore, NextPhase
<1>2. IInv /\ Lockstep /\ [Next]_vars => Lockstep'
      BY NextInStep
<1>3. IInv /\ Lockstep => AgreementsMeet
  <2> SUFFICES ASSUME IInv, Lockstep, ~aborted, NEW r \in Ranks, NEW s \in Ranks, pc[r] = "wait"
               PROVE  /\ pc[s] \in {"work", "ack", "wait"}
                      /\ phase[r] = IF phase[s] = "next" THEN NextPhase(s) ELSE phase[s]
      BY DEF AgreementsMeet
  <2>1. phase[r] # "next"
        BY DEF IInv, Exchanged
  <2> QED
      BY <2>1 DEF Lockstep, Heading
<1> QED
    BY <1>1, <1>2, <1>3, Invariance, PTL DEF Spec
=============================================================================
