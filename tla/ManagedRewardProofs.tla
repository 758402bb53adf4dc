------------------------ MODULE ManagedRewardProofs ------------------------
(***************************************************************************)
(* Theorems about ManagedReward for every number of calls, of attempts, of *)
(* failures and of rows, and every size of the chunks and of the cache.    *)
(***************************************************************************)
EXTENDS ManagedReward, SequenceTheorems, FiniteSetTheorems, FunctionTheorems, TLAPS

(***************************************************************************)
(* The inductive invariant.                                                *)
(***************************************************************************)
Requests ==
  [op : {"none", "onload", "score", "offload", "shutdown"}, call : Nat, start : Nat,
   attempt : Nat]

ServerState == {"offloaded", "resident", "error", "stopping"}

Typed ==
  /\ calls \in Nat
  /\ current \in Requests
  /\ queue \in Seq(Requests)
  /\ fingerprinting \subseteq Requests
  /\ lifecycle \in ServerState

\* No onload waits behind the i-th request; behind the 0-th, none waits at all.
NoOnloadAfter(i) == \A j \in 1 .. Len(queue) : j > i => queue[j].op # "onload"

\* The scorer is not loaded, and will not be without a new call.
Left == lifecycle # "resident" /\ NoOnloadAfter(0)

\* And has left the GPU.
Gone == lifecycle \in {"offloaded", "stopping"} /\ NoOnloadAfter(0)

\* Where the scorer is follows from the server's state, unless moving it failed.
OnGpuIfResident == onGpu => lifecycle \in {"resident", "error"}

\* Only chunks are fingerprinted, and what waits belongs to a call begun.
CallsBegun ==
  /\ \A r \in fingerprinting : r.op = "score" /\ r.call <= calls
  /\ \A i \in 1 .. Len(queue) : queue[i].call <= calls

\* From its offload on, a call has left the GPU or its offload is still to come,
\* with no onload behind it.
Leaving ==
  current.op \in {"none", "offload", "shutdown"} =>
    Left \/ \E i \in 1 .. Len(queue) :
              queue[i].op \in {"offload", "shutdown"} /\ NoOnloadAfter(i)

\* A call posts one offload, after its onload.
OffloadIsNew ==
  current.op \in {"onload", "score"} =>
    \A i \in 1 .. Len(queue) : ~(queue[i].op = "offload" /\ queue[i].call = calls)

OffloadIsLast ==
  current.op = "offload" =>
    \A i \in 1 .. Len(queue) : queue[i] = current => NoOnloadAfter(i)

\* An offload that was answered was done, and one that follows scores has to be.
OffloadAnswered == current.op = "offload" /\ answer = "ok" => Gone
ScoresNeedOffload == current.op = "offload" /\ outcome = "scored" => tolerant = FALSE
ScoredHasLeft == current.op = "none" /\ outcome = "scored" => Gone

IInv ==
  /\ Typed /\ OnGpuIfResident /\ CallsBegun
  /\ Leaving /\ OffloadIsNew /\ OffloadIsLast
  /\ OffloadAnswered /\ ScoresNeedOffload /\ ScoredHasLeft

-----------------------------------------------------------------------------
\* A request that joins the queue: what is behind the others.
LEMMA Joined ==
  ASSUME Typed, NEW r \in Requests, queue' = Append(queue, r)
  PROVE  /\ queue' \in Seq(Requests) /\ Len(queue') = Len(queue) + 1
         /\ \A i \in 1 .. Len(queue) : queue'[i] = queue[i]
         /\ queue'[Len(queue) + 1] = r
         /\ \A i \in Nat : i > Len(queue) => NoOnloadAfter(i)'
         /\ r.op # "onload" =>
              \A i \in 0 .. Len(queue) : NoOnloadAfter(i) => NoOnloadAfter(i)'
<1>1. /\ queue' \in Seq(Requests) /\ Len(queue') = Len(queue) + 1
      /\ \A i \in 1 .. Len(queue) : queue'[i] = queue[i]
      /\ queue'[Len(queue) + 1] = r
  BY AppendProperties DEF Typed
<1>2. Len(queue) \in Nat
  BY DEF Typed
<1>3. \A i \in Nat : i > Len(queue) => NoOnloadAfter(i)'
  BY <1>1, <1>2 DEF NoOnloadAfter
<1>4. ASSUME r.op # "onload", NEW i \in 0 .. Len(queue), NoOnloadAfter(i)
      PROVE  NoOnloadAfter(i)'
  <2>1. SUFFICES ASSUME NEW j \in 1 .. Len(queue) + 1, j > i
                 PROVE  queue'[j].op # "onload"
    BY <1>1 DEF NoOnloadAfter
  <2>2. CASE j = Len(queue) + 1
    BY <2>2, <1>1, <1>4
  <2>3. CASE j \in 1 .. Len(queue)
    BY <2>1, <2>3, <1>1, <1>4 DEF NoOnloadAfter
  <2> QED
    BY <2>2, <2>3, <1>2
<1> QED
  BY <1>1, <1>3, <1>4

\* The first request leaves the queue: the others come one place forward.
LEMMA Served ==
  ASSUME Typed, queue # <<>>, queue' = Tail(queue)
  PROVE  /\ queue' \in Seq(Requests) /\ Len(queue') = Len(queue) - 1
         /\ Len(queue) >= 1 /\ Head(queue) = queue[1]
         /\ \A i \in 1 .. Len(queue') : queue'[i] = queue[i + 1]
         /\ \A i \in 0 .. Len(queue') : NoOnloadAfter(i + 1) => NoOnloadAfter(i)'
<1>1. /\ queue' \in Seq(Requests) /\ Len(queue') = Len(queue) - 1
      /\ \A i \in 1 .. Len(queue') : queue'[i] = queue[i + 1]
  BY HeadTailProperties DEF Typed
<1>2. Len(queue) \in Nat /\ Len(queue) >= 1 /\ Head(queue) = queue[1]
  BY DEF Typed
<1>3. ASSUME NEW i \in 0 .. Len(queue'), NoOnloadAfter(i + 1)
      PROVE  NoOnloadAfter(i)'
  <2>1. SUFFICES ASSUME NEW j \in 1 .. Len(queue'), j > i
                 PROVE  queue'[j].op # "onload"
    BY DEF NoOnloadAfter
  <2>2. j + 1 \in 1 .. Len(queue) /\ j + 1 > i + 1
    BY <2>1, <1>1, <1>2
  <2> QED
    BY <2>2, <1>1, <1>3 DEF NoOnloadAfter
<1> QED
  BY <1>1, <1>2, <1>3

-----------------------------------------------------------------------------
(***************************************************************************)
(* The server's steps.                                                     *)
(***************************************************************************)
\* What a request does to the scorer: only an onload loads it, an offload or a
\* shutdown leaves it unloaded or in error, and an answered offload unloaded; a
\* scorer that has gone does not fail to go.
Effect(op, reply) ==
  /\ lifecycle' \in ServerState
  /\ onGpu' => lifecycle' \in {"resident", "error"}
  /\ lifecycle' = "resident" => lifecycle = "resident" \/ op = "onload"
  /\ op \in {"offload", "shutdown"} => lifecycle' # "resident"
  /\ op = "offload" /\ reply = "ok" => lifecycle' = "offloaded"
  /\ lifecycle \in {"offloaded", "stopping"} /\ op # "onload" =>
       lifecycle' \in {"offloaded", "stopping"}

\* Serving a request with such an effect keeps the invariant.
LEMMA ServingPreserves ==
  ASSUME IInv, NEW op, NEW reply, Serve(op, reply), Effect(op, reply)
  PROVE  IInv'
<1> USE DEF IInv
<1>1. /\ queue # <<>> /\ queue' = Tail(queue) /\ Head(queue).op = op
      /\ UNCHANGED <<calls, current, tolerant, outcome, fingerprinting>>
      /\ answer' = answer \/ (Head(queue) = current /\ answer' = reply)
  BY DEF Serve
<1>2. /\ queue' \in Seq(Requests) /\ Len(queue') = Len(queue) - 1
      /\ Len(queue) \in Nat /\ Len(queue) >= 1 /\ Head(queue) = queue[1]
      /\ \A i \in 1 .. Len(queue') : queue'[i] = queue[i + 1]
      /\ \A i \in 0 .. Len(queue') : NoOnloadAfter(i + 1) => NoOnloadAfter(i)'
  BY <1>1, Served DEF Typed
<1>3. ASSUME NEW i \in 1 .. Len(queue')
      PROVE  i + 1 \in 1 .. Len(queue) /\ i \in 0 .. Len(queue') /\ queue'[i] = queue[i + 1]
  BY <1>2
<1>4. (Left => Left') /\ (Gone => Gone')
  <2>1. ASSUME NoOnloadAfter(0)
        PROVE  op # "onload" /\ NoOnloadAfter(1)
    BY <2>1, <1>1, <1>2 DEF NoOnloadAfter
  <2>2. NoOnloadAfter(0) => NoOnloadAfter(0)'
    BY <2>1, <1>2
  <2> QED
    BY <2>1, <2>2 DEF Left, Gone, Effect
<1>5. Typed'
  BY <1>1, <1>2 DEF Typed, Effect
<1>6. OnGpuIfResident'
  BY DEF OnGpuIfResident, Effect
<1>7. CallsBegun'
  BY <1>1, <1>3 DEF CallsBegun
<1>8. Leaving'
  <2>1. SUFFICES ASSUME current.op \in {"none", "offload", "shutdown"}
                 PROVE  Left' \/ \E i \in 1 .. Len(queue') :
                          queue'[i].op \in {"offload", "shutdown"} /\ NoOnloadAfter(i)'
    BY <1>1 DEF Leaving
  <2>2. CASE Left
    BY <2>2, <1>4
  <2>3. ASSUME NEW i \in 1 .. Len(queue),
               queue[i].op \in {"offload", "shutdown"}, NoOnloadAfter(i)
        PROVE  Left' \/ \E k \in 1 .. Len(queue') :
                 queue'[k].op \in {"offload", "shutdown"} /\ NoOnloadAfter(k)'
    <3>1. CASE i = 1
      <4>1. lifecycle' # "resident"
        BY <3>1, <2>3, <1>1, <1>2 DEF Effect
      <4>2. NoOnloadAfter(0)'
        BY <3>1, <2>3, <1>2
      <4> QED
        BY <4>1, <4>2 DEF Left
    <3>2. CASE i > 1
      <4>1. i - 1 \in 1 .. Len(queue') /\ i - 1 \in 0 .. Len(queue') /\ (i - 1) + 1 = i
        BY <3>2, <1>2
      <4>2. queue'[i - 1] = queue[i] /\ NoOnloadAfter(i - 1)'
        BY <4>1, <2>3, <1>2
      <4> QED
        BY <4>1, <4>2, <2>3
    <3> QED
      BY <3>1, <3>2
  <2> QED
    BY <2>1, <2>2, <2>3 DEF Leaving
<1>9. OffloadIsNew'
  BY <1>1, <1>3 DEF OffloadIsNew
<1>10. OffloadIsLast'
  <2>1. SUFFICES ASSUME current.op = "offload", NEW i \in 1 .. Len(queue'),
                        queue'[i] = current
                 PROVE  NoOnloadAfter(i)'
    BY <1>1 DEF OffloadIsLast
  <2>2. NoOnloadAfter(i + 1)
    BY <2>1, <1>3 DEF OffloadIsLast
  <2> QED
    BY <2>2, <1>2, <1>3
<1>11. OffloadAnswered'
  <2>1. SUFFICES ASSUME current.op = "offload", answer' = "ok"
                 PROVE  Gone'
    BY <1>1 DEF OffloadAnswered
  <2>2. CASE answer' = answer
    BY <2>1, <2>2, <1>4 DEF OffloadAnswered
  <2>3. CASE Head(queue) = current /\ answer' = reply
    <3>1. op = "offload" /\ NoOnloadAfter(1)
      BY <2>1, <2>3, <1>1, <1>2 DEF OffloadIsLast
    <3>2. NoOnloadAfter(0)'
      BY <3>1, <1>2
    <3> QED
      BY <2>1, <2>3, <3>1, <3>2 DEF Gone, Effect
  <2> QED
    BY <2>2, <2>3, <1>1
<1>12. ScoresNeedOffload' /\ ScoredHasLeft'
  BY <1>1, <1>4 DEF ScoresNeedOffload, ScoredHasLeft
<1> QED
  BY <1>5, <1>6, <1>7, <1>8, <1>9, <1>10, <1>11, <1>12

\* Every request has the effect that its place in the protocol asks for.
LEMMA ServerPreserves ==
  ASSUME IInv, ServeChunk \/ ServeOnload \/ ServeOffload \/ ServeShutdown
  PROVE  IInv'
<1> USE DEF IInv, Typed, ServerState, OnGpuIfResident, Effect
<1>1. CASE ServeChunk
  <2>1. lifecycle' = lifecycle /\ onGpu' = onGpu
    BY <1>1 DEF ServeChunk, serverVars
  <2>2. PICK reply : Serve("score", reply)
    BY <1>1 DEF ServeChunk
  <2> QED
    BY <2>1, <2>2, ServingPreserves
<1>2. CASE ServeOnload
  <2>1. PICK reply : Serve("onload", reply)
    BY <1>2 DEF ServeOnload
  <2>2. Effect("onload", reply)
    BY <1>2 DEF ServeOnload
  <2> QED
    BY <2>1, <2>2, ServingPreserves
<1>3. CASE ServeOffload
  <2>1. CASE Serve("offload", "ok") /\ lifecycle' = "offloaded" /\ onGpu' = FALSE
    <3>1. Effect("offload", "ok")
      BY <2>1
    <3> QED
      BY <2>1, <3>1, ServingPreserves
  <2>2. CASE /\ Serve("offload", "refused") /\ lifecycle \notin {"offloaded", "stopping"}
             /\ lifecycle' = "error"
    <3>1. Effect("offload", "refused")
      BY <2>2
    <3> QED
      BY <2>2, <3>1, ServingPreserves
  <2>3. CASE /\ Serve("offload", "refused") /\ lifecycle = "stopping"
             /\ UNCHANGED <<lifecycle, onGpu>>
    <3>1. Effect("offload", "refused")
      BY <2>3
    <3> QED
      BY <2>3, <3>1, ServingPreserves
  <2> QED
    BY <1>3, <2>1, <2>2, <2>3 DEF ServeOffload
<1>4. CASE ServeShutdown
  BY <1>4, ServingPreserves DEF ServeShutdown
<1> QED
  BY <1>1, <1>2, <1>3, <1>4

\* A chunk that comes to the lock is not an onload.
LEMMA FingerprintedPreserves ==
  ASSUME IInv, NEW r \in fingerprinting, Fingerprinted(r)
  PROVE  IInv'
<1> USE DEF IInv
<1>1. /\ r \in Requests /\ r.op = "score" /\ r.call <= calls
      /\ queue' = Append(queue, r) /\ fingerprinting' \subseteq fingerprinting
      /\ UNCHANGED <<calls, current, answer, tolerant, outcome, lifecycle, onGpu>>
  BY DEF Fingerprinted, clientVars, serverVars, Typed, CallsBegun
<1>2. /\ queue' \in Seq(Requests) /\ Len(queue') = Len(queue) + 1 /\ Len(queue) \in Nat
      /\ \A i \in 1 .. Len(queue) : queue'[i] = queue[i]
      /\ queue'[Len(queue) + 1] = r
      /\ \A i \in 0 .. Len(queue) : NoOnloadAfter(i) => NoOnloadAfter(i)'
  BY <1>1, Joined DEF Typed
<1>3. (Left => Left') /\ (Gone => Gone')
  BY <1>1, <1>2 DEF Left, Gone
<1>4. ASSUME NEW i \in 1 .. Len(queue'), queue'[i].op # "score"
      PROVE  i \in 1 .. Len(queue) /\ queue'[i] = queue[i]
  BY <1>1, <1>2, <1>4
<1>5. Typed' /\ OnGpuIfResident'
  BY <1>1, <1>2 DEF Typed, OnGpuIfResident
<1>6. CallsBegun'
  BY <1>1, <1>2 DEF CallsBegun
<1>7. Leaving'
  <2>1. ASSUME NEW i \in 1 .. Len(queue),
               queue[i].op \in {"offload", "shutdown"}, NoOnloadAfter(i)
        PROVE  i \in 1 .. Len(queue') /\ queue'[i] = queue[i] /\ NoOnloadAfter(i)'
    BY <2>1, <1>2
  <2> QED
    BY <2>1, <1>1, <1>3 DEF Leaving
<1>8. OffloadIsNew'
  BY <1>1, <1>4 DEF OffloadIsNew
<1>9. OffloadIsLast'
  <2>1. SUFFICES ASSUME current.op = "offload", NEW i \in 1 .. Len(queue'),
                        queue'[i] = current
                 PROVE  NoOnloadAfter(i)'
    BY <1>1 DEF OffloadIsLast
  <2>2. i \in 1 .. Len(queue) /\ NoOnloadAfter(i)
    BY <2>1, <1>4 DEF OffloadIsLast
  <2> QED
    BY <2>2, <1>2
<1>10. OffloadAnswered' /\ ScoresNeedOffload' /\ ScoredHasLeft'
  BY <1>1, <1>3 DEF OffloadAnswered, ScoresNeedOffload, ScoredHasLeft
<1> QED
  BY <1>5, <1>6, <1>7, <1>8, <1>9, <1>10

-----------------------------------------------------------------------------
(***************************************************************************)
(* The steps of the worker that asks for rewards.                          *)
(***************************************************************************)
\* The first chunk, the next one, or one more attempt, goes to be fingerprinted.
LEMMA PostChunkPreserves ==
  ASSUME IInv, Onloaded \/ Retry \/ NextChunk
  PROVE  IInv'
<1> USE DEF IInv
<1>1. PICK start, n \in Nat :
        /\ Post(Score(start, n)) /\ current.op \in {"onload", "score"}
        /\ UNCHANGED <<calls, outcome, lifecycle, onGpu>>
  <2>1. current.attempt \in Nat /\ current.start \in Nat
    BY DEF Typed, Requests
  <2>2. ChunkRows \in Nat
    BY RewardAssumption
  <2>3. current.attempt + 1 \in Nat /\ current.start + ChunkRows \in Nat
    BY <2>1, <2>2
  <2> QED
    BY <2>1, <2>3 DEF Onloaded, Retry, NextChunk, Answered, serverVars
<1>2. /\ current' = [op |-> "score", call |-> calls, start |-> start, attempt |-> n]
      /\ fingerprinting' = fingerprinting \cup {current'} /\ queue' = queue
  BY <1>1 DEF Post, Score
<1>3. current' \in Requests /\ current'.op = "score" /\ current'.call = calls
  BY <1>2 DEF Typed, Requests
<1>4. Typed' /\ OnGpuIfResident'
  BY <1>1, <1>2, <1>3 DEF Typed, OnGpuIfResident
<1>5. CallsBegun'
  BY <1>1, <1>2, <1>3 DEF CallsBegun, Typed
<1>6. OffloadIsNew'
  BY <1>1, <1>2 DEF OffloadIsNew
<1>7. /\ Leaving' /\ OffloadIsLast' /\ OffloadAnswered'
      /\ ScoresNeedOffload' /\ ScoredHasLeft'
  BY <1>3 DEF Leaving, OffloadIsLast, OffloadAnswered, ScoresNeedOffload, ScoredHasLeft
<1> QED
  BY <1>4, <1>5, <1>6, <1>7

\* The requests that join the queue at once: the invariant's parts about the queue
\* that hold whatever joins.
LEMMA PostJoins ==
  ASSUME IInv, NEW r \in Requests, Post(r), r.op # "score", r.call <= calls',
         calls' \in Nat, calls <= calls', UNCHANGED <<lifecycle, onGpu>>
  PROVE  Typed' /\ OnGpuIfResident' /\ CallsBegun' /\ current' = r /\ answer' = "none"
<1> USE DEF IInv
<1>1. /\ current' = r /\ answer' = "none" /\ fingerprinting' = fingerprinting
      /\ queue' = Append(queue, r)
  BY DEF Post
<1>2. /\ queue' \in Seq(Requests) /\ Len(queue') = Len(queue) + 1 /\ Len(queue) \in Nat
      /\ \A i \in 1 .. Len(queue) : queue'[i] = queue[i]
      /\ queue'[Len(queue) + 1] = r
  BY <1>1, Joined DEF Typed
<1>3. Typed' /\ OnGpuIfResident'
  BY <1>1, <1>2 DEF Typed, OnGpuIfResident
<1>4. CallsBegun'
  <2>1. ASSUME NEW q \in fingerprinting
        PROVE  q.call <= calls'
    <3>1. q.call \in Nat /\ calls \in Nat /\ q.call <= calls
      BY DEF Typed, Requests, CallsBegun
    <3> QED
      BY <3>1
  <2>2. ASSUME NEW i \in 1 .. Len(queue')
        PROVE  queue'[i].call <= calls'
    <3>1. CASE i \in 1 .. Len(queue)
      <4>1. queue[i] \in Requests /\ calls \in Nat /\ queue[i].call <= calls
        BY <3>1 DEF Typed, CallsBegun
      <4>2. queue[i].call \in Nat
        BY <4>1 DEF Requests
      <4> QED
        BY <4>1, <4>2, <3>1, <1>2
    <3>2. CASE i = Len(queue) + 1
      BY <3>2, <1>2
    <3> QED
      BY <3>1, <3>2, <1>2
  <2> QED
    BY <1>1, <2>1, <2>2 DEF CallsBegun
<1> QED
  BY <1>1, <1>3, <1>4

\* A call begins: no offload that waits is this call's.
LEMMA BeginPreserves ==
  ASSUME IInv, Begin
  PROVE  IInv'
<1> USE DEF IInv
<1> DEFINE r == [op |-> "onload", call |-> calls + 1, start |-> 0, attempt |-> 0]
<1>1. /\ r \in Requests /\ r.op = "onload" /\ r.call = calls + 1
      /\ Post(r) /\ calls' = calls + 1 /\ calls \in Nat /\ UNCHANGED <<lifecycle, onGpu>>
  BY DEF Begin, Typed, Requests
<1>2. queue' = Append(queue, r)
  BY <1>1 DEF Post
<1> HIDE DEF r
<1>3. /\ Len(queue') = Len(queue) + 1 /\ Len(queue) \in Nat
      /\ \A i \in 1 .. Len(queue) : queue'[i] = queue[i]
      /\ queue'[Len(queue) + 1] = r
  BY <1>1, <1>2, Joined DEF Typed
<1>4. Typed' /\ OnGpuIfResident' /\ CallsBegun' /\ current' = r /\ answer' = "none"
  BY <1>1, PostJoins
<1>5. OffloadIsNew'
  <2>1. ASSUME NEW i \in 1 .. Len(queue'), queue'[i].op = "offload", queue'[i].call = calls'
        PROVE  FALSE
    <3>1. i \in 1 .. Len(queue) /\ queue'[i] = queue[i]
      BY <2>1, <1>1, <1>3
    <3>2. queue[i] \in Requests /\ queue[i].call <= calls
      BY <3>1 DEF Typed, CallsBegun
    <3>3. queue[i].call \in Nat
      BY <3>2 DEF Requests
    <3> QED
      BY <2>1, <3>1, <3>2, <3>3, <1>1
  <2> QED
    BY <2>1 DEF OffloadIsNew
<1>6. /\ Leaving' /\ OffloadIsLast' /\ OffloadAnswered'
      /\ ScoresNeedOffload' /\ ScoredHasLeft'
  BY <1>1, <1>4 DEF Leaving, OffloadIsLast, OffloadAnswered, ScoresNeedOffload, ScoredHasLeft
<1> QED
  BY <1>4, <1>5, <1>6

\* A call posts its offload, in whatever way its batch or its onload ended; or the
\* worker, idle, the shutdown: it is the last in the queue.
LEMMA LeavePreserves ==
  ASSUME IInv, NEW op \in {"offload", "shutdown"}, Post(Lifecycle(op)),
         calls' = calls, UNCHANGED <<lifecycle, onGpu>>,
         op = "offload" => current.op \in {"onload", "score"},
         op = "offload" /\ outcome' = "scored" => tolerant' = FALSE
  PROVE  IInv'
<1> USE DEF IInv
<1> DEFINE r == Lifecycle(op)
<1>1. r \in Requests /\ r.op = op /\ r.call = calls /\ calls \in Nat
  BY DEF Lifecycle, Requests, Typed
<1>2. queue' = Append(queue, r)
  BY DEF Post, Lifecycle
<1> HIDE DEF r
<1>3. /\ Len(queue') = Len(queue) + 1 /\ Len(queue) \in Nat
      /\ \A i \in 1 .. Len(queue) : queue'[i] = queue[i]
      /\ queue'[Len(queue) + 1] = r
      /\ \A i \in Nat : i > Len(queue) => NoOnloadAfter(i)'
  BY <1>1, <1>2, Joined DEF Typed
<1>4. Typed' /\ OnGpuIfResident' /\ CallsBegun' /\ current' = r /\ answer' = "none"
  <2>1. r.op # "score" /\ r.call <= calls' /\ calls <= calls' /\ calls' \in Nat
    BY <1>1
  <2> QED
    BY <1>1, <2>1, PostJoins DEF r
<1>5. Leaving'
  <2> DEFINE last == Len(queue) + 1
  <2>1. /\ last \in 1 .. Len(queue') /\ last \in Nat /\ last > Len(queue)
        /\ queue'[last].op \in {"offload", "shutdown"}
    BY <1>1, <1>3
  <2>2. ASSUME NEW i \in Nat, i = last
        PROVE  NoOnloadAfter(i)'
    BY <2>1, <2>2, <1>3
  <2>3. \E i \in 1 .. Len(queue') :
          queue'[i].op \in {"offload", "shutdown"} /\ NoOnloadAfter(i)'
    BY <2>1, <2>2
  <2> QED
    BY <2>3 DEF Leaving
<1>6. OffloadIsLast'
  <2>1. SUFFICES ASSUME op = "offload", NEW i \in 1 .. Len(queue'), queue'[i] = r
                 PROVE  NoOnloadAfter(i)'
    BY <1>1, <1>4 DEF OffloadIsLast
  <2>2. CASE i = Len(queue) + 1
    BY <2>2, <1>3
  <2>3. CASE i \in 1 .. Len(queue)
    BY <2>1, <2>3, <1>1, <1>3 DEF OffloadIsNew
  <2> QED
    BY <2>2, <2>3, <1>3
<1>7. OffloadIsNew' /\ OffloadAnswered' /\ ScoresNeedOffload' /\ ScoredHasLeft'
  BY <1>1, <1>4 DEF OffloadIsNew, OffloadAnswered, ScoresNeedOffload, ScoredHasLeft
<1> QED
  BY <1>4, <1>5, <1>6, <1>7

\* A call that ends: only an offload that was done lets it keep its scores.
LEMMA ReturnPreserves ==
  ASSUME IInv, Return
  PROVE  IInv'
<1> USE DEF IInv
<1>1. /\ current.op = "offload" /\ current' = Nothing
      /\ outcome' = IF answer = "ok" \/ tolerant THEN outcome ELSE "raised"
      /\ UNCHANGED <<calls, fingerprinting, queue, lifecycle, onGpu>>
  BY DEF Return, serverVars
<1>2. current'.op = "none" /\ current' \in Requests
  BY <1>1 DEF Nothing, Requests
<1>3. Typed' /\ OnGpuIfResident' /\ CallsBegun'
  BY <1>1, <1>2 DEF Typed, OnGpuIfResident, CallsBegun
<1>4. Leaving'
  BY <1>1 DEF Leaving, Left, NoOnloadAfter
<1>5. ScoredHasLeft'
  <2>1. SUFFICES ASSUME outcome' = "scored"
                 PROVE  Gone'
    BY DEF ScoredHasLeft
  <2>2. outcome = "scored" /\ answer = "ok"
    BY <2>1, <1>1 DEF ScoresNeedOffload
  <2> QED
    BY <2>2, <1>1 DEF OffloadAnswered, Gone, NoOnloadAfter
<1>6. OffloadIsNew' /\ OffloadIsLast' /\ OffloadAnswered' /\ ScoresNeedOffload'
  BY <1>2 DEF OffloadIsNew, OffloadIsLast, OffloadAnswered, ScoresNeedOffload
<1> QED
  BY <1>3, <1>4, <1>5, <1>6

\* Nothing survives the child.
LEMMA StopChildPreserves ==
  ASSUME IInv, StopChild
  PROVE  IInv'
<1>1. /\ current' = Nothing /\ fingerprinting' = {} /\ queue' = <<>>
      /\ onGpu' = FALSE /\ lifecycle' = "stopping" /\ calls' = calls
  BY DEF StopChild
<1>2. current'.op = "none" /\ current' \in Requests
  BY <1>1 DEF Nothing, Requests
<1>3. Left' /\ Gone'
  BY <1>1 DEF Left, Gone, NoOnloadAfter
<1> QED
  BY <1>1, <1>2, <1>3 DEF IInv, Typed, ServerState, OnGpuIfResident, CallsBegun, Leaving,
     OffloadIsNew, OffloadIsLast, OffloadAnswered, ScoresNeedOffload, ScoredHasLeft

-----------------------------------------------------------------------------
\* The invariant holds at first, and every step keeps it.
LEMMA InitIInv == Init => IInv
BY DEF Init, IInv, Typed, Requests, ServerState, Nothing, OnGpuIfResident, CallsBegun,
   Leaving, Left, NoOnloadAfter, OffloadIsNew, OffloadIsLast, OffloadAnswered,
   ScoresNeedOffload, ScoredHasLeft

LEMMA NextIInv == IInv /\ [Next]_vars => IInv'
<1> SUFFICES ASSUME IInv, [Next]_vars
             PROVE  IInv'
  OBVIOUS
<1>1. CASE Begin
  BY <1>1, BeginPreserves
<1>2. CASE Onloaded \/ Retry \/ NextChunk
  BY <1>2, PostChunkPreserves
<1>3. CASE OnloadFails \/ Scored \/ ScoreFails
  <2>1. /\ Post(Lifecycle("offload")) /\ current.op \in {"onload", "score"}
        /\ UNCHANGED <<calls, lifecycle, onGpu>>
        /\ outcome' = "scored" => tolerant' = FALSE
    BY <1>3 DEF OnloadFails, CleanUpOnload, Scored, Answered, ScoreFails,
       Offload, serverVars
  <2> QED
    BY <2>1, LeavePreserves
<1>4. CASE Return
  BY <1>4, ReturnPreserves
<1>5. CASE Dispose
  <2>1. Post(Lifecycle("shutdown")) /\ UNCHANGED <<calls, lifecycle, onGpu>>
    BY <1>5 DEF Dispose, serverVars
  <2> QED
    BY <2>1, LeavePreserves
<1>6. CASE StopChild
  BY <1>6, StopChildPreserves
<1>7. CASE Server
  BY <1>7, ServerPreserves, FingerprintedPreserves DEF Server
<1>8. CASE UNCHANGED vars
  <2> USE <1>8 DEF vars, clientVars
  <2>1. Left' = Left /\ Gone' = Gone
    BY DEF Left, Gone, NoOnloadAfter
  <2>2. Typed' /\ OnGpuIfResident' /\ CallsBegun'
    BY DEF IInv, Typed, OnGpuIfResident, CallsBegun
  <2>3. Leaving' /\ OffloadIsNew' /\ OffloadIsLast'
    BY <2>1 DEF IInv, Leaving, OffloadIsNew, OffloadIsLast, NoOnloadAfter
  <2>4. OffloadAnswered' /\ ScoresNeedOffload' /\ ScoredHasLeft'
    BY <2>1 DEF IInv, OffloadAnswered, ScoresNeedOffload, ScoredHasLeft
  <2> QED
    BY <2>2, <2>3, <2>4 DEF IInv
<1> QED
  BY <1>1, <1>2, <1>3, <1>4, <1>5, <1>6, <1>7, <1>8 DEF Next

LEMMA AlwaysIInv == Spec => []IInv
BY InitIInv, NextIInv, PTL DEF Spec

\* The scorer leaves the GPU to the trainer (managed_process.py, compute_rewards):
\* after a call that returned its scores it is off it at once, whatever requests
\* were given up and are served late, with any number of chunks, of attempts and of
\* failures; after another call as soon as the server has nothing left to do, unless
\* moving it failed.
THEOREM ScorerLeavesTheGpu == Spec => []OffTheGpu
<1>1. IInv => OffTheGpu
  <2>1. SUFFICES ASSUME IInv, Idle
                 PROVE  /\ outcome = "scored" => ~onGpu
                        /\ queue = <<>> /\ lifecycle # "error" => ~onGpu
    BY DEF OffTheGpu
  <2>2. current.op = "none"
    BY <2>1 DEF Idle, Nothing
  <2>3. lifecycle \notin {"resident", "error"} => ~onGpu
    BY <2>1 DEF IInv, OnGpuIfResident
  <2>4. outcome = "scored" => lifecycle \notin {"resident", "error"}
    BY <2>1, <2>2 DEF IInv, ScoredHasLeft, Gone
  <2>5. queue = <<>> => lifecycle # "resident"
    BY <2>1, <2>2 DEF IInv, Leaving, Left
  <2> QED
    BY <2>3, <2>4, <2>5
<1> QED
  BY <1>1, AlwaysIInv, PTL
-----------------------------------------------------------------------------
(***************************************************************************)
(* The cache: what is scored for a call stays in it until the next one.    *)
(***************************************************************************)
\* How many of the places come before one.
Rank(places, p) == Cardinality({q \in places : q < p})

\* The ranks of a finite set of numbers are the numbers below its size, each
\* the rank of one element, and in the elements' order.
LEMMA Ranked ==
  ASSUME NEW places, places \subseteq Int, IsFiniteSet(places)
  PROVE  /\ Cardinality(places) \in Nat
         /\ \A p \in places : Rank(places, p) \in 0 .. Cardinality(places) - 1
         /\ \A p, q \in places : p < q <=> Rank(places, p) < Rank(places, q)
         /\ \A p, q \in places : Rank(places, p) = Rank(places, q) => p = q
         /\ \A r \in 0 .. Cardinality(places) - 1 : \E p \in places : Rank(places, p) = r
<1> DEFINE n == Cardinality(places)
<1>1. Cardinality(places) \in Nat
  BY FS_CardinalityType
<1>2. ASSUME NEW p \in places
      PROVE  /\ IsFiniteSet({q \in places : q < p})
             /\ Rank(places, p) \in 0 .. Cardinality(places) - 1
  <2> DEFINE below == {q \in places : q < p}
  <2>1. below \subseteq places /\ p \in places /\ p \notin below
    OBVIOUS
  <2>2. IsFiniteSet(below) /\ Cardinality(below) <= Cardinality(places)
    BY <2>1, FS_Subset
  <2>3. Cardinality(below) = Cardinality(places) => below = places
    BY <2>1, FS_Subset
  <2>4. Cardinality(below) \in Nat
    BY <2>2, FS_CardinalityType
  <2>5. Cardinality(below) # Cardinality(places)
    BY <2>1, <2>3
  <2> QED
    BY <2>2, <2>4, <2>5, <1>1 DEF Rank
<1>3. ASSUME NEW p \in places, NEW q \in places, p < q
      PROVE  Rank(places, p) < Rank(places, q)
  <2> DEFINE lower == {r \in places : r < p}
             upper == {r \in places : r < q}
  <2>1. p \in Int /\ q \in Int /\ \A r \in places : r \in Int
    OBVIOUS
  <2>2. ASSUME NEW r \in places, r < p
        PROVE  r < q
    BY <1>3, <2>1, <2>2
  <2>3. ~ (p < p)
    BY <2>1
  <2>4. lower \subseteq upper /\ p \in upper /\ p \notin lower
    BY <1>3, <2>2, <2>3
  <2>5. IsFiniteSet(upper) /\ IsFiniteSet(lower)
    BY <1>2
  <2>6. /\ Cardinality(lower) <= Cardinality(upper)
        /\ Cardinality(lower) = Cardinality(upper) => lower = upper
    BY <2>4, <2>5, FS_Subset
  <2>7. Cardinality(lower) # Cardinality(upper)
    BY <2>4, <2>6
  <2>8. Cardinality(lower) \in Nat /\ Cardinality(upper) \in Nat
    BY <2>5, FS_CardinalityType
  <2> QED
    BY <2>6, <2>7, <2>8 DEF Rank
<1>4. ASSUME NEW p \in places, NEW q \in places, Rank(places, p) = Rank(places, q)
      PROVE  p = q
  <2>1. p \in Int /\ q \in Int /\ Rank(places, p) \in Int /\ Rank(places, q) \in Int
    <3>1. p \in Int /\ q \in Int
      OBVIOUS
    <3>2. Rank(places, p) \in 0 .. Cardinality(places) - 1
      BY <1>2
    <3>3. Rank(places, q) \in 0 .. Cardinality(places) - 1
      BY <1>2
    <3> QED
      BY <3>1, <3>2, <3>3, <1>1
  <2> QED
    BY <2>1, <1>3, <1>4
<1>5. ASSUME NEW p \in places, NEW q \in places, Rank(places, p) < Rank(places, q)
      PROVE  p < q
  <2>1. p \in Int /\ q \in Int
    OBVIOUS
  <2>2. Rank(places, p) \in Int /\ Rank(places, q) \in Int
    <3>1. Rank(places, p) \in 0 .. n - 1 /\ Rank(places, q) \in 0 .. n - 1
      BY <1>2
    <3> QED
      BY <3>1, <1>1
  <2>3. p # q
    BY <1>5, <2>2
  <2>4. ~(q < p)
    BY <1>3, <1>5, <2>2
  <2> QED
    BY <2>1, <2>3, <2>4
<1>6. ASSUME NEW r \in 0 .. n - 1
      PROVE  \E p \in places : Rank(places, p) = r
  <2> DEFINE f == [p \in places |-> Rank(places, p)]
  <2>1. f \in Injection(places, 0 .. n - 1)
    BY <1>2, <1>4, Fun_IsInj
  <2>2. IsFiniteSet(0 .. n - 1) /\ Cardinality(0 .. n - 1) = n
    <3>1. 0 \in Int /\ n - 1 \in Int
      BY <1>1
    <3>2. IsFiniteSet(0 .. n - 1) /\ Cardinality(0 .. n - 1) = IF 0 > n - 1 THEN 0 ELSE n - 1 - 0 + 1
      BY <3>1, FS_Interval
    <3> QED
      BY <3>2, <1>1
  <2>3. f \in Surjection(places, 0 .. n - 1)
    BY <2>1, <2>2, FS_Injection
  <2> QED
    BY <2>3 DEF Surjection
<1> QED
  BY <1>1, <1>2, <1>3, <1>4, <1>5, <1>6

\* A list takes f's values, from T, at the places in their order, and each once.
Lists(s, T, f, places) ==
  /\ Cardinality(places) \in Nat
  /\ s \in Seq(T) /\ Len(s) = Cardinality(places)
  /\ \E at \in [1 .. Cardinality(places) -> places] :
       /\ \A i \in 1 .. Cardinality(places) : s[i] = f[at[i]]
       /\ \A i, j \in 1 .. Cardinality(places) : i < j => at[i] < at[j]
       /\ \A p \in places : \E i \in 1 .. Cardinality(places) : at[i] = p

\* The list built in the ranks' order is such a list.
LEMMA Listed ==
  ASSUME NEW T, NEW f, NEW places, places \subseteq Int, IsFiniteSet(places),
         \A p \in places : f[p] \in T
  PROVE  Lists(InOrder(f, places), T, f, places)
<1> DEFINE n == Cardinality(places)
           At(i) == CHOOSE p \in places : Rank(places, p) = i - 1
           at == [i \in 1 .. n |-> At(i)]
<1>1. n \in Nat
  BY Ranked
<1>2. InOrder(f, places) = [i \in 1 .. n |-> f[At(i)]]
  BY DEF InOrder, Rank
<1>3. ASSUME NEW i \in 1 .. n
      PROVE  At(i) \in places /\ Rank(places, At(i)) = i - 1
  <2>1. i - 1 \in 0 .. n - 1
    BY <1>1
  <2>2. \E p \in places : Rank(places, p) = i - 1
    BY <2>1, Ranked
  <2> QED
    BY <2>2
<1>4. ASSUME NEW i \in 1 .. n, NEW j \in 1 .. n, i < j
      PROVE  At(i) < At(j)
  <2>1. Rank(places, At(i)) < Rank(places, At(j))
    BY <1>1, <1>3, <1>4
  <2>2. At(i) \in places /\ At(j) \in places
    BY <1>3
  <2> HIDE DEF At
  <2> QED
    BY <2>1, <2>2, Ranked
<1>5. ASSUME NEW p \in places
      PROVE  \E i \in 1 .. n : At(i) = p
  <2>1. Rank(places, p) \in 0 .. n - 1
    BY Ranked
  <2>2. Rank(places, p) + 1 \in 1 .. n /\ (Rank(places, p) + 1) - 1 = Rank(places, p)
    BY <2>1, <1>1
  <2>3. PICK i \in 1 .. n : i - 1 = Rank(places, p)
    BY <2>2
  <2>4. At(i) \in places /\ Rank(places, At(i)) = Rank(places, p)
    BY <2>3, <1>3
  <2> HIDE DEF At
  <2>5. At(i) = p
    BY <2>4, Ranked
  <2> QED
    BY <2>5
<1> HIDE DEF At, n
<1>6. at \in [1 .. n -> places] /\ \A i \in 1 .. n : at[i] = At(i)
  BY <1>3
<1>7. /\ InOrder(f, places) \in Seq(T) /\ Len(InOrder(f, places)) = n
      /\ \A i \in 1 .. n : InOrder(f, places)[i] = f[at[i]]
  <2>1. \A i \in 1 .. n : f[At(i)] \in T
    BY <1>3
  <2>2. InOrder(f, places) \in [1 .. n -> T]
    BY <1>2, <2>1
  <2> QED
    BY <1>1, <1>2, <1>6, <2>2
<1>8. /\ \A i, j \in 1 .. n : i < j => at[i] < at[j]
      /\ \A p \in places : \E i \in 1 .. n : at[i] = p
  BY <1>4, <1>5, <1>6
<1> HIDE DEF at
<1> QED
  BY <1>1, <1>6, <1>7, <1>8 DEF n, Lists
\* What the cache remembers: rows of calls, each once.
Cells == Nat \X Rows
Distinct(s) == \A k, m \in 1 .. Len(s) : k < m => s[k] # s[m]

\* A call's row is at place k of the cache, and behind it are only the call's rows.
YoungAt(s, call, i, k) ==
  s[k] = <<call, i>> /\ \A m \in 1 .. Len(s) : k <= m => s[m][1] = call
Young(s, call, i) == \E k \in 1 .. Len(s) : YoungAt(s, call, i, k)

\* The rows scored for the current call, of which no other scoring has had a right
\* to drop any, are young.
CacheInv ==
  /\ cache \in Seq(Cells) /\ Distinct(cache) /\ cacheSize \in Nat
  /\ own \subseteq Rows /\ rescored = FALSE
  /\ \A i \in own : Young(cache, calls, i)

\* Three lists joined: the length of the whole, and where their elements are in it.
LEMMA Joined3 ==
  ASSUME NEW T, NEW s \in Seq(T), NEW t \in Seq(T), NEW u \in Seq(T),
         NEW all, all = s \o t \o u
  PROVE  /\ all \in Seq(T) /\ Len(all) = Len(s) + Len(t) + Len(u)
         /\ \A k \in 1 .. Len(s) : all[k] = s[k]
         /\ \A k \in 1 .. Len(t) : all[Len(s) + k] = t[k]
         /\ \A k \in 1 .. Len(u) : all[Len(s) + Len(t) + k] = u[k]
OBVIOUS

\* The list that a chunk leaves before any row is dropped: the others, the rows
\* found and the rows added.
LEMMA Kept ==
  ASSUME cache \in Seq(Cells), Distinct(cache), NEW call \in Nat,
         NEW hits \in SUBSET Rows, NEW new \in SUBSET Rows, hits \cap new = {},
         \A i \in new : \A k \in 1 .. Len(cache) : cache[k] # <<call, i>>
  PROVE  LET row == [i \in Rows |-> <<call, i>>]
             others == {k \in DOMAIN cache : \A i \in hits : cache[k] # row[i]}
             kept == InOrder(cache, others) \o InOrder(row, hits) \o InOrder(row, new)
             added == Cardinality(hits) + Cardinality(new)
         IN  /\ kept \in Seq(Cells) /\ Distinct(kept)
             /\ added \in Nat /\ added <= Len(kept)
             /\ \A i \in hits \cup new :
                  \E k \in 1 .. Len(kept) : Len(kept) - added < k /\ YoungAt(kept, call, i, k)
             /\ \A i \in Rows : Young(cache, call, i) => Young(kept, call, i)
<1> DEFINE row == [i \in Rows |-> <<call, i>>]
           others == {k \in DOMAIN cache : \A i \in hits : cache[k] # row[i]}
           s == InOrder(cache, others)
           t == InOrder(row, hits)
           u == InOrder(row, new)
           kept == s \o t \o u
           added == Cardinality(hits) + Cardinality(new)
           a == Cardinality(others)
           b == Cardinality(hits)
           c == Cardinality(new)
<1>1. /\ Len(cache) \in Nat /\ DOMAIN cache = 1 .. Len(cache)
      /\ \A k \in 1 .. Len(cache) : cache[k] \in Cells
  OBVIOUS
<1>2. IsFiniteSet(Rows) /\ Rows \subseteq Int
  <2>1. CallRows \in Nat
    BY RewardAssumption
  <2> QED
    BY <2>1, FS_Interval DEF Rows
<1>3. /\ IsFiniteSet(hits) /\ IsFiniteSet(new) /\ IsFiniteSet(others)
      /\ hits \subseteq Int /\ new \subseteq Int /\ others \subseteq Int
  <2>1. IsFiniteSet(1 .. Len(cache)) /\ others \in SUBSET (1 .. Len(cache))
    BY <1>1, FS_Interval
  <2> HIDE DEF others
  <2>2. IsFiniteSet(others) /\ others \subseteq Int
    <3>1. IsFiniteSet(others)
      BY <2>1, FS_Subset
    <3>2. 1 .. Len(cache) \subseteq Int
      BY <1>1
    <3> QED
      BY <2>1, <3>1, <3>2
  <2>3. IsFiniteSet(hits) /\ IsFiniteSet(new)
    BY <1>2, FS_Subset
  <2> QED
    BY <1>2, <2>2, <2>3
<1>10. /\ \A k \in others : k \in 1 .. Len(cache) /\ \A i \in hits : cache[k] # <<call, i>>
       /\ \A k \in 1 .. Len(cache) : k \notin others => \E i \in hits : cache[k] = <<call, i>>
       /\ \A i \in Rows : row[i] = <<call, i>> /\ row[i] \in Cells
  BY <1>1 DEF Cells
<1> HIDE DEF row, others
<1>4. /\ \A k \in others : cache[k] \in Cells
      /\ \A i \in hits : row[i] \in Cells
      /\ \A i \in new : row[i] \in Cells
  BY <1>1, <1>10
<1>5. Lists(s, Cells, cache, others)
  BY <1>3, <1>4, Listed, Zenon
<1>6. Lists(t, Cells, row, hits)
  BY <1>3, <1>4, Listed, Zenon
<1>7. Lists(u, Cells, row, new)
  BY <1>3, <1>4, Listed, Zenon
<1> HIDE DEF s, t, u
<1>12. /\ a \in Nat /\ s \in Seq(Cells) /\ Len(s) = a
       /\ b \in Nat /\ t \in Seq(Cells) /\ Len(t) = b
       /\ c \in Nat /\ u \in Seq(Cells) /\ Len(u) = c
  BY <1>5, <1>6, <1>7, Zenon DEF Lists
<1>8. PICK old \in [1 .. a -> others] :
        /\ \A i \in 1 .. a : s[i] = cache[old[i]]
        /\ \A i, j \in 1 .. a : i < j => old[i] < old[j]
        /\ \A p \in others : \E i \in 1 .. a : old[i] = p
  BY <1>5, Zenon DEF Lists
<1>9. PICK found \in [1 .. b -> hits] :
        /\ \A i \in 1 .. b : t[i] = row[found[i]]
        /\ \A i, j \in 1 .. b : i < j => found[i] < found[j]
        /\ \A p \in hits : \E i \in 1 .. b : found[i] = p
  BY <1>6, Zenon DEF Lists
<1>11. PICK fresh \in [1 .. c -> new] :
        /\ \A i \in 1 .. c : u[i] = row[fresh[i]]
        /\ \A i, j \in 1 .. c : i < j => fresh[i] < fresh[j]
        /\ \A p \in new : \E i \in 1 .. c : fresh[i] = p
  BY <1>7, Zenon DEF Lists
<1> HIDE DEF a, b, c
<1>13. /\ \A i \in 1 .. b : t[i] = <<call, found[i]>>
       /\ \A i \in 1 .. c : u[i] = <<call, fresh[i]>>
  BY <1>9, <1>10, <1>11
<1>14. /\ kept \in Seq(Cells) /\ Len(kept) = a + b + c
       /\ \A k \in 1 .. a : kept[k] = cache[old[k]]
       /\ \A k \in 1 .. b : kept[a + k] = <<call, found[k]>>
       /\ \A k \in 1 .. c : kept[a + b + k] = <<call, fresh[k]>>
  <2>1. s \in Seq(Cells) /\ t \in Seq(Cells) /\ u \in Seq(Cells) /\ kept = s \o t \o u
    BY <1>12
  <2> HIDE DEF kept
  <2>2. /\ kept \in Seq(Cells) /\ Len(kept) = Len(s) + Len(t) + Len(u)
        /\ \A k \in 1 .. Len(s) : kept[k] = s[k]
        /\ \A k \in 1 .. Len(t) : kept[Len(s) + k] = t[k]
        /\ \A k \in 1 .. Len(u) : kept[Len(s) + Len(t) + k] = u[k]
    BY <2>1, Joined3
  <2>3. /\ kept \in Seq(Cells) /\ Len(kept) = a + b + c
        /\ \A k \in 1 .. a : kept[k] = s[k]
        /\ \A k \in 1 .. b : kept[a + k] = t[k]
        /\ \A k \in 1 .. c : kept[a + b + k] = u[k]
    BY <2>2, <1>12
  <2> QED
    BY <2>3, <1>8, <1>13
<1> HIDE DEF kept
<1>15. ASSUME NEW k \in 1 .. Len(kept)
       PROVE  \/ k \in 1 .. a /\ kept[k] = cache[old[k]]
              \/ k - a \in 1 .. b /\ kept[k] = <<call, found[k - a]>>
              \/ k - a - b \in 1 .. c /\ kept[k] = <<call, fresh[k - a - b]>>
  <2>1. CASE k <= a
    BY <2>1, <1>12, <1>14
  <2>2. CASE a < k /\ k <= a + b
    <3>1. k - a \in 1 .. b /\ a + (k - a) = k
      BY <2>2, <1>12, <1>14
    <3> QED
      BY <3>1, <1>14
  <2>3. CASE a + b < k
    <3>1. k - a - b \in 1 .. c /\ a + b + (k - a - b) = k
      BY <2>3, <1>12, <1>14
    <3> QED
      BY <3>1, <1>14
  <2> QED
    BY <2>1, <2>2, <2>3, <1>12, <1>14
<1>16. ASSUME NEW k \in 1 .. Len(kept), a < k
       PROVE  kept[k][1] = call
  <2>1. k \notin 1 .. a
    BY <1>16, <1>12
  <2> QED
    BY <2>1, <1>15
<1>17. Distinct(kept)
  <2>1. SUFFICES ASSUME NEW k \in 1 .. Len(kept), NEW m \in 1 .. Len(kept), k < m,
                        kept[k] = kept[m]
                 PROVE  FALSE
    BY DEF Distinct
  <2>2. k \in Int /\ m \in Int /\ a \in Nat /\ b \in Nat /\ c \in Nat
    BY <1>12, <1>14
  <2>3. CASE m \in 1 .. a /\ kept[m] = cache[old[m]]
    <3>1. k \in 1 .. a /\ old[k] < old[m]
      BY <2>1, <2>2, <2>3, <1>8
    <3>2. old[k] \in 1 .. Len(cache) /\ old[m] \in 1 .. Len(cache)
      BY <2>3, <3>1, <1>8, <1>10
    <3>3. kept[k] = cache[old[k]]
      BY <3>1, <1>14
    <3> QED
      BY <2>1, <2>3, <3>1, <3>2, <3>3 DEF Distinct
  <2>4. CASE m - a \in 1 .. b /\ kept[m] = <<call, found[m - a]>>
    <3>1. found[m - a] \in hits /\ found[m - a] \in Int
      BY <2>4, <1>3, <1>9
    <3>2. CASE k \in 1 .. a /\ kept[k] = cache[old[k]]
      BY <2>1, <2>4, <3>1, <3>2, <1>8, <1>10
    <3>3. CASE k - a \in 1 .. b /\ kept[k] = <<call, found[k - a]>>
      <4>1. k - a < m - a
        BY <2>1, <2>2
      <4>2. found[k - a] < found[m - a] /\ found[k - a] \in Int
        BY <2>4, <3>3, <4>1, <1>3, <1>9
      <4> QED
        BY <2>1, <2>4, <3>1, <3>3, <4>2
    <3>4. CASE k - a - b \in 1 .. c
      BY <2>1, <2>2, <2>4, <3>4
    <3> QED
      BY <3>2, <3>3, <3>4, <1>15
  <2>5. CASE m - a - b \in 1 .. c /\ kept[m] = <<call, fresh[m - a - b]>>
    <3>1. fresh[m - a - b] \in new /\ fresh[m - a - b] \in Int
      BY <2>5, <1>3, <1>11
    <3>2. CASE k \in 1 .. a /\ kept[k] = cache[old[k]]
      <4>1. old[k] \in 1 .. Len(cache)
        BY <3>2, <1>8, <1>10
      <4> QED
        BY <2>1, <2>5, <3>1, <3>2, <4>1
    <3>3. CASE k - a \in 1 .. b /\ kept[k] = <<call, found[k - a]>>
      <4>1. found[k - a] \in hits
        BY <3>3, <1>9
      <4>2. found[k - a] = fresh[m - a - b]
        BY <2>1, <2>5, <3>3
      <4> QED
        BY <3>1, <4>1, <4>2
    <3>4. CASE k - a - b \in 1 .. c /\ kept[k] = <<call, fresh[k - a - b]>>
      <4>1. k - a - b < m - a - b
        BY <2>1, <2>2
      <4>2. fresh[k - a - b] < fresh[m - a - b] /\ fresh[k - a - b] \in Int
        BY <2>5, <3>4, <4>1, <1>3, <1>11
      <4> QED
        BY <2>1, <2>5, <3>1, <3>4, <4>2
    <3> QED
      BY <3>2, <3>3, <3>4, <1>15
  <2> QED
    BY <2>3, <2>4, <2>5, <1>15
<1>18. ASSUME NEW i \in hits \cup new
       PROVE  \E k \in 1 .. Len(kept) : a < k /\ YoungAt(kept, call, i, k)
  <2>1. \E k \in 1 .. Len(kept) : a < k /\ kept[k] = <<call, i>>
    <3>1. CASE i \in hits
      <4>1. PICK j \in 1 .. b : found[j] = i
        BY <3>1, <1>9
      <4>2. a + j \in 1 .. Len(kept) /\ a < a + j /\ kept[a + j] = <<call, i>>
        BY <4>1, <1>12, <1>14
      <4> QED
        BY <4>2
    <3>2. CASE i \in new
      <4>1. PICK j \in 1 .. c : fresh[j] = i
        BY <3>2, <1>11
      <4>2. a + b + j \in 1 .. Len(kept) /\ a < a + b + j /\ kept[a + b + j] = <<call, i>>
        BY <4>1, <1>12, <1>14
      <4> QED
        BY <4>2
    <3> QED
      BY <3>1, <3>2
  <2>2. PICK k \in 1 .. Len(kept) : a < k /\ kept[k] = <<call, i>>
    BY <2>1
  <2>3. ASSUME NEW m \in 1 .. Len(kept), k <= m
        PROVE  a < m
    BY <2>2, <2>3, <1>12, <1>14
  <2> QED
    BY <2>2, <2>3, <1>16 DEF YoungAt
<1>19. ASSUME NEW i \in Rows, Young(cache, call, i)
       PROVE  Young(kept, call, i)
  <2>1. PICK place \in 1 .. Len(cache) : YoungAt(cache, call, i, place)
    BY <1>19 DEF Young
  <2>2. CASE place \in others
    <3>1. PICK j \in 1 .. a : old[j] = place
      BY <2>2, <1>8
    <3>2. j \in 1 .. Len(kept) /\ kept[j] = <<call, i>>
      BY <2>1, <3>1, <1>12, <1>14 DEF YoungAt
    <3>3. ASSUME NEW m \in 1 .. Len(kept), j <= m
          PROVE  kept[m][1] = call
      <4>1. CASE a < m
        BY <4>1, <1>16
      <4>2. CASE ~(a < m)
        <5>1. m \in 1 .. a /\ kept[m] = cache[old[m]]
          BY <4>2, <1>12, <1>14
        <5>2. old[m] \in 1 .. Len(cache) /\ old[j] \in 1 .. Len(cache) /\ (j < m => old[j] < old[m])
          BY <3>1, <5>1, <1>8, <1>10
        <5>3. old[j] <= old[m]
          BY <3>3, <5>1, <5>2, <1>1
        <5> QED
          BY <2>1, <3>1, <5>1, <5>2, <5>3 DEF YoungAt
      <4> QED
        BY <4>1, <4>2
    <3> QED
      BY <3>2, <3>3 DEF Young, YoungAt
  <2>3. CASE place \notin others
    <3>1. PICK j \in hits : cache[place] = <<call, j>>
      BY <2>3, <1>10
    <3>2. i \in hits
      BY <2>1, <3>1 DEF YoungAt
    <3> QED
      BY <3>2, <1>18 DEF Young
  <2> QED
    BY <2>2, <2>3
<1>20. added \in Nat /\ added <= Len(kept) /\ Len(kept) - added = a
  BY <1>12, <1>14 DEF b, c
<1> QED
  BY <1>14, <1>17, <1>18, <1>19, <1>20 DEF kept, s, t, u, others, row

\* Behind a young row and with it there are no more rows than the call has.
LEMMA YoungCount ==
  ASSUME NEW s \in Seq(Cells), Distinct(s), NEW call, NEW i, NEW k \in 1 .. Len(s),
         YoungAt(s, call, i, k)
  PROVE  Len(s) - k < CallRows
<1> DEFINE places == k .. Len(s)
           f == [m \in places |-> s[m][2]]
<1>1. /\ Len(s) \in Nat /\ k \in Int /\ 1 <= k /\ k <= Len(s)
      /\ \A m \in places : m \in 1 .. Len(s) /\ m \in Int
  OBVIOUS
<1>2. \A m \in places : s[m][2] \in Rows /\ s[m] = <<call, s[m][2]>>
  <2>1. SUFFICES ASSUME NEW m \in places
                 PROVE  s[m][2] \in Rows /\ s[m] = <<call, s[m][2]>>
    OBVIOUS
  <2>2. s[m] \in Cells /\ s[m][1] = call
    BY <1>1 DEF YoungAt
  <2> QED
    BY <2>2 DEF Cells
<1>3. \A m, l \in places : s[m][2] = s[l][2] => m = l
  <2>1. SUFFICES ASSUME NEW m \in places, NEW l \in places, s[m] = s[l]
                 PROVE  m = l
    BY <1>2
  <2>2. ~(m < l) /\ ~(l < m)
    BY <1>1, <2>1 DEF Distinct
  <2> QED
    BY <1>1, <2>2
<1>4. IsFiniteSet(Rows) /\ Cardinality(Rows) = CallRows /\ CallRows \in Nat
  <2>1. CallRows \in Nat
    BY RewardAssumption
  <2> QED
    BY <2>1, FS_Interval DEF Rows
<1>5. Cardinality(places) = Len(s) - k + 1
  BY <1>1, FS_Interval
<1>6. f \in Injection(places, Rows)
  <2> HIDE DEF places
  <2> QED
    BY <1>2, <1>3, Fun_IsInj
<1>7. Cardinality(places) <= Cardinality(Rows)
  <2> HIDE DEF f, places
  <2> QED
    BY <1>4, <1>6, FS_Injection
<1> QED
  BY <1>1, <1>4, <1>5, <1>7

\* The rows dropped are the oldest: those that follow keep their order.
LEMMA LastKeeps ==
  ASSUME NEW s \in Seq(Cells), Distinct(s), NEW over \in Nat, over <= Len(s),
         NEW last, last = SubSeq(s, over + 1, Len(s))
  PROVE  /\ last \in Seq(Cells) /\ Distinct(last)
         /\ \A call, i : \A k \in 1 .. Len(s) :
              over < k /\ YoungAt(s, call, i, k) => Young(last, call, i)
<1>1. /\ last \in Seq(Cells) /\ Len(last) = Len(s) - over /\ Len(s) \in Nat
      /\ \A k \in 1 .. Len(s) - over : last[k] = s[over + k]
  <2>1. /\ last \in Seq(Cells) /\ Len(last) = Len(s) - over
        /\ \A k \in 1 .. Len(last) : last[k] = s[(over + 1) + k - 1]
    BY SubSeqProperties
  <2>2. ASSUME NEW k \in 1 .. Len(s) - over PROVE last[k] = s[over + k]
    <3>1. k \in 1 .. Len(last) /\ (over + 1) + k - 1 = over + k
      BY <2>1
    <3> QED
      BY <3>1, <2>1
  <2> QED
    BY <2>1, <2>2
<1>2. Distinct(last)
  <2>1. SUFFICES ASSUME NEW k \in 1 .. Len(last), NEW m \in 1 .. Len(last), k < m
                 PROVE  last[k] # last[m]
    BY DEF Distinct
  <2>2. /\ over + k \in 1 .. Len(s) /\ over + m \in 1 .. Len(s) /\ over + k < over + m
        /\ last[k] = s[over + k] /\ last[m] = s[over + m]
    BY <1>1, <2>1
  <2> QED
    BY <2>2 DEF Distinct
<1>3. ASSUME NEW call, NEW i, NEW k \in 1 .. Len(s), over < k, YoungAt(s, call, i, k)
      PROVE  Young(last, call, i)
  <2>1. k - over \in 1 .. Len(last) /\ last[k - over] = s[k]
    <3>1. k - over \in 1 .. Len(s) - over /\ over + (k - over) = k
      BY <1>1, <1>3
    <3> QED
      BY <1>1, <3>1
  <2>2. ASSUME NEW m \in 1 .. Len(last), k - over <= m
        PROVE  last[m][1] = call
    <3>1. over + m \in 1 .. Len(s) /\ k <= over + m /\ last[m] = s[over + m]
      BY <1>1, <2>2
    <3> QED
      BY <1>3, <3>1 DEF YoungAt
  <2> QED
    BY <1>3, <2>1, <2>2 DEF Young, YoungAt
<1> QED
  BY <1>1, <1>2, <1>3

\* What a chunk found in the cache and what it added are young afterwards: of a
\* chunk that adds rows all are among the youngest, and the limit is at least its
\* size; one that adds none drops none.  In a cache that can hold a call, its
\* young rows are never dropped.
LEMMA RememberKeeps ==
  ASSUME cache \in Seq(Cells), Distinct(cache), cacheSize \in Nat,
         NEW request, request.call \in Nat, NEW hits, hits = Cached(request),
         NEW new, new = {} \/ new = Chunk(request) \ hits,
         NEW after, after = Remember(request, hits, new)
  PROVE  /\ after \in Seq(Cells) /\ Distinct(after)
         /\ \A i \in hits \cup new : Young(after, request.call, i)
         /\ new = {} \/ CallRows <= cacheSize =>
              \A i \in Rows : Young(cache, request.call, i) => Young(after, request.call, i)
<1> DEFINE call == request.call
           row == [i \in Rows |-> <<call, i>>]
           others == {k \in DOMAIN cache : \A i \in hits : cache[k] # row[i]}
           kept == InOrder(cache, others) \o InOrder(row, hits) \o InOrder(row, new)
           added == Cardinality(hits) + Cardinality(new)
           over == Len(kept) - CacheLimit(Cardinality(Chunk(request)))
<1>1. /\ Chunk(request) \in SUBSET Rows /\ hits \in SUBSET Chunk(request)
      /\ hits \in SUBSET Rows /\ new \in SUBSET Rows /\ hits \cap new = {}
  BY DEF Chunk, Cached
<1>2. \A i \in new : \A k \in 1 .. Len(cache) : cache[k] # <<call, i>>
  <2>1. DOMAIN cache = 1 .. Len(cache)
    OBVIOUS
  <2> QED
    BY <2>1 DEF Cached
<1>3. after = IF over > 0 /\ new # {} THEN SubSeq(kept, over + 1, Len(kept)) ELSE kept
  BY DEF Remember
<1>4. /\ kept \in Seq(Cells) /\ Distinct(kept)
      /\ added \in Nat /\ added <= Len(kept)
      /\ \A i \in hits \cup new :
           \E k \in 1 .. Len(kept) : Len(kept) - added < k /\ YoungAt(kept, call, i, k)
      /\ \A i \in Rows : Young(cache, call, i) => Young(kept, call, i)
  BY <1>1, <1>2, Kept, Zenon
<1>5. new # {} => added = Cardinality(Chunk(request))
  <2>1. IsFiniteSet(Rows) /\ IsFiniteSet(Chunk(request)) /\ IsFiniteSet(hits)
    <3>1. CallRows \in Nat
      BY RewardAssumption
    <3>2. IsFiniteSet(Rows)
      BY <3>1, FS_Interval DEF Rows
    <3>3. IsFiniteSet(Chunk(request))
      BY <1>1, <3>2, FS_Subset
    <3> QED
      BY <1>1, <3>2, <3>3, FS_Subset
  <2>2. SUFFICES ASSUME new = Chunk(request) \ hits
                 PROVE  added = Cardinality(Chunk(request))
    OBVIOUS
  <2>3. Cardinality(new) = Cardinality(Chunk(request)) - Cardinality(hits)
    <3>1. Cardinality(new) = Cardinality(Chunk(request)) - Cardinality(Chunk(request) \cap hits)
      BY <2>1, <2>2, FS_Difference
    <3>2. Chunk(request) \cap hits = hits
      BY <1>1
    <3> QED
      BY <3>1, <3>2
  <2>4. Cardinality(hits) \in Nat /\ Cardinality(Chunk(request)) \in Nat
    BY <2>1, FS_CardinalityType
  <2> QED
    BY <2>3, <2>4
<1>6. /\ CacheLimit(Cardinality(Chunk(request))) \in Nat /\ Cardinality(Chunk(request)) \in Nat
      /\ CacheLimit(Cardinality(Chunk(request))) >= Cardinality(Chunk(request))
      /\ CacheLimit(Cardinality(Chunk(request))) >= cacheSize
  <2>1. Cardinality(Chunk(request)) \in Nat
    <3>1. CallRows \in Nat
      BY RewardAssumption
    <3>2. IsFiniteSet(Rows)
      BY <3>1, FS_Interval DEF Rows
    <3>3. IsFiniteSet(Chunk(request))
      BY <1>1, <3>2, FS_Subset
    <3> QED
      BY <3>3, FS_CardinalityType
  <2> QED
    BY <2>1 DEF CacheLimit
<1> HIDE DEF kept, added, row, others
<1>7. CASE ~(over > 0 /\ new # {})
  <2>1. after = kept
    BY <1>3, <1>7
  <2> QED
    BY <2>1, <1>1, <1>4 DEF Young
<1>8. CASE over > 0 /\ new # {}
  <2>1. after = SubSeq(kept, over + 1, Len(kept))
    BY <1>3, <1>8
  <2>2. /\ Len(kept) \in Nat /\ over \in Nat /\ over <= Len(kept)
        /\ over <= Len(kept) - added /\ over <= Len(kept) - cacheSize
    BY <1>4, <1>5, <1>6, <1>8
  <2> HIDE DEF over
  <2>3. /\ after \in Seq(Cells) /\ Distinct(after)
        /\ \A i : \A k \in 1 .. Len(kept) :
             over < k /\ YoungAt(kept, call, i, k) => Young(after, call, i)
    BY <2>1, <2>2, <1>4, LastKeeps
  <2>4. ASSUME NEW i \in hits \cup new
        PROVE  Young(after, call, i)
    <3>1. PICK k \in 1 .. Len(kept) : Len(kept) - added < k /\ YoungAt(kept, call, i, k)
      BY <1>4
    <3>2. over < k
      BY <3>1, <2>2, <1>4
    <3> QED
      BY <3>1, <3>2, <2>3
  <2>5. ASSUME NEW i \in Rows, Young(cache, call, i), CallRows <= cacheSize
        PROVE  Young(after, call, i)
    <3>1. PICK k \in 1 .. Len(kept) : YoungAt(kept, call, i, k)
      BY <2>5, <1>4 DEF Young
    <3>2. Len(kept) - k < CallRows /\ CallRows \in Nat
      BY <3>1, <1>4, YoungCount, RewardAssumption
    <3>3. over < k
      BY <3>2, <2>2, <2>5
    <3> QED
      BY <3>1, <3>3, <2>3
  <2> QED
    BY <2>3, <2>4, <2>5, <1>8
<1> QED
  BY <1>7, <1>8

\* A chunk served keeps it: the rows scored before are found in the cache.
LEMMA ServeChunkKeepsCache == CacheInv /\ Typed /\ ServeChunk => CacheInv'
<1> SUFFICES ASSUME CacheInv, Typed, ServeChunk
             PROVE  CacheInv'
  OBVIOUS
<1> DEFINE request == Head(queue)
           hits == Cached(request)
           live == OfCurrentCall(request)
<1>1. calls' = calls
  BY DEF ServeChunk, Serve, serverVars
<1>2. request \in Requests /\ request.call \in Nat
  <2>1. queue # <<>> /\ queue \in Seq(Requests)
    BY DEF ServeChunk, Typed
  <2>2. request \in Requests
    BY <2>1
  <2> QED
    BY <2>2 DEF Requests
<1>3. /\ cache \in Seq(Cells) /\ Distinct(cache) /\ cacheSize \in Nat
      /\ own \subseteq Rows /\ rescored = FALSE
      /\ \A i \in own : Young(cache, calls, i)
  BY DEF CacheInv
<1>4. live => request.call = calls
  BY DEF OfCurrentCall
<1>5. /\ Chunk(request) \subseteq Rows
      /\ hits \subseteq Chunk(request)
      /\ live => own \cap (Chunk(request) \ hits) = {}
  <2>1. DOMAIN cache = 1 .. Len(cache)
    BY <1>3
  <2>2. ASSUME live, NEW i \in own, i \in Chunk(request)
        PROVE  i \in hits
    <3>1. PICK k \in 1 .. Len(cache) : cache[k] = <<request.call, i>>
      BY <2>2, <1>3, <1>4 DEF Young, YoungAt
    <3> QED
      BY <2>1, <2>2, <3>1 DEF Cached
  <2>3. Chunk(request) \subseteq Rows /\ hits \subseteq Chunk(request)
    BY DEF Chunk, Cached
  <2> QED
    BY <2>2, <2>3
<1>6. CASE UNCHANGED serverVars
  BY <1>1, <1>6 DEF CacheInv, serverVars
<1>7. ASSUME NEW new, new = {} \/ new = Chunk(request) \ hits,
             cache' = Remember(request, hits, new), own' = Scoring(request, new),
             rescored' = FALSE, cacheSize' = cacheSize
      PROVE  CacheInv'
  <2>1. /\ cache' \in Seq(Cells) /\ Distinct(cache')
        /\ \A i \in hits \cup new : Young(cache', request.call, i)
        /\ new = {} \/ CallRows <= cacheSize =>
             \A i \in Rows : Young(cache, request.call, i) => Young(cache', request.call, i)
    BY <1>2, <1>3, <1>7, RememberKeeps
  <2>2. own' \subseteq Rows
    BY <1>3, <1>5, <1>7 DEF Scoring
  <2>3. ASSUME NEW i \in own'
        PROVE  Young(cache', calls, i)
    <3>1. live
      BY <1>7 DEF Scoring
    <3>2. CASE new = {} \/ (CallRows <= cacheSize /\ i \in own)
      <4>1. i \in own
        BY <1>7, <3>1, <3>2 DEF Scoring
      <4>2. new = {} \/ CallRows <= cacheSize
        BY <3>2
      <4>3. i \in Rows /\ Young(cache, request.call, i)
        BY <1>3, <1>4, <3>1, <4>1
      <4> HIDE DEF request
      <4> QED
        BY <2>1, <4>2, <4>3, <1>4, <3>1
    <3>3. CASE new # {} /\ i \in Chunk(request)
      <4>1. i \in hits \cup new
        BY <1>7, <3>3
      <4> HIDE DEF request, hits
      <4> QED
        BY <2>1, <4>1, <1>4, <3>1
    <3> QED
      BY <1>7, <3>1, <3>2, <3>3 DEF Scoring
  <2> QED
    BY <2>1, <2>2, <2>3, <1>1, <1>3, <1>7 DEF CacheInv
<1>8. CASE /\ cache' = Remember(request, hits, Chunk(request) \ hits)
           /\ own' = Scoring(request, Chunk(request) \ hits)
           /\ rescored' = (rescored \/ (live /\ own \cap (Chunk(request) \ hits) # {}))
           /\ cacheSize' = cacheSize
  <2>1. rescored' = FALSE
    BY <1>3, <1>5, <1>8
  <2> HIDE DEF request, hits
  <2> QED
    BY <2>1, <1>7, <1>8
<1>9. CASE /\ cache' = Remember(request, hits, {}) /\ own' = Scoring(request, {})
           /\ rescored' = rescored /\ cacheSize' = cacheSize
  <2>1. rescored' = FALSE
    BY <1>3, <1>9
  <2> HIDE DEF request, hits
  <2> QED
    BY <2>1, <1>7, <1>9
<1> QED
  BY <1>6, <1>8, <1>9 DEF ServeChunk

\* Every step keeps it; a new call has had no row scored yet.
LEMMA NextCacheInv == CacheInv /\ Typed /\ [Next]_vars => CacheInv'
<1> SUFFICES ASSUME CacheInv, Typed, [Next]_vars
             PROVE  CacheInv'
  OBVIOUS
<1>1. CASE ServeChunk
  BY <1>1, ServeChunkKeepsCache
<1>2. CASE Begin
  BY <1>2 DEF Begin, CacheInv
<1>3. CASE UNCHANGED <<calls, cache, cacheSize, own, rescored>>
  BY <1>3 DEF CacheInv
<1>4. CASE \/ Onloaded \/ OnloadFails \/ NextChunk \/ Scored \/ Retry \/ ScoreFails
           \/ Return \/ Dispose \/ StopChild
  <2>1. UNCHANGED <<calls, cache, cacheSize, own, rescored>>
    BY <1>4 DEF Onloaded, OnloadFails, CleanUpOnload, Offload, NextChunk, Scored, Retry,
       ScoreFails, Return, Dispose, StopChild, serverVars
  <2> QED
    BY <2>1, <1>3
<1>5. CASE Server /\ ~ServeChunk
  <2>1. UNCHANGED <<calls, cache, cacheSize, own, rescored>>
    BY <1>5 DEF Server, Fingerprinted, ServeOnload, ServeOffload, ServeShutdown, Serve,
       serverVars, clientVars
  <2> QED
    BY <2>1, <1>3
<1>6. CASE UNCHANGED vars
  BY <1>3, <1>6 DEF vars, clientVars
<1> QED
  BY <1>1, <1>2, <1>4, <1>5, <1>6 DEF Next

\* A lost answer is not paid for twice (remote.py, _post_score_requests, and
\* direct_server.py, score and _cache_put): with any number of attempts, of failures
\* and of rows, and any size of the chunks and of the cache, no row scored for the
\* current call is scored for it again, as long as no chunk of an earlier call has
\* been served since and, in a cache that cannot hold the call, no other chunk of it
\* has had rows scored since.
THEOREM RetriesFindTheirRows == Spec => []RetryNotRescored
<1>1. Init => CacheInv
  <2>1. Init => cacheSize \in Nat /\ cache \in Seq(Cells) /\ Distinct(cache)
    BY RewardAssumption DEF Init, Distinct
  <2> QED
    BY <2>1 DEF Init, CacheInv
<1>2. CacheInv => RetryNotRescored
  BY DEF CacheInv, RetryNotRescored
<1>3. IInv => Typed
  BY DEF IInv
<1> QED
  BY <1>1, <1>2, <1>3, NextCacheInv, AlwaysIInv, PTL DEF Spec
=============================================================================
