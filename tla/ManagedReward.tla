--------------------------- MODULE ManagedReward ---------------------------
(***************************************************************************)
(* A scorer that is on the GPU only while it scores: the per_call mode of  *)
(* src/unirl/reward/managed_process.py and remote.py, and the server it    *)
(* starts, src/unirl-reward-service/reward_service/direct_server.py.       *)
(*                                                                         *)
(* A call posts onload, then its rows, one chunk after another, and then   *)
(* offload, and may give up on each request; the server does not notice.   *)
(* The server serves under a lock, in the order in which its handlers come *)
(* to it; a chunk is fingerprinted first, in a thread, and comes to the    *)
(* lock when it is done.                                                   *)
(***************************************************************************)
EXTENDS Integers, Sequences, FiniteSets

CONSTANTS
  CallRows,      \* rows of a call
  ChunkRows,     \* request_batch_size: rows of a request
  CacheSizes,    \* the sizes the server's cache may have
  MaxRetries,    \* attempts to post a chunk
  MaxCalls,      \* bound of the model: calls
  MaxFailures    \* bound of the model: times the scorer raises

ASSUME RewardAssumption ==
  /\ {CallRows, ChunkRows, MaxRetries} \cup CacheSizes \subseteq Nat \ {0}
  /\ {MaxCalls, MaxFailures} \subseteq Nat

VARIABLES
  \* the worker that asks for rewards
  calls,            \* calls begun
  current,          \* the request it waits for, or Nothing
  answer,           \* what the server has answered to it, or "none"
  tolerant,         \* a row has failed: a failing offload is only logged
  outcome,          \* of the last call: "scored", "failed", "raised", or "none"
  disposed,
  \* the server
  cacheSize,        \* rows it remembers, for chunks up to that size; never changes
  fingerprinting,   \* the chunks being fingerprinted
  queue,            \* the requests that wait for the lock, in order
  lifecycle,        \* lifecycle_state
  onGpu,            \* where the scorer really is
  cache,            \* the rows whose results are kept, the oldest first
  failures,
  own, rescored     \* history: see Scoring

clientVars == <<calls, current, answer, tolerant, outcome, disposed>>
vars == <<clientVars, cacheSize, fingerprinting, queue, lifecycle, onGpu, cache,
          failures, own, rescored>>

Nothing == [op |-> "none", call |-> 0, start |-> 0, attempt |-> 0]
Lifecycle(op) == [op |-> op, call |-> calls, start |-> 0, attempt |-> 0]
Idle == current = Nothing

\* A chunk is the rows that follow its start.
Score(start, attempt) ==
  [op |-> "score", call |-> calls, start |-> start, attempt |-> attempt]
Rows == 1 .. CallRows
Chunk(request) == {i \in Rows : request.start < i /\ i <= request.start + ChunkRows}
LastChunk == current.start + ChunkRows >= CallRows

\* The child has booted offloaded and the parent has seen it ready.
Init ==
  /\ calls = 0 /\ current = Nothing /\ answer = "none" /\ tolerant = FALSE
  /\ outcome = "none" /\ disposed = FALSE
  /\ fingerprinting = {} /\ queue = <<>> /\ lifecycle = "offloaded" /\ onGpu = FALSE
  /\ cacheSize \in CacheSizes /\ cache = <<>> /\ failures = 0 /\ own = {} /\ rescored = FALSE

-----------------------------------------------------------------------------
(***************************************************************************)
(* compute_rewards.                                                        *)
(***************************************************************************)
serverVars == <<cacheSize, lifecycle, onGpu, cache, failures, own, rescored>>

\* A request on its way; the answer to an earlier one is of no interest now.
Post(request) ==
  /\ current' = request /\ answer' = "none"
  /\ IF request.op = "score"
       THEN fingerprinting' = fingerprinting \cup {request} /\ UNCHANGED queue
       ELSE queue' = Append(queue, request) /\ UNCHANGED fingerprinting

Begin ==
  /\ Idle /\ ~disposed /\ calls < MaxCalls
  /\ calls' = calls + 1 /\ outcome' = "none" /\ tolerant' = FALSE /\ own' = {}
  /\ Post([op |-> "onload", call |-> calls + 1, start |-> 0, attempt |-> 0])
  /\ UNCHANGED <<disposed, cacheSize, lifecycle, onGpu, cache, failures, rescored>>

Onloaded ==
  /\ current.op = "onload" /\ answer = "ok" /\ Post(Score(0, 1))
  /\ UNCHANGED <<calls, tolerant, outcome, disposed, serverVars>>

Offload(tolerate, result) ==
  /\ tolerant' = tolerate /\ outcome' = result
  /\ Post(Lifecycle("offload"))
  /\ UNCHANGED <<calls, disposed, serverVars>>

\* Faulty variant: a scorer that was not loaded need not be offloaded.
GiveUpOnload ==
  /\ outcome' = "failed" /\ current' = Nothing /\ answer' = "none"
  /\ UNCHANGED <<calls, tolerant, disposed, fingerprinting, queue, serverVars>>

\* A failed onload, or one that takes too long, is cleaned up after.
CleanUpOnload == Offload(TRUE, "failed")

OnloadFails ==
  /\ current.op = "onload" /\ answer \in {"none", "refused"}
  /\ CleanUpOnload

\* The server has answered; it reports the scorer's failure row by row, and the
\* call goes on with its next chunk.
Answered == current.op = "score" /\ answer \in {"ok", "errors"}
RowFailed == tolerant \/ answer = "errors"

NextChunk ==
  /\ Answered /\ ~LastChunk
  /\ tolerant' = RowFailed /\ Post(Score(current.start + ChunkRows, 1))
  /\ UNCHANGED <<calls, outcome, disposed, serverVars>>

Scored ==
  /\ Answered /\ LastChunk
  /\ Offload(RowFailed, IF RowFailed THEN "failed" ELSE "scored")

\* A time-out is retried, up to MaxRetries attempts of a chunk; a refusal is not.
Retry ==
  /\ current.op = "score" /\ answer = "none" /\ current.attempt < MaxRetries
  /\ Post(Score(current.start, current.attempt + 1))
  /\ UNCHANGED <<calls, tolerant, outcome, disposed, serverVars>>

\* One chunk that fails fails the call.
ScoreFails ==
  /\ current.op = "score"
  /\ \/ answer = "refused"
     \/ answer = "none" /\ current.attempt = MaxRetries
  /\ Offload(TRUE, "failed")

\* The call returns, or raises if its rows are scored and the offload is not done.
Return ==
  /\ current.op = "offload"
  /\ outcome' = IF answer = "ok" \/ tolerant THEN outcome ELSE "raised"
  /\ current' = Nothing /\ answer' = "none"
  /\ UNCHANGED <<calls, tolerant, disposed, fingerprinting, queue, serverVars>>

Dispose ==
  /\ Idle /\ ~disposed /\ disposed' = TRUE
  /\ Post(Lifecycle("shutdown"))
  /\ UNCHANGED <<calls, tolerant, outcome, serverVars>>

\* _stop_child, after the answer or without it: nothing of the group survives.
StopChild ==
  /\ current.op = "shutdown"
  /\ current' = Nothing /\ answer' = "none" /\ fingerprinting' = {} /\ queue' = <<>>
  /\ onGpu' = FALSE /\ lifecycle' = "stopping"
  /\ UNCHANGED <<calls, tolerant, outcome, disposed, cacheSize, cache, failures, own, rescored>>

-----------------------------------------------------------------------------
(***************************************************************************)
(* The server: one request at a time, under the lock.                      *)
(***************************************************************************)
Fingerprinted(request) ==
  /\ request \in fingerprinting /\ fingerprinting' = fingerprinting \ {request}
  /\ queue' = Append(queue, request)
  /\ UNCHANGED <<clientVars, serverVars>>

Serve(op, reply) ==
  /\ queue # <<>> /\ Head(queue).op = op /\ queue' = Tail(queue)
  /\ answer' = IF Head(queue) = current THEN reply ELSE answer
  /\ UNCHANGED <<calls, current, tolerant, outcome, disposed, fingerprinting>>

Raises == failures < MaxFailures /\ failures' = failures + 1

\* Faulty variant: a chunk larger than the cache evicts its own rows.
CacheSizeAlone(rows) == cacheSize

CacheLimit(rows) == IF rows > cacheSize THEN rows ELSE cacheSize

\* f at the places, in their order.
InOrder(f, places) ==
  [i \in 1 .. Cardinality(places) |->
     f[CHOOSE p \in places : Cardinality({q \in places : q < p}) = i - 1]]

\* The chunk's rows found in the cache become its youngest, then the new ones.
Remember(request, hits, new) ==
  LET row == [i \in Rows |-> <<request.call, i>>]
      others == {k \in DOMAIN cache : \A i \in hits : cache[k] # row[i]}
      kept == InOrder(cache, others) \o InOrder(row, hits) \o InOrder(row, new)
      over == Len(kept) - CacheLimit(Cardinality(Chunk(request)))
  IN  IF over > 0 /\ new # {} THEN SubSeq(kept, over + 1, Len(kept)) ELSE kept

Cached(request) ==
  {i \in Chunk(request) : \E k \in DOMAIN cache : cache[k] = <<request.call, i>>}

OfCurrentCall(request) == request.call = calls /\ ~disposed

\* The rows scored for the current call that no other scoring has had a right to
\* drop: a chunk of an earlier call may drop them all, and in a cache that cannot
\* hold the call, another chunk of it may.
Scoring(request, new) ==
  IF ~OfCurrentCall(request) THEN {}
  ELSE IF new = {} THEN own
  ELSE Chunk(request) \cup (IF CallRows <= cacheSize THEN own ELSE {})

\* Only the rows the cache does not hold are scored, and only what was scored is
\* remembered.
ServeChunk ==
  /\ queue # <<>>
  /\ LET request == Head(queue)
         hits == Cached(request)
         new == Chunk(request) \ hits
     IN  \/ /\ lifecycle # "resident" /\ Serve("score", "refused")
            /\ UNCHANGED serverVars
         \/ /\ lifecycle = "resident" /\ Serve("score", "ok")
            /\ cache' = Remember(request, hits, new) /\ own' = Scoring(request, new)
            /\ rescored' = (rescored \/ (OfCurrentCall(request) /\ own \cap new # {}))
            /\ UNCHANGED <<cacheSize, lifecycle, onGpu, failures>>
         \/ /\ lifecycle = "resident" /\ new # {} /\ Serve("score", "errors") /\ Raises
            /\ cache' = Remember(request, hits, {}) /\ own' = Scoring(request, {})
            /\ UNCHANGED <<cacheSize, lifecycle, onGpu, rescored>>

\* onload, rolled back if it raises; the roll-back may raise as well.
ServeOnload ==
  /\ \/ /\ Serve("onload", "ok") /\ lifecycle # "stopping"
        /\ lifecycle' = "resident" /\ onGpu' = TRUE /\ UNCHANGED failures
     \/ /\ Serve("onload", "refused") /\ lifecycle \notin {"resident", "stopping"} /\ Raises
        /\ \/ lifecycle' = "offloaded" /\ onGpu' = FALSE
           \/ lifecycle' = "error" /\ onGpu' \in BOOLEAN
     \/ /\ Serve("onload", "refused") /\ lifecycle = "stopping"
        /\ UNCHANGED <<lifecycle, onGpu, failures>>
  /\ UNCHANGED <<cacheSize, cache, own, rescored>>

ServeOffload ==
  /\ \/ /\ Serve("offload", "ok") /\ lifecycle # "stopping"
        /\ lifecycle' = "offloaded" /\ onGpu' = FALSE /\ UNCHANGED failures
     \/ /\ Serve("offload", "refused") /\ lifecycle \notin {"offloaded", "stopping"} /\ Raises
        /\ lifecycle' = "error" /\ onGpu' \in {onGpu, FALSE}
     \/ /\ Serve("offload", "refused") /\ lifecycle = "stopping"
        /\ UNCHANGED <<lifecycle, onGpu, failures>>
  /\ UNCHANGED <<cacheSize, cache, own, rescored>>

ServeShutdown ==
  /\ Serve("shutdown", "ok") /\ lifecycle' = "stopping" /\ onGpu' = FALSE
  /\ UNCHANGED <<cacheSize, cache, failures, own, rescored>>

Server ==
  \/ \E request \in fingerprinting : Fingerprinted(request)
  \/ ServeChunk \/ ServeOnload \/ ServeOffload \/ ServeShutdown

Next ==
  \/ Begin \/ Onloaded \/ OnloadFails \/ NextChunk \/ Scored \/ Retry \/ ScoreFails \/ Return
  \/ Dispose \/ StopChild \/ Server

Spec == Init /\ [][Next]_vars

-----------------------------------------------------------------------------
\* The scorer leaves the GPU to the trainer.  After a call that returned its
\* scores it is off the GPU, whatever the requests given up before it still do in
\* the server, and whatever fails; after one that failed it is, as soon as the
\* server has served them all, unless moving it failed.
OffTheGpu ==
  Idle =>
    /\ outcome = "scored" => ~onGpu
    /\ queue = <<>> /\ lifecycle # "error" => ~onGpu

\* An attempt whose answer was lost is not paid for twice, however late which of
\* the attempts is served: a row scored for the current call is not scored for it
\* again, unless a chunk of an earlier call was served since, or, in a cache that
\* cannot hold the call, another chunk of the same call had rows scored.
RetryNotRescored == ~rescored
=============================================================================
