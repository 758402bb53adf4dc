--------------------------- MODULE RolloutManager ---------------------------
(***************************************************************************)
(* The rollout manager of src/unirl/rollout/manager/rollout.py with its    *)
(* buffers (buffers.py) and its lag filter (filters.py), on a pool that    *)
(* keeps the promises of TaskPool.  It implements RootStore.               *)
(*                                                                         *)
(* A prompt (a root) is submitted as GroupSize sibling tasks, each run     *)
(* over several turns.  The manager reassembles finished siblings into     *)
(* groups, hands whole groups to the driver, and around a weight           *)
(* publication takes back what is not finished, to be submitted again.  A  *)
(* root is retained or discarded as a whole.                               *)
(*                                                                         *)
(* The driver makes the calls the trainers make: between a quiesce and the *)
(* resubmission of what it returned it only finishes some of it, trains    *)
(* and publishes.  Single-turn engines, which return all siblings of a     *)
(* root in one result, are in AsyncTrainer.                                *)
(***************************************************************************)
EXTENDS Integers, Sequences, SequencesExt

CONSTANTS
  GroupSize,   \* siblings of a root
  MaxLag,      \* versions a kept rollout may lag behind
  Slots,       \* tasks the engines run at once
  MaxRoots,    \* bound of the model: roots ever submitted
  MaxVersion   \* bound of the model: weight versions

ASSUME ManagerAssumption ==
  /\ {GroupSize, Slots} \subseteq Nat \ {0}
  /\ {MaxLag, MaxRoots, MaxVersion} \subseteq Nat

Root == 0 .. MaxRoots - 1

VARIABLES
  \* the pool and the engines
  waiting, out, done,  \* tasks queued, running, and over
  paused, broken,      \* the pool admits no launch; a task has failed
  stopping,            \* the engines are told to suspend
  \* the manager
  pending,             \* finished siblings of unfinished roots, by root
  complete,            \* finished groups, oldest first
  publishedVersion,    \* also the version the engines run
  failure,             \* why it is unusable, or "none"
  \* the driver
  dpc,                 \* the call it is in, or "idle" / "closed"
  want,                \* the groups it asked for
  undispatched,        \* what pause returned to quiesce
  carried,             \* what quiesce returned
  trainVersion,
  nextRoot,
  \* history
  delivered, discarded  \* siblings handed over, and dropped by the filter

poolVars    == <<waiting, out, done, paused, broken, stopping>>
managerVars == <<pending, complete, publishedVersion, failure>>
driverVars  == <<dpc, want, undispatched, carried, trainVersion, nextRoot>>
vars == <<poolVars, managerVars, driverVars, delivered, discarded>>

NewTask(r, c) == [root |-> r, copy |-> c, versions |-> {}, status |-> "new"]
Elements(seq) == {seq[i] : i \in DOMAIN seq}
Ids(tasks) == {<<t.root, t.copy>> : t \in tasks}

Init ==
  /\ waiting = <<>> /\ out = {} /\ done = <<>>
  /\ paused = TRUE /\ broken = FALSE /\ stopping = FALSE
  /\ pending = [r \in Root |-> <<>>] /\ complete = <<>>
  /\ publishedVersion = 0 /\ failure = "none"
  /\ dpc = "idle" /\ want = 0 /\ undispatched = <<>> /\ carried = <<>>
  /\ trainVersion = 0 /\ nextRoot = 0
  /\ delivered = {} /\ discarded = {}

-----------------------------------------------------------------------------
(***************************************************************************)
(* Routing results and filtering.                                          *)
(***************************************************************************)

\* keep_within_lag, at version v.
WithinLag(t, v) == \A w \in t.versions : v - w <= MaxLag
KeepGroup(group, v) == \A t \in Elements(group) : WithinLag(t, v)

\* PendingGroups.add for one sibling: the last one completes its root.
Join(buffers, t) ==
  LET siblings == Append(buffers.pending[t.root], t)
  IN  IF Len(siblings) = GroupSize
      THEN [pending  |-> [buffers.pending EXCEPT ![t.root] = <<>>],
            complete |-> Append(buffers.complete, siblings)]
      ELSE [buffers EXCEPT !.pending[t.root] = siblings]

\* What there is of a set in a sequence, in its order.
Select(seq, S) ==
  LET some[i \in 0 .. Len(seq)] ==
        IF i = 0 THEN <<>>
        ELSE IF seq[i] \in S THEN Append(some[i - 1], seq[i])
        ELSE some[i - 1]
  IN  some[Len(seq)]

\* _route: the suspended results, and the buffers with the finished ones in them.
Suspended(results) == Select(results, {t \in Elements(results) : t.status = "suspended"})

Routed(results) ==
  LET buffers[i \in 0 .. Len(results)] ==
        IF i = 0 THEN [pending |-> pending, complete |-> complete]
        ELSE IF results[i].status = "terminal" THEN Join(buffers[i - 1], results[i])
        ELSE buffers[i - 1]
  IN  buffers[Len(results)]

\* _route and the filter raise: an engine has not stamped a result, or what the
\* manager rules out, a result suspended outside quiesce or of a future version.
Unstamped == \E t \in Elements(done) : t.status = "malformed"
Untimely  == \E t \in Elements(done) : t.status = "suspended"
Future(tasks, v) == \E t \in tasks : \E w \in t.versions : w > v
Samples(groups) == UNION {Elements(g) : g \in Elements(groups)}

\* _filter_complete.
Filtered(groups, v) == Select(groups, {g \in Elements(groups) : KeepGroup(g, v)})

\* Faulty variant: a root that is as old as the lag allows is dropped.
KeepYounger(r, known, tails, v) ==
  \A t \in Elements(known[r]) \cup {u \in Elements(tails) : u.root = r} :
    \A w \in t.versions : v - w < MaxLag

\* A root whose finished siblings are known and whose tails are left to run.
KeepRoot(r, known, tails, v) ==
  \A t \in Elements(known[r]) \cup {u \in Elements(tails) : u.root = r} :
    WithinLag(t, v)

\* Faulty variant: the finished siblings of a dropped root stay.
KeepPending(buffer, roots) == buffer

\* PendingGroups.discard.
Discard(buffer, roots) == [r \in Root |-> IF r \in roots THEN <<>> ELSE buffer[r]]

\* A tail goes behind the last one of its root.
InsertTail(tails, t) ==
  LET same == {i \in DOMAIN tails : tails[i].root = t.root}
      last == IF same = {} THEN Len(tails) ELSE Max(same)
  IN  SubSeq(tails, 1, last) \o <<t>> \o SubSeq(tails, last + 1, Len(tails))

\* The tails of the roots that stay, gathered by root.
GatherTails(tails, kept) ==
  LET gathered[i \in 0 .. Len(tails)] ==
        IF i = 0 THEN <<>>
        ELSE IF tails[i].root \in kept THEN InsertTail(gathered[i - 1], tails[i])
        ELSE gathered[i - 1]
  IN  gathered[Len(tails)]

RaisesAt(v) == Unstamped \/ Untimely \/ Future(Samples(Routed(done).complete), v)

\* Faulty variant: a failed manager looks sound.
Overlook(why) == UNCHANGED failure

\* _poison: what was taken from the pool may be lost, so nothing is reported
\* any more.
Poison(why) == failure' = why

\* The manager's calls fail after a failure of the manager or of the pool.
Usable == failure = "none" /\ ~broken
Live   == waiting # <<>> \/ out # {} \/ done # <<>>

Raise(why) ==
  /\ Poison(IF Unstamped THEN "engine" ELSE why)
  /\ done' = <<>>
  /\ dpc' = "idle"
  /\ UNCHANGED <<waiting, out, paused, broken, stopping, pending, complete,
                 publishedVersion, want, undispatched, carried, trainVersion,
                 nextRoot, delivered, discarded>>

-----------------------------------------------------------------------------
(***************************************************************************)
(* The driver's calls.                                                     *)
(***************************************************************************)

\* submit: a new prompt.
Submit ==
  /\ dpc = "idle" /\ Usable /\ carried = <<>> /\ nextRoot < MaxRoots
  /\ waiting' = waiting \o [c \in 1 .. GroupSize |-> NewTask(nextRoot, c)]
  /\ paused' = FALSE
  /\ nextRoot' = nextRoot + 1
  /\ UNCHANGED <<out, done, broken, stopping, managerVars, dpc, want, undispatched,
                 carried, trainVersion, delivered, discarded>>

\* submit: what quiesce returned.
Resubmit ==
  /\ dpc = "idle" /\ Usable /\ carried # <<>>
  /\ waiting' = waiting \o carried
  /\ carried' = <<>>
  /\ paused' = FALSE
  /\ UNCHANGED <<out, done, broken, stopping, managerVars, dpc, want, undispatched,
                 trainVersion, nextRoot, delivered, discarded>>

Collect(n) ==
  /\ dpc = "idle" /\ failure = "none" /\ carried = <<>>
  /\ dpc' = "collect" /\ want' = n
  /\ UNCHANGED <<poolVars, managerVars, undispatched, carried, trainVersion, nextRoot,
                 delivered, discarded>>

\* Faulty variant: an idle pool is waited for.
NeverStarved == FALSE

\* Nothing is left that could complete a group.
Starved == waiting = <<>> /\ out = {}

\* A turn of collect's loop: route, filter, then take, give up, or wait.
CollectTurn ==
  /\ dpc = "collect" /\ ~broken
  /\ IF RaisesAt(trainVersion) THEN Raise("check")
     ELSE LET buffers == Routed(done)
              kept    == Filtered(buffers.complete, trainVersion)
              dropped == Samples(buffers.complete) \ Samples(kept)
          IN  /\ pending' = buffers.pending
              /\ done' = <<>>
              /\ discarded' = discarded \cup Ids(dropped)
              /\ \/ /\ Len(kept) >= want
                    /\ delivered' = delivered \cup Ids(Samples(SubSeq(kept, 1, want)))
                    /\ complete' = SubSeq(kept, want + 1, Len(kept))
                    /\ dpc' = "idle" /\ UNCHANGED failure
                 \/ /\ Len(kept) < want
                    /\ complete' = kept /\ UNCHANGED delivered
                    /\ IF Starved THEN Poison("starved") /\ dpc' = "idle"
                       ELSE done # <<>> /\ UNCHANGED <<failure, dpc>>
              /\ UNCHANGED <<waiting, out, paused, broken, stopping,
                             publishedVersion, want, undispatched, carried,
                             trainVersion, nextRoot>>

\* quiesce, and close on a manager in order: pause, then tell the engines to stop.
PauseAndStop(call) ==
  /\ paused' = TRUE
  /\ undispatched' = waiting /\ waiting' = <<>>
  /\ stopping' = TRUE
  /\ dpc' = call
  /\ UNCHANGED <<out, done, broken, managerVars, want, carried, trainVersion,
                 nextRoot, delivered, discarded>>

Quiesce == dpc = "idle" /\ Usable /\ carried = <<>> /\ PauseAndStop("quiesce")

\* Faulty variant: the engines are not told that they may go on.
StayStopped == UNCHANGED stopping

EnginesGoOn == stopping' = FALSE

\* The pool is drained: route, filter the groups, and the tails by root.
Settle(v, next) ==
  LET buffers  == Routed(done)
      groups   == Filtered(buffers.complete, v)
      tails    == undispatched \o Suspended(done)
      roots    == {t.root : t \in Elements(tails)}
      kept     == {r \in roots : KeepRoot(r, buffers.pending, tails, v)}
      returned == GatherTails(tails, kept)
      dropped  == (UNION {Elements(buffers.pending[r]) : r \in roots \ kept})
                    \cup (Elements(tails) \ Elements(returned))
                    \cup (Samples(buffers.complete) \ Samples(groups))
  IN  /\ pending' = Discard(buffers.pending, roots \ kept)
      /\ complete' = groups
      /\ carried' = IF next = "closed" THEN <<>> ELSE returned
      /\ discarded' = discarded \cup Ids(dropped)
      /\ undispatched' = <<>> /\ done' = <<>>
      /\ dpc' = next
      /\ EnginesGoOn
      /\ UNCHANGED <<waiting, out, paused, broken, publishedVersion, failure, want,
                     trainVersion, nextRoot, delivered>>

SettleRaises(v) ==
  \/ Unstamped
  \/ Future(Samples(Routed(done).complete) \cup Elements(undispatched \o done), v)

QuiesceReturns ==
  /\ dpc = "quiesce" /\ ~broken /\ out = {}
  /\ IF SettleRaises(trainVersion) THEN Raise("check") ELSE Settle(trainVersion, "idle")

\* finish: run a prefix of the carry to the end, all of it if some has started.
Finish(k) ==
  /\ dpc = "idle" /\ Usable /\ ~Live
  /\ k = Len(carried) \/ \A t \in Elements(carried) : t.status = "new"
  /\ waiting' = SubSeq(carried, 1, k)
  /\ carried' = SubSeq(carried, k + 1, Len(carried))
  /\ paused' = FALSE
  /\ dpc' = "finish"
  /\ UNCHANGED <<out, done, broken, stopping, managerVars, want, undispatched,
                 trainVersion, nextRoot, delivered, discarded>>

FinishReturns ==
  /\ dpc = "finish" /\ ~broken /\ waiting = <<>> /\ out = {}
  /\ IF RaisesAt(trainVersion) THEN Raise("check")
     ELSE LET buffers == Routed(done)
              kept    == Filtered(buffers.complete, trainVersion)
              dropped == Samples(buffers.complete) \ Samples(kept)
          IN  /\ pending' = buffers.pending /\ complete' = kept
              /\ discarded' = discarded \cup Ids(dropped)
              /\ done' = <<>> /\ paused' = TRUE
              /\ dpc' = "idle"
              /\ UNCHANGED <<waiting, out, broken, stopping, publishedVersion,
                             failure, want, undispatched, carried, trainVersion,
                             nextRoot, delivered>>

\* A call in progress sees the pool's failure.
CallRaises ==
  /\ dpc \in {"collect", "quiesce", "finish"} /\ broken
  /\ Raise("engine")

OutputVersion == trainVersion

\* sync_weights: the trainers call it when nothing is queued or running.
SyncWeights ==
  /\ dpc = "idle" /\ Usable /\ waiting = <<>> /\ out = {}
  /\ IF Unstamped \/ Untimely THEN Raise("check")
     ELSE /\ pending' = Routed(done).pending
          /\ complete' = Routed(done).complete
          /\ done' = <<>>
          /\ publishedVersion' = OutputVersion
          /\ UNCHANGED <<waiting, out, paused, broken, stopping, failure, driverVars,
                         delivered, discarded>>

\* The transfer raises.
SyncRaises ==
  /\ dpc = "idle" /\ Usable /\ waiting = <<>> /\ out = {}
  /\ Raise("engine")

\* The driver trains, outside the manager.
Train ==
  /\ dpc = "idle" /\ trainVersion < MaxVersion
  /\ trainVersion' = trainVersion + 1
  /\ UNCHANGED <<poolVars, managerVars, dpc, want, undispatched, carried, nextRoot,
                 delivered, discarded>>

\* close, when there is nothing to quiesce or no sound manager to do it.
ClosePool ==
  /\ waiting' = <<>> /\ out' = {} /\ done' = <<>> /\ paused' = TRUE
  /\ dpc' = "closed"
  /\ UNCHANGED <<broken, stopping, pending, complete, publishedVersion, want,
                 undispatched, carried, trainVersion, nextRoot, delivered, discarded>>

Close ==
  /\ dpc = "idle"
  /\ IF Usable /\ Live THEN PauseAndStop("close")
     ELSE ClosePool /\ UNCHANGED failure

\* close quiesces at the published version; an error is logged only.
CloseReturns ==
  /\ dpc = "close"
  /\ IF broken THEN ClosePool /\ Poison("engine")
     ELSE /\ out = {}
          /\ IF SettleRaises(publishedVersion)
             THEN ClosePool /\ Poison(IF Unstamped THEN "engine" ELSE "check")
             ELSE Settle(publishedVersion, "closed")

-----------------------------------------------------------------------------
(***************************************************************************)
(* The pool and the engines.                                               *)
(***************************************************************************)
Start ==
  /\ ~paused /\ ~broken /\ waiting # <<>> /\ Cardinality(out) < Slots
  /\ out' = out \cup {Head(waiting)}
  /\ waiting' = Tail(waiting)
  /\ UNCHANGED <<done, paused, broken, stopping, managerVars, driverVars, delivered,
                 discarded>>

\* One turn of a trajectory, stamped with the engine's version.
Turn(t) ==
  /\ ~broken /\ publishedVersion \notin t.versions
  /\ out' = (out \ {t}) \cup {[t EXCEPT !.versions = @ \cup {publishedVersion}]}
  /\ UNCHANGED <<waiting, done, paused, broken, stopping, managerVars, driverVars,
                 delivered, discarded>>

\* A trajectory is over; between two turns it may be suspended instead.  A
\* malformed result is one the engine has not stamped; one at a time is enough.
Return(t) ==
  /\ ~broken
  /\ \E status \in {"terminal", "suspended", "malformed"} :
       /\ status = "suspended" => stopping
       /\ status = "malformed" => ~Unstamped
       /\ done' = Append(done, [t EXCEPT !.status = status])
  /\ out' = out \ {t}
  /\ UNCHANGED <<waiting, paused, broken, stopping, managerVars, driverVars, delivered,
                 discarded>>

EngineFails ==
  /\ ~broken /\ out # {}
  /\ broken' = TRUE /\ paused' = TRUE
  /\ UNCHANGED <<waiting, out, done, stopping, managerVars, driverVars, delivered,
                 discarded>>

Calls ==
  \/ Submit \/ Resubmit \/ Quiesce \/ SyncWeights \/ SyncRaises \/ Train \/ Close
  \/ \E n \in 1 .. MaxRoots : Collect(n)
  \/ \E k \in 1 .. Len(carried) : Finish(k)

Returns ==
  CollectTurn \/ QuiesceReturns \/ FinishReturns \/ CallRaises \/ CloseReturns

Engines == Start \/ \E t \in out : Return(t)

Next == Calls \/ Returns \/ Engines \/ (\E t \in out : Turn(t)) \/ EngineFails

Spec == Init /\ [][Next]_vars

\* A call goes on when it can, and every trajectory comes to an end.
FairSpec == Spec /\ WF_vars(Returns) /\ WF_vars(Engines)

-----------------------------------------------------------------------------
Buffered == UNION {Elements(pending[r]) : r \in Root}
Unfinished == UNION {Elements(waiting), out, Elements(done), Elements(undispatched),
                     Elements(carried)}
OfRoot(r, tasks) == {t \in tasks : t.root = r}

TypeOK ==
  LET Task == [root : Root, copy : 1 .. GroupSize, versions : SUBSET (0 .. MaxVersion),
               status : {"new", "terminal", "suspended", "malformed"}]
      Id   == Root \X (1 .. GroupSize)
  IN  /\ Unfinished \cup Buffered \cup Samples(complete) \subseteq Task
      /\ DOMAIN pending = Root
      /\ {paused, broken, stopping} \subseteq BOOLEAN
      /\ {publishedVersion, trainVersion} \subseteq 0 .. MaxVersion
      /\ publishedVersion <= trainVersion
      /\ failure \in {"none", "engine", "starved", "check"}
      /\ dpc \in {"idle", "collect", "quiesce", "finish", "close", "closed"}
      /\ {want, nextRoot} \subseteq 0 .. MaxRoots
      /\ delivered \cup discarded \subseteq Id

(***************************************************************************)
(* While the manager reports no failure, every sibling of every submitted  *)
(* root is in exactly one place: in the pool, in a buffer, in the driver's *)
(* hands, delivered, or dropped by the filter.  Results taken from the     *)
(* pool are lost only by a call that poisons the manager, so that one that *)
(* calls itself empty has delivered or dropped everything.                 *)
(***************************************************************************)
SiblingsAccounted ==
  failure = "none" /\ dpc # "closed" =>
    LET places == <<Ids(Elements(waiting)), Ids(out), Ids(Elements(done)),
                    Ids(Elements(undispatched)), Ids(Elements(carried)),
                    Ids(Buffered), Ids(Samples(complete)), delivered, discarded>>
    IN  /\ UNION Elements(places) = (0 .. nextRoot - 1) \X (1 .. GroupSize)
        /\ \A i, j \in DOMAIN places : i # j => places[i] \cap places[j] = {}

(***************************************************************************)
(* A root is retained or dropped as a whole: a finished sibling waits in   *)
(* pending only while the rest of its root is still to come, a group has   *)
(* each sibling once, and none is dropped without the others.  A root that *)
(* lost some of its tails would stay pending for ever, and the manager     *)
(* would never be empty again.                                             *)
(***************************************************************************)
RootsWhole ==
  failure = "none" /\ dpc # "closed" =>
    /\ \A r \in Root :
         /\ OfRoot(r, Unfinished \cup Buffered) # {} =>
              Cardinality(Ids(OfRoot(r, Unfinished \cup Buffered))) = GroupSize
         /\ pending[r] # <<>> => OfRoot(r, Unfinished) # {}
    /\ \A g \in Elements(complete) :
         Len(g) = GroupSize /\ \E r \in Root :
           Ids(Elements(g)) = {r} \X (1 .. GroupSize)

(***************************************************************************)
(* The manager's own checks never fire: no result comes back suspended     *)
(* outside quiesce, though engines suspend on their own time, and none is  *)
(* of a version newer than the one it is judged at, though close judges at *)
(* the published version and the other calls at the trainer's.             *)
(***************************************************************************)
ChecksHold == failure # "check"

(***************************************************************************)
(* RolloutManager implements RootStore: a root is with the manager while   *)
(* any sibling of it is anywhere, and has left it when all have; collect   *)
(* hands over as many roots as it was asked for; the filter drops exactly  *)
(* what is stale, wherever the siblings of a root lie when it looks, and   *)
(* although close judges by another version than the trainer's.            *)
(***************************************************************************)
Everything == Unfinished \cup Buffered \cup Samples(complete)
OpenRoots  == {t.root : t \in Everything}
Stale(t)   == \E w \in t.versions : trainVersion - w > MaxLag
StaleRoots == {t.root : t \in {u \in Everything : Stale(u)}}
Whole(ids) == {r \in Root : {r} \X (1 .. GroupSize) \subseteq ids}

Store == INSTANCE RootStore WITH
  open <- OpenRoots, stale <- StaleRoots,
  delivered <- Whole(delivered), discarded <- Whole(discarded),
  asked <- IF dpc = "collect" THEN want ELSE 0,
  failed <- failure # "none", closed <- dpc = "closed"

\* What the trainers rely on, whatever the pool and the engines do meanwhile.
ImplementsRootStore == Store!Spec

\* Every call returns or raises: a collect that nothing can complete gives up,
\* and what quiesce took back does not keep finish or drain waiting.
CallsReturn == []<>(dpc \in {"idle", "closed"})
=============================================================================
