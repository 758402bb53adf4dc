---------------------------- MODULE TensorCalls ----------------------------
(***************************************************************************)
(* Calls on a group of workers, and the GPU tensors they pass: the Handle  *)
(* of src/unirl/distributed/group/handle.py over the worker-local tensor   *)
(* stores of src/unirl/distributed/tensor.                                 *)
(*                                                                         *)
(* A tensor stays in the store of its device; the driver holds handles to  *)
(* it, and the store counts them.  Before a call the tensors a rank needs  *)
(* are moved to its device.  Everything the driver asks of a worker goes   *)
(* through that worker's mailbox: the calls, the two ends of a move, and   *)
(* the increments and decrements nobody waits for.  The two slots of a     *)
(* device share its store (the gpu_store transport), so a decrement that   *)
(* goes through one slot is not ordered with a call on the other.          *)
(***************************************************************************)
EXTENDS Integers, SequencesExt

CONSTANTS
  Devices,      \* device ids; a role's ranks are its workers on the devices
  MaxCalls,     \* bound of the model: calls launched
  MaxCopies,    \* bound of the model: handles copied
  MaxFailures   \* bound of the model: ranks that raise

ASSUME CallsAssumption ==
  /\ Devices \subseteq Nat /\ IsFiniteSet(Devices)
  /\ MaxCalls \in Nat /\ MaxCopies \in Nat /\ MaxFailures \in Nat

VARIABLES
  poisoned,     \* DevicePool._poison_reason is set
  frame,        \* the launch under way, or Idle
  handles,      \* the bound handle objects alive in the driver
  calls,        \* the calls launched, in order
  mailbox,      \* per worker, what it has yet to do
  running,      \* per worker, the call it runs, or 0
  count,        \* per stored key, its reference count
  puts,         \* per device, the keys made so far
  copies, failures,
  missed        \* a worker looked for a tensor that was gone

storeVars == <<count, puts>>
vars == <<poisoned, frame, handles, calls, mailbox, running, storeVars, copies,
          failures, missed>>

Slot   == {0, 1}            \* a role lives on one slot of every device
Worker == Devices \X Slot
Program == 0                \* the owners of a handle: the program,
Launching == -1             \* the launch under way, or a call, by its number
None   == [key |-> <<>>]    \* a rank that is passed no tensor
Idle   == [slot |-> 0, shards |-> <<>>, groups |-> {}, waiting |-> FALSE]

\* A handle object: the stored tensor, the worker its finalizer talks to, which
\* copy it is, and its owners: who refers to it.
NewHandle(key, worker, owner) ==
  [key |-> key, worker |-> worker, copy |-> 0, owners |-> {owner}]
Device(key) == key[1]
Own(hs, objects, owner) ==
  {IF h \in objects THEN [h EXCEPT !.owners = @ \cup {owner}] ELSE h : h \in hs}
Disown(hs, owner) == {[h EXCEPT !.owners = @ \ {owner}] : h \in hs}
Held == {h \in handles : Program \in h.owners}
Same(h, g) == h.key = g.key /\ h.copy = g.copy

Post(boxes, w, ops) == [boxes EXCEPT ![w] = @ \o ops]

\* The finalizer of an object nobody refers to any more: a decref, not awaited.
Collect(hs, boxes) ==
  LET gone(w) == {h \in hs : h.owners = {} /\ h.worker = w}
      decrefs(w) == SetToSeq({[op |-> "decref", key |-> h.key, copy |-> h.copy] : h \in gone(w)})
  IN  /\ handles' = {h \in hs : h.owners # {}}
      /\ mailbox' = [w \in Worker |-> boxes[w] \o decrefs(w)]

Init ==
  /\ poisoned = FALSE /\ frame = Idle /\ handles = {} /\ calls = <<>>
  /\ mailbox = [w \in Worker |-> <<>>] /\ running = [w \in Worker |-> 0]
  /\ count = <<>> /\ puts = [d \in Devices |-> 0]
  /\ copies = 0 /\ failures = 0 /\ missed = FALSE

-----------------------------------------------------------------------------
(***************************************************************************)
(* The driver launches a call: check the pool, move what is elsewhere, and *)
(* send every rank its shard.                                              *)
(***************************************************************************)
Foreign(shards) == {d \in Devices : shards[d] # None /\ Device(shards[d].key) # d}

\* The (source, destination) pairs of the moves, which are made in their order.
Groups(shards) == {<<Device(shards[d].key), d>> : d \in Foreign(shards)}

First(groups) ==
  CHOOSE a \in groups : \A b \in groups : a[1] < b[1] \/ (a[1] = b[1] /\ a[2] <= b[2])

\* assert_usable, dispatch and the first half of localize.
Start(slot) ==
  /\ frame = Idle /\ ~poisoned /\ Len(calls) < MaxCalls
  /\ \E shards \in [Devices -> Held \cup {None}] :
       /\ frame' = [slot |-> slot, shards |-> shards, groups |-> Groups(shards),
                    waiting |-> FALSE]
       /\ handles' = Own(handles, {shards[d] : d \in Devices}, Launching)
  /\ UNCHANGED <<poisoned, calls, mailbox, running, storeVars, copies, failures, missed>>

Receive(group) == [op |-> "recv", from |-> group[1], to |-> group[2]]
Send(group)    == [op |-> "send", from |-> group[1], to |-> group[2]]

\* Faulty variant: the receives of every move are posted before any send.
PostEveryReceive(groups) ==
  LET ends(End(_), k, w) == SetToSeq({End(g) : g \in {x \in groups : w = <<x[k], 0>>}})
  IN  [w \in Worker |-> mailbox[w] \o ends(Receive, 2, w) \o ends(Send, 1, w)]

\* _move: the two ends of the first group's transfer.
PostMove(groups) ==
  LET group == First(groups)
  IN  Post(Post(mailbox, <<group[2], 0>>, <<Receive(group)>>),
           <<group[1], 0>>, <<Send(group)>>)

Move ==
  /\ frame.groups # {} /\ ~frame.waiting
  /\ mailbox' = PostMove(frame.groups)
  /\ frame' = [frame EXCEPT !.waiting = TRUE]
  /\ UNCHANGED <<poisoned, handles, calls, running, storeVars, copies, failures, missed>>

NewKey(d) == <<d, puts[d] + 1>>
Stored(d) ==
  /\ count' = [k \in DOMAIN count \cup {NewKey(d)} |-> IF k = NewKey(d) THEN 1 ELSE count[k]]
  /\ puts' = [puts EXCEPT ![d] = @ + 1]

Free(w) == running[w] = 0 /\ mailbox[w] # <<>>
Next1(w) == Head(mailbox[w])

\* Both ends are up: the tensor arrives, and the driver, which waits for both,
\* binds it to the receiving worker and puts it in the shard's place.
Transfer(group) ==
  LET src == <<group[1], 0>>
      dst == <<group[2], 0>>
      moved == NewHandle(NewKey(group[2]), dst, Launching)
  IN  /\ Free(src) /\ Next1(src) = Send(group)
      /\ Free(dst) /\ Next1(dst) = Receive(group)
      /\ Stored(group[2])
      /\ mailbox' = [mailbox EXCEPT ![src] = Tail(@), ![dst] = Tail(@)]
      /\ handles' = handles \cup {moved}
      /\ frame' = [frame EXCEPT !.shards[group[2]] = moved,
                                !.groups = @ \ {group}, !.waiting = FALSE]
      /\ missed' = (missed \/ frame.shards[group[2]].key \notin DOMAIN count)
      /\ UNCHANGED <<poisoned, calls, running, copies, failures>>

\* Faulty variant: nobody holds the arguments of a call on its way.
WithoutLease(hs, shards, c) == hs

\* The localized shards are the call's leases.
Lease(hs, shards, c) ==
  {IF \E d \in Devices : shards[d] # None /\ Same(h, shards[d])
     THEN [h EXCEPT !.owners = @ \cup {c}] ELSE h : h \in hs}

Launch ==
  /\ frame # Idle /\ frame.groups = {}
  /\ LET c == Len(calls) + 1
         task(d) == [op |-> "call", call |-> c, arg |-> frame.shards[d].key]
         sent == [w \in Worker |-> IF w[2] = frame.slot
                                     THEN mailbox[w] \o <<task(w[1])>> ELSE mailbox[w]]
     IN  /\ calls' = Append(calls, [slot |-> frame.slot, state |-> "pending",
                                    ranks |-> [d \in Devices |-> "waiting"],
                                    outs |-> [d \in Devices |-> <<>>]])
         /\ Collect(Disown(Lease(handles, frame.shards, c), Launching), sent)
         /\ frame' = Idle
  /\ UNCHANGED <<poisoned, running, storeVars, copies, failures, missed>>

-----------------------------------------------------------------------------
(***************************************************************************)
(* A worker takes its mailbox in order, one thing at a time.               *)
(***************************************************************************)
Rank(c, d, outcome) == calls' = [calls EXCEPT ![c].ranks[d] = outcome]
Taken(w) == mailbox' = [mailbox EXCEPT ![w] = Tail(@)]

\* call: the tensors are fetched first; a missing one fails the call.
Resolve(w) ==
  /\ Free(w) /\ Next1(w).op = "call" /\ Taken(w)
  /\ IF Next1(w).arg \in DOMAIN count \cup {<<>>}
       THEN /\ running' = [running EXCEPT ![w] = Next1(w).call]
            /\ UNCHANGED <<calls, missed>>
       ELSE /\ Rank(Next1(w).call, w[1], "failed") /\ missed' = TRUE
            /\ UNCHANGED running
  /\ UNCHANGED <<poisoned, frame, handles, storeVars, copies, failures>>

\* The method returns a tensor, which is put in the store, or raises.
Return(w) ==
  /\ running[w] # 0
  /\ running' = [running EXCEPT ![w] = 0]
  /\ \/ /\ Stored(w[1]) /\ UNCHANGED failures
        /\ calls' = [calls EXCEPT ![running[w]].ranks[w[1]] = "ok",
                                  ![running[w]].outs[w[1]] = NewKey(w[1])]
     \/ /\ failures < MaxFailures /\ failures' = failures + 1
        /\ Rank(running[w], w[1], "failed") /\ UNCHANGED storeVars
  /\ UNCHANGED <<poisoned, frame, handles, mailbox, copies, missed>>

\* incref and decref; an unknown key raises in the worker and nobody looks.
Counted(w) ==
  /\ Free(w) /\ Next1(w).op \in {"incref", "decref"} /\ Taken(w)
  /\ LET key == Next1(w).key
     IN  count' = IF key \notin DOMAIN count THEN count
                  ELSE IF Next1(w).op = "incref" THEN [count EXCEPT ![key] = @ + 1]
                  ELSE IF count[key] > 1 THEN [count EXCEPT ![key] = @ - 1]
                  ELSE [k \in DOMAIN count \ {key} |-> count[k]]
  /\ UNCHANGED <<poisoned, frame, handles, calls, running, puts, copies, failures, missed>>

-----------------------------------------------------------------------------
(***************************************************************************)
(* The driver collects a call, or leaves it to be discarded when its ranks *)
(* have finished: the callback that finds none left collects it then.      *)
(***************************************************************************)
Finished(c) == \A d \in Devices : calls[c].ranks[d] # "waiting"
AllOk(c)    == \A d \in Devices : calls[c].ranks[d] = "ok"
AnyFailed(c) == \E d \in Devices : calls[c].ranks[d] = "failed"

\* The results, bound to the workers they came from.
Rebound(c, owners) ==
  {[NewHandle(calls[c].outs[d], <<d, calls[c].slot>>, Program) EXCEPT !.owners = owners] :
     d \in Devices}

\* result: every rank succeeded; the leases end.
Result(c) ==
  /\ frame = Idle /\ calls[c].state = "pending" /\ AllOk(c)
  /\ Collect(Disown(handles \cup Rebound(c, {Program}), c), mailbox)
  /\ calls' = [calls EXCEPT ![c].state = "collected"]
  /\ UNCHANGED <<poisoned, frame, running, storeVars, copies, failures, missed>>

\* Whether a worker has yet to take its part of a call, and its mailbox without.
Part(c, m)     == m.op = "call" /\ m.call = c
Waits(c, w)    == \E i \in DOMAIN mailbox[w] : Part(c, mailbox[w][i])
Cancelled(c, w) ==
  RemoveAt(mailbox[w], CHOOSE i \in DOMAIN mailbox[w] : Part(c, mailbox[w][i]))

\* The first failed rank poisons the pool; its peers are cancelled where that is
\* still possible, and what they have returned is never bound.
Fail(c) ==
  \E cancelled \in SUBSET {w \in Worker : Waits(c, w)} :
    LET boxes == [w \in Worker |-> IF w \in cancelled THEN Cancelled(c, w) ELSE mailbox[w]]
    IN  /\ Collect(Disown(handles, c), boxes)
        /\ poisoned' = TRUE
        /\ calls' = [calls EXCEPT ![c].state = "failed",
             ![c].ranks = [d \in Devices |->
                IF <<d, calls[c].slot>> \in cancelled THEN "cancelled" ELSE @[d]]]
        /\ UNCHANGED <<frame, running, storeVars, copies, failures, missed>>

\* result, or ready, meets a failed rank: it does not wait for the others.
Raise(c) ==
  /\ frame = Idle /\ calls[c].state = "pending" /\ AnyFailed(c)
  /\ Fail(c)

Discard(c) ==
  /\ frame = Idle /\ calls[c].state = "pending"
  /\ calls' = [calls EXCEPT ![c].state = "discarding"]
  /\ UNCHANGED <<poisoned, frame, handles, mailbox, running, storeVars, copies, failures, missed>>

\* on_done, for the last rank; _discard_result collects and lets go.
OnDone(c) ==
  /\ calls[c].state = "discarding" /\ Finished(c)
  /\ \/ /\ AllOk(c)
        /\ Collect(Disown(handles, c) \cup Rebound(c, {}), mailbox)
        /\ calls' = [calls EXCEPT ![c].state = "collected"]
        /\ UNCHANGED <<poisoned, frame, running, storeVars, copies, failures, missed>>
     \/ AnyFailed(c) /\ Fail(c)

\* Faulty variant: the copy is not counted.
CopyUncounted(h) == mailbox

\* __copy__: the increment is sent, not awaited.
CopyCounted(h) ==
  Post(mailbox, h.worker, <<[op |-> "incref", key |-> h.key, copy |-> copies + 1]>>)

Copy(h) ==
  /\ frame = Idle /\ copies < MaxCopies /\ copies' = copies + 1
  /\ mailbox' = CopyCounted(h)
  /\ handles' = handles \cup {[h EXCEPT !.copy = copies + 1, !.owners = {Program}]}
  /\ UNCHANGED <<poisoned, frame, calls, running, storeVars, failures, missed>>

\* The program lets go of a handle.
Drop(h) ==
  /\ frame = Idle
  /\ Collect((handles \ {h}) \cup {[h EXCEPT !.owners = @ \ {Program}]}, mailbox)
  /\ UNCHANGED <<poisoned, frame, calls, running, storeVars, copies, failures, missed>>

Workers ==
  \/ \E w \in Worker : Resolve(w) \/ Return(w) \/ Counted(w)
  \/ \E group \in Devices \X Devices : Transfer(group)
Driver ==
  \/ \E slot \in Slot : Start(slot)
  \/ \E c \in DOMAIN calls : Result(c) \/ Raise(c) \/ Discard(c) \/ OnDone(c)
  \/ \E h \in Held : Copy(h) \/ Drop(h)

Next == Workers \/ Driver \/ Move \/ Launch

Spec == Init /\ [][Next]_vars

\* The actors serve their mailboxes; a launch under way goes on.
FairSpec ==
  /\ Spec
  /\ \A w \in Worker : WF_vars(Resolve(w) \/ Return(w) \/ Counted(w))
  /\ \A group \in Devices \X Devices : WF_vars(Transfer(group))
  /\ WF_vars(Move \/ Launch)

-----------------------------------------------------------------------------
\* Until a rank has failed and the pool is poisoned, no call and no move finds
\* that a tensor it was passed is gone, whatever the program drops, copies or
\* discards meanwhile: the leases outlive every rank's fetch, and decrements
\* that travel through another worker cannot overtake them.
TensorsThere == missed => poisoned

\* Where the changes to a key's count are, on their way; the handles that refer to
\* it; the calls that made it and are not collected; and what its store counts.
Changes(op, key) ==
  UNION {{<<w, i>> : i \in {j \in DOMAIN mailbox[w] : mailbox[w][j].op = op
                                                   /\ mailbox[w][j].key = key}} : w \in Worker}
References(key) == {h \in handles : h.key = key}
Uncollected(key) == {c \in DOMAIN calls : calls[c].state # "collected" /\ calls[c].outs[key[1]] = key}
CountOf(key)    == IF key \in DOMAIN count THEN count[key] ELSE 0

\* What the store counts for a key is what refers to it: the handles alive, the
\* changes still in the mailboxes, and the results nobody has bound, which are
\* kept for good only when their call failed and the pool was given up.
CountsExact ==
  \A d \in Devices : \A n \in 1 .. puts[d] :
    LET key == <<d, n>>
    IN  /\ CountOf(key) + Cardinality(Changes("incref", key)) - Cardinality(Changes("decref", key))
             = Cardinality(References(key)) + Cardinality(Uncollected(key))
        /\ ~poisoned => \A c \in Uncollected(key) : calls[c].state # "failed"

\* The transfers of a launch cannot block each other: of all that the workers have yet
\* to do, only the two ends of one transfer wait for another worker, the one that the
\* driver waits for, and both are there (_move gets both before it goes on).
EndsMeet ==
  LET group == First(frame.groups)
  IN  \A w \in Worker :
        {m \in ToSet(mailbox[w]) : m.op \in {"recv", "send"}} =
          IF frame.waiting /\ w = <<group[2], 0>> THEN {Receive(group)}
          ELSE IF frame.waiting /\ w = <<group[1], 0>> THEN {Send(group)}
          ELSE {}

\* A launch comes to its end: the transfers it waits for are not each behind the
\* other in two workers' mailboxes, whatever else those workers have to do.
LaunchesEnd == frame # Idle ~> frame = Idle
=============================================================================
