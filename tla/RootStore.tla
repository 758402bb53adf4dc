----------------------------- MODULE RootStore -----------------------------
(***************************************************************************)
(* What a rollout manager promises the trainer that drives it: the         *)
(* abstract specification that RolloutManager implements.                  *)
(*                                                                         *)
(* A submitted root stays with the manager until it is delivered or        *)
(* discarded, as a whole and once.  A trainer that asks for n groups gets  *)
(* n, of roots none of which is stale; and none is discarded that is not   *)
(* stale.  A manager that has failed delivers and discards nothing any     *)
(* more, and only then, or when it is closed, may what it holds be lost.   *)
(***************************************************************************)
EXTENDS Naturals, FiniteSets

CONSTANT Root   \* every prompt there may ever be

VARIABLES
  open,                  \* roots the manager is responsible for
  stale,                 \* those of which something is too old
  delivered, discarded,  \* roots that have left it
  asked,                 \* how many groups the trainer waits for
  failed, closed

vars == <<open, stale, delivered, discarded, asked, failed, closed>>

Known == UNION {open, delivered, discarded}

Init ==
  /\ open = {} /\ stale = {} /\ delivered = {} /\ discarded = {}
  /\ asked = 0 /\ failed = FALSE /\ closed = FALSE

Usable == ~failed /\ ~closed

Submit(r) ==
  /\ Usable /\ asked = 0
  /\ r \notin Known
  /\ open' = open \cup {r}
  /\ UNCHANGED <<stale, delivered, discarded, asked, failed, closed>>

Ask ==
  /\ Usable /\ asked = 0
  /\ asked' \in Nat \ {0}
  /\ UNCHANGED <<open, stale, delivered, discarded, failed, closed>>

\* Weights are updated, or engines run a further turn.
Age(some) ==
  /\ stale' = stale \cup some
  /\ UNCHANGED <<open, delivered, discarded, asked, failed, closed>>

Discard(some) ==
  /\ Usable
  /\ open' = open \ some /\ stale' = stale \ some
  /\ discarded' = discarded \cup some
  /\ UNCHANGED <<delivered, asked, failed, closed>>

\* What turns out to be stale meanwhile is discarded.
Deliver(taken, some) ==
  /\ Usable /\ asked > 0
  /\ Cardinality(taken) = asked /\ asked' = 0
  /\ open' = open \ (taken \cup some) /\ stale' = stale \ some
  /\ delivered' = delivered \cup taken /\ discarded' = discarded \cup some
  /\ UNCHANGED <<failed, closed>>

Fail(some, left) ==
  /\ Usable
  /\ failed' = TRUE /\ asked' = 0
  /\ open' = left /\ stale' \subseteq stale \cap left
  /\ discarded' = discarded \cup some
  /\ UNCHANGED <<delivered, closed>>

Close(some, left) ==
  /\ ~closed /\ asked = 0
  /\ closed' = TRUE
  /\ failed => failed' /\ some = {}
  /\ open' = left /\ stale' \subseteq stale \cap left
  /\ discarded' = discarded \cup some
  /\ UNCHANGED <<delivered, asked>>

Next ==
  \/ \E r \in Root : Submit(r)
  \/ Ask
  \/ \E some \in SUBSET open : Age(some)
  \/ \E some \in SUBSET stale :
       \/ Discard(some)
       \/ \E taken \in SUBSET (open \ stale) : Deliver(taken, some)
       \/ \E left \in SUBSET (open \ some) : Fail(some, left) \/ Close(some, left)

Spec == Init /\ [][Next]_vars
=============================================================================
