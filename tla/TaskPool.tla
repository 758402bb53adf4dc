------------------------------ MODULE TaskPool ------------------------------
(***************************************************************************)
(* What a pool of asynchronous tasks promises the code that drives it      *)
(* (RolloutManager and, through it, the trainers): the abstract            *)
(* specification that RolloutPool implements.                              *)
(*                                                                         *)
(* A submitted task waits, executes at most once on one of Slots slots, is *)
(* done, and is delivered once.  Handing back takes every waiting task, so *)
(* nothing starts until the next submission.  After a failure nothing      *)
(* starts, and nothing is delivered or handed back any more.  Shutting the *)
(* pool down accounts for whatever was executing or done.                  *)
(***************************************************************************)
EXTENDS Naturals, FiniteSets

CONSTANTS
  Task,    \* every task there may ever be
  Slots    \* how many tasks may execute at once

VARIABLES
  waiting, executing, done,          \* the tasks inside the pool
  handedBack, delivered, abandoned,  \* the tasks that have left it
  broken,                            \* the pool has failed
  stage                              \* "open", "closing", "closed"

Known == UNION {waiting, executing, done, handedBack, delivered, abandoned}

Init ==
  /\ waiting = {} /\ executing = {} /\ done = {}
  /\ handedBack = {} /\ delivered = {} /\ abandoned = {}
  /\ broken = FALSE /\ stage = "open"

Usable == ~broken /\ stage = "open"

Submit(new) ==
  /\ Usable
  /\ new \cap Known = {}
  /\ waiting' = waiting \cup new
  /\ UNCHANGED <<executing, done, handedBack, delivered, abandoned, broken, stage>>

Start(t) ==
  /\ ~broken /\ stage # "closed"
  /\ t \in waiting
  /\ Cardinality(executing) < Slots
  /\ waiting' = waiting \ {t} /\ executing' = executing \cup {t}
  /\ UNCHANGED <<done, handedBack, delivered, abandoned, broken, stage>>

Complete(some) ==
  /\ ~broken /\ stage # "closed"
  /\ executing' = executing \ some /\ done' = done \cup some
  /\ UNCHANGED <<waiting, handedBack, delivered, abandoned, broken, stage>>

Deliver ==
  /\ Usable
  /\ done' = {} /\ delivered' = delivered \cup done
  /\ UNCHANGED <<waiting, executing, handedBack, abandoned, broken, stage>>

HandBack ==
  /\ Usable
  /\ waiting' = {} /\ handedBack' = handedBack \cup waiting
  /\ UNCHANGED <<executing, done, delivered, abandoned, broken, stage>>

Break ==
  /\ stage # "closed"
  /\ broken' = TRUE
  /\ UNCHANGED <<waiting, executing, done, handedBack, delivered, abandoned, stage>>

Shut(some) ==
  /\ stage = "open"
  /\ stage' = "closing"
  /\ waiting' = waiting \ some /\ abandoned' = abandoned \cup some
  /\ UNCHANGED <<executing, done, handedBack, delivered, broken>>

Release ==
  /\ stage = "closing"
  /\ stage' = "closed"
  /\ executing' = {} /\ done' = {}
  /\ abandoned' = UNION {abandoned, executing, done}
  /\ UNCHANGED <<waiting, handedBack, delivered, broken>>

Next ==
  \/ \E new \in SUBSET Task : Submit(new)
  \/ \E t \in waiting : Start(t)
  \/ \E some \in SUBSET executing : Complete(some)
  \/ Deliver \/ HandBack \/ Break
  \/ \E some \in SUBSET waiting : Shut(some)
  \/ Release

vars == <<waiting, executing, done, handedBack, delivered, abandoned, broken, stage>>

Spec == Init /\ [][Next]_vars
=============================================================================
