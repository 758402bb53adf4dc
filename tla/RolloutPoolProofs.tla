------------------------- MODULE RolloutPoolProofs -------------------------
(***************************************************************************)
(* Theorems about RolloutPool for every number of launchers, every         *)
(* capacity and every number of tasks: it stays within its capacities, it  *)
(* is quiet when paused and empty when closed, it loses no task and runs   *)
(* none twice or out of order, and it implements TaskPool.                 *)
(***************************************************************************)
EXTENDS RolloutPool, FiniteSetTheorems, SequenceTheorems, TLAPS

(***************************************************************************)
(* The inductive invariant.  Each part below is what the next one needs.   *)
(***************************************************************************)

\* There is a plan only while the dispatch thread executes it.
PlanIsLocal == tpc \notin {"launch", "abort"} => plan = <<>> /\ launched = 0

\* The slots reserved are those of the plan, no more and no less.
ReservedByPlan ==
  \A l \in Launchers : reserved[l] = Cardinality(PlannedAt(l))

\* What is reserved and what runs fit the launcher together.
LoadBounded == \A l \in Launchers : Load(l) <= Capacity[l]

\* The flags and the driver's place agree.
DriverAgrees ==
  /\ closed <=> dpc \in {"join", "closed"}
  /\ dpc = "closed" => tpc = "exit" /\ running = {} /\ completed = {}

IInv ==
  /\ TypeOK
  /\ IsFiniteSet(running)
  /\ PlanIsLocal
  /\ ReservedByPlan
  /\ LoadBounded
  /\ DriverAgrees
  /\ PausedIsQuiet

-----------------------------------------------------------------------------
\* A non-empty set of indexes has a largest one.
LEMMA LargestIndex ==
  ASSUME NEW k \in Nat, NEW S \in SUBSET (1 .. k), S # {}
  PROVE  \E m \in S : \A j \in S : j <= m
<1> DEFINE above(i) == (i + 1) .. k
           T == {above(i) : i \in S}
           R == StrictSubsetOrdering(1 .. k)
<1>1. IsWellFoundedOn(R, SUBSET (1 .. k))
  <2>1. IsFiniteSet(1 .. k)
    BY FS_Interval
  <2>2. FiniteSubsetsOf(1 .. k) = SUBSET (1 .. k)
    BY <2>1, FS_FiniteSubsetsOfFinite
  <2> QED
    BY <2>2, FS_StrictSubsetOrderingWellFounded
<1>2. T \subseteq SUBSET (1 .. k) /\ T # {}
  <2>1. ASSUME NEW i \in S
        PROVE  above(i) \subseteq 1 .. k
    OBVIOUS
  <2> HIDE DEF above
  <2> QED
    BY <2>1
<1>3. PICK x \in T : \A y \in T : ~(<<y, x>> \in R)
  <2> HIDE DEF T, R
  <2> QED
    BY <1>1, <1>2, WFMin
<1>4. PICK m \in S : x = above(m)
  OBVIOUS
<1>5. ASSUME NEW j \in S, j > m
      PROVE  FALSE
  <2>1. above(j) \in T
    OBVIOUS
  <2>2. above(j) \subseteq above(m) /\ j \in above(m) /\ j \notin above(j)
    BY <1>5
  <2>3. <<above(j), above(m)>> \in R
    BY <2>2, <1>2, <2>1, <1>4 DEF StrictSubsetOrdering
  <2> QED
    BY <2>1, <2>3, <1>3, <1>4
<1> QED
  BY <1>5

\* The finite sets the model counts.
LEMMA CountsAreNaturals ==
  ASSUME NEW n \in Nat, NEW S \in SUBSET (1 .. n)
  PROVE  IsFiniteSet(S) /\ Cardinality(S) \in Nat
<1>1. IsFiniteSet(1 .. n)
  BY FS_Interval
<1> QED
  BY <1>1, FS_Subset, FS_CardinalityType

LEMMA AtIsFinite ==
  ASSUME NEW units, IsFiniteSet(units), NEW l
  PROVE  /\ IsFiniteSet(At(l, units))
         /\ Cardinality(At(l, units)) \in Nat
<1>1. At(l, units) \in SUBSET units
  BY DEF At
<1> QED
  BY <1>1, FS_Subset, FS_CardinalityType

\* A function maps a finite set to one that is no larger.
LEMMA ImageIsSmaller ==
  ASSUME NEW f, NEW X, IsFiniteSet(X)
  PROVE  LET image == {f[x] : x \in X}
         IN  IsFiniteSet(image) /\ Cardinality(image) <= Cardinality(X)
<1> DEFINE image == {f[x] : x \in X}
           g == [x \in X |-> f[x]]
<1>1. g \in Surjection(X, image)
  BY DEF Surjection
<1> HIDE DEF image, g
<1>2. IsFiniteSet(image) /\ Cardinality(image) <= Cardinality(X)
  BY <1>1, FS_Surjection
<1> QED
  BY <1>2 DEF image

\* The units a plan has out on a launcher are no more than it planned there.
LEMMA LaunchedWithinPlan ==
  ASSUME TypeOK, NEW l \in Launchers
  PROVE  /\ IsFiniteSet(LaunchedOfPlan)
         /\ Cardinality(At(l, LaunchedOfPlan)) \in Nat
         /\ Cardinality(At(l, LaunchedOfPlan)) <= Cardinality(PlannedAt(l))
         /\ Cardinality(PlannedAt(l)) \in Nat
<1>1. Len(plan) \in Nat /\ DOMAIN plan = 1 .. Len(plan)
  BY DEF TypeOK
<1> DEFINE J == {j \in DOMAIN plan : j <= launched}
           K == {j \in J : plan[j].launcher = l}
<1>2. IsFiniteSet(J) /\ IsFiniteSet(PlannedAt(l)) /\ Cardinality(PlannedAt(l)) \in Nat
  BY <1>1, CountsAreNaturals, J \in SUBSET (1 .. Len(plan)),
     PlannedAt(l) \in SUBSET (1 .. Len(plan)) DEF PlannedAt
<1>3. LaunchedOfPlan = {plan[i] : i \in J}
  BY DEF LaunchedOfPlan
<1>4. IsFiniteSet(LaunchedOfPlan)
  <2> HIDE DEF J
  <2> QED
    BY <1>2, <1>3, ImageIsSmaller
<1>5. At(l, LaunchedOfPlan) = {plan[i] : i \in K}
  BY <1>3 DEF At
<1>6. IsFiniteSet(K) /\ Cardinality(K) <= Cardinality(PlannedAt(l)) /\ Cardinality(K) \in Nat
  <2>1. K \in SUBSET PlannedAt(l)
    BY DEF PlannedAt
  <2> QED
    BY <2>1, <1>2, FS_Subset, FS_CardinalityType
<1>7. /\ IsFiniteSet(At(l, LaunchedOfPlan))
      /\ Cardinality(At(l, LaunchedOfPlan)) <= Cardinality(K)
  <2> HIDE DEF K
  <2> QED
    BY <1>5, <1>6, ImageIsSmaller
<1>8. Cardinality(At(l, LaunchedOfPlan)) \in Nat
  BY <1>7, FS_CardinalityType
<1> HIDE DEF K
<1> QED
  BY <1>2, <1>4, <1>6, <1>7, <1>8

\* A launcher's calls, planned ones included, are no more than its load.
LEMMA RemoteWithinLoad ==
  ASSUME IInv, NEW l \in Launchers
  PROVE  /\ IsFiniteSet(Remote)
         /\ Cardinality(At(l, Remote)) \in Nat
         /\ Cardinality(At(l, Remote)) <= Load(l)
<1>1. TypeOK /\ IsFiniteSet(running) /\ reserved[l] = Cardinality(PlannedAt(l))
  BY DEF IInv, ReservedByPlan
<1>2. /\ IsFiniteSet(LaunchedOfPlan)
      /\ Cardinality(At(l, LaunchedOfPlan)) \in Nat
      /\ Cardinality(At(l, LaunchedOfPlan)) <= Cardinality(PlannedAt(l))
      /\ Cardinality(PlannedAt(l)) \in Nat
  BY <1>1, LaunchedWithinPlan
<1>3. IsFiniteSet(Remote)
  BY <1>1, <1>2, FS_Union DEF Remote
<1>4. At(l, Remote) = At(l, running) \cup At(l, LaunchedOfPlan)
  BY DEF Remote, At
<1>5. /\ IsFiniteSet(At(l, running)) /\ Cardinality(At(l, running)) \in Nat
      /\ IsFiniteSet(At(l, LaunchedOfPlan))
  BY <1>1, <1>2, AtIsFinite
<1>6. /\ Cardinality(At(l, Remote)) =
           Cardinality(At(l, running)) + Cardinality(At(l, LaunchedOfPlan))
             - Cardinality(At(l, running) \cap At(l, LaunchedOfPlan))
      /\ Cardinality(At(l, running) \cap At(l, LaunchedOfPlan)) \in Nat
  <2>1. IsFiniteSet(At(l, running) \cap At(l, LaunchedOfPlan))
    BY <1>5, FS_Intersection
  <2> QED
    BY <1>4, <1>5, <2>1, FS_Union, FS_CardinalityType
<1>7. Cardinality(At(l, Remote)) \in Nat
  BY <1>3, AtIsFinite
<1> QED
  BY <1>1, <1>2, <1>3, <1>5, <1>6, <1>7 DEF Load
-----------------------------------------------------------------------------
(***************************************************************************)
(* Init establishes the invariant.                                         *)
(***************************************************************************)
LEMMA InitIInv == Init => IInv
<1> SUFFICES ASSUME Init PROVE IInv
  OBVIOUS
<1>1. IsFiniteSet({}) /\ Cardinality({}) = 0
  BY FS_EmptySet
<1>2. TypeOK
  <2>1. queue \in Seq(Task) /\ plan \in Seq(Unit) /\ launched \in 0 .. Len(plan)
    BY DEF Init
  <2>2. reserved \in [Launchers -> Nat] /\ nextSequence \in Nat
    BY DEF Init
  <2> QED
    BY <2>1, <2>2 DEF Init, TypeOK
<1>3. \A l \in Launchers : PlannedAt(l) = {} /\ At(l, running) = {}
  BY DEF Init, PlannedAt, At
<1>4. PlanIsLocal /\ DriverAgrees /\ PausedIsQuiet
  BY PoolAssumption DEF Init, PlanIsLocal, DriverAgrees, PausedIsQuiet, AnyReserved
<1>5. ReservedByPlan /\ LoadBounded
  <2>1. ASSUME NEW l \in Launchers
        PROVE  /\ Cardinality(PlannedAt(l)) = 0
               /\ Cardinality(At(l, running)) = 0
               /\ reserved[l] = 0 /\ Capacity[l] \in Nat
    BY <1>1, <1>3, PoolAssumption DEF Init
  <2> QED
    BY <2>1 DEF ReservedByPlan, LoadBounded, Load
<1> QED
  BY <1>1, <1>2, <1>4, <1>5 DEF IInv, Init

(***************************************************************************)
(* A plan overfills no launcher: where its last pick of a launcher had     *)
(* room, there is room for all its picks of that launcher.                 *)
(***************************************************************************)
LEMMA PlanFits ==
  ASSUME IInv, plan = <<>>, NEW p \in Assignments, IsPlan(p), NEW l \in Launchers
  PROVE  /\ reserved[l] = 0
         /\ Cardinality({i \in DOMAIN p : p[i] = l}) \in Nat
         /\ Cardinality({i \in DOMAIN p : p[i] = l})
              + Cardinality(At(l, running)) <= Capacity[l]
<1> DEFINE S == {i \in DOMAIN p : p[i] = l}
<1>1. TypeOK /\ IsFiniteSet(running) /\ Load(l) <= Capacity[l] /\ Capacity[l] \in Nat
  BY PoolAssumption DEF IInv, LoadBounded
<1>2. PICK k \in 0 .. Len(queue) : p \in [1 .. k -> Launchers]
  BY DEF Assignments
<1>3. k \in Nat /\ S \in SUBSET (1 .. k)
  BY <1>1, <1>2 DEF TypeOK
<1>4. IsFiniteSet(S) /\ Cardinality(S) \in Nat
  <2> HIDE DEF S
  <2> QED
    BY <1>3, CountsAreNaturals
<1>5. reserved[l] = 0
  <2>1. PlannedAt(l) = {}
    BY DEF PlannedAt
  <2> QED
    BY <2>1, FS_EmptySet DEF IInv, ReservedByPlan
<1>6. Cardinality(At(l, running)) \in Nat /\ Load(l) = Cardinality(At(l, running))
  BY <1>1, <1>5, AtIsFinite DEF Load
<1>7. CASE S = {}
  <2> HIDE DEF S
  <2>1. Cardinality(S) = 0
    BY <1>7, FS_EmptySet
  <2> QED
    BY <2>1, <1>1, <1>5, <1>6 DEF S
<1>8. CASE S # {}
  <2>1. PICK m \in S : \A j \in S : j <= m
    <3> HIDE DEF S
    <3> QED
      BY <1>3, <1>8, LargestIndex
  <2>2. m \in DOMAIN p /\ p[m] = l
    OBVIOUS
  <2>3. Capacity[l] - Load(l) - Cardinality({j \in DOMAIN p : j < m /\ p[j] = l}) > 0
    BY <2>2 DEF IsPlan, HasRoom, Free
  <2>4. {j \in DOMAIN p : j < m /\ p[j] = l} = S \ {m}
    BY <2>1, <1>2
  <2>5. Cardinality(S \ {m}) = Cardinality(S) - 1
    <3> HIDE DEF S
    <3> QED
      BY <1>4, <2>1, FS_RemoveElement
  <2>6. Capacity[l] - Load(l) - (Cardinality(S) - 1) > 0
    <3> HIDE DEF S
    <3> QED
      BY <2>3, <2>4, <2>5
  <2> HIDE DEF S
  <2>7. Cardinality(S) + Cardinality(At(l, running)) <= Capacity[l]
    BY <2>6, <1>1, <1>4, <1>6
  <2> QED
    BY <2>7, <1>4, <1>5 DEF S
<1> QED
  BY <1>7, <1>8
-----------------------------------------------------------------------------
(***************************************************************************)
(* The steps.  Most leave the reservations and the running units alone.    *)
(***************************************************************************)
Counted == ReservedByPlan /\ LoadBounded /\ IsFiniteSet(running)

LEMMA CountedFrame ==
  ASSUME IInv, UNCHANGED <<running, reserved, plan>>
  PROVE  Counted'
<1>1. \A l \in Launchers : PlannedAt(l)' = PlannedAt(l) /\ Load(l)' = Load(l)
  BY DEF PlannedAt, Load, At
<1> QED
  BY <1>1 DEF IInv, Counted, ReservedByPlan, LoadBounded

\* Removing units from running only lightens the load.
LEMMA CountedFewerRunning ==
  ASSUME IInv, UNCHANGED <<reserved, plan>>, running' \subseteq running
  PROVE  Counted'
<1>1. IsFiniteSet(running) /\ IsFiniteSet(running')
  BY FS_Subset DEF IInv
<1>2. \A l \in Launchers : PlannedAt(l)' = PlannedAt(l)
  BY DEF PlannedAt
<1>3. ASSUME NEW l \in Launchers
      PROVE  Load(l)' <= Capacity[l]
  <2>1. At(l, running') \in SUBSET At(l, running)
    BY DEF At
  <2>2. /\ IsFiniteSet(At(l, running)) /\ Cardinality(At(l, running)) \in Nat
        /\ Cardinality(At(l, running')) \in Nat
    BY <1>1, AtIsFinite
  <2>3. Cardinality(At(l, running')) <= Cardinality(At(l, running))
    BY <2>1, <2>2, FS_Subset
  <2>4. reserved[l] \in Nat /\ Capacity[l] \in Nat /\ Load(l) <= Capacity[l]
    BY PoolAssumption DEF IInv, TypeOK, LoadBounded
  <2>5. Load(l)' = reserved[l] + Cardinality(At(l, running'))
    BY DEF Load, At
  <2> QED
    BY <2>2, <2>3, <2>4, <2>5 DEF Load
<1> QED
  BY <1>1, <1>2, <1>3 DEF IInv, Counted, ReservedByPlan, LoadBounded

\* Committing a plan turns its reservations into running units.
LEMMA CountedCommit ==
  ASSUME IInv, running' = running \cup LaunchedOfPlan, ReleaseReservations,
         plan' = <<>>
  PROVE  Counted' /\ reserved' \in [Launchers -> Nat]
<1>1. ASSUME NEW l \in Launchers
      PROVE  reserved'[l] = 0 /\ Cardinality(PlannedAt(l)') = 0
  <2>1. reserved[l] = Cardinality(PlannedAt(l)) /\ reserved[l] \in Nat
    BY DEF IInv, ReservedByPlan, TypeOK
  <2>2. PlannedAt(l)' = {}
    BY DEF PlannedAt
  <2> QED
    BY <2>1, <2>2, FS_EmptySet DEF ReleaseReservations
<1>2. running' = Remote
  BY DEF Remote
<1>3. ASSUME NEW l \in Launchers
      PROVE  Load(l)' <= Capacity[l] /\ IsFiniteSet(running')
  <2>1. /\ Cardinality(At(l, Remote)) \in Nat
        /\ Cardinality(At(l, Remote)) <= Load(l)
        /\ IsFiniteSet(Remote)
    BY RemoteWithinLoad
  <2>2. Load(l) <= Capacity[l] /\ Capacity[l] \in Nat /\ Load(l) \in Int
    <3>1. IsFiniteSet(running) /\ reserved[l] \in Nat
      BY DEF IInv, TypeOK
    <3> QED
      BY <3>1, AtIsFinite, PoolAssumption DEF IInv, LoadBounded, Load
  <2>3. Load(l)' = reserved'[l] + Cardinality(At(l, running'))
    BY DEF Load, At
  <2>4. IsFiniteSet(running') /\ At(l, running') = At(l, Remote)
    BY <1>2, <2>1
  <2>5. reserved'[l] = 0
    BY <1>1
  <2>6. Load(l)' = Cardinality(At(l, Remote))
    BY <2>1, <2>3, <2>4, <2>5
  <2> QED
    BY <2>1, <2>2, <2>4, <2>6
<1>4. reserved' \in [Launchers -> Nat]
  BY <1>1 DEF ReleaseReservations
<1>5. 0 \in Launchers
  BY PoolAssumption DEF Launchers
<1> QED
  BY <1>1, <1>3, <1>4, <1>5 DEF Counted, ReservedByPlan, LoadBounded
\* PlanLaunches: what a plan reserves still fits.
LEMMA CountedPlan ==
  ASSUME IInv, PlanLaunches
  PROVE  Counted' /\ TypeOK' /\ plan' # <<>>
<1>1. plan = <<>> /\ TypeOK
  BY DEF PlanLaunches, IInv, PlanIsLocal
<1>2. PICK p \in Assignments :
        /\ p # <<>> /\ IsPlan(p)
        /\ plan' = [i \in 1 .. Len(p) |-> [sequence |-> queue[i], launcher |-> p[i]]]
        /\ queue' = SubSeq(queue, Len(p) + 1, Len(queue))
        /\ reserved' = [l \in Launchers |->
             reserved[l] + Cardinality({i \in DOMAIN p : p[i] = l})]
  BY DEF PlanLaunches
<1>3. PICK k \in 0 .. Len(queue) : p \in [1 .. k -> Launchers]
  BY DEF Assignments
<1>4. k \in Nat /\ Len(p) = k /\ DOMAIN p = 1 .. k /\ k # 0
  <2>1. k \in Nat
    BY <1>1, <1>3 DEF TypeOK
  <2>2. p \in Seq(Launchers) /\ Len(p) = k /\ DOMAIN p = 1 .. k
    BY <2>1, <1>3
  <2> QED
    BY <2>1, <2>2, <1>2
<1>5. \A i \in 1 .. k : queue[i] \in Task
  BY <1>1, <1>3, <1>4 DEF TypeOK
<1>6. plan' \in Seq(Unit) /\ Len(plan') = k /\ DOMAIN plan' = 1 .. k
  <2>1. plan' = [i \in 1 .. k |-> [sequence |-> queue[i], launcher |-> p[i]]]
    BY <1>2, <1>4
  <2>2. \A i \in 1 .. k : [sequence |-> queue[i], launcher |-> p[i]] \in Unit
    BY <1>3, <1>5 DEF Unit
  <2>3. plan' \in [1 .. k -> Unit]
    BY <2>1, <2>2
  <2> QED
    BY <2>3, <1>4
<1>7. ASSUME NEW l \in Launchers
      PROVE  /\ reserved'[l] = Cardinality(PlannedAt(l)')
             /\ reserved'[l] \in Nat
             /\ Load(l)' <= Capacity[l]
  <2>1. /\ reserved[l] = 0
        /\ Cardinality({i \in DOMAIN p : p[i] = l}) \in Nat
        /\ Cardinality({i \in DOMAIN p : p[i] = l})
             + Cardinality(At(l, running)) <= Capacity[l]
    BY <1>1, <1>2, PlanFits
  <2>2. PlannedAt(l)' = {i \in DOMAIN p : p[i] = l}
    <3>1. PlannedAt(l)' = {i \in DOMAIN plan' : plan'[i].launcher = l}
      BY DEF PlannedAt
    <3>2. DOMAIN plan' = DOMAIN p /\ \A i \in DOMAIN p : plan'[i].launcher = p[i]
      BY <1>2, <1>4, <1>6
    <3> QED
      BY <3>1, <3>2
  <2>3. reserved'[l] = Cardinality({i \in DOMAIN p : p[i] = l})
    BY <1>2, <2>1
  <2>4. Load(l)' = reserved'[l] + Cardinality(At(l, running))
    BY DEF Load, At, PlanLaunches
  <2> QED
    BY <2>1, <2>2, <2>3, <2>4
<1>8. Counted'
  BY <1>7 DEF Counted, ReservedByPlan, LoadBounded, IInv, PlanLaunches
<1>9. reserved' \in [Launchers -> Nat]
  BY <1>2, <1>7
<1>10. queue' \in Seq(Task)
  BY <1>1, <1>2, <1>3, <1>4 DEF TypeOK
<1>11. launched' \in 0 .. Len(plan')
  BY <1>1, <1>4, <1>6 DEF TypeOK, PlanLaunches, IInv, PlanIsLocal
<1>12. /\ snapshot' = running /\ tpc' = "launch"
       /\ UNCHANGED <<running, completed, nextSequence, paused, closed, failed,
                      asleep, dpc, finished, launched, ready, historyVars>>
  BY DEF PlanLaunches
<1>13. TypeOK'
  BY <1>1, <1>6, <1>9, <1>10, <1>11, <1>12 DEF TypeOK, historyVars
<1> QED
  BY <1>4, <1>6, <1>8, <1>13
-----------------------------------------------------------------------------
(***************************************************************************)
(* The driver's steps preserve the invariant.  Only Enqueue and TakeQueue  *)
(* touch the queue; none touches the plan or the reservations.             *)
(***************************************************************************)
LEMMA EnqueueType ==
  ASSUME TypeOK, NEW n \in 1 .. MaxAdd, Enqueue(n)
  PROVE  queue' \in Seq(Task) /\ nextSequence' \in Nat /\ paused' = FALSE
<1>1. n \in Nat /\ nextSequence \in Nat
  BY PoolAssumption DEF TypeOK
<1>2. NewTasks(n) \in Seq(Task)
  BY <1>1 DEF NewTasks, Task
<1> QED
  BY <1>1, <1>2 DEF Enqueue, TypeOK

LEMMA AddIInv ==
  ASSUME IInv, NEW n \in 1 .. MaxAdd, Add(n) \/ RunToCompletion(n)
  PROVE  IInv'
<1> USE DEF Add, RunToCompletion
<1>1. queue' \in Seq(Task) /\ nextSequence' \in Nat /\ paused' = FALSE
  BY EnqueueType DEF IInv
<1>2. TypeOK'
  BY <1>1 DEF IInv, TypeOK, NotifyAll, dispatchVars, historyVars
<1>3. Counted'
  BY CountedFrame DEF dispatchVars
<1>4. PlanIsLocal' /\ DriverAgrees' /\ PausedIsQuiet'
  BY <1>1 DEF IInv, PlanIsLocal, DriverAgrees, PausedIsQuiet, dispatchVars
<1> QED
  BY <1>2, <1>3, <1>4 DEF IInv, Counted

\* With nothing reserved there is no plan.
LEMMA NothingReservedNoPlan ==
  ASSUME IInv, ~AnyReserved
  PROVE  plan = <<>>
<1>1. ASSUME NEW l \in Launchers
      PROVE  PlannedAt(l) = {}
  <2>1. reserved[l] = 0 /\ TypeOK
    BY DEF AnyReserved, IInv, TypeOK
  <2>2. Cardinality(PlannedAt(l)) = 0 /\ IsFiniteSet(PlannedAt(l))
    BY <2>1, LaunchedWithinPlan, CountsAreNaturals,
       PlannedAt(l) \in SUBSET (1 .. Len(plan)), Len(plan) \in Nat
       DEF IInv, ReservedByPlan, PlannedAt, TypeOK
  <2> QED
    BY <2>2, FS_EmptySet
<1>2. \A i \in DOMAIN plan : plan[i].launcher \in Launchers
  <2>1. \A i \in DOMAIN plan : plan[i] \in Unit
    BY DEF IInv, TypeOK
  <2> QED
    BY <2>1 DEF Unit
<1>3. DOMAIN plan = {}
  BY <1>1, <1>2 DEF PlannedAt
<1> QED
  BY <1>3 DEF IInv, TypeOK

LEMMA PauseIInv ==
  ASSUME IInv, Pause \/ PauseReturns
  PROVE  IInv'
<1>1. /\ UNCHANGED <<running, completed, reserved, nextSequence, closed, failed,
                     finished, dispatchVars, delivered, discarded, dropped>>
      /\ paused' \in BOOLEAN /\ dpc \in {"idle", "pause"} /\ ~closed
      /\ \/ PauseMayReturn /\ TakeQueue
         \/ dpc' = "pause" /\ Wait("driver") /\ UNCHANGED <<queue, handedBack>>
  BY DEF Pause, PauseReturns, IInv, TypeOK, DriverAgrees
<1>2. queue' \in Seq(Task) /\ handedBack' \in SUBSET Task /\ asleep' \in SUBSET {"driver", "dispatch"}
  <2>1. queue \in Seq(Task) /\ handedBack \in SUBSET Task /\ asleep \in SUBSET {"driver", "dispatch"}
    BY DEF IInv, TypeOK
  <2>2. Elements(queue) \in SUBSET Task
    BY <2>1 DEF Elements
  <2>3. CASE TakeQueue
    BY <2>1, <2>2, <2>3 DEF TakeQueue, NotifyAll
  <2>4. CASE Wait("driver") /\ UNCHANGED <<queue, handedBack>>
    BY <2>1, <2>4 DEF Wait
  <2> QED
    BY <1>1, <2>3, <2>4
<1>3. dpc' \in {"idle", "pause"}
  BY <1>1 DEF TakeQueue
<1>4. TypeOK'
  BY <1>1, <1>2, <1>3 DEF IInv, TypeOK, dispatchVars
<1>5. Counted'
  BY <1>1, CountedFrame DEF dispatchVars
<1>6. PlanIsLocal' /\ DriverAgrees'
  BY <1>1, <1>3 DEF IInv, PlanIsLocal, DriverAgrees, dispatchVars
<1>7. PausedIsQuiet'
  <2>1. CASE PauseMayReturn /\ TakeQueue
    <3>1. plan = <<>> /\ ~AnyReserved
      BY <2>1, NothingReservedNoPlan DEF PauseMayReturn
    <3> QED
      BY <1>1, <2>1, <3>1 DEF PausedIsQuiet, TakeQueue, AnyReserved, dispatchVars
  <2>2. CASE dpc' = "pause"
    BY <2>2 DEF PausedIsQuiet
  <2> QED
    BY <1>1, <2>1, <2>2
<1> QED
  BY <1>4, <1>5, <1>6, <1>7 DEF IInv, Counted

LEMMA DeliverIInv ==
  ASSUME IInv, TakeCompleted \/ TakeReturns \/ RunReturns
  PROVE  IInv'
<1>1. /\ Deliver /\ ~closed /\ ~failed
      /\ UNCHANGED <<queue, running, reserved, nextSequence, closed, failed,
                     asleep, finished, dispatchVars, handedBack, discarded,
                     dropped>>
      /\ paused' \in BOOLEAN
      /\ \/ dpc \in {"idle", "take", "drain"} /\ UNCHANGED paused
         \/ ~HasRemoteWork
  BY DEF TakeCompleted, TakeReturns, RunReturns, RunWaits, IInv, TypeOK, DriverAgrees
<1>2. TypeOK'
  BY <1>1 DEF IInv, TypeOK, Deliver, dispatchVars
<1>3. Counted'
  BY <1>1, CountedFrame DEF dispatchVars
<1>4. PlanIsLocal' /\ DriverAgrees'
  BY <1>1 DEF IInv, PlanIsLocal, DriverAgrees, Deliver, dispatchVars
<1>5. PausedIsQuiet'
  <2>1. CASE dpc \in {"idle", "take", "drain"} /\ UNCHANGED paused
    BY <1>1, <2>1 DEF IInv, PausedIsQuiet, Deliver, AnyReserved, dispatchVars
  <2>2. CASE ~HasRemoteWork
    <3>1. plan = <<>> /\ ~AnyReserved /\ queue = <<>>
      BY <2>2, NothingReservedNoPlan DEF HasRemoteWork
    <3> QED
      BY <1>1, <3>1 DEF PausedIsQuiet, AnyReserved, dispatchVars
  <2> QED
    BY <1>1, <2>1, <2>2
<1> QED
  BY <1>2, <1>3, <1>4, <1>5 DEF IInv, Counted

\* Waiting, waking up and raising change no more than the driver's place.
LEMMA WaitIInv ==
  ASSUME IInv, Raise \/ WaitAgain \/ \E call \in {"take", "drain"} : Block(call)
  PROVE  IInv'
<1>1. /\ UNCHANGED <<queue, running, completed, reserved, nextSequence, paused,
                     closed, failed, finished, dispatchVars, historyVars>>
      /\ asleep' \in SUBSET {"driver", "dispatch"}
      /\ ~closed
      /\ \/ failed /\ dpc' = "idle"
         \/ dpc' = dpc
         \/ dpc = "idle" /\ dpc' \in {"take", "drain"}
  BY DEF Raise, WaitAgain, Block, Wait, IInv, TypeOK, DriverAgrees
<1>2. TypeOK'
  BY <1>1 DEF IInv, TypeOK, dispatchVars, historyVars
<1>3. Counted'
  BY <1>1, CountedFrame DEF dispatchVars
<1>4. PlanIsLocal' /\ DriverAgrees' /\ PausedIsQuiet'
  BY <1>1 DEF IInv, PlanIsLocal, DriverAgrees, PausedIsQuiet, AnyReserved, dispatchVars
<1> QED
  BY <1>2, <1>3, <1>4 DEF IInv, Counted

LEMMA CloseIInv ==
  ASSUME IInv, Close \/ CloseDiscards
  PROVE  IInv'
<1>1. CASE Close
  <2>1. TypeOK'
    <3>1. Elements(queue) \in SUBSET Task
      BY DEF IInv, TypeOK, Elements
    <3> QED
      BY <1>1, <3>1 DEF Close, IInv, TypeOK, NotifyAll, dispatchVars
  <2>2. Counted'
    BY <1>1, CountedFrame DEF Close, dispatchVars
  <2>3. PlanIsLocal' /\ DriverAgrees' /\ PausedIsQuiet'
    BY <1>1 DEF Close, IInv, PlanIsLocal, DriverAgrees, PausedIsQuiet, dispatchVars
  <2> QED
    BY <2>1, <2>2, <2>3 DEF IInv, Counted
<1>2. CASE CloseDiscards
  <2>1. TypeOK'
    BY <1>2 DEF CloseDiscards, IInv, TypeOK, dispatchVars
  <2>2. UNCHANGED <<reserved, plan, tpc, launched, closed>> /\ running' = {}
    BY <1>2 DEF CloseDiscards, IInv, DriverAgrees, dispatchVars
  <2>3. Counted'
    BY <2>2, CountedFewerRunning
  <2>4. PlanIsLocal' /\ DriverAgrees' /\ PausedIsQuiet'
    BY <1>2, <2>2 DEF CloseDiscards, CloseMayDiscard, IInv, PlanIsLocal,
                      DriverAgrees, PausedIsQuiet
  <2> QED
    BY <2>1, <2>3, <2>4 DEF IInv, Counted
<1> QED
  BY <1>1, <1>2
-----------------------------------------------------------------------------
(***************************************************************************)
(* The dispatch thread's steps.                                            *)
(***************************************************************************)
LEMMA PlanIInv ==
  ASSUME IInv, PlanLaunches
  PROVE  IInv'
<1>1. Counted' /\ TypeOK'
  BY CountedPlan
<1>2. /\ ~paused /\ tpc' = "launch"
      /\ UNCHANGED <<paused, closed, dpc, running, completed>> /\ tpc = "top"
  BY DEF PlanLaunches
<1>3. PlanIsLocal' /\ DriverAgrees' /\ PausedIsQuiet'
  BY <1>2 DEF IInv, PlanIsLocal, DriverAgrees, PausedIsQuiet
<1> QED
  BY <1>1, <1>3 DEF IInv, Counted

LEMMA CommitIInv ==
  ASSUME IInv, CommitLaunches \/ AbortLaunches
  PROVE  IInv'
<1>1. /\ running' = running \cup LaunchedOfPlan /\ ReleaseReservations
      /\ plan' = <<>> /\ launched' = 0 /\ tpc' \in {"poll", "exit"} /\ asleep' = {}
      /\ tpc \in {"launch", "abort"}
      /\ UNCHANGED <<completed, nextSequence, closed, dpc, finished, snapshot,
                     ready, historyVars>>
      /\ paused' \in BOOLEAN /\ failed' \in BOOLEAN
  BY DEF CommitLaunches, AbortLaunches, NotifyAll, IInv, TypeOK
<1>2. Counted' /\ reserved' \in [Launchers -> Nat]
  BY <1>1, CountedCommit
<1>3. TypeOK /\ Len(plan) \in Nat /\ DOMAIN plan = 1 .. Len(plan)
      /\ \A i \in DOMAIN plan : plan[i] \in Unit
  BY DEF IInv, TypeOK
<1>4. running' \in SUBSET Unit
  BY <1>1, <1>3 DEF TypeOK, LaunchedOfPlan
<1>5. queue' \in Seq(Task)
  <2>1. Unlaunched \in Seq(Task)
    <3>1. launched \in Nat /\ launched <= Len(plan)
      BY <1>3 DEF TypeOK
    <3>2. \A i \in 1 .. Len(plan) - launched : plan[launched + i].sequence \in Task
      BY <3>1, <1>3 DEF Unit
    <3> QED
      BY <3>1, <3>2, <1>3 DEF Unlaunched
  <2>2. queue \in Seq(Task)
    BY <1>3 DEF TypeOK
  <2>3. CASE CommitLaunches
    BY <2>2, <2>3 DEF CommitLaunches
  <2>4. CASE AbortLaunches
    <3>1. queue' = Unlaunched \o queue
      BY <2>4 DEF AbortLaunches
    <3> HIDE DEF Unlaunched
    <3> QED
      BY <2>1, <2>2, <3>1
  <2> QED
    BY <2>3, <2>4
<1>6. TypeOK'
  <2>1. plan' \in Seq(Unit) /\ launched' \in 0 .. Len(plan')
    BY <1>1
  <2> QED
    BY <1>1, <1>2, <1>3, <1>4, <1>5, <2>1 DEF TypeOK, historyVars
<1>7. PlanIsLocal' /\ DriverAgrees'
  BY <1>1 DEF IInv, PlanIsLocal, DriverAgrees
<1>8. PausedIsQuiet'
  <2>1. CASE CommitLaunches
    <3>1. UNCHANGED <<paused, failed, queue, dpc>> /\ plan' = <<>>
      BY <2>1 DEF CommitLaunches
    <3>2. \A l \in Launchers : PlannedAt(l)' = {}
      BY <3>1 DEF PlannedAt
    <3>3. AnyReserved' = FALSE
      BY <3>2, <1>2, FS_EmptySet DEF AnyReserved, Counted, ReservedByPlan
    <3> QED
      BY <3>1, <3>3 DEF IInv, PausedIsQuiet
  <2>2. CASE AbortLaunches
    BY <2>2 DEF AbortLaunches, PausedIsQuiet
  <2> QED
    BY <2>1, <2>2
<1> QED
  BY <1>2, <1>6, <1>7, <1>8 DEF IInv, Counted

LEMMA MoveIInv ==
  ASSUME IInv, MoveReady
  PROVE  IInv'
<1>1. TypeOK'
  BY DEF MoveReady, NotifyAll, IInv, TypeOK, historyVars
<1>2. Counted'
  BY CountedFewerRunning DEF MoveReady
<1>3. PlanIsLocal' /\ DriverAgrees' /\ PausedIsQuiet'
  BY DEF MoveReady, IInv, PlanIsLocal, DriverAgrees, PausedIsQuiet, AnyReserved
<1> QED
  BY <1>1, <1>2, <1>3 DEF IInv, Counted

\* The remaining steps of the dispatch thread only move it along.
LEMMA DispatchMovesIInv ==
  ASSUME IInv,
         \/ Exit \/ PollOrWait \/ LaunchNext \/ LaunchRaises
         \/ Poll \/ PollRaises \/ RecordFailure
  PROVE  IInv'
<1> DEFINE Frame == UNCHANGED <<queue, running, completed, reserved, nextSequence,
                               closed, dpc, finished, plan, historyVars>>
           Types == /\ launched' \in 0 .. Len(plan)
                    /\ asleep' \in SUBSET {"driver", "dispatch"}
                    /\ snapshot' \in SUBSET Unit /\ ready' \in SUBSET Unit
           Flags == \/ UNCHANGED <<paused, failed>>
                    \/ paused' = TRUE /\ failed' = TRUE
           Place == \/ tpc \in {"launch", "abort"} /\ tpc' \in {"launch", "abort"}
                    \/ /\ tpc \notin {"launch", "abort", "exit"}
                       /\ UNCHANGED launched
                       /\ tpc' \in {"top", "poll", "move", "fail", "exit"}
<1>1. Frame /\ Types /\ Flags /\ Place
  <2>1. /\ running \in SUBSET Unit /\ snapshot \in SUBSET Unit
        /\ ready \in SUBSET Unit /\ asleep \in SUBSET {"driver", "dispatch"}
        /\ launched \in 0 .. Len(plan) /\ Len(plan) \in Nat
    BY DEF IInv, TypeOK
  <2>2. CASE Exit
    BY <2>1, <2>2 DEF Exit, historyVars
  <2>3. CASE PollOrWait
    BY <2>1, <2>3 DEF PollOrWait, Wait, historyVars
  <2>4. CASE LaunchNext
    BY <2>1, <2>4 DEF LaunchNext, historyVars
  <2>5. CASE LaunchRaises
    BY <2>1, <2>5 DEF LaunchRaises, historyVars
  <2>6. CASE Poll
    BY <2>1, <2>6 DEF Poll, historyVars
  <2>7. CASE PollRaises
    BY <2>1, <2>7 DEF PollRaises, historyVars
  <2>8. CASE RecordFailure
    BY <2>1, <2>8 DEF RecordFailure, NotifyAll, historyVars
  <2> QED
    BY <2>2, <2>3, <2>4, <2>5, <2>6, <2>7, <2>8
<1>2. TypeOK'
  BY <1>1 DEF IInv, TypeOK, historyVars
<1>3. Counted'
  BY <1>1, CountedFrame
<1>4. PlanIsLocal' /\ DriverAgrees' /\ PausedIsQuiet'
  BY <1>1 DEF IInv, PlanIsLocal, DriverAgrees, PausedIsQuiet, AnyReserved
<1> QED
  BY <1>2, <1>3, <1>4 DEF IInv, Counted

LEMMA FinishIInv ==
  ASSUME IInv, NEW u \in Remote, Finish(u)
  PROVE  IInv'
<1>1. u \in Unit
  <2>1. TypeOK /\ \A i \in DOMAIN plan : plan[i] \in Unit
    BY DEF IInv, TypeOK
  <2> QED
    BY <2>1 DEF Remote, LaunchedOfPlan, TypeOK
<1>2. TypeOK'
  BY <1>1 DEF Finish, IInv, TypeOK, dispatchVars, historyVars
<1>3. Counted'
  BY CountedFrame DEF Finish, dispatchVars
<1>4. PlanIsLocal' /\ DriverAgrees' /\ PausedIsQuiet'
  BY DEF Finish, IInv, PlanIsLocal, DriverAgrees, PausedIsQuiet, AnyReserved, dispatchVars
<1> QED
  BY <1>2, <1>3, <1>4 DEF IInv, Counted

LEMMA StutterIInv ==
  ASSUME IInv, UNCHANGED vars
  PROVE  IInv'
<1>1. TypeOK'
  BY DEF vars, IInv, TypeOK, dispatchVars, historyVars
<1>2. Counted'
  BY CountedFrame DEF vars, dispatchVars
<1>3. PlanIsLocal' /\ DriverAgrees' /\ PausedIsQuiet'
  BY DEF vars, IInv, PlanIsLocal, DriverAgrees, PausedIsQuiet, AnyReserved, dispatchVars
<1> QED
  BY <1>1, <1>2, <1>3 DEF IInv, Counted

LEMMA NextIInv == IInv /\ [Next]_vars => IInv'
<1> SUFFICES ASSUME IInv, [Next]_vars PROVE IInv'
  OBVIOUS
<1>1. CASE Driver
  BY <1>1, AddIInv, PauseIInv, DeliverIInv, WaitIInv, CloseIInv DEF Driver
<1>2. CASE Dispatch
  BY <1>2, PlanIInv, CommitIInv, MoveIInv, DispatchMovesIInv DEF Dispatch
<1>3. CASE Engines
  BY <1>3, FinishIInv DEF Engines
<1>4. CASE UNCHANGED vars
  BY <1>4, StutterIInv
<1> QED
  BY <1>1, <1>2, <1>3, <1>4 DEF Next

-----------------------------------------------------------------------------
\* The invariant holds throughout; the theorems below read it off.
THEOREM InvariantHolds == Spec => []IInv
<1>1. Init => IInv
  BY InitIInv
<1>2. IInv /\ [Next]_vars => IInv'
  BY NextIInv
<1> QED
  BY <1>1, <1>2, PTL DEF Spec

\* Every variable keeps its type: in particular no reservation count of
\* _execute_launches goes below zero, on success or after a failed launch.
THEOREM TypeCorrect == Spec => []TypeOK
<1>1. IInv => TypeOK
  BY DEF IInv
<1> QED
  BY <1>1, InvariantHolds, PTL

\* No launcher ever holds more calls than its capacity, counting the calls of
\* a plan under way: what _plan_launches reserves bridges its unlocked launches.
THEOREM CapacityIsRespected == Spec => []CapacityRespected
<1>1. IInv => CapacityRespected
  <2> SUFFICES ASSUME IInv, NEW l \in Launchers
               PROVE  /\ Cardinality(At(l, Remote)) <= Capacity[l]
                      /\ Load(l) <= Capacity[l]
    BY DEF CapacityRespected
  <2>1. /\ Cardinality(At(l, Remote)) \in Nat
        /\ Cardinality(At(l, Remote)) <= Load(l)
    BY RemoteWithinLoad
  <2>2. Load(l) <= Capacity[l] /\ Capacity[l] \in Nat /\ Load(l) \in Int
    <3>1. IsFiniteSet(running) /\ reserved[l] \in Nat
      BY DEF IInv, TypeOK
    <3> QED
      BY <3>1, AtIsFinite, PoolAssumption DEF IInv, LoadBounded, Load
  <2> QED
    BY <2>1, <2>2
<1> QED
  BY <1>1, InvariantHolds, PTL

\* When pause has returned, and until the next submission, the pool holds no
\* queued task and no launch under way.
THEOREM PauseQuietens == Spec => []PausedIsQuiet
<1>1. IInv => PausedIsQuiet
  BY DEF IInv
<1> QED
  BY <1>1, InvariantHolds, PTL

\* After close nothing runs: the dispatch thread has ended and every launched
\* unit was delivered or discarded.
THEOREM CloseReleases == Spec => []CloseLeavesNothing
<1>1. IInv => CloseLeavesNothing
  <2> SUFFICES ASSUME IInv, dpc = "closed"
               PROVE  tpc = "exit" /\ Remote = {} /\ completed = {} /\ ~AnyReserved
    BY DEF CloseLeavesNothing
  <2>1. tpc = "exit" /\ running = {} /\ completed = {} /\ plan = <<>>
    BY DEF IInv, DriverAgrees, PlanIsLocal
  <2>2. Remote = {}
    BY <2>1 DEF Remote, LaunchedOfPlan
  <2>3. \A l \in Launchers : PlannedAt(l) = {}
    BY <2>1 DEF PlannedAt
  <2>4. ~AnyReserved
    BY <2>3, FS_EmptySet DEF AnyReserved, IInv, ReservedByPlan
  <2> QED
    BY <2>1, <2>2, <2>4
<1> QED
  BY <1>1, InvariantHolds, PTL
-----------------------------------------------------------------------------
(***************************************************************************)
(* Who sleeps.  That the two threads never wait for each other is not      *)
(* inductive: it follows from what each of them waits for.                 *)
(***************************************************************************)
DriverWaits == "driver" \in asleep => ~failed /\ StillWaits(dpc)

DispatchWaits ==
  "dispatch" \in asleep =>
    /\ tpc = "top" /\ ~failed /\ ~closed
    /\ running = {} /\ NothingToPlan

\* run_to_completion has lifted the pause, and nobody else sets it meanwhile.
RunLiftsPause == dpc = "run" /\ ~failed => ~paused

Sleepers == DriverWaits /\ DispatchWaits /\ RunLiftsPause

\* A plan holds at least one reservation.
PlanIsReserved == plan # <<>> => AnyReserved

LEMMA PlansReserve == IInv => PlanIsReserved
  BY NothingReservedNoPlan DEF PlanIsReserved

LEMMA DriverSleepers ==
  ASSUME IInv, Sleepers, Driver
  PROVE  Sleepers'
<1> USE DEF Sleepers, DriverWaits, DispatchWaits, RunLiftsPause
<1>1. ASSUME NEW n \in 1 .. MaxAdd, Add(n) \/ RunToCompletion(n)
      PROVE  Sleepers'
  <2>1. asleep' \in {{}, {"driver"}} /\ paused' = FALSE
    BY <1>1 DEF Add, RunToCompletion, NotifyAll, Enqueue
  <2>2. CASE Add(n)
    BY <1>1, <2>1, <2>2 DEF Add, NotifyAll
  <2>3. CASE RunToCompletion(n)
    <3>1. queue' # <<>>
      <4>1. Len(NewTasks(n)) = n /\ n \in Nat \ {0}
        BY PoolAssumption DEF NewTasks
      <4>2. queue \in Seq(Task) /\ NewTasks(n) \in Seq(Task)
        BY PoolAssumption DEF IInv, TypeOK, NewTasks, Task
      <4>3. queue' = queue \o NewTasks(n)
        BY <2>3 DEF RunToCompletion, Enqueue
      <4> HIDE DEF NewTasks
      <4>4. Len(queue') = Len(queue) + Len(NewTasks(n)) /\ Len(queue) \in Nat
        BY <4>2, <4>3
      <4> QED
        BY <4>1, <4>4
    <3> QED
      BY <2>1, <2>3, <3>1 DEF RunToCompletion, StillWaits, RunWaits, HasRemoteWork
  <2> QED
    BY <1>1, <2>2, <2>3
<1>2. CASE \E call \in {"take", "drain"} : Block(call)
  BY <1>2 DEF Block, Wait, StillWaits, TakeWaits, DrainWaits, PauseMayReturn, AnyReserved,
              HasRemoteWork, NothingToPlan, HasRoom, Free, Load, At, dispatchVars
<1>3. CASE Pause
  BY <1>3 DEF Pause, TakeQueue, NotifyAll, Wait, StillWaits, PauseMayReturn, AnyReserved,
              NothingToPlan, dispatchVars
<1>4. CASE PauseReturns
  BY <1>4 DEF PauseReturns, TakeQueue, NotifyAll
<1>5. CASE TakeCompleted \/ TakeReturns \/ RunReturns
  <2>1. /\ Deliver /\ "driver" \notin asleep
        /\ UNCHANGED <<queue, running, reserved, closed, failed, asleep, tpc>>
        /\ paused' = paused \/ paused' = TRUE
    BY <1>5 DEF TakeCompleted, TakeReturns, RunReturns, StillWaits, dispatchVars
  <2> QED
    BY <2>1 DEF Deliver, NothingToPlan, HasRoom, Free, Load, At
<1>6. CASE WaitAgain
  BY <1>6 DEF WaitAgain, Wait, StillWaits, TakeWaits, DrainWaits, RunWaits, PauseMayReturn,
              AnyReserved, HasRemoteWork, NothingToPlan, HasRoom, Free, Load, At, dispatchVars
<1>7. CASE Raise
  BY <1>7 DEF Raise
<1>8. CASE Close
  BY <1>8 DEF Close, NotifyAll
<1>9. CASE CloseDiscards
  <2>1. "driver" \notin asleep
    BY <1>9 DEF CloseDiscards, StillWaits
  <2>2. "dispatch" \notin asleep
    BY <1>9 DEF CloseDiscards, CloseMayDiscard
  <2> QED
    BY <1>9, <2>1, <2>2 DEF CloseDiscards
<1> QED
  BY <1>1, <1>2, <1>3, <1>4, <1>5, <1>6, <1>7, <1>8, <1>9 DEF Driver

LEMMA DispatchSleepers ==
  ASSUME IInv, Sleepers, PlanIsReserved', Dispatch
  PROVE  Sleepers'
<1> USE DEF Sleepers, DriverWaits, DispatchWaits, RunLiftsPause
<1>1. CASE CommitLaunches \/ AbortLaunches \/ RecordFailure \/ MoveReady
  BY <1>1 DEF CommitLaunches, AbortLaunches, RecordFailure, MoveReady, NotifyAll
<1>2. CASE PlanLaunches
  <2>1. "dispatch" \notin asleep' /\ UNCHANGED <<asleep, failed, paused, dpc, completed, running>>
    BY <1>2 DEF PlanLaunches
  <2>2. plan' # <<>>
    <3>1. PICK p \in Assignments :
            p # <<>> /\ plan' = [i \in 1 .. Len(p) |-> [sequence |-> queue[i], launcher |-> p[i]]]
      BY <1>2 DEF PlanLaunches
    <3>2. p \in Seq(Launchers)
      BY <3>1 DEF Assignments
    <3>3. Len(p) # 0 /\ Len(p) \in Nat
      BY <3>1, <3>2
    <3>4. Len(plan') = Len(p)
      BY <3>1, <3>3
    <3> QED
      BY <3>3, <3>4
  <2>3. AnyReserved'
    BY <2>2 DEF PlanIsReserved
  <2>4. paused' = FALSE
    BY <1>2 DEF PlanLaunches
  <2>5. "driver" \in asleep' => StillWaits(dpc)'
    <3>1. tpc = "top" /\ plan = <<>>
      BY <1>2 DEF PlanLaunches, IInv, PlanIsLocal
    <3>2. \A l \in Launchers : reserved[l] = 0
      <4>1. \A l \in Launchers : PlannedAt(l) = {}
        BY <3>1 DEF PlannedAt
      <4> QED
        BY <4>1, FS_EmptySet DEF IInv, ReservedByPlan
    <3>3. ~AnyReserved
      BY <3>2 DEF AnyReserved
    <3> HIDE DEF AnyReserved
    <3> QED
      BY <2>1, <2>3, <3>3 DEF StillWaits, TakeWaits, DrainWaits, RunWaits, PauseMayReturn, HasRemoteWork
  <2> QED
    BY <2>1, <2>4, <2>5
<1>3. CASE Exit \/ PollOrWait \/ LaunchNext \/ LaunchRaises \/ Poll \/ PollRaises
  <2>1. UNCHANGED <<queue, running, completed, reserved, paused, closed, failed, dpc>>
    BY <1>3 DEF Exit, PollOrWait, LaunchNext, LaunchRaises, Poll, PollRaises
  <2>2. \/ UNCHANGED asleep /\ "dispatch" \notin asleep
        \/ PollOrWait
    BY <1>3 DEF Exit, LaunchNext, LaunchRaises, Poll, PollRaises
  <2>3. UNCHANGED <<asleep, tpc>> \/ "dispatch" \notin asleep' \/ PollOrWait
    BY <2>2
  <2>4. NothingToPlan' = NothingToPlan /\ StillWaits(dpc)' = StillWaits(dpc)
    BY <2>1 DEF NothingToPlan, HasRoom, Free, Load, At, StillWaits, TakeWaits, DrainWaits, RunWaits,
                PauseMayReturn, AnyReserved, HasRemoteWork
  <2>5. CASE PollOrWait
    BY <2>1, <2>4, <2>5 DEF PollOrWait, Wait
  <2>6. CASE UNCHANGED asleep /\ "dispatch" \notin asleep
    BY <2>1, <2>4, <2>6
  <2> QED
    BY <2>2, <2>5, <2>6
<1> QED
  BY <1>1, <1>2, <1>3 DEF Dispatch

LEMMA OtherSleepers ==
  ASSUME Sleepers, Engines \/ UNCHANGED vars
  PROVE  Sleepers'
<1>1. UNCHANGED <<queue, running, completed, reserved, paused, closed, failed, asleep, dpc, tpc>>
  BY DEF Engines, Finish, vars, dispatchVars
<1>2. NothingToPlan' = NothingToPlan /\ StillWaits(dpc)' = StillWaits(dpc)
  BY <1>1 DEF NothingToPlan, HasRoom, Free, Load, At, StillWaits, TakeWaits, DrainWaits, RunWaits,
              PauseMayReturn, AnyReserved, HasRemoteWork
<1> QED
  BY <1>1, <1>2 DEF Sleepers, DriverWaits, DispatchWaits, RunLiftsPause

\* The driver waits for the dispatch thread only while that one has work.
LEMMA NeverBothAsleep ==
  ASSUME IInv, Sleepers, "driver" \in asleep, "dispatch" \in asleep
  PROVE  FALSE
<1>1. tpc = "top" /\ running = {} /\ NothingToPlan /\ StillWaits(dpc) /\ ~failed
  BY DEF Sleepers, DriverWaits, DispatchWaits
<1>2. \A l \in Launchers : reserved[l] = 0
  <2>1. plan = <<>>
    BY <1>1 DEF IInv, PlanIsLocal
  <2>2. \A l \in Launchers : PlannedAt(l) = {}
    BY <2>1 DEF PlannedAt
  <2> QED
    BY <2>2, FS_EmptySet DEF IInv, ReservedByPlan
<1>3. ~AnyReserved
  BY <1>2 DEF AnyReserved
<1>4. dpc \in {"take", "run"} /\ queue # <<>>
  BY <1>1, <1>3 DEF StillWaits, TakeWaits, DrainWaits, RunWaits, PauseMayReturn, HasRemoteWork
<1>5. ~paused
  BY <1>1, <1>4 DEF Sleepers, RunLiftsPause, IInv, PausedIsQuiet
<1>6. 0 \in Launchers /\ ~HasRoom(0, <<>>, 1)
  BY <1>1, <1>4, <1>5, PoolAssumption DEF NothingToPlan, Launchers
<1>7. At(0, running) = {}
  BY <1>1 DEF At
<1>8. {j \in DOMAIN <<>> : j < 1 /\ <<>>[j] = 0} = {}
  OBVIOUS
<1>9. Load(0) = 0
  BY <1>2, <1>6, <1>7, FS_EmptySet DEF Load
<1>10. Capacity[0] \in Nat \ {0}
  BY <1>6, PoolAssumption
<1> QED
  BY <1>6, <1>8, <1>9, <1>10, FS_EmptySet DEF HasRoom, Free

\* No wake-up of the Condition is lost, and the driver and the dispatch thread
\* never sleep both: what BlockedCallsReturn rests on, for any number of launchers.
THEOREM WakeUpsArrive == Spec => []NoWakeUpLost
<1>1. Init => Sleepers
  BY DEF Init, Sleepers, DriverWaits, DispatchWaits, RunLiftsPause
<1>2. IInv /\ IInv' /\ Sleepers /\ [Next]_vars => Sleepers'
  <2>1. IInv' => PlanIsReserved'
    BY PlansReserve, PTL
  <2>2. IInv /\ Sleepers /\ Driver => Sleepers'
    BY DriverSleepers
  <2>3. IInv /\ Sleepers /\ PlanIsReserved' /\ Dispatch => Sleepers'
    BY DispatchSleepers
  <2>4. Sleepers /\ (Engines \/ UNCHANGED vars) => Sleepers'
    BY OtherSleepers
  <2> QED
    BY <2>1, <2>2, <2>3, <2>4 DEF Next
<1>3. IInv /\ Sleepers => NoWakeUpLost
  BY NeverBothAsleep DEF NoWakeUpLost, Sleepers, DriverWaits, DispatchWaits
<1> QED
  BY <1>1, <1>2, <1>3, InvariantHolds, PTL DEF Spec

-----------------------------------------------------------------------------
(***************************************************************************)
(* The places of the tasks.  Those of the plan and those of the queue      *)
(* stand in one line, from which they leave at the front (launched), all   *)
(* at once (handed back) or from the queue on (dropped), and to the front  *)
(* of which a failed plan returns.  What has left the line is out: in one  *)
(* of four sets of units.                                                  *)
(***************************************************************************)
Length == Len(plan) + Len(queue)

\* The i-th task of the line.
Line(i) == IF i <= Len(plan) THEN plan[i].sequence ELSE queue[i - Len(plan)]

Out  == UNION {running, completed, delivered, discarded}
Gone == handedBack \cup dropped

LineInOrder == \A i, j \in 1 .. Length : i < j => Line(i) < Line(j)
OutBefore   == \A u \in Out : \A i \in 1 .. Length : u.sequence < Line(i)

\* No two units are of one task, and none is in two sets.
OutOnce == \A u, v \in Out : u.sequence = v.sequence => u = v
OutApart ==
  /\ running \cap completed = {} /\ running \cap delivered = {}
  /\ running \cap discarded = {} /\ completed \cap delivered = {}
  /\ completed \cap discarded = {} /\ delivered \cap discarded = {}

GoneApart ==
  /\ handedBack \cap dropped = {}
  /\ \A u \in Out : u.sequence \notin Gone
  /\ \A i \in 1 .. Length : Line(i) \notin Gone

InLine(t) == \E i \in 1 .. Length : Line(i) = t
IsOut(t)  == \E u \in Out : u.sequence = t

\* The tasks somewhere are those submitted.
Accounted == \A t \in Nat : t < nextSequence <=> InLine(t) \/ IsOut(t) \/ t \in Gone

Placed == LineInOrder /\ OutBefore /\ OutOnce /\ OutApart /\ GoneApart /\ Accounted

-----------------------------------------------------------------------------
\* What the type invariant says of the line and of the units that are out.
LEMMA LineTyped ==
  ASSUME TypeOK
  PROVE  /\ Len(plan) \in Nat /\ Len(queue) \in Nat /\ Length \in Nat
         /\ \A i \in 1 .. Length : Line(i) \in Nat
         /\ \A u \in Out : u.sequence \in Nat
         /\ nextSequence \in Nat
<1>1. Len(plan) \in Nat /\ Len(queue) \in Nat /\ Length \in Nat /\ nextSequence \in Nat
  BY DEF TypeOK, Length
<1>2. ASSUME NEW i \in 1 .. Length
      PROVE  Line(i) \in Nat
  <2>1. CASE i <= Len(plan)
    <3>1. plan[i] \in Unit
      BY <1>1, <1>2, <2>1 DEF TypeOK
    <3> QED
      BY <3>1, <2>1 DEF Line, Unit, Task
  <2>2. CASE i > Len(plan)
    <3>1. i - Len(plan) \in 1 .. Len(queue)
      BY <1>1, <1>2, <2>2 DEF Length
    <3>2. queue[i - Len(plan)] \in Nat
      BY <3>1 DEF TypeOK, Task
    <3> QED
      BY <1>1, <3>2, <2>2 DEF Line
  <2> QED
    BY <1>1, <2>1, <2>2
<1>3. ASSUME NEW u \in Out
      PROVE  u.sequence \in Nat
  <2>1. u \in Unit
    BY DEF TypeOK, Out
  <2> QED
    BY <2>1 DEF Unit, Task
<1> QED
  BY <1>1, <1>2, <1>3

\* The two parts of the line.
LEMMA LineParts ==
  ASSUME TypeOK
  PROVE  /\ \A i \in 1 .. Len(plan) : i \in 1 .. Length /\ plan[i].sequence = Line(i)
         /\ \A k \in 1 .. Len(queue) :
              Len(plan) + k \in 1 .. Length /\ queue[k] = Line(Len(plan) + k)
         /\ \A i \in 1 .. Length : i > Len(plan) =>
              i - Len(plan) \in 1 .. Len(queue) /\ Line(i) = queue[i - Len(plan)]
<1> Len(plan) \in Nat /\ Len(queue) \in Nat
  BY LineTyped
<1> QED
  BY DEF Length, Line

-----------------------------------------------------------------------------
\* Units that move from set to set, and everything that touches neither the line
\* nor the units.
LEMMA MovesPlaced ==
  ASSUME Placed, Out' = Out, OutApart',
         UNCHANGED <<queue, plan, nextSequence, handedBack, dropped>>
  PROVE  Placed'
<1>1. Length' = Length /\ Gone' = Gone
  BY DEF Length, Gone
<1>2. ASSUME NEW i
      PROVE  Line(i)' = Line(i)
  BY DEF Line
<1>3. LineInOrder' /\ OutBefore' /\ OutOnce' /\ GoneApart'
  BY <1>1, <1>2 DEF Placed, LineInOrder, OutBefore, OutOnce, GoneApart
<1>4. Accounted'
  <2>1. ASSUME NEW t
        PROVE  (InLine(t)' <=> InLine(t)) /\ (IsOut(t)' <=> IsOut(t))
    BY <1>1, <1>2 DEF InLine, IsOut
  <2> QED
    BY <2>1, <1>1 DEF Placed, Accounted
<1> QED
  BY <1>3, <1>4 DEF Placed

\* Submitted tasks join the end of the line, with larger numbers.
LEMMA EnqueuePlaced ==
  ASSUME TypeOK, TypeOK', Placed, NEW n \in 1 .. MaxAdd, Enqueue(n),
         UNCHANGED <<plan, running, completed, historyVars>>
  PROVE  Placed'
<1>1. /\ n \in Nat /\ nextSequence \in Nat /\ nextSequence' = nextSequence + n
      /\ Len(plan) \in Nat /\ Len(queue) \in Nat /\ Length \in Nat
      /\ \A i \in 1 .. Length : Line(i) \in Nat
      /\ \A u \in Out : u.sequence \in Nat
      /\ plan' = plan
  BY PoolAssumption, LineTyped DEF Enqueue
<1>2. Out' = Out /\ Gone' = Gone /\ OutApart' /\ OutOnce' /\ (handedBack \cap dropped)' = {}
  BY DEF Placed, Out, Gone, OutApart, OutOnce, GoneApart, historyVars
<1>3. /\ Len(queue') = Len(queue) + n
      /\ \A k \in 1 .. Len(queue) : queue'[k] = queue[k]
      /\ \A k \in 1 .. n : queue'[Len(queue) + k] = nextSequence + k - 1
  <2>1. /\ NewTasks(n) \in Seq(Task) /\ Len(NewTasks(n)) = n
        /\ \A k \in 1 .. n : NewTasks(n)[k] = nextSequence + k - 1
    BY <1>1 DEF NewTasks, Task
  <2>2. queue \in Seq(Task) /\ queue' = queue \o NewTasks(n)
    BY DEF TypeOK, Enqueue
  <2>3. /\ Len(queue') = Len(queue) + n
        /\ \A k \in 1 .. Len(queue) + n :
             queue'[k] = IF k <= Len(queue) THEN queue[k] ELSE NewTasks(n)[k - Len(queue)]
    BY <2>1, <2>2, ConcatProperties
  <2>4. ASSUME NEW k \in 1 .. n
        PROVE  /\ Len(queue) + k \in 1 .. Len(queue) + n
               /\ ~(Len(queue) + k <= Len(queue)) /\ (Len(queue) + k) - Len(queue) = k
    BY <1>1
  <2>5. ASSUME NEW k \in 1 .. Len(queue)
        PROVE  k \in 1 .. Len(queue) + n /\ k <= Len(queue)
    BY <1>1
  <2> QED
    BY <2>1, <2>3, <2>4, <2>5
<1>4. Length' = Length + n
  BY <1>1, <1>3 DEF Length
<1>5. ASSUME NEW i \in 1 .. Length
      PROVE  Line(i)' = Line(i) /\ Line(i) < nextSequence
  <2>1. Line(i)' = Line(i)
    <3>1. CASE i <= Len(plan)
      BY <3>1, <1>1 DEF Line
    <3>2. CASE i > Len(plan)
      <4>1. i - Len(plan) \in 1 .. Len(queue)
        BY <3>2, <1>1 DEF Length
      <4>2. queue'[i - Len(plan)] = queue[i - Len(plan)]
        BY <4>1, <1>3
      <4> QED
        BY <4>2, <3>2, <1>1 DEF Line
    <3> QED
      BY <3>1, <3>2, <1>1
  <2>2. Line(i) < nextSequence
    BY <1>1 DEF Placed, Accounted, InLine
  <2> QED
    BY <2>1, <2>2
<1>6. ASSUME NEW i \in 1 .. Length', i > Length
      PROVE  Line(i)' = nextSequence + (i - Length) - 1
  <2>1. /\ i - Length \in 1 .. n /\ i > Len(plan)
        /\ i - Len(plan) = Len(queue) + (i - Length)
    BY <1>1, <1>4, <1>6 DEF Length
  <2>2. Line(i)' = queue'[i - Len(plan)]
    BY <2>1, <1>1 DEF Line
  <2> QED
    BY <2>1, <2>2, <1>3
<1>7. LineInOrder'
  <2>1. ASSUME NEW i \in 1 .. Length', NEW j \in 1 .. Length', i < j
        PROVE  Line(i)' < Line(j)'
    <3>1. CASE j <= Length
      <4>1. i \in 1 .. Length /\ j \in 1 .. Length
        BY <2>1, <3>1, <1>1, <1>4
      <4> QED
        BY <4>1, <2>1, <1>5 DEF Placed, LineInOrder
    <3>2. CASE i <= Length /\ j > Length
      <4>1. i \in 1 .. Length /\ Line(i) \in Nat
        BY <3>2, <1>1, <1>4
      <4> QED
        BY <4>1, <3>2, <1>1, <1>4, <1>5, <1>6
    <3>3. CASE i > Length
      BY <2>1, <3>3, <1>1, <1>4, <1>6
    <3> QED
      BY <3>1, <3>2, <3>3, <1>1, <1>4
  <2> QED
    BY <2>1 DEF LineInOrder
<1>8. ASSUME NEW t \in Nat, IsOut(t) \/ t \in Gone
      PROVE  t < nextSequence
  BY <1>8 DEF Placed, Accounted
<1>9. OutBefore'
  <2>1. ASSUME NEW u \in Out, NEW i \in 1 .. Length'
        PROVE  u.sequence < Line(i)'
    <3>1. u.sequence \in Nat /\ u.sequence < nextSequence
      BY <1>1, <1>8 DEF IsOut
    <3>2. CASE i <= Length
      <4>1. i \in 1 .. Length
        BY <3>2, <1>1, <1>4
      <4> QED
        BY <4>1, <1>5 DEF Placed, OutBefore
    <3>3. CASE i > Length
      BY <3>1, <3>3, <1>1, <1>4, <1>6
    <3> QED
      BY <3>2, <3>3, <1>1, <1>4
  <2> QED
    BY <2>1, <1>2 DEF OutBefore
<1>10. GoneApart'
  <2>1. ASSUME NEW i \in 1 .. Length', Line(i)' \in Gone
        PROVE  FALSE
    <3>1. CASE i <= Length
      <4>1. i \in 1 .. Length
        BY <3>1, <1>1, <1>4
      <4> QED
        BY <4>1, <2>1, <1>5 DEF Placed, GoneApart
    <3>2. CASE i > Length
      <4>1. Line(i)' \in Nat /\ Line(i)' >= nextSequence
        BY <3>2, <1>1, <1>4, <1>6
      <4> QED
        BY <4>1, <2>1, <1>1, <1>8
    <3> QED
      BY <3>1, <3>2, <1>1, <1>4
  <2> QED
    BY <2>1, <1>2 DEF Placed, GoneApart
<1>11. Accounted'
  <2>1. SUFFICES ASSUME NEW t \in Nat
                 PROVE  t < nextSequence + n <=> InLine(t)' \/ IsOut(t) \/ t \in Gone
    BY <1>1, <1>2 DEF Accounted, IsOut
  <2>2. InLine(t) => InLine(t)'
    <3>1. \A i \in 1 .. Length : i \in 1 .. Length'
      BY <1>1, <1>4
    <3> QED
      BY <3>1, <1>5 DEF InLine
  <2>3. nextSequence <= t /\ t < nextSequence + n => InLine(t)'
    <3>1. SUFFICES ASSUME nextSequence <= t, t < nextSequence + n
                   PROVE  \E i \in 1 .. Length' : Line(i)' = t
      BY DEF InLine
    <3> DEFINE i == Length + (t - nextSequence) + 1
    <3>2. i \in 1 .. Length' /\ i > Length
      BY <3>1, <1>1, <1>4
    <3>3. \A k \in 1 .. Length' : k = i => Line(k)' = t
      BY <3>1, <3>2, <1>1, <1>6
    <3> QED
      BY <3>2, <3>3
  <2>4. InLine(t)' => t < nextSequence + n
    <3>1. SUFFICES ASSUME NEW i \in 1 .. Length', Line(i)' = t
                   PROVE  t < nextSequence + n
      BY DEF InLine
    <3>2. CASE i <= Length
      <4>1. i \in 1 .. Length
        BY <3>2, <1>1, <1>4
      <4> QED
        BY <4>1, <3>1, <1>1, <1>5
    <3>3. CASE i > Length
      BY <3>1, <3>3, <1>1, <1>4, <1>6
    <3> QED
      BY <3>2, <3>3, <1>1, <1>4
  <2>5. t < nextSequence <=> InLine(t) \/ IsOut(t) \/ t \in Gone
    BY DEF Placed, Accounted
  <2> QED
    BY <2>2, <2>3, <2>4, <2>5, <1>1
<1> QED
  BY <1>2, <1>7, <1>9, <1>10, <1>11 DEF Placed

\* The queue leaves the line, to whom pause hands it back or as close drops it.
LEMMA QueueLeavesPlaced ==
  ASSUME TypeOK, Placed, queue' = <<>>,
         UNCHANGED <<plan, nextSequence, running, completed, delivered, discarded>>,
         \/ handedBack' = handedBack \cup Elements(queue) /\ dropped' = dropped
         \/ dropped' = dropped \cup Elements(queue) /\ handedBack' = handedBack
  PROVE  Placed'
<1> USE DEF Placed
<1>1. /\ Len(plan) \in Nat /\ Len(queue) \in Nat /\ Length \in Nat
      /\ Length = Len(plan) + Len(queue) /\ Length' = Len(plan)
      /\ plan' = plan /\ nextSequence' = nextSequence
  BY LineTyped DEF Length
<1>2. Out' = Out /\ OutApart' /\ OutOnce' /\ Gone' = Gone \cup Elements(queue)
  BY DEF Out, OutApart, OutOnce, Gone
<1>3. ASSUME NEW i \in 1 .. Length'
      PROVE  i \in 1 .. Length /\ Line(i)' = Line(i) /\ i <= Len(plan)
  BY <1>1 DEF Line
<1>4. ASSUME NEW t \in Elements(queue)
      PROVE  \E i \in 1 .. Length : i > Len(plan) /\ Line(i) = t
  <2>1. PICK k \in 1 .. Len(queue) : t = queue[k]
    BY DEF Elements, TypeOK
  <2>2. /\ Len(plan) + k \in 1 .. Length /\ Len(plan) + k > Len(plan)
        /\ queue[k] = Line(Len(plan) + k)
    BY <1>1, LineParts
  <2> QED
    BY <2>1, <2>2
<1>5. LineInOrder' /\ OutBefore'
  BY <1>2, <1>3 DEF LineInOrder, OutBefore
<1>6. GoneApart'
  <2>1. ASSUME NEW i \in 1 .. Length', Line(i)' \in Elements(queue)
        PROVE  FALSE
    <3>1. PICK j \in 1 .. Length : j > Len(plan) /\ Line(j) = Line(i)'
      BY <2>1, <1>4
    <3>2. i \in 1 .. Length /\ i < j /\ Line(i) = Line(j)
      BY <3>1, <1>1, <1>3
    <3>3. Line(i) < Line(j) /\ Line(i) \in Nat
      BY <3>2, LineTyped DEF LineInOrder
    <3> QED
      BY <3>2, <3>3
  <2>2. ASSUME NEW u \in Out, u.sequence \in Elements(queue)
        PROVE  FALSE
    <3>1. PICK j \in 1 .. Length : Line(j) = u.sequence
      BY <2>2, <1>4
    <3>2. u.sequence < Line(j) /\ Line(j) \in Nat
      BY LineTyped DEF OutBefore
    <3> QED
      BY <3>1, <3>2
  <2>3. Elements(queue) \cap Gone = {}
    BY <1>4 DEF GoneApart
  <2>4. (handedBack \cap dropped)' = {}
    BY <2>3 DEF GoneApart, Gone
  <2> QED
    BY <2>1, <2>2, <2>4, <1>2, <1>3 DEF GoneApart
<1>7. Accounted'
  <2>1. ASSUME NEW t \in Nat
        PROVE  InLine(t) \/ t \in Gone <=> InLine(t)' \/ t \in Gone'
    <3>1. ASSUME InLine(t)
          PROVE  InLine(t)' \/ t \in Elements(queue)
      <4>1. PICK i \in 1 .. Length : Line(i) = t
        BY <3>1 DEF InLine
      <4>2. CASE i <= Len(plan)
        <5>1. i \in 1 .. Length'
          BY <4>2, <1>1
        <5> QED
          BY <5>1, <4>1, <1>3 DEF InLine
      <4>3. CASE i > Len(plan)
        <5>1. i - Len(plan) \in 1 .. Len(queue) /\ Line(i) = queue[i - Len(plan)]
          BY <4>3, LineParts
        <5>2. \A k \in 1 .. Len(queue) : queue[k] \in Elements(queue)
          BY DEF Elements, TypeOK
        <5> QED
          BY <5>1, <5>2, <4>1
      <4> QED
        BY <4>2, <4>3, <1>1
    <3>2. InLine(t)' => InLine(t)
      BY <1>3 DEF InLine
    <3>3. t \in Elements(queue) => InLine(t)
      BY <1>4 DEF InLine
    <3> QED
      BY <3>1, <3>2, <3>3, <1>2
  <2>2. ASSUME NEW t
        PROVE  IsOut(t)' <=> IsOut(t)
    BY <1>2 DEF IsOut
  <2> QED
    BY <2>1, <2>2, <1>1 DEF Accounted
<1> QED
  BY <1>2, <1>5, <1>6, <1>7

\* Planning moves the border between plan and queue, and no task.
LEMMA PlanPlaced ==
  ASSUME IInv, Placed, PlanLaunches
  PROVE  Placed'
<1>1. plan = <<>>
  BY DEF IInv, PlanIsLocal, PlanLaunches
<1>2. PICK p \in Assignments :
        /\ plan' = [i \in 1 .. Len(p) |-> [sequence |-> queue[i], launcher |-> p[i]]]
        /\ queue' = SubSeq(queue, Len(p) + 1, Len(queue))
  BY DEF PlanLaunches
<1>3. PICK k \in 0 .. Len(queue) : p \in [1 .. k -> Launchers]
  BY DEF Assignments
<1>4. k \in Nat /\ Len(queue) \in Nat /\ Len(p) = k /\ k <= Len(queue)
  BY <1>3 DEF IInv, TypeOK
<1>5. Len(plan') = k /\ \A i \in 1 .. k : plan'[i].sequence = queue[i]
  BY <1>2, <1>4
<1>6. /\ Len(queue') = Len(queue) - k
      /\ \A i \in 1 .. Len(queue) - k : queue'[i] = queue[k + i]
  <2>1. \A i \in k + 1 .. Len(queue) : queue[i] \in Task
    BY <1>4 DEF IInv, TypeOK
  <2>2. /\ Len(queue') = IF k + 1 <= Len(queue) THEN Len(queue) - (k + 1) + 1 ELSE 0
        /\ \A i \in 1 .. Len(queue) - (k + 1) + 1 : queue'[i] = queue[(k + 1) + i - 1]
    BY <2>1, <1>2, <1>4, SubSeqProperties
  <2> QED
    BY <2>2, <1>4
<1>7. Length' = Length /\ Length = Len(queue)
  BY <1>1, <1>4, <1>5, <1>6 DEF Length
<1>8. ASSUME NEW i \in 1 .. Length
      PROVE  Line(i)' = Line(i)
  <2>1. Line(i) = queue[i]
    BY <1>1, <1>7 DEF Line
  <2>2. CASE i <= k
    BY <2>1, <2>2, <1>4, <1>5 DEF Line
  <2>3. CASE i > k
    <3>1. i - k \in 1 .. Len(queue) - k /\ k + (i - k) = i
      BY <2>3, <1>4, <1>7
    <3>2. queue'[i - k] = queue[i]
      BY <3>1, <1>6
    <3> QED
      BY <2>1, <3>2, <2>3, <1>4, <1>5 DEF Line
  <2> QED
    BY <2>2, <2>3, <1>4, <1>7
<1>9. /\ Out' = Out /\ Gone' = Gone /\ nextSequence' = nextSequence /\ OutApart'
      /\ OutOnce' /\ (handedBack \cap dropped)' = {}
  BY DEF PlanLaunches, historyVars, Placed, Out, Gone, OutApart, OutOnce, GoneApart
<1>10. LineInOrder' /\ OutBefore' /\ GoneApart'
  BY <1>7, <1>8, <1>9 DEF Placed, LineInOrder, OutBefore, GoneApart
<1>11. Accounted'
  <2>1. ASSUME NEW t
        PROVE  (InLine(t)' <=> InLine(t)) /\ (IsOut(t)' <=> IsOut(t))
    BY <1>7, <1>8, <1>9 DEF InLine, IsOut
  <2> QED
    BY <2>1, <1>9 DEF Placed, Accounted
<1> QED
  BY <1>9, <1>10, <1>11 DEF Placed

\* The launched part of the plan goes out, at the front of the line; the rest, if
\* a launch has raised, stays there.
LEMMA LaunchedLeave ==
  ASSUME IInv, CommitLaunches \/ AbortLaunches
  PROVE  /\ launched \in 0 .. Length /\ launched <= Len(plan)
         /\ Length' = Length - launched
         /\ \A i \in 1 .. Length' :
              i + launched \in 1 .. Length /\ Line(i)' = Line(i + launched)
         /\ \A u \in LaunchedOfPlan :
              \E i \in 1 .. launched : u = plan[i] /\ u.sequence = Line(i)
         /\ \A i \in 1 .. launched : plan[i] \in LaunchedOfPlan /\ plan[i].sequence = Line(i)
<1>1. /\ launched \in 0 .. Len(plan) /\ Len(plan) \in Nat /\ Len(queue) \in Nat
      /\ Length = Len(plan) + Len(queue) /\ plan' = <<>> /\ TypeOK
      /\ \A i \in 1 .. Len(plan) : plan[i].sequence \in Nat
  <2>1. ASSUME NEW i \in 1 .. Len(plan)
        PROVE  plan[i].sequence \in Nat
    <3>1. plan[i] \in Unit
      BY DEF IInv, TypeOK
    <3> QED
      BY <3>1 DEF Unit, Task
  <2> QED
    BY <2>1 DEF IInv, TypeOK, Length, CommitLaunches, AbortLaunches
<1>2. /\ Len(queue') = (Len(plan) - launched) + Len(queue)
      /\ \A i \in 1 .. Len(plan) - launched : queue'[i] = plan[launched + i].sequence
      /\ \A i \in 1 .. Len(queue) : queue'[(Len(plan) - launched) + i] = queue[i]
  <2>1. CASE CommitLaunches
    <3>1. queue' = queue /\ launched = Len(plan)
      BY <2>1 DEF CommitLaunches
    <3> QED
      BY <3>1, <1>1
  <2>2. CASE AbortLaunches
    <3> DEFINE m == Len(plan) - launched
    <3>1. m \in Nat /\ \A i \in 1 .. m : launched + i \in 1 .. Len(plan)
      BY <1>1
    <3>2. /\ Unlaunched = [i \in 1 .. m |-> plan[launched + i].sequence]
          /\ \A i \in 1 .. m : plan[launched + i].sequence \in Nat
      BY <3>1, <1>1 DEF Unlaunched
    <3> HIDE DEF m
    <3>3. /\ Unlaunched \in Seq(Task) /\ Len(Unlaunched) = m
          /\ \A i \in 1 .. m : Unlaunched[i] = plan[launched + i].sequence
      BY <3>1, <3>2 DEF Task
    <3>4. queue \in Seq(Task) /\ queue' = Unlaunched \o queue
      BY <2>2, <1>1 DEF TypeOK, AbortLaunches
    <3>5. /\ Len(queue') = m + Len(queue)
          /\ \A i \in 1 .. m + Len(queue) :
               queue'[i] = IF i <= m THEN Unlaunched[i] ELSE queue[i - m]
      BY <3>3, <3>4, ConcatProperties
    <3>6. ASSUME NEW i \in 1 .. m
          PROVE  queue'[i] = plan[launched + i].sequence
      <4>1. i \in 1 .. m + Len(queue) /\ i <= m
        BY <3>1, <1>1
      <4> QED
        BY <4>1, <3>3, <3>5
    <3>7. ASSUME NEW i \in 1 .. Len(queue)
          PROVE  queue'[m + i] = queue[i]
      <4>1. m + i \in 1 .. m + Len(queue) /\ ~(m + i <= m) /\ (m + i) - m = i
        BY <3>1, <1>1
      <4> QED
        BY <4>1, <3>5
    <3> QED
      BY <3>5, <3>6, <3>7 DEF m
  <2> QED
    BY <2>1, <2>2
<1>3. Length' = Length - launched
  BY <1>1, <1>2 DEF Length
<1>4. ASSUME NEW i \in 1 .. Length'
      PROVE  i + launched \in 1 .. Length /\ Line(i)' = Line(i + launched)
  <2>1. i + launched \in 1 .. Length /\ Line(i)' = queue'[i]
    BY <1>1, <1>3 DEF Line
  <2>2. CASE i + launched <= Len(plan)
    <3>1. i \in 1 .. Len(plan) - launched /\ launched + i = i + launched
      BY <2>2, <1>1, <1>3
    <3>2. Line(i + launched) = plan[i + launched].sequence
      BY <2>2 DEF Line
    <3> QED
      BY <2>1, <3>1, <3>2, <1>2
  <2>3. CASE i + launched > Len(plan)
    <3> DEFINE k == (i + launched) - Len(plan)
    <3>1. k \in 1 .. Len(queue) /\ (Len(plan) - launched) + k = i
      BY <2>3, <1>1, <1>3
    <3>2. Line(i + launched) = queue[k]
      BY <2>3, <1>1 DEF Line
    <3>3. \A x \in 1 .. Len(queue) : x = k => queue'[i] = queue[x]
      BY <3>1, <1>2
    <3> QED
      BY <2>1, <3>1, <3>2, <3>3
  <2> QED
    BY <2>2, <2>3, <1>1
<1>5. ASSUME NEW i \in 1 .. launched
      PROVE  i \in 1 .. Len(plan) /\ plan[i] \in LaunchedOfPlan /\ plan[i].sequence = Line(i)
  BY <1>1, LineParts DEF LaunchedOfPlan, TypeOK
<1>6. ASSUME NEW u \in LaunchedOfPlan
      PROVE  \E i \in 1 .. launched : u = plan[i] /\ u.sequence = Line(i)
  <2>1. \E i \in 1 .. launched : u = plan[i]
    BY <1>1 DEF LaunchedOfPlan, TypeOK
  <2> QED
    BY <2>1, <1>5
<1>7. launched \in 0 .. Length /\ launched <= Len(plan)
  BY <1>1
<1> QED
  BY <1>3, <1>4, <1>5, <1>6, <1>7

LEMMA CommitPlaced ==
  ASSUME IInv, Placed, CommitLaunches \/ AbortLaunches
  PROVE  Placed'
<1> USE DEF Placed
<1>1. /\ launched \in 0 .. Length /\ Length \in Nat
      /\ Length' = Length - launched
      /\ \A i \in 1 .. Length' :
           i + launched \in 1 .. Length /\ Line(i)' = Line(i + launched)
      /\ \A i \in 1 .. Length : Line(i) \in Nat
      /\ \A u \in Out : u.sequence \in Nat
  BY LaunchedLeave, LineTyped DEF IInv
<1>2. /\ Out' = Out \cup LaunchedOfPlan /\ Gone' = Gone /\ nextSequence' = nextSequence
      /\ running' = running \cup LaunchedOfPlan
      /\ UNCHANGED <<completed, delivered, discarded, handedBack, dropped>>
  BY DEF CommitLaunches, AbortLaunches, historyVars, Out, Gone
<1>3. ASSUME NEW u \in LaunchedOfPlan
      PROVE  \E i \in 1 .. launched : i \in 1 .. Length /\ u = plan[i] /\ u.sequence = Line(i)
  <2>1. \A i \in 1 .. launched : i \in 1 .. Length
    BY <1>1
  <2> QED
    BY <2>1, LaunchedLeave
<1>4. ASSUME NEW u \in LaunchedOfPlan, NEW v \in Out
      PROVE  v.sequence < u.sequence /\ u.sequence \in Nat /\ v.sequence \in Nat
  BY <1>1, <1>3 DEF OutBefore
<1>5. LineInOrder'
  <2>1. ASSUME NEW i \in 1 .. Length', NEW j \in 1 .. Length', i < j
        PROVE  Line(i)' < Line(j)'
    <3>1. i + launched < j + launched
      BY <2>1, <1>1
    <3> QED
      BY <3>1, <1>1 DEF LineInOrder
  <2> QED
    BY <2>1 DEF LineInOrder
<1>6. OutBefore'
  <2>1. ASSUME NEW u \in Out, NEW i \in 1 .. Length'
        PROVE  u.sequence < Line(i)'
    BY <1>1 DEF OutBefore
  <2>2. ASSUME NEW u \in LaunchedOfPlan, NEW i \in 1 .. Length'
        PROVE  u.sequence < Line(i)'
    <3>1. PICK j \in 1 .. launched : j \in 1 .. Length /\ u.sequence = Line(j)
      BY <1>3
    <3>2. j < i + launched
      BY <1>1
    <3> QED
      BY <3>1, <3>2, <1>1 DEF LineInOrder
  <2> QED
    BY <2>1, <2>2, <1>2 DEF OutBefore
<1>7. OutOnce'
  <2>1. ASSUME NEW u \in LaunchedOfPlan, NEW v \in LaunchedOfPlan, u.sequence = v.sequence
        PROVE  u = v
    <3>1. PICK i \in 1 .. Length : u = plan[i] /\ u.sequence = Line(i)
      BY <1>3
    <3>2. PICK j \in 1 .. Length : v = plan[j] /\ v.sequence = Line(j)
      BY <1>3
    <3>3. ~(i < j) /\ ~(j < i)
      <4>1. Line(i) \in Nat /\ Line(i) = Line(j)
        BY <2>1, <3>1, <3>2, <1>1
      <4> QED
        BY <4>1 DEF LineInOrder
    <3>4. i = j
      BY <3>3, <1>1
    <3> QED
      BY <3>1, <3>2, <3>4
  <2>2. ASSUME NEW u \in LaunchedOfPlan, NEW v \in Out
        PROVE  u.sequence # v.sequence
    BY <1>4
  <2> QED
    BY <2>1, <2>2, <1>2 DEF OutOnce
<1>8. OutApart'
  <2>1. LaunchedOfPlan \cap Out = {}
    BY <1>4
  <2> QED
    BY <2>1, <1>2 DEF OutApart, Out
<1>9. GoneApart'
  <2>1. ASSUME NEW u \in LaunchedOfPlan
        PROVE  u.sequence \notin Gone
    BY <1>3 DEF GoneApart
  <2>2. ASSUME NEW i \in 1 .. Length'
        PROVE  Line(i)' \notin Gone
    BY <1>1 DEF GoneApart
  <2> QED
    BY <2>1, <2>2, <1>2 DEF GoneApart
<1>10. Accounted'
  <2>1. ASSUME NEW t, InLine(t)
        PROVE  InLine(t)' \/ \E u \in LaunchedOfPlan : u.sequence = t
    <3>1. PICK i \in 1 .. Length : Line(i) = t
      BY <2>1 DEF InLine
    <3>2. CASE i <= launched
      <4>1. i \in 1 .. launched
        BY <3>2, <1>1
      <4> QED
        BY <4>1, <3>1, LaunchedLeave
    <3>3. CASE i > launched
      <4>1. PICK k \in 1 .. Length' : k + launched = i
        <5>1. i - launched \in 1 .. Length' /\ (i - launched) + launched = i
          BY <3>3, <1>1
        <5> QED
          BY <5>1
      <4>2. Line(k)' = Line(i)
        BY <4>1, <1>1
      <4> QED
        BY <4>1, <4>2, <3>1 DEF InLine
    <3> QED
      BY <3>2, <3>3, <1>1
  <2>2. ASSUME NEW t
        PROVE  /\ InLine(t)' => InLine(t)
               /\ (\E u \in LaunchedOfPlan : u.sequence = t) => InLine(t)
               /\ IsOut(t)' <=> IsOut(t) \/ \E u \in LaunchedOfPlan : u.sequence = t
    <3>1. InLine(t)' => InLine(t)
      BY <1>1 DEF InLine
    <3>2. (\E u \in LaunchedOfPlan : u.sequence = t) => InLine(t)
      BY <1>3 DEF InLine
    <3>3. IsOut(t)' <=> IsOut(t) \/ \E u \in LaunchedOfPlan : u.sequence = t
      BY <1>2 DEF IsOut
    <3> QED
      BY <3>1, <3>2, <3>3
  <2>3. ASSUME NEW t
        PROVE  InLine(t)' \/ IsOut(t)' <=> InLine(t) \/ IsOut(t)
    BY <2>1, <2>2
  <2> QED
    BY <2>3, <1>2 DEF Accounted
<1> QED
  BY <1>5, <1>6, <1>7, <1>8, <1>9, <1>10

-----------------------------------------------------------------------------
LEMMA InitPlaced == Init => Placed
<1> SUFFICES ASSUME Init
             PROVE  Placed
  OBVIOUS
<1>1. Length = 0 /\ Out = {} /\ Gone = {}
  BY DEF Init, Length, Out, Gone
<1>2. LineInOrder /\ OutBefore /\ OutOnce /\ OutApart /\ GoneApart
  BY <1>1 DEF Init, LineInOrder, OutBefore, OutOnce, OutApart, GoneApart
<1>3. Accounted
  <2>1. ASSUME NEW t \in Nat
        PROVE  ~(t < nextSequence) /\ ~InLine(t) /\ ~IsOut(t) /\ t \notin Gone
    BY <1>1 DEF Init, InLine, IsOut
  <2> QED
    BY <2>1 DEF Accounted
<1> QED
  BY <1>2, <1>3 DEF Placed

LEMMA NextPlaced == IInv /\ IInv' /\ Placed /\ [Next]_vars => Placed'
<1> SUFFICES ASSUME IInv, IInv', Placed, [Next]_vars
             PROVE  Placed'
  OBVIOUS
<1>1. TypeOK /\ TypeOK'
  BY DEF IInv
<1>2. OutApart
  BY DEF Placed
<1>3. ASSUME NEW n \in 1 .. MaxAdd, Add(n) \/ RunToCompletion(n)
      PROVE  Placed'
  BY <1>1, <1>3, EnqueuePlaced DEF Add, RunToCompletion, dispatchVars
<1>4. ASSUME UNCHANGED <<queue, running, completed, nextSequence, plan, historyVars>>
      PROVE  Placed'
  BY <1>2, <1>4, MovesPlaced DEF Out, OutApart, historyVars
<1>5. CASE Pause \/ PauseReturns
  <2>1. CASE TakeQueue
    BY <1>1, <1>5, <2>1, QueueLeavesPlaced DEF Pause, PauseReturns, TakeQueue, dispatchVars
  <2>2. CASE UNCHANGED <<queue, handedBack>>
    BY <1>4, <1>5, <2>2 DEF Pause, PauseReturns, dispatchVars, historyVars
  <2> QED
    BY <1>5, <2>1, <2>2 DEF Pause, PauseReturns
<1>6. CASE TakeCompleted \/ TakeReturns \/ RunReturns
  <2>1. /\ completed' = {} /\ delivered' = delivered \cup completed
        /\ UNCHANGED <<queue, plan, nextSequence, running, handedBack, dropped, discarded>>
    BY <1>6 DEF TakeCompleted, TakeReturns, RunReturns, Deliver, dispatchVars
  <2> QED
    BY <1>2, <2>1, MovesPlaced DEF Out, OutApart
<1>7. CASE Close
  BY <1>1, <1>7, QueueLeavesPlaced DEF Close, dispatchVars
<1>8. CASE CloseDiscards
  <2>1. /\ completed' = {} /\ running' = {}
        /\ discarded' = discarded \cup running \cup completed
        /\ UNCHANGED <<queue, plan, nextSequence, handedBack, dropped, delivered>>
    BY <1>8 DEF CloseDiscards, dispatchVars
  <2> QED
    BY <1>2, <2>1, MovesPlaced DEF Out, OutApart
<1>9. CASE MoveReady
  <2>1. /\ running' = running \ ready /\ completed' = completed \cup (ready \cap running)
        /\ UNCHANGED <<queue, plan, nextSequence, historyVars>>
    BY <1>9 DEF MoveReady
  <2> QED
    BY <1>2, <2>1, MovesPlaced DEF Out, OutApart, historyVars
<1>10. CASE \/ \E call \in {"take", "drain"} : Block(call)
            \/ WaitAgain \/ Raise \/ Exit \/ PollOrWait \/ LaunchNext \/ LaunchRaises
            \/ Poll \/ PollRaises \/ RecordFailure \/ Engines \/ UNCHANGED vars
  BY <1>4, <1>10 DEF Block, WaitAgain, Raise, Exit, PollOrWait, LaunchNext, LaunchRaises,
     Poll, PollRaises, RecordFailure, Engines, Finish, vars, dispatchVars
<1> QED
  BY <1>3, <1>5, <1>6, <1>7, <1>8, <1>9, <1>10, PlanPlaced, CommitPlaced
     DEF Next, Driver, Dispatch

\* The line and the units keep their places.
THEOREM PlacesHold == Spec => [](IInv /\ Placed)
<1>1. Init => Placed
  BY InitPlaced
<1>2. IInv /\ IInv' /\ Placed /\ [Next]_vars => Placed'
  BY NextPlaced
<1> QED
  BY <1>1, <1>2, InvariantHolds, PTL DEF Spec

-----------------------------------------------------------------------------
(***************************************************************************)
(* The properties, read off.  A place of the line is queued, planned, or   *)
(* launched and not yet committed.                                         *)
(***************************************************************************)
LEMMA PlacesOfLine ==
  ASSUME IInv
  PROVE  /\ \A t : t \in Elements(queue) <=> \E i \in 1 .. Length : i > Len(plan) /\ Line(i) = t
         /\ \A t : t \in Planned <=>
              \E i \in 1 .. Length : i > launched /\ i <= Len(plan) /\ Line(i) = t
         /\ \A t : t \in Tasks(LaunchedOfPlan) <=>
              \E i \in 1 .. Length : i <= launched /\ Line(i) = t
<1> USE DEF IInv, TypeOK
<1>1. launched \in 0 .. Len(plan) /\ Len(plan) \in Nat /\ Len(queue) \in Nat
  OBVIOUS
<1>2. /\ \A i \in 1 .. Len(plan) : i \in 1 .. Length /\ plan[i].sequence = Line(i)
      /\ \A k \in 1 .. Len(queue) :
           Len(plan) + k \in 1 .. Length /\ queue[k] = Line(Len(plan) + k)
      /\ \A i \in 1 .. Length : i > Len(plan) =>
           i - Len(plan) \in 1 .. Len(queue) /\ Line(i) = queue[i - Len(plan)]
  BY LineParts
<1>3. ASSUME NEW t
      PROVE  t \in Elements(queue) <=> \E i \in 1 .. Length : i > Len(plan) /\ Line(i) = t
  <2>1. t \in Elements(queue) <=> \E k \in 1 .. Len(queue) : queue[k] = t
    BY DEF Elements
  <2>2. ASSUME NEW k \in 1 .. Len(queue), queue[k] = t
        PROVE  \E i \in 1 .. Length : i > Len(plan) /\ Line(i) = t
    <3>1. Len(plan) + k > Len(plan)
      BY <1>1
    <3> QED
      BY <3>1, <2>2, <1>2
  <2> QED
    BY <2>1, <2>2, <1>2
<1>4. ASSUME NEW t
      PROVE  t \in Planned <=>
               \E i \in 1 .. Length : i > launched /\ i <= Len(plan) /\ Line(i) = t
  <2>1. t \in Planned <=> \E i \in 1 .. Len(plan) : i > launched /\ plan[i].sequence = t
    BY DEF Planned
  <2>2. \A i \in 1 .. Length : i <= Len(plan) => i \in 1 .. Len(plan)
    BY <1>1
  <2> QED
    BY <2>1, <2>2, <1>1, <1>2
<1>5. ASSUME NEW t
      PROVE  t \in Tasks(LaunchedOfPlan) <=>
               \E i \in 1 .. Length : i <= launched /\ Line(i) = t
  <2>1. t \in Tasks(LaunchedOfPlan) <=>
          \E i \in 1 .. Len(plan) : i <= launched /\ plan[i].sequence = t
    BY DEF Tasks, LaunchedOfPlan
  <2>2. \A i \in 1 .. Length : i <= launched => i \in 1 .. Len(plan)
    BY <1>1
  <2> QED
    BY <2>1, <2>2, <1>1, <1>2
<1> QED
  BY <1>3, <1>4, <1>5

\* Two places of the line are two tasks, and neither is of a unit that is out.
LEMMA LineApart ==
  ASSUME TypeOK, Placed
  PROVE  /\ \A i, j \in 1 .. Length : Line(i) = Line(j) => i = j
         /\ \A i \in 1 .. Length : \A u \in Out : Line(i) # u.sequence
<1>1. Length \in Nat /\ \A i \in 1 .. Length : Line(i) \in Nat
  BY LineTyped
<1>2. ASSUME NEW i \in 1 .. Length, NEW j \in 1 .. Length, Line(i) = Line(j)
      PROVE  i = j
  <2>1. ~(i < j) /\ ~(j < i)
    <3>1. Line(i) \in Nat
      BY <1>1
    <3> QED
      BY <3>1, <1>2 DEF Placed, LineInOrder
  <2> QED
    BY <2>1
<1>3. ASSUME NEW i \in 1 .. Length, NEW u \in Out
      PROVE  Line(i) # u.sequence
  <2>1. u.sequence < Line(i) /\ Line(i) \in Nat
    BY <1>1 DEF Placed, OutBefore
  <2> QED
    BY <2>1
<1> QED
  BY <1>2, <1>3

\* No interleaving of pause, a launch that fails midway through a plan, the sweep
\* and close loses a task, or has one run twice: each is in one place only, and
\* every task submitted is in one (dispatch.py, _execute_launches and close).
THEOREM NoTaskLostOrRunTwice == Spec => []EachTaskInOnePlace
<1>1. IInv /\ Placed => EachTaskInOnePlace
  <2> SUFFICES ASSUME IInv, Placed
               PROVE  EachTaskInOnePlace
    OBVIOUS
  <2> DEFINE Q == Elements(queue)
             P == Planned
             L == Tasks(LaunchedOfPlan)
             R == Tasks(running)
             C == Tasks(completed)
             D == Tasks(delivered)
             X == Tasks(discarded)
             H == handedBack
             G == dropped
  <2>1. Tasks(Remote) = R \cup L
    BY DEF Tasks, Remote
  <2>2. TypeOK
    BY DEF IInv
  <2>3. Q \cap P = {} /\ Q \cap L = {} /\ P \cap L = {}
    <3>1. launched <= Len(plan) /\ launched \in Nat /\ Len(plan) \in Nat /\ Length \in Nat
      BY LineTyped DEF IInv, TypeOK
    <3>2. \A i, j \in 1 .. Length : Line(i) = Line(j) => i = j
      BY <2>2, LineApart
    <3> QED
      BY <3>1, <3>2, PlacesOfLine
  <2>4. \A t \in Q \cup P \cup L : InLine(t)
    BY PlacesOfLine DEF InLine
  <2>5. \A t : t \in R \cup C \cup D \cup X <=> IsOut(t)
    BY DEF Tasks, IsOut, Out
  <2>6. (Q \cup P \cup L) \cap (R \cup C \cup D \cup X) = {}
    BY <2>2, <2>4, <2>5, LineApart DEF InLine, IsOut
  <2>7. /\ R \cap C = {} /\ R \cap D = {} /\ R \cap X = {}
        /\ C \cap D = {} /\ C \cap X = {} /\ D \cap X = {}
    <3> USE DEF Placed, OutOnce, OutApart, Out, Tasks
    <3>1. R \cap C = {}
      OBVIOUS
    <3>2. R \cap D = {}
      OBVIOUS
    <3>3. R \cap X = {}
      OBVIOUS
    <3>4. C \cap D = {}
      OBVIOUS
    <3>5. C \cap X = {}
      OBVIOUS
    <3>6. D \cap X = {}
      OBVIOUS
    <3> QED
      BY <3>1, <3>2, <3>3, <3>4, <3>5, <3>6
  <2>8. H \cap G = {} /\ (Q \cup P \cup L \cup R \cup C \cup D \cup X) \cap (H \cup G) = {}
    BY <2>4, <2>5 DEF Placed, GoneApart, Gone, InLine, IsOut
  <2>9. UNION {Q, P, R \cup L, C, H, D, X, G} = 0 .. nextSequence - 1
    <3>1. \A t : InLine(t) <=> t \in Q \cup P \cup L
      <4>1. launched <= Len(plan) /\ launched \in Nat /\ Len(plan) \in Nat
        BY DEF IInv, TypeOK
      <4> QED
        BY <2>4, <4>1, PlacesOfLine DEF InLine
    <3>2. \A t : InLine(t) \/ IsOut(t) \/ t \in Gone => t \in Nat
      BY <2>2, LineTyped DEF InLine, IsOut, Gone, TypeOK, Task
    <3>3. nextSequence \in Nat
      BY <2>2, LineTyped
    <3>4. \A t : t \in 0 .. nextSequence - 1 <=> t \in Nat /\ t < nextSequence
      BY <3>3
    <3>5. \A t : t \in 0 .. nextSequence - 1 <=> InLine(t) \/ IsOut(t) \/ t \in Gone
      BY <3>2, <3>4 DEF Placed, Accounted
    <3> HIDE DEF Q, P, L, R, C, D, X
    <3> QED
      BY <3>1, <3>5, <2>5 DEF Gone
  <2> DEFINE places == <<Q, P, R \cup L, C, H, D, X, G>>
  <2>10. UNION Elements(places) = 0 .. nextSequence - 1
    <3> HIDE DEF Q, P, L, R, C, D, X
    <3>1. Elements(places) = {Q, P, R \cup L, C, H, D, X, G}
      BY DEF Elements
    <3> QED
      BY <3>1, <2>9
  <2>11. ASSUME NEW i \in DOMAIN places, NEW j \in DOMAIN places, i # j
         PROVE  places[i] \cap places[j] = {}
    <3> HIDE DEF Q, P, L, R, C, D, X
    <3>1. i \in 1 .. 8 /\ j \in 1 .. 8
      OBVIOUS
    <3> QED
      BY <3>1, <2>3, <2>6, <2>7, <2>8, <2>11
  <2> QED
    BY <2>1, <2>10, <2>11 DEF EachTaskInOnePlace
<1> QED
  BY <1>1, PlacesHold, PTL

\* Tasks are launched in the order in which they were submitted, also after a
\* failed plan was put back at the front of the queue (dispatch.py, add and
\* _execute_launches).
THEOREM LaunchesInOrder == Spec => []LaunchedInOrder
<1>1. IInv /\ Placed => LaunchedInOrder
  <2> SUFFICES ASSUME IInv, Placed
               PROVE  LaunchedInOrder
    OBVIOUS
  <2>1. TypeOK /\ launched \in 0 .. Len(plan) /\ Len(plan) \in Nat /\ Len(queue) \in Nat
    BY DEF IInv, TypeOK
  <2>2. ASSUME NEW i \in DOMAIN queue, NEW j \in DOMAIN queue, i < j
        PROVE  queue[i] < queue[j]
    <3>1. i \in 1 .. Len(queue) /\ j \in 1 .. Len(queue) /\ Len(plan) + i < Len(plan) + j
      BY <2>1, <2>2 DEF TypeOK
    <3>2. /\ Len(plan) + i \in 1 .. Length /\ queue[i] = Line(Len(plan) + i)
          /\ Len(plan) + j \in 1 .. Length /\ queue[j] = Line(Len(plan) + j)
      BY <2>1, <3>1, LineParts
    <3> QED
      BY <3>1, <3>2 DEF Placed, LineInOrder
  <2>3. ASSUME NEW t \in Waiting
        PROVE  \E i \in 1 .. Length : i > launched /\ Line(i) = t
    BY <2>1, PlacesOfLine DEF Waiting
  <2>4. ASSUME NEW t \in Waiting, NEW u \in UNION {Remote, completed, delivered}
        PROVE  u.sequence < t
    <3>1. PICK i \in 1 .. Length : i > launched /\ Line(i) = t
      BY <2>3
    <3>2. CASE u \in Out
      BY <3>1, <3>2 DEF Placed, OutBefore
    <3>3. CASE u \in LaunchedOfPlan
      <4>1. u.sequence \in Tasks(LaunchedOfPlan)
        BY <3>3 DEF Tasks
      <4>2. PICK k \in 1 .. Length : k <= launched /\ Line(k) = u.sequence
        BY <4>1, PlacesOfLine
      <4>3. k < i
        BY <3>1, <4>2, <2>1
      <4> QED
        BY <3>1, <4>2, <4>3 DEF Placed, LineInOrder
    <3> QED
      BY <3>2, <3>3 DEF Out, Remote
  <2> QED
    BY <2>2, <2>4 DEF LaunchedInOrder
<1> QED
  BY <1>1, PlacesHold, PTL

-----------------------------------------------------------------------------
(***************************************************************************)
(* The refinement of TaskPool.                                             *)
(***************************************************************************)

\* The dispatch thread ends with the failure it records.
FailureEnds == failed => tpc = "exit"

Sound == IInv /\ Placed /\ FailureEnds

LEMMA NextFailureEnds == FailureEnds /\ [Next]_vars => FailureEnds'
<1> SUFFICES ASSUME FailureEnds, [Next]_vars
             PROVE  FailureEnds'
  OBVIOUS
<1> USE DEF FailureEnds
<1>1. CASE Driver
  BY <1>1 DEF Driver, Add, RunToCompletion, Block, Pause, PauseReturns, TakeCompleted,
     TakeReturns, RunReturns, WaitAgain, Raise, Close, CloseDiscards, dispatchVars
<1>2. CASE Dispatch
  BY <1>2 DEF Dispatch, Exit, PlanLaunches, PollOrWait, LaunchNext, LaunchRaises,
     CommitLaunches, AbortLaunches, Poll, PollRaises, RecordFailure, MoveReady
<1>3. CASE Engines
  BY <1>3 DEF Engines, Finish, dispatchVars
<1>4. CASE UNCHANGED vars
  BY <1>4 DEF vars, dispatchVars
<1> QED
  BY <1>1, <1>2, <1>3, <1>4 DEF Next

\* The calls out fit the slots: each launcher's calls, being no more than its
\* capacity, are given its slots one by one.
LEMMA SlotsSuffice ==
  ASSUME IInv
  PROVE  /\ IsFiniteSet(Remote) /\ Cardinality(Remote) \in Nat
         /\ TotalCapacity \in Nat /\ Cardinality(Remote) <= TotalCapacity
<1>1. IsFiniteSet(Slots)
  <2> DEFINE S == {{l} \X (1 .. Capacity[l]) : l \in Launchers}
             g == [l \in Launchers |-> {l} \X (1 .. Capacity[l])]
  <2>1. IsFiniteSet(Launchers)
    BY PoolAssumption, FS_Interval DEF Launchers
  <2>2. IsFiniteSet(S)
    <3>1. S = {g[l] : l \in Launchers}
      OBVIOUS
    <3> HIDE DEF S, g
    <3> QED
      BY <2>1, <3>1, ImageIsSmaller
  <2>3. ASSUME NEW l \in Launchers
        PROVE  IsFiniteSet({l} \X (1 .. Capacity[l]))
    <3>1. Capacity[l] \in Int /\ 1 \in Int
      BY PoolAssumption
    <3>2. IsFiniteSet({l}) /\ IsFiniteSet(1 .. Capacity[l])
      BY <3>1, FS_Singleton, FS_Interval
    <3> QED
      BY <3>2, FS_Product
  <2>4. \A T \in S : IsFiniteSet(T)
    BY <2>3
  <2>5. Slots = UNION S
    BY DEF Slots
  <2> HIDE DEF S
  <2> QED
    BY <2>2, <2>4, <2>5, FS_UNION
<1>2. ASSUME NEW l \in Launchers
      PROVE  Injection(At(l, Remote), 1 .. Capacity[l]) # {}
  <2>1. /\ IsFiniteSet(Remote) /\ Cardinality(At(l, Remote)) \in Nat
        /\ Cardinality(At(l, Remote)) <= Capacity[l]
    <3>1. /\ IsFiniteSet(Remote) /\ Cardinality(At(l, Remote)) \in Nat
          /\ Cardinality(At(l, Remote)) <= Load(l)
      BY RemoteWithinLoad
    <3>2. Load(l) <= Capacity[l] /\ Capacity[l] \in Nat /\ Load(l) \in Int
      <4>1. IsFiniteSet(running) /\ reserved[l] \in Nat
        BY DEF IInv, TypeOK
      <4> QED
        BY <4>1, AtIsFinite, PoolAssumption DEF IInv, LoadBounded, Load
    <3> QED
      BY <3>1, <3>2
  <2> DEFINE A == At(l, Remote)
             n == Cardinality(A)
  <2>2. IsFiniteSet(A)
    BY <2>1, AtIsFinite
  <2>3. Capacity[l] \in Nat /\ n \in Nat /\ n <= Capacity[l]
    BY <2>1, PoolAssumption
  <2> HIDE DEF A
  <2>4. IsFiniteSet(1 .. n) /\ Cardinality(1 .. n) = n
    BY <2>3, FS_Interval
  <2>5. PICK f : f \in Bijection(A, 1 .. n)
    BY <2>2, <2>4, FS_SameCardinalityBij DEF ExistsBijection, n
  <2> HIDE DEF n
  <2>6. f \in Injection(A, 1 .. Capacity[l])
    <3>1. 1 .. n \subseteq 1 .. Capacity[l]
      BY <2>3
    <3> QED
      BY <2>5, <3>1 DEF Bijection, Injection
  <2> QED
    BY <2>6 DEF A
<1> DEFINE place == [l \in Launchers |-> CHOOSE f : f \in Injection(At(l, Remote), 1 .. Capacity[l])]
           seat == [u \in Remote |-> <<u.launcher, place[u.launcher][u]>>]
<1>3. ASSUME NEW l \in Launchers
      PROVE  place[l] \in Injection(At(l, Remote), 1 .. Capacity[l])
  BY <1>2
<1>4. ASSUME NEW u \in Remote
      PROVE  u.launcher \in Launchers /\ u \in At(u.launcher, Remote)
  <2>1. u \in Unit
    <3>1. TypeOK /\ \A i \in DOMAIN plan : plan[i] \in Unit
      BY DEF IInv, TypeOK
    <3> QED
      BY <3>1 DEF Remote, LaunchedOfPlan, TypeOK
  <2> QED
    BY <2>1 DEF Unit, At
<1> HIDE DEF place
<1>5. ASSUME NEW u \in Remote
      PROVE  place[u.launcher][u] \in 1 .. Capacity[u.launcher]
  <2>1. place[u.launcher] \in [At(u.launcher, Remote) -> 1 .. Capacity[u.launcher]]
    BY <1>3, <1>4 DEF Injection
  <2> QED
    BY <2>1, <1>4
<1>6. \A u \in Remote : seat[u] \in Slots
  BY <1>4, <1>5 DEF Slots
<1>7. ASSUME NEW u \in Remote, NEW v \in Remote, seat[u] = seat[v]
      PROVE  u = v
  <2>1. u.launcher = v.launcher /\ place[u.launcher][u] = place[u.launcher][v]
    BY <1>7
  <2>2. place[u.launcher] \in Injection(At(u.launcher, Remote), 1 .. Capacity[u.launcher])
    BY <1>3, <1>4
  <2>3. u \in At(u.launcher, Remote) /\ v \in At(u.launcher, Remote)
    BY <1>4, <2>1
  <2> QED
    BY <2>1, <2>2, <2>3 DEF Injection, IsInjective
<1>8. seat \in Injection(Remote, Slots)
  <2>1. seat \in [Remote -> Slots]
    BY <1>6
  <2> QED
    BY <2>1, <1>7 DEF Injection, IsInjective
<1> HIDE DEF seat
<1>9. IsFiniteSet(Remote) /\ Cardinality(Remote) <= Cardinality(Slots)
  BY <1>1, <1>8, FS_Injection
<1> QED
  BY <1>1, <1>9, FS_CardinalityType DEF TotalCapacity

\* The library's cardinality is that of the instance.
LEMMA AbstractCardinality == ASSUME NEW T PROVE Abstract!Cardinality(T) = Cardinality(T)
  BY DEF Abstract!Cardinality, Cardinality

-----------------------------------------------------------------------------
\* What a task pool shows, and what it shows of a pool that does not change it.
LEMMA Hidden ==
  ASSUME Waiting' = Waiting, Remote' = Remote, (dpc = "closed")' = (dpc = "closed"),
         UNCHANGED <<completed, failed, closed, historyVars>>
  PROVE  UNCHANGED Abstract!vars
  BY DEF Abstract!vars, historyVars, Tasks

\* The elements of two sequences, one after the other.
LEMMA ElementsOfConcat ==
  ASSUME NEW S, NEW a \in Seq(S), NEW b \in Seq(S)
  PROVE  Elements(a \o b) = Elements(a) \cup Elements(b)
<1>1. /\ Len(a) \in Nat /\ Len(b) \in Nat
      /\ DOMAIN a = 1 .. Len(a) /\ DOMAIN b = 1 .. Len(b)
      /\ DOMAIN (a \o b) = 1 .. Len(a) + Len(b)
      /\ \A k \in 1 .. Len(a) + Len(b) :
           (a \o b)[k] = IF k <= Len(a) THEN a[k] ELSE b[k - Len(a)]
  BY ConcatProperties
<1>2. ASSUME NEW k \in DOMAIN (a \o b)
      PROVE  (a \o b)[k] \in Elements(a) \cup Elements(b)
  <2>1. CASE k <= Len(a)
    <3>1. k \in DOMAIN a /\ (a \o b)[k] = a[k]
      BY <1>1, <2>1
    <3> QED
      BY <3>1 DEF Elements
  <2>2. CASE k > Len(a)
    <3>1. k - Len(a) \in DOMAIN b /\ (a \o b)[k] = b[k - Len(a)]
      BY <1>1, <2>2
    <3> QED
      BY <3>1 DEF Elements
  <2> QED
    BY <1>1, <2>1, <2>2
<1>3. ASSUME NEW k \in DOMAIN a
      PROVE  a[k] \in Elements(a \o b)
  <2>1. k \in DOMAIN (a \o b) /\ (a \o b)[k] = a[k]
    BY <1>1
  <2> QED
    BY <2>1 DEF Elements
<1>4. ASSUME NEW k \in DOMAIN b
      PROVE  b[k] \in Elements(a \o b)
  <2>1. k + Len(a) \in DOMAIN (a \o b) /\ (a \o b)[k + Len(a)] = b[k]
    <3>1. k + Len(a) \in 1 .. Len(a) + Len(b) /\ ~(k + Len(a) <= Len(a)) /\ (k + Len(a)) - Len(a) = k
      BY <1>1
    <3> QED
      BY <1>1, <3>1
  <2> QED
    BY <2>1 DEF Elements
<1>5. /\ Elements(a \o b) \subseteq Elements(a) \cup Elements(b)
      /\ Elements(a) \subseteq Elements(a \o b) /\ Elements(b) \subseteq Elements(a \o b)
  <2>1. \A t \in Elements(a \o b) : t \in Elements(a) \cup Elements(b)
    BY <1>2 DEF Elements
  <2>2. \A t \in Elements(a) : t \in Elements(a \o b)
    BY <1>3 DEF Elements
  <2>3. \A t \in Elements(b) : t \in Elements(a \o b)
    BY <1>4 DEF Elements
  <2> QED
    BY <2>1, <2>2, <2>3
<1> QED
  BY <1>5

\* A task the pool has known was numbered before the next one.
LEMMA KnownIsNumbered ==
  ASSUME IInv, Placed, NEW t \in Abstract!Known
  PROVE  t \in Nat /\ t < nextSequence
<1>1. InLine(t) \/ IsOut(t) \/ t \in Gone
  <2>1. CASE t \in Waiting \/ t \in Tasks(LaunchedOfPlan)
    BY <2>1, PlacesOfLine DEF Waiting, InLine
  <2>2. CASE t \in UNION {Tasks(running), Tasks(completed), Tasks(delivered), Tasks(discarded)}
    BY <2>2 DEF Tasks, IsOut, Out
  <2>3. CASE t \in handedBack \cup dropped
    BY <2>3 DEF Gone
  <2>4. Tasks(Remote) = Tasks(running) \cup Tasks(LaunchedOfPlan)
    BY DEF Tasks, Remote
  <2> QED
    BY <2>1, <2>2, <2>3, <2>4 DEF Abstract!Known
<1>2. t \in Nat
  BY <1>1, LineTyped DEF InLine, IsOut, Gone, IInv, TypeOK, Task
<1> QED
  BY <1>1, <1>2 DEF Placed, Accounted

LEMMA EnqueueMaps ==
  ASSUME IInv, Placed, NEW n \in 1 .. MaxAdd, Add(n) \/ RunToCompletion(n)
  PROVE  \E new \in SUBSET (0 .. MaxTasks - 1) : Abstract!Submit(new)
<1>1. /\ Enqueue(n) /\ ~failed /\ ~closed /\ dpc = "idle" /\ dpc' # "closed"
      /\ UNCHANGED <<running, completed, closed, failed, plan, launched, historyVars>>
  BY DEF Add, RunToCompletion, dispatchVars
<1>2. n \in Nat /\ nextSequence \in Nat /\ MaxTasks \in Nat /\ nextSequence + n <= MaxTasks
  BY <1>1, PoolAssumption DEF IInv, TypeOK, Enqueue
<1> DEFINE new == Elements(NewTasks(n))
<1>3. ASSUME NEW t \in new
      PROVE  t \in 0 .. MaxTasks - 1 /\ t >= nextSequence
  BY <1>2 DEF Elements, NewTasks
<1>4. new \in SUBSET (0 .. MaxTasks - 1)
  BY <1>3
<1>5. new \cap Abstract!Known = {}
  BY <1>2, <1>3, KnownIsNumbered
<1>6. Waiting' = Waiting \cup new
  <2>1. NewTasks(n) \in Seq(Task)
    BY <1>2 DEF NewTasks, Task
  <2>2. queue \in Seq(Task) /\ queue' = queue \o NewTasks(n)
    BY <1>1 DEF IInv, TypeOK, Enqueue
  <2>3. Elements(queue') = Elements(queue) \cup new
    BY <2>1, <2>2, ElementsOfConcat
  <2>4. Planned' = Planned /\ Elements(queue)' = Elements(queue')
    BY <1>1 DEF Planned, Elements
  <2> HIDE DEF new
  <2> QED
    BY <2>3, <2>4 DEF Waiting
<1>7. Remote' = Remote
  BY <1>1 DEF Remote, LaunchedOfPlan
<1> HIDE DEF new
<1>8. Abstract!Submit(new)
  BY <1>1, <1>5, <1>6, <1>7 DEF Abstract!Submit, Abstract!Usable, Tasks, historyVars
<1> QED
  BY <1>4, <1>8

\* What pause takes is all that waits: with nothing reserved there is no plan.
LEMMA PauseMaps ==
  ASSUME IInv, Pause \/ PauseReturns
  PROVE  Abstract!HandBack \/ UNCHANGED Abstract!vars
<1>1. /\ UNCHANGED <<running, completed, closed, failed, plan, launched, delivered,
                     discarded, dropped>>
      /\ ~failed /\ ~closed /\ dpc # "closed"
      /\ \/ PauseMayReturn /\ TakeQueue
         \/ dpc' = "pause" /\ UNCHANGED <<queue, handedBack>>
  BY DEF Pause, PauseReturns, IInv, DriverAgrees, dispatchVars
<1>2. Remote' = Remote
  BY <1>1 DEF Remote, LaunchedOfPlan
<1>3. CASE PauseMayReturn /\ TakeQueue
  <2>1. plan = <<>>
    BY <1>3, NothingReservedNoPlan DEF PauseMayReturn
  <2>2. Planned = {} /\ Planned' = {}
    BY <1>1, <2>1 DEF Planned
  <2>3. queue' = <<>> /\ handedBack' = handedBack \cup Waiting /\ dpc' = "idle"
    BY <1>3, <2>2 DEF TakeQueue, Waiting
  <2>4. Waiting' = {}
    BY <2>2, <2>3 DEF Waiting, Elements
  <2> QED
    BY <1>1, <1>2, <2>3, <2>4 DEF Abstract!HandBack, Abstract!Usable, Tasks
<1>4. CASE dpc' = "pause" /\ UNCHANGED <<queue, handedBack>>
  <2>1. Waiting' = Waiting
    BY <1>1, <1>4 DEF Waiting, Planned
  <2> QED
    BY <1>1, <1>2, <1>4, <2>1, Hidden DEF historyVars
<1> QED
  BY <1>1, <1>3, <1>4

LEMMA DeliverMaps ==
  ASSUME IInv, TakeCompleted \/ TakeReturns \/ RunReturns
  PROVE  Abstract!Deliver
<1>1. /\ UNCHANGED <<queue, running, closed, failed, plan, launched, handedBack,
                     discarded, dropped>>
      /\ ~failed /\ ~closed /\ dpc # "closed" /\ dpc' = "idle"
      /\ completed' = {} /\ delivered' = delivered \cup completed
  BY DEF TakeCompleted, TakeReturns, RunReturns, Deliver, IInv, DriverAgrees, dispatchVars
<1>2. Remote' = Remote /\ Waiting' = Waiting
  BY <1>1 DEF Remote, LaunchedOfPlan, Waiting, Planned
<1>3. Tasks(completed)' = {} /\ Tasks(delivered)' = Tasks(delivered) \cup Tasks(completed)
  BY <1>1 DEF Tasks
<1>4. Tasks(Remote)' = Tasks(Remote) /\ Tasks(discarded)' = Tasks(discarded)
  BY <1>1, <1>2 DEF Tasks
<1> QED
  BY <1>1, <1>2, <1>3, <1>4 DEF Abstract!Deliver, Abstract!Usable

\* close gives up what is queued, and no planned task.
LEMMA CloseMaps ==
  ASSUME IInv, Placed, Close
  PROVE  \E some \in SUBSET Waiting : Abstract!Shut(some)
<1>1. /\ UNCHANGED <<running, completed, failed, plan, launched, handedBack,
                     delivered, discarded>>
      /\ ~closed /\ dpc = "idle" /\ closed' = TRUE /\ dpc' = "join"
      /\ queue' = <<>> /\ dropped' = dropped \cup Elements(queue)
  BY DEF Close, dispatchVars
<1>2. Remote' = Remote /\ Planned' = Planned
  BY <1>1 DEF Remote, LaunchedOfPlan, Planned
<1>3. Elements(queue) \cap Planned = {}
  <2>1. \A i, j \in 1 .. Length : Line(i) = Line(j) => i = j
    BY LineApart DEF IInv
  <2>2. Len(plan) \in Nat
    BY DEF IInv, TypeOK
  <2> QED
    BY <2>1, <2>2, PlacesOfLine
<1>4. Waiting' = Waiting \ Elements(queue)
  <2>1. Elements(queue)' = {}
    BY <1>1 DEF Elements
  <2> QED
    BY <1>2, <1>3, <2>1 DEF Waiting
<1>5. Elements(queue) \in SUBSET Waiting
  BY DEF Waiting
<1>6. Abstract!Shut(Elements(queue))
  BY <1>1, <1>2, <1>4 DEF Abstract!Shut, Tasks
<1> QED
  BY <1>5, <1>6

\* The rest of close accounts for what runs or is completed.
LEMMA DiscardMaps ==
  ASSUME IInv, CloseDiscards
  PROVE  Abstract!Release
<1>1. /\ UNCHANGED <<queue, failed, closed, plan, launched, handedBack, delivered, dropped>>
      /\ closed /\ dpc = "join" /\ dpc' = "closed" /\ plan = <<>>
      /\ running' = {} /\ completed' = {}
      /\ discarded' = discarded \cup running \cup completed
  BY DEF CloseDiscards, CloseMayDiscard, IInv, DriverAgrees, PlanIsLocal, dispatchVars
<1>2. Remote = running /\ Remote' = {} /\ Waiting' = Waiting
  BY <1>1 DEF Remote, LaunchedOfPlan, Waiting, Planned
<1>3. /\ Tasks(Remote)' = {} /\ Tasks(completed)' = {}
      /\ Tasks(discarded)' = UNION {Tasks(discarded), Tasks(Remote), Tasks(completed)}
      /\ Tasks(delivered)' = Tasks(delivered)
  BY <1>1, <1>2 DEF Tasks
<1> QED
  BY <1>1, <1>2, <1>3 DEF Abstract!Release

-----------------------------------------------------------------------------
\* A plan takes tasks of the queue, in which they wait as before.
LEMMA PlanHidden ==
  ASSUME IInv, PlanLaunches
  PROVE  UNCHANGED Abstract!vars
<1>1. /\ plan = <<>> /\ launched = 0
      /\ UNCHANGED <<running, completed, failed, closed, dpc, launched, historyVars>>
  BY DEF IInv, PlanIsLocal, PlanLaunches
<1>2. PICK p \in Assignments :
        /\ plan' = [i \in 1 .. Len(p) |-> [sequence |-> queue[i], launcher |-> p[i]]]
        /\ queue' = SubSeq(queue, Len(p) + 1, Len(queue))
  BY DEF PlanLaunches
<1>3. PICK k \in 0 .. Len(queue) : p \in [1 .. k -> Launchers]
  BY DEF Assignments
<1>4. k \in Nat /\ Len(queue) \in Nat /\ Len(p) = k /\ k <= Len(queue) /\ DOMAIN queue = 1 .. Len(queue)
  BY <1>3 DEF IInv, TypeOK
<1>5. DOMAIN plan' = 1 .. k /\ \A i \in 1 .. k : plan'[i].sequence = queue[i]
  BY <1>2, <1>4
<1>6. /\ DOMAIN queue' = 1 .. Len(queue) - k
      /\ \A i \in 1 .. Len(queue) - k : queue'[i] = queue[k + i]
  <2>1. queue' = [i \in 1 .. Len(queue) - k |-> queue[k + i]]
    <3>1. \A i \in 1 .. Len(queue) - k : i + (k + 1) - 1 = k + i
      BY <1>4
    <3> QED
      BY <3>1, <1>2, <1>4 DEF IInv, TypeOK
  <2> QED
    BY <2>1
<1>7. Planned = {} /\ Planned' = {queue[i] : i \in 1 .. k}
  <2>1. {j \in DOMAIN plan' : j > launched'} = 1 .. k
    BY <1>1, <1>4, <1>5
  <2> QED
    BY <1>1, <1>5, <2>1 DEF Planned
<1>8. Waiting' = Waiting
  <2>1. ASSUME NEW i \in 1 .. Len(queue)
        PROVE  queue[i] \in Elements(queue)' \cup Planned'
    <3>1. CASE i <= k
      BY <1>7, <3>1, <1>4
    <3>2. CASE i > k
      <4>1. i - k \in 1 .. Len(queue) - k /\ k + (i - k) = i
        BY <1>4, <3>2
      <4>2. queue'[i - k] = queue[i]
        BY <4>1, <1>6
      <4> QED
        BY <4>1, <4>2, <1>6 DEF Elements
    <3> QED
      BY <3>1, <3>2, <1>4
  <2>2. ASSUME NEW i \in 1 .. Len(queue) - k
        PROVE  queue'[i] \in Elements(queue)
    <3>1. k + i \in 1 .. Len(queue)
      BY <1>4
    <3> QED
      BY <3>1, <1>4, <1>6 DEF Elements
  <2>3. Planned' \subseteq Elements(queue)
    BY <1>4, <1>7 DEF Elements
  <2>4. Elements(queue)' = {queue'[i] : i \in 1 .. Len(queue) - k}
    BY <1>6 DEF Elements
  <2>5. Elements(queue) = {queue[i] : i \in 1 .. Len(queue)}
    BY <1>4 DEF Elements
  <2> QED
    BY <1>7, <2>1, <2>2, <2>3, <2>4, <2>5 DEF Waiting
<1>9. Remote' = Remote
  BY <1>1, <1>4, <1>5 DEF Remote, LaunchedOfPlan
<1> QED
  BY <1>1, <1>8, <1>9, Hidden

\* A launch starts a waiting task, for which there is a slot.
LEMMA LaunchMaps ==
  ASSUME Sound, IInv', LaunchNext
  PROVE  \E t \in Waiting : Abstract!Start(t)
<1> DEFINE u == plan[launched + 1]
<1>1. /\ tpc = "launch" /\ launched < Len(plan) /\ launched' = launched + 1
      /\ UNCHANGED <<queue, running, completed, closed, failed, dpc, plan, historyVars>>
      /\ launched \in Nat /\ Len(plan) \in Nat /\ DOMAIN plan = 1 .. Len(plan)
      /\ ~failed /\ dpc # "closed"
  BY DEF LaunchNext, Sound, IInv, TypeOK, FailureEnds, DriverAgrees
<1>2. launched + 1 \in 1 .. Len(plan)
  BY <1>1
<1>3. LaunchedOfPlan' = LaunchedOfPlan \cup {u}
  <2>1. {j \in DOMAIN plan : j <= launched + 1} = {j \in DOMAIN plan : j <= launched} \cup {launched + 1}
    BY <1>1, <1>2
  <2>2. LaunchedOfPlan' = {plan[i] : i \in {j \in DOMAIN plan : j <= launched + 1}}
    BY <1>1 DEF LaunchedOfPlan
  <2> QED
    BY <2>1, <2>2 DEF LaunchedOfPlan
<1>4. Remote' = Remote \cup {u}
  BY <1>1, <1>3 DEF Remote
<1>5. ASSUME NEW i \in 1 .. Len(plan), NEW j \in 1 .. Len(plan), i # j
      PROVE  plan[i].sequence # plan[j].sequence
  BY <1>5, LineParts, LineApart DEF Sound, IInv
<1>6. ASSUME NEW v \in Remote
      PROVE  v.sequence # u.sequence
  <2>1. CASE v \in running
    <3>1. v \in Out
      BY <2>1 DEF Out
    <3> QED
      BY <1>2, <3>1, LineParts, LineApart DEF Sound, IInv
  <2>2. CASE v \in LaunchedOfPlan
    <3>1. PICK i \in 1 .. Len(plan) : i <= launched /\ v = plan[i]
      BY <1>1, <2>2 DEF LaunchedOfPlan
    <3>2. i # launched + 1
      BY <1>1, <3>1
    <3> QED
      BY <1>2, <1>5, <3>1, <3>2
  <2> QED
    BY <2>1, <2>2 DEF Remote
<1>7. Planned' = Planned \ {u.sequence} /\ u.sequence \in Planned
  <2>1. {j \in DOMAIN plan : j > launched} = {j \in DOMAIN plan : j > launched + 1} \cup {launched + 1}
    BY <1>1, <1>2
  <2>2. Planned' = {plan[i].sequence : i \in {j \in DOMAIN plan : j > launched + 1}}
    BY <1>1 DEF Planned
  <2>3. u.sequence \notin Planned'
    <3>1. \A j \in DOMAIN plan : j > launched + 1 => plan[j].sequence # u.sequence
      BY <1>1, <1>2, <1>5
    <3> QED
      BY <2>2, <3>1
  <2>4. Planned = Planned' \cup {u.sequence}
    BY <2>1, <2>2 DEF Planned
  <2> QED
    BY <2>3, <2>4
<1>8. u.sequence \notin Elements(queue)
  <2>1. \A i, j \in 1 .. Length : Line(i) = Line(j) => i = j
    BY LineApart DEF Sound, IInv
  <2>2. launched + 1 \in 1 .. Length /\ u.sequence = Line(launched + 1)
    BY <1>2, LineParts DEF Sound, IInv
  <2>3. ASSUME NEW i \in 1 .. Length, i > Len(plan)
        PROVE  Line(i) # u.sequence
    BY <1>2, <2>1, <2>2, <2>3
  <2> QED
    BY <2>3, PlacesOfLine DEF Sound
<1>9. u.sequence \in Waiting /\ Waiting' = Waiting \ {u.sequence}
  <2>1. Elements(queue)' = Elements(queue)
    BY <1>1 DEF Elements
  <2> QED
    BY <1>7, <1>8, <2>1 DEF Waiting
<1>10. Tasks(Remote)' = Tasks(Remote) \cup {u.sequence}
  BY <1>4 DEF Tasks
<1>11. Cardinality(Tasks(Remote)) < TotalCapacity
  <2>1. /\ IsFiniteSet(Remote) /\ Cardinality(Remote) \in Nat /\ TotalCapacity \in Nat
    BY SlotsSuffice DEF Sound
  <2>2. Cardinality(Remote') <= TotalCapacity
    <3>1. Slots' = Slots
      BY DEF Slots
    <3>2. (Cardinality(Remote) <= TotalCapacity)'
      BY SlotsSuffice, PTL
    <3> QED
      BY <3>1, <3>2 DEF TotalCapacity
  <2>3. u \notin Remote
    BY <1>6
  <2>4. Cardinality(Remote') = Cardinality(Remote) + 1
    BY <1>4, <2>1, <2>3, FS_AddElement
  <2> DEFINE f == [v \in Remote |-> v.sequence]
  <2>5. Tasks(Remote) = {f[v] : v \in Remote}
    BY DEF Tasks
  <2> HIDE DEF f
  <2>6. IsFiniteSet(Tasks(Remote)) /\ Cardinality(Tasks(Remote)) <= Cardinality(Remote)
    BY <2>1, <2>5, ImageIsSmaller
  <2>7. Cardinality(Tasks(Remote)) \in Nat
    BY <2>6, FS_CardinalityType
  <2> QED
    BY <2>1, <2>2, <2>4, <2>6, <2>7
<1> HIDE DEF u
<1>12. Abstract!Start(u.sequence)
  BY <1>1, <1>9, <1>10, <1>11, AbstractCardinality DEF Abstract!Start, Tasks, historyVars
<1> QED
  BY <1>9, <1>12

\* What was launched stays out, and what was not goes on waiting, in the queue.
LEMMA CommitMaps ==
  ASSUME IInv, CommitLaunches \/ AbortLaunches
  PROVE  Abstract!Break \/ UNCHANGED Abstract!vars
<1>1. /\ running' = running \cup LaunchedOfPlan /\ plan' = <<>> /\ launched' = 0
      /\ UNCHANGED <<completed, closed, dpc, historyVars>>
      /\ dpc # "closed" /\ TypeOK
      /\ Len(plan) \in Nat /\ DOMAIN plan = 1 .. Len(plan)
  BY DEF CommitLaunches, AbortLaunches, IInv, DriverAgrees, TypeOK
<1>2. Remote' = Remote
  BY <1>1 DEF Remote, LaunchedOfPlan
<1>3. Planned' = {}
  BY <1>1 DEF Planned
<1>4. CASE CommitLaunches
  <2>1. Planned = {}
    BY <1>1, <1>4 DEF Planned, CommitLaunches
  <2>2. Waiting' = Waiting /\ failed' = failed
    BY <1>3, <1>4, <2>1 DEF Waiting, CommitLaunches
  <2> QED
    BY <1>1, <1>2, <2>2, Hidden
<1>5. CASE AbortLaunches
  <2>1. launched \in Nat /\ launched <= Len(plan) /\ queue \in Seq(Task)
    BY <1>1 DEF TypeOK
  <2> DEFINE m == Len(plan) - launched
  <2>2. /\ m \in Nat /\ Unlaunched = [i \in 1 .. m |-> plan[launched + i].sequence]
        /\ \A i \in 1 .. m : launched + i \in DOMAIN plan /\ launched + i > launched
    BY <1>1, <2>1 DEF Unlaunched
  <2>3. \A i \in DOMAIN plan : plan[i].sequence \in Task
    <3>1. \A i \in DOMAIN plan : plan[i] \in Unit
      BY <1>1 DEF TypeOK
    <3> QED
      BY <3>1 DEF Unit
  <2>4. \A j \in DOMAIN plan : j > launched => j - launched \in 1 .. m /\ launched + (j - launched) = j
    BY <1>1, <2>1
  <2> HIDE DEF m
  <2>5. Unlaunched \in Seq(Task) /\ DOMAIN Unlaunched = 1 .. m
    BY <2>2, <2>3
  <2>6. Elements(Unlaunched) = Planned
    <3>1. ASSUME NEW i \in 1 .. m
          PROVE  Unlaunched[i] \in Planned
      <4>1. launched + i \in DOMAIN plan /\ launched + i > launched /\ Unlaunched[i] = plan[launched + i].sequence
        BY <2>2
      <4> QED
        BY <4>1 DEF Planned
    <3>2. ASSUME NEW j \in DOMAIN plan, j > launched
          PROVE  plan[j].sequence \in Elements(Unlaunched)
      <4>1. PICK i \in 1 .. m : launched + i = j
        BY <2>4, <3>2
      <4>2. Unlaunched[i] = plan[j].sequence
        BY <2>2, <4>1
      <4> QED
        BY <2>5, <4>2 DEF Elements
    <3>3. Elements(Unlaunched) \subseteq Planned
      BY <2>5, <3>1 DEF Elements
    <3>4. Planned \subseteq Elements(Unlaunched)
      BY <3>2 DEF Planned
    <3> QED
      BY <3>3, <3>4
  <2>7. Elements(queue') = Planned \cup Elements(queue)
    <3>1. queue' = Unlaunched \o queue
      BY <1>5 DEF AbortLaunches
    <3> QED
      BY <2>1, <2>5, <2>6, <3>1, ElementsOfConcat
  <2>8. Waiting' = Waiting
    <3>1. Elements(queue)' = Elements(queue')
      BY DEF Elements
    <3> QED
      BY <1>3, <2>7, <3>1 DEF Waiting
  <2>9. failed' = TRUE
    BY <1>5 DEF AbortLaunches
  <2> QED
    BY <1>1, <1>2, <2>8, <2>9 DEF Abstract!Break, Tasks, historyVars
<1> QED
  BY <1>4, <1>5

\* The units of a sweep that still run are completed.
LEMMA MoveMaps ==
  ASSUME Sound, MoveReady
  PROVE  \E some \in SUBSET Tasks(Remote) : Abstract!Complete(some)
<1> DEFINE some == Tasks(ready \cap running)
<1>1. /\ running' = running \ ready /\ completed' = completed \cup (ready \cap running)
      /\ UNCHANGED <<queue, closed, failed, dpc, plan, launched, historyVars>>
      /\ plan = <<>> /\ ~failed /\ dpc # "closed"
  BY DEF MoveReady, Sound, FailureEnds, IInv, PlanIsLocal, DriverAgrees
<1>2. Remote = running /\ Remote' = running' /\ Waiting' = Waiting
  BY <1>1 DEF Remote, LaunchedOfPlan, Waiting, Planned
<1>3. Tasks(Remote)' = Tasks(Remote) \ some
  <2>1. \A u, v \in running : u.sequence = v.sequence => u = v
    BY DEF Sound, Placed, OutOnce, Out
  <2> QED
    BY <1>1, <1>2, <2>1 DEF Tasks
<1>4. Tasks(completed)' = Tasks(completed) \cup some
  BY <1>1 DEF Tasks
<1>5. some \in SUBSET Tasks(Remote)
  BY <1>2 DEF Tasks
<1>6. Tasks(delivered)' = Tasks(delivered) /\ Tasks(discarded)' = Tasks(discarded)
  BY <1>1 DEF Tasks, historyVars
<1> HIDE DEF some
<1>7. Abstract!Complete(some)
  BY <1>1, <1>2, <1>3, <1>4, <1>6 DEF Abstract!Complete, historyVars
<1> QED
  BY <1>5, <1>7

\* A failed poll breaks the pool.
LEMMA FailureMaps ==
  ASSUME IInv, RecordFailure
  PROVE  Abstract!Break
<1>1. /\ failed' = TRUE /\ dpc # "closed"
      /\ UNCHANGED <<queue, running, completed, closed, dpc, plan, launched, historyVars>>
  BY DEF RecordFailure, IInv, DriverAgrees
<1>2. Remote' = Remote /\ Waiting' = Waiting
  BY <1>1 DEF Remote, LaunchedOfPlan, Waiting, Planned
<1> QED
  BY <1>1, <1>2 DEF Abstract!Break, Tasks, historyVars

\* The remaining steps move a thread or an engine along.
LEMMA OthersHidden ==
  ASSUME IInv,
         \/ \E call \in {"take", "drain"} : Block(call)
         \/ WaitAgain \/ Raise \/ Exit \/ PollOrWait \/ LaunchRaises
         \/ Poll \/ PollRaises \/ Engines \/ UNCHANGED vars
  PROVE  UNCHANGED Abstract!vars
<1>1. /\ UNCHANGED <<queue, running, completed, closed, failed, plan, launched, historyVars>>
      /\ dpc' = dpc \/ (dpc # "closed" /\ dpc' # "closed")
  BY DEF Block, WaitAgain, Raise, Exit, PollOrWait, LaunchRaises, Poll, PollRaises,
         Engines, Finish, vars, dispatchVars
<1>2. Remote' = Remote /\ Waiting' = Waiting
  BY <1>1 DEF Remote, LaunchedOfPlan, Waiting, Planned
<1>3. (dpc = "closed")' = (dpc = "closed")
  BY <1>1
<1> QED
  BY <1>1, <1>2, <1>3, Hidden

LEMMA StepMaps ==
  ASSUME Sound, IInv', [Next]_vars
  PROVE  [Abstract!Next]_(Abstract!vars)
<1>1. IInv /\ Placed
  BY DEF Sound
<1>2. CASE Driver
  BY <1>1, <1>2, EnqueueMaps, PauseMaps, DeliverMaps, CloseMaps, DiscardMaps, OthersHidden
     DEF Driver, Abstract!Next
<1>3. CASE Dispatch
  BY <1>1, <1>3, PlanHidden, LaunchMaps, CommitMaps, MoveMaps, FailureMaps, OthersHidden
     DEF Dispatch, Abstract!Next
<1>4. CASE Engines \/ UNCHANGED vars
  BY <1>1, <1>4, OthersHidden
<1> QED
  BY <1>2, <1>3, <1>4 DEF Next

LEMMA InitMaps == Init => Abstract!Init
<1> SUFFICES ASSUME Init
             PROVE  Abstract!Init
  OBVIOUS
<1>1. Waiting = {} /\ Remote = {}
  BY DEF Init, Waiting, Planned, Elements, Remote, LaunchedOfPlan
<1> QED
  BY <1>1 DEF Init, Abstract!Init, Tasks

\* The pool keeps the promises of TaskPool: whatever the two threads, the engines
\* and the failures do, a task waits, starts in a free slot, completes and is
\* delivered, or is handed back or given up, and nothing starts after a failure
\* (dispatch.py, class RolloutPool as RolloutManager uses it).
THEOREM Implements == Spec => ImplementsTaskPool
<1>1. Init => FailureEnds
  BY DEF Init, FailureEnds
<1>2. FailureEnds /\ [Next]_vars => FailureEnds'
  BY NextFailureEnds
<1>3. Spec => []Sound
  BY <1>1, <1>2, PlacesHold, PTL DEF Spec, Sound
<1>4. Sound /\ Sound' /\ [Next]_vars => [Abstract!Next]_(Abstract!vars)
  BY StepMaps DEF Sound
<1> QED
  BY <1>3, <1>4, InitMaps, PTL DEF Spec, ImplementsTaskPool, Abstract!Spec
=============================================================================
