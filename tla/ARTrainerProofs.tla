--------------------------- MODULE ARTrainerProofs ---------------------------
(***************************************************************************)
(* Proofs about ARTrainer, for every number of rollouts, every set of sync *)
(* and evaluation intervals and every checkpoint: the record of the        *)
(* anchored layout is true, engine and train state are kept apart, and     *)
(* work finds the state it needs.                                          *)
(*                                                                         *)
(* The record is true although any call may fail or be interrupted,        *)
(* because every call of the anchored layout moves a role as a whole: the  *)
(* staged moves, after which "loaded" and "offloaded" are both wrong, are  *)
(* made by the other layout only.  That is the invariant WholeMoves.       *)
(***************************************************************************)
EXTENDS ARTrainer, TLAPS

WholeCalls ==
  {"offload", "build engine", "sleep", "ensure loaded", "ensure offloaded",
   "ensure awake", "ensure asleep", "extract", "push", "preserve", "generate",
   "evaluate", "train"}

CleanUp == [name : WholeCalls, clean : {<<>>}]
Step    == [name : WholeCalls, clean : Seq(CleanUp)]

Believed == {"yes", "no", "unknown"}

WholeMoves ==
  /\ recipe \in Recipe
  /\ known \in [backend : Believed, rollout : Believed]
  /\ recipe.anchored => todo \in Seq(Step)

RecordInv == WholeMoves /\ RecordTrue
-----------------------------------------------------------------------------
(***************************************************************************)
(* The sequences of calls of the anchored layout.                          *)
(***************************************************************************)

\* A call of one name, as a step and as part of a clean-up.
LEMMA CallIsStep ==
  ASSUME NEW name \in WholeCalls
  PROVE  Call(name) \in Seq(Step) /\ Call(name) \in Seq(CleanUp)
<1>1. [name |-> name, clean |-> <<>>] \in CleanUp /\ <<>> \in Seq(CleanUp)
  BY DEF CleanUp
<1>2. [name |-> name, clean |-> <<>>] \in Step
  BY <1>1 DEF Step
<1> QED BY <1>1, <1>2 DEF Call

\* A clean-up is a sequence of steps.
LEMMA CleanUpIsStep ==
  ASSUME NEW s \in Seq(CleanUp)
  PROVE  s \in Seq(Step)
<1>1. CleanUp \subseteq Step
  <2>1. <<>> \in Seq(CleanUp)
    OBVIOUS
  <2> QED BY <2>1 DEF CleanUp, Step
<1> QED BY <1>1

\* Guard gives steps another clean-up.
LEMMA GuardIsStep ==
  ASSUME NEW s \in Seq(Step), NEW c \in Seq(CleanUp)
  PROVE  Guard(s, c) \in Seq(Step)
<1>1. \A k \in DOMAIN s : s[k] \in Step
  OBVIOUS
<1>2. \A k \in DOMAIN s : [s[k] EXCEPT !.clean = c] \in Step
  BY <1>1 DEF Step
<1>3. DOMAIN s = 1 .. Len(s) /\ Len(s) \in Nat
  OBVIOUS
<1> QED BY <1>2, <1>3 DEF Guard

\* Steps made under a condition.
LEMMA IfIsStep ==
  ASSUME NEW condition, NEW s \in Seq(Step)
  PROVE  If(condition, s) \in Seq(Step)
BY DEF If

\* One sequence of steps after the other.
LEMMA ThenIsStep ==
  ASSUME NEW s \in Seq(Step), NEW t \in Seq(Step)
  PROVE  s \o t \in Seq(Step)
OBVIOUS

\* A session of the anchored layout makes whole moves.
LEMMA AnchoredIsStep ==
  ASSUME NEW c \in Recipe, c.anchored, NEW sync, NEW keep, NEW work \in Seq(Step)
  PROVE  Session(c, sync, keep, work) \in Seq(Step)
<1> DEFINE does == sync /\ c.sync # "none"
           kept == If(keep, Call("preserve")) \o work
           inner == If(does, Call("ensure loaded") \o Call("extract"))
                      \o Call("ensure offloaded") \o Call("ensure awake")
                      \o If(does, Call("push")) \o kept
<1>1. kept \in Seq(Step)
  <2>1. Call("preserve") \in Seq(Step)
    BY CallIsStep DEF WholeCalls
  <2> QED BY <2>1, IfIsStep, ThenIsStep
<1>2. inner \in Seq(Step)
  <2> HIDE DEF does, kept
  <2>1. \A name \in {"ensure loaded", "extract", "ensure offloaded", "ensure awake", "push"} :
          Call(name) \in Seq(Step)
    BY CallIsStep DEF WholeCalls
  <2>2. If(does, Call("ensure loaded") \o Call("extract")) \in Seq(Step)
    BY <2>1, IfIsStep, ThenIsStep
  <2>3. If(does, Call("push")) \in Seq(Step)
    BY <2>1, IfIsStep
  <2> QED BY <1>1, <2>1, <2>2, <2>3, ThenIsStep
<1>3. Session(c, sync, keep, work)
        = Guard(inner, Call("ensure asleep")) \o Call("ensure asleep")
  BY DEF Session, Anchored
<1>4. Call("ensure asleep") \in Seq(Step) /\ Call("ensure asleep") \in Seq(CleanUp)
  BY CallIsStep DEF WholeCalls
<1> HIDE DEF inner
<1> QED BY <1>2, <1>3, <1>4, GuardIsStep, ThenIsStep

LEMMA EvaluateIsStep ==
  ASSUME NEW c \in Recipe, c.anchored, NEW n, NEW nextSyncs
  PROVE  Evaluate(c, n, nextSyncs) \in Seq(Step)
<1>1. Call("evaluate") \in Seq(Step)
  BY CallIsStep DEF WholeCalls
<1> QED BY <1>1, AnchoredIsStep DEF Evaluate

LEMMA TrainStepIsStep ==
  ASSUME NEW c \in Recipe, c.anchored, NEW id
  PROVE  TrainStep(c, id) \in Seq(Step)
<1> DEFINE session(keep) == Session(c, SyncDue(c, id), keep, Call("generate"))
<1>1. \A name \in {"generate", "ensure loaded", "ensure offloaded", "train"} :
        Call(name) \in Seq(Step) /\ Call(name) \in Seq(CleanUp)
  BY CallIsStep DEF WholeCalls
<1>2. ASSUME NEW keep PROVE session(keep) \in Seq(Step)
  BY <1>1, AnchoredIsStep
<1>3. If(c.anchored, Call("ensure loaded")) \in Seq(Step)
  BY <1>1, IfIsStep
<1>4. If(c.anchored, Call("ensure offloaded")) \in Seq(Step)
  BY <1>1, IfIsStep
<1>5. If(c.anchored, Call("ensure offloaded")) \in Seq(CleanUp)
  BY <1>1 DEF If
<1>6. Guard(Call("train"), If(c.anchored, Call("ensure offloaded"))) \in Seq(Step)
  BY <1>1, <1>5, GuardIsStep
<1> HIDE DEF session
<1>7. ASSUME NEW keep
      PROVE  session(keep) \o If(c.anchored, Call("ensure loaded"))
               \o Guard(Call("train"), If(c.anchored, Call("ensure offloaded")))
               \o If(c.anchored, Call("ensure offloaded")) \in Seq(Step)
  BY <1>2, <1>3, <1>4, <1>6, ThenIsStep
<1> QED BY <1>7 DEF TrainStep, session

LEMMA BootIsStep ==
  ASSUME NEW c \in Recipe, c.anchored
  PROVE  Boot(c) \in Seq(Step)
<1>1. \A name \in {"offload", "build engine", "sleep"} : Call(name) \in Seq(Step)
  BY CallIsStep DEF WholeCalls
<1>2. If(c.offload, Call("offload")) \in Seq(Step) /\ If(c.offload, Call("sleep")) \in Seq(Step)
  BY <1>1, IfIsStep
<1>3. Boot(c) = If(c.offload, Call("offload")) \o Call("build engine")
                  \o If(c.offload, Call("sleep"))
  BY DEF Boot
<1> QED BY <1>1, <1>2, <1>3, ThenIsStep
-----------------------------------------------------------------------------
(***************************************************************************)
(* The invariant.                                                          *)
(***************************************************************************)
LEMMA RecordInit == Init => RecordInv
<1> SUFFICES ASSUME Init PROVE RecordInv
  OBVIOUS
<1>1. recipe \in Recipe
  BY DEF Init
<1>2. known \in [backend : Believed, rollout : Believed]
  BY DEF Init, Believed
<1>3. ASSUME recipe.anchored PROVE todo \in Seq(Step)
  <2>1. Boot(recipe) \in Seq(Step)
    BY <1>1, <1>3, BootIsStep
  <2>2. Evaluate(recipe, recipe.start, recipe.start > 0) \in Seq(Step)
    BY <1>1, <1>3, EvaluateIsStep
  <2>3. todo = Boot(recipe) \o If(recipe.evals > 0,
                                  Evaluate(recipe, recipe.start, recipe.start > 0))
    BY DEF Init
  <2> QED BY <2>1, <2>2, <2>3, IfIsStep, ThenIsStep
<1>4. RecordTrue
  BY DEF Init, RecordTrue
<1> QED BY <1>1, <1>2, <1>3, <1>4 DEF RecordInv, WholeMoves

\* However a call ends, what is left to do are steps.
LEMMA EndsInSteps ==
  ASSUME todo \in Seq(Step), todo # <<>>, Ends
  PROVE  todo' \in Seq(Step)
<1>1. CASE Returns
  BY <1>1 DEF Returns
<1>2. CASE Fails
  BY <1>2 DEF Fails
<1>3. CASE Interrupted
  <2>1. Head(todo) \in Step
    OBVIOUS
  <2>2. Head(todo).clean \in Seq(CleanUp)
    BY <2>1 DEF Step
  <2> QED BY <1>3, <2>2, CleanUpIsStep DEF Interrupted
<1> QED BY <1>1, <1>2, <1>3 DEF Ends

\* Record leaves a record, which is of the move just made, or unknown.
LEMMA RecordRecords ==
  ASSUME known \in [backend : Believed, rollout : Believed], recipe \in Recipe,
         NEW role \in {"backend", "rollout"}, NEW on \in BOOLEAN, Record(role, on)
  PROVE  /\ known' \in [backend : Believed, rollout : Believed]
         /\ recipe.anchored =>
              /\ known'[role] \in {IF on THEN "yes" ELSE "no", "unknown"}
              /\ \A other \in {"backend", "rollout"} \ {role} : known'[other] = known[other]
BY DEF Record, AfterRaise, Believed

LEMMA WholeMovesStep ==
  ASSUME WholeMoves, [Next]_vars
  PROVE  WholeMoves'
<1> USE DEF WholeMoves
<1>1. ASSUME todo # <<>>, Ends, recipe' = recipe
      PROVE  recipe.anchored => todo' \in Seq(Step)
  BY <1>1, EndsInSteps
<1>2. CASE Round
  <2>1. ASSUME recipe.anchored PROVE todo' \in Seq(Step)
    <3>1. TrainStep(recipe, upcoming) \in Seq(Step)
      BY <2>1, TrainStepIsStep
    <3>2. Evaluate(recipe, upcoming + 1, NextSyncs(recipe, upcoming + 1)) \in Seq(Step)
      BY <2>1, EvaluateIsStep
    <3>3. todo' = TrainStep(recipe, upcoming)
                    \o If(EvalFollows(recipe, upcoming + 1),
                          Evaluate(recipe, upcoming + 1, NextSyncs(recipe, upcoming + 1)))
      BY <1>2 DEF Round
    <3> QED BY <3>1, <3>2, <3>3, IfIsStep, ThenIsStep
  <2> QED BY <1>2, <2>1 DEF Round
<1>3. CASE EnsureNothing
  <2>1. Ends
    BY <1>3 DEF EnsureNothing, Ends
  <2> QED BY <1>1, <1>3, <2>1 DEF EnsureNothing
<1>4. CASE MoveTrain
  <2>1. todo # <<>> /\ Ends /\ recipe' = recipe
    BY <1>4 DEF MoveTrain, Made
  <2>2. known' \in [backend : Believed, rollout : Believed]
    BY <1>4, RecordRecords DEF MoveTrain
  <2> QED BY <1>1, <2>1, <2>2
<1>5. CASE Wake
  <2>1. todo # <<>> /\ Ends /\ recipe' = recipe
    BY <1>5 DEF Wake, Made
  <2>2. known' \in [backend : Believed, rollout : Believed]
    BY <1>5, RecordRecords DEF Wake
  <2> QED BY <1>1, <2>1, <2>2
<1>6. CASE Sleep
  <2>1. todo # <<>> /\ Ends /\ recipe' = recipe
    BY <1>6 DEF Sleep, Made
  <2>2. known' \in [backend : Believed, rollout : Believed]
    BY <1>6, RecordRecords DEF Sleep
  <2> QED BY <1>1, <2>1, <2>2
<1>7. ASSUME Preserve \/ Publish \/ Train \/ ReadWeights PROVE WholeMoves'
  <2>1. todo # <<>> /\ Ends /\ recipe' = recipe /\ known' = known
    BY <1>7 DEF Preserve, Publish, Train, ReadWeights, Made
  <2> QED BY <1>1, <2>1
<1>8. CASE NotMade
  <2>1. todo # <<>> /\ Ends /\ recipe' = recipe
    BY <1>8 DEF NotMade, Ends
  <2>2. known' \in [backend : Believed, rollout : Believed]
    BY <1>8 DEF NotMade, AfterRaise, Believed
  <2> QED BY <1>1, <2>1, <2>2
<1>9. CASE UNCHANGED vars
  BY <1>9 DEF vars
<1> QED BY <1>2, <1>3, <1>4, <1>5, <1>6, <1>7, <1>8, <1>9 DEF Next

\* In the anchored layout every call is one of WholeCalls.
LEMMA AnchoredCall ==
  ASSUME WholeMoves, recipe.anchored, NEW names, Made(names)
  PROVE  Head(todo).name \in names \cap WholeCalls
<1>1. todo \in Seq(Step) /\ todo # <<>>
  BY DEF WholeMoves, Made
<1>2. Head(todo) \in Step
  BY <1>1
<1> QED BY <1>2 DEF Step, Made

LEMMA RecordTrueStep ==
  ASSUME RecordInv, [Next]_vars
  PROVE  RecordTrue'
<1> USE DEF RecordInv
<1> known \in [backend : Believed, rollout : Believed] /\ recipe \in Recipe
  BY DEF WholeMoves
<1>0. ASSUME UNCHANGED <<recipe, known, train, engine>> PROVE RecordTrue'
  BY <1>0 DEF RecordTrue
<1>1. CASE MoveTrain
  <2>1. recipe' = recipe /\ engine' = engine /\ Record("backend", train' = State)
    BY <1>1 DEF MoveTrain
  <2> SUFFICES ASSUME recipe.anchored PROVE RecordTrue'
    BY <2>1 DEF RecordTrue
  <2>2. train' = {} \/ train' = State
    <3>1. ~Made({"offload optimizer"})
      BY AnchoredCall DEF WholeCalls
    <3>2. ~Made({"offload model"})
      BY AnchoredCall DEF WholeCalls
    <3> QED BY <1>1, <3>1, <3>2 DEF MoveTrain
  <2>3. /\ known'.backend \in {IF train' = State THEN "yes" ELSE "no", "unknown"}
        /\ known'.rollout = known.rollout
    BY <2>1, RecordRecords
  <2> QED BY <2>1, <2>2, <2>3 DEF RecordTrue, State
<1>2. CASE Wake
  <2>1. recipe' = recipe /\ train' = train /\ Record("rollout", TRUE)
    BY <1>2 DEF Wake
  <2> SUFFICES ASSUME recipe.anchored PROVE RecordTrue'
    BY <2>1 DEF RecordTrue
  <2>2. engine' = "awake"
    <3>1. ~Made({"wake weights"})
      BY AnchoredCall DEF WholeCalls
    <3> QED BY <1>2, <3>1 DEF Wake
  <2>3. known'.rollout \in {"yes", "unknown"} /\ known'.backend = known.backend
    BY <2>1, RecordRecords
  <2> QED BY <2>1, <2>2, <2>3 DEF RecordTrue
<1>3. CASE Sleep
  <2>1. recipe' = recipe /\ train' = train /\ engine' = "asleep" /\ Record("rollout", FALSE)
    BY <1>3 DEF Sleep
  <2> SUFFICES ASSUME recipe.anchored PROVE RecordTrue'
    BY <2>1 DEF RecordTrue
  <2>2. known'.rollout \in {"no", "unknown"} /\ known'.backend = known.backend
    BY <2>1, RecordRecords
  <2> QED BY <2>1, <2>2 DEF RecordTrue
<1>4. CASE NotMade
  <2>1. /\ recipe' = recipe /\ train' = train /\ engine' = engine
        /\ known'.backend \in {known.backend, "unknown"}
        /\ known'.rollout \in {known.rollout, "unknown"}
    BY <1>4 DEF NotMade, AfterRaise
  <2> QED BY <2>1 DEF RecordTrue
<1>5. CASE Round \/ EnsureNothing \/ Preserve \/ Publish \/ Train \/ ReadWeights
  BY <1>0, <1>5 DEF Round, EnsureNothing, Preserve, Publish, Train, ReadWeights
<1>6. CASE UNCHANGED vars
  BY <1>0, <1>6 DEF vars
<1> QED BY <1>1, <1>2, <1>3, <1>4, <1>5, <1>6 DEF Next

(***************************************************************************)
(* The anchored layout acts on its record of what it last moved; the       *)
(* record is true whatever call failed or was interrupted, for every       *)
(* schedule of rollouts, weight syncs and evaluations.                     *)
(***************************************************************************)
THEOREM MovesBelievedAreDone == Spec => []RecordTrue
<1>1. Init => RecordInv
  BY RecordInit
<1>2. RecordInv /\ [Next]_vars => RecordInv'
  BY WholeMovesStep, RecordTrueStep DEF RecordInv
<1>3. RecordInv => RecordTrue
  BY DEF RecordInv
<1> QED BY <1>1, <1>2, <1>3, PTL DEF Spec

-----------------------------------------------------------------------------
(***************************************************************************)
(* ARTrainer keeps the engine and the train state apart on the GPU, for    *)
(* every schedule of rollouts, weight syncs and evaluations, whichever     *)
(* call fails or is interrupted.                                           *)
(*                                                                         *)
(* The argument is that of an annotated program.  A call needs something   *)
(* of the GPU before it may be made and gives something when it returns;   *)
(* the calls still to make are a Line: each gives what the next one needs. *)
(* The state satisfies what the first one needs, and an exception          *)
(* handler's first call needs no more than what held when its own call was *)
(* made.  Sequences of calls are composed as in Hoare's rule: Part(s, p,   *)
(* q) says that s is a line that needs p and gives q.                      *)
(***************************************************************************)
One(name, clean) == <<[name |-> name, clean |-> clean]>>

\* The calls of the other layout.
SplitCalls ==
  {"offload", "onload", "offload optimizer", "offload model", "build engine",
   "build sync", "sleep", "wake", "wake weights", "sync", "preserve", "generate",
   "evaluate", "train"}

Names(c) == IF c.anchored THEN WholeCalls ELSE SplitCalls

\* The exception handlers' calls.
Careful == {One("onload", <<>>), One("ensure offloaded", <<>>)}
Cleans(c) ==
  IF c.anchored
  THEN {<<>>, One("ensure asleep", <<>>), One("ensure offloaded", <<>>)}
  ELSE {<<>>, One("sleep", <<>>), One("onload", <<>>),
        One("sleep", <<>>) \o One("onload", <<>>)}

\* What is known of the GPU: anything, the engine is asleep, the train state is
\* gone, or at least the optimizer is.
Holds(p, state, eng) ==
  /\ p = "asleep" => eng = "asleep"
  /\ p = "gone"   => state = {}
  /\ p = "light"  => "optimizer" \notin state

\* What a call needs, but for one that is woken in full to be synced.
Requires(c, name) ==
  IF name \in {"onload", "ensure loaded", "extract", "ensure offloaded"} THEN "asleep"
  ELSE IF name \in {"build engine", "ensure awake", "wake"} THEN "gone"
  ELSE IF name \in {"wake weights", "sync", "offload model"} /\ c.sync = "streaming"
       THEN "light"
  ELSE "any"

Need(c, s, k) ==
  IF s[k].clean \in Careful THEN "asleep"
  ELSE IF /\ s[k].name = "wake" /\ ~c.staged
          /\ k < Len(s) /\ s[k + 1].name = "sync"
       THEN "any"
  ELSE Requires(c, s[k].name)

\* What a call gives.
Gives(c, call) ==
  {"any"}
  \cup (IF \/ call.name \in {"sleep", "ensure asleep", "onload", "ensure loaded", "extract",
                             "ensure offloaded"}
           \/ call.clean \in Careful
        THEN {"asleep"} ELSE {})
  \cup (IF \/ call.name \in {"offload", "ensure offloaded"}
           \/ call.name = "offload model" /\ c.sync = "streaming"
        THEN {"gone"} ELSE {})
  \cup (IF \/ call.name = "offload optimizer"
           \/ call.name \in {"wake weights", "sync"} /\ c.sync = "streaming"
        THEN {"light"} ELSE {})

Fit(c, call) ==
  /\ call \in [name : Names(c), clean : Cleans(c)]
  /\ call.clean \in Careful => call.name \in {"offload", "train"}

Line(c, s) ==
  /\ s \in Seq([name : Names(c), clean : Cleans(c)])
  /\ \A k \in DOMAIN s :
       /\ Fit(c, s[k])
       /\ k < Len(s) => Need(c, s, k + 1) \in Gives(c, s[k]) \cup {"any"}

Part(c, s, p, q) ==
  /\ Line(c, s) /\ s # <<>>
  /\ Need(c, s, 1) \in {p, "any"}
  /\ q \in Gives(c, s[Len(s)])

\* The calls s may be made, with that train state and engine on the GPU.  Between
\* two rounds the anchored engine is asleep.
Ready(c, s, state, eng, over) ==
  /\ Line(c, s)
  /\ s # <<>> => Holds(Need(c, s, 1), state, eng)
  /\ c.anchored /\ ~over =>
       IF s = <<>> THEN eng = "asleep" ELSE "asleep" \in Gives(c, s[Len(s)])

ApartInv ==
  /\ RecordInv
  /\ Accepted(recipe) /\ train \subseteq State
  /\ Offloads(recipe) => Ready(recipe, todo, train, engine, ended)
-----------------------------------------------------------------------------
(***************************************************************************)
(* Composing lines.                                                        *)
(***************************************************************************)

\* A call in a longer sequence needs what it needs in its own, or nothing.
LEMMA NeedThen ==
  ASSUME NEW c, NEW A, NEW s \in Seq(A), NEW t \in Seq(A), NEW k \in DOMAIN (s \o t)
  PROVE  /\ k < Len(s) => Need(c, s \o t, k) = Need(c, s, k)
         /\ k = Len(s) => Need(c, s \o t, k) \in {Need(c, s, k), "any"}
         /\ k > Len(s) => Need(c, s \o t, k) = Need(c, t, k - Len(s))
<1>1. /\ Len(s \o t) = Len(s) + Len(t) /\ k \in 1 .. Len(s) + Len(t)
      /\ \A i \in 1 .. Len(s) + Len(t) :
           (s \o t)[i] = IF i <= Len(s) THEN s[i] ELSE t[i - Len(s)]
      /\ Len(s) \in Nat /\ Len(t) \in Nat
  OBVIOUS
<1>2. CASE k < Len(s)
  <2>1. (s \o t)[k] = s[k] /\ (s \o t)[k + 1] = s[k + 1] /\ k < Len(s \o t)
    BY <1>1, <1>2
  <2> QED BY <1>1, <1>2, <2>1 DEF Need
<1>3. CASE k = Len(s)
  <2>1. (s \o t)[k] = s[k] /\ ~(k < Len(s))
    BY <1>1, <1>3
  <2> QED BY <1>1, <1>3, <2>1 DEF Need
<1>4. CASE k > Len(s)
  <2>1. /\ (s \o t)[k] = t[k - Len(s)]
        /\ (k < Len(s \o t)) <=> (k - Len(s) < Len(t))
        /\ k < Len(s \o t) => (s \o t)[k + 1] = t[(k - Len(s)) + 1]
    BY <1>1, <1>4
  <2> QED BY <1>1, <1>4, <2>1 DEF Need
<1> QED BY <1>1, <1>2, <1>3, <1>4

LEMMA Then ==
  ASSUME NEW c, NEW s, NEW t, NEW p, NEW q, NEW r, Part(c, s, p, q), Part(c, t, q, r)
  PROVE  Part(c, s \o t, p, r)
<1> DEFINE A == [name : Names(c), clean : Cleans(c)]
<1>1. s \in Seq(A) /\ t \in Seq(A) /\ s # <<>> /\ t # <<>>
  BY DEF Part, Line
<1> HIDE DEF A
<1>2. /\ Len(s) \in Nat \ {0} /\ Len(t) \in Nat \ {0} /\ Len(s \o t) = Len(s) + Len(t)
      /\ DOMAIN s = 1 .. Len(s) /\ DOMAIN t = 1 .. Len(t)
      /\ DOMAIN (s \o t) = 1 .. Len(s) + Len(t) /\ s \o t \in Seq(A) /\ s \o t # <<>>
      /\ \A i \in 1 .. Len(s) + Len(t) :
           (s \o t)[i] = IF i <= Len(s) THEN s[i] ELSE t[i - Len(s)]
  BY <1>1
<1>3. ASSUME NEW k \in DOMAIN (s \o t)
      PROVE  /\ Fit(c, (s \o t)[k])
             /\ k < Len(s \o t) =>
                  Need(c, s \o t, k + 1) \in Gives(c, (s \o t)[k]) \cup {"any"}
  <2>1. CASE k < Len(s)
    <3>1. (s \o t)[k] = s[k] /\ k + 1 \in DOMAIN (s \o t) /\ k \in DOMAIN s
      BY <1>2, <2>1
    <3>2. Need(c, s \o t, k + 1) \in {Need(c, s, k + 1), "any"}
      BY <1>1, <1>2, <2>1, <3>1, NeedThen
    <3>3. Fit(c, s[k]) /\ Need(c, s, k + 1) \in Gives(c, s[k]) \cup {"any"}
      BY <2>1, <3>1 DEF Part, Line
    <3> QED BY <3>1, <3>2, <3>3
  <2>2. CASE k = Len(s)
    <3>1. (s \o t)[k] = s[k] /\ k + 1 \in DOMAIN (s \o t) /\ k \in DOMAIN s
      BY <1>2, <2>2
    <3>2. Need(c, s \o t, k + 1) = Need(c, t, 1)
      BY <1>1, <1>2, <2>2, <3>1, NeedThen
    <3>3. Fit(c, s[k])
      BY <3>1 DEF Part, Line
    <3>4. q \in Gives(c, s[k]) /\ Need(c, t, 1) \in {q, "any"}
      BY <2>2 DEF Part
    <3> QED BY <3>1, <3>2, <3>3, <3>4
  <2>3. CASE k > Len(s)
    <3>1. (s \o t)[k] = t[k - Len(s)] /\ k - Len(s) \in DOMAIN t
      BY <1>2, <2>3
    <3>2. Fit(c, t[k - Len(s)])
      BY <3>1 DEF Part, Line
    <3>3. ASSUME k < Len(s \o t)
          PROVE  Need(c, s \o t, k + 1) \in Gives(c, (s \o t)[k]) \cup {"any"}
      <4>1. k + 1 \in DOMAIN (s \o t) /\ k + 1 > Len(s) /\ k - Len(s) < Len(t)
        BY <1>2, <2>3, <3>3
      <4>2. Need(c, s \o t, k + 1) = Need(c, t, (k + 1) - Len(s))
        BY <1>1, <4>1, NeedThen
      <4>3. (k + 1) - Len(s) = (k - Len(s)) + 1
        BY <1>2
      <4>4. Need(c, t, (k - Len(s)) + 1) \in Gives(c, t[k - Len(s)]) \cup {"any"}
        BY <3>1, <4>1 DEF Part, Line
      <4> QED BY <3>1, <4>2, <4>3, <4>4
    <3> QED BY <3>1, <3>2, <3>3
  <2> QED BY <1>2, <2>1, <2>2, <2>3
<1>4. Line(c, s \o t)
  BY <1>2, <1>3 DEF Line, A
<1>5. Need(c, s \o t, 1) \in {Need(c, s, 1), "any"}
  <2>1. 1 \in DOMAIN (s \o t) /\ 1 <= Len(s)
    BY <1>2
  <2> QED BY <1>1, <1>2, <2>1, NeedThen
<1>6. Need(c, s, 1) \in {p, "any"}
  BY DEF Part
<1>7. (s \o t)[Len(s \o t)] = t[Len(t)]
  BY <1>2
<1>8. r \in Gives(c, t[Len(t)])
  BY DEF Part
<1> QED BY <1>2, <1>4, <1>5, <1>6, <1>7, <1>8 DEF Part

\* What is needed may be stronger, and what is given weaker.
LEMMA Weaker ==
  ASSUME NEW c, NEW s, NEW p, NEW q, Part(c, s, "any", q)
  PROVE  Part(c, s, p, q)
BY DEF Part

LEMMA GivesLess ==
  ASSUME NEW c, NEW s, NEW p, NEW q, Part(c, s, p, q)
  PROVE  Part(c, s, p, "any")
BY DEF Part, Gives

\* A single call.
LEMMA OneIsPart ==
  ASSUME NEW c, NEW name \in Names(c), NEW clean \in Cleans(c),
         clean \in Careful => name \in {"offload", "train"},
         NEW p, p = IF clean \in Careful THEN "asleep" ELSE Requires(c, name),
         NEW q, q \in Gives(c, [name |-> name, clean |-> clean])
  PROVE  Part(c, One(name, clean), p, q)
<1> DEFINE call == [name |-> name, clean |-> clean]
           A == [name : Names(c), clean : Cleans(c)]
<1>1. call \in A /\ call.name = name /\ call.clean = clean
  OBVIOUS
<1>2. Fit(c, call)
  BY <1>1 DEF Fit
<1> HIDE DEF A, call
<1>3. /\ One(name, clean) = <<call>> /\ Len(<<call>>) = 1 /\ <<call>>[1] = call
      /\ DOMAIN <<call>> = {1} /\ <<call>> \in Seq(A) /\ <<call>> # <<>>
  BY <1>1 DEF One, call
<1>4. Need(c, <<call>>, 1) = p
  BY <1>1, <1>3 DEF Need
<1>5. Line(c, <<call>>)
  BY <1>2, <1>3 DEF Line, A
<1>6. q \in Gives(c, call)
  BY DEF call
<1> QED BY <1>3, <1>4, <1>5, <1>6 DEF Part
-----------------------------------------------------------------------------
(***************************************************************************)
(* The calls of the layout with an engine beside every trainer.            *)
(***************************************************************************)
LEMMA OneFacts ==
  ASSUME NEW name, NEW clean
  PROVE  /\ One(name, clean) \in Seq({[name |-> name, clean |-> clean]})
         /\ Len(One(name, clean)) = 1
         /\ One(name, clean)[1].name = name /\ One(name, clean)[1].clean = clean
BY DEF One

\* Two calls.
LEMMA TwoFacts ==
  ASSUME NEW a, NEW b, NEW p, NEW q
  PROVE  LET two == One(a, p) \o One(b, q)
         IN  /\ Len(two) = 2 /\ two[1].name = a /\ two[1].clean = p
             /\ two[2].name = b /\ two[2].clean = q
<1> DEFINE A == {[name |-> a, clean |-> p], [name |-> b, clean |-> q]}
<1>1. One(a, p) \in Seq(A) /\ One(b, q) \in Seq(A)
  BY DEF One
<1>2. Len(One(a, p)) = 1 /\ Len(One(b, q)) = 1
  BY OneFacts
<1> DEFINE s == One(a, p)
           t == One(b, q)
<1>3. /\ s[1].name = a /\ s[1].clean = p
      /\ t[1].name = b /\ t[1].clean = q
  BY OneFacts
<1> HIDE DEF A, s, t
<1>4. /\ Len(s \o t) = Len(s) + Len(t)
      /\ \A i \in 1 .. Len(s) + Len(t) :
           (s \o t)[i] = IF i <= Len(s) THEN s[i] ELSE t[i - Len(s)]
  BY <1>1 DEF s, t
<1>5. Len(s) = 1 /\ Len(t) = 1
  BY <1>2 DEF s, t
<1>6. Len(s \o t) = 2 /\ (s \o t)[1] = s[1] /\ (s \o t)[2] = t[1]
  BY <1>4, <1>5
<1> QED BY <1>3, <1>6 DEF s, t

LEMMA CallIsOne == ASSUME NEW name PROVE Call(name) = One(name, <<>>)
BY DEF Call, One

\* Guard reaches every call.
LEMMA GuardOne ==
  ASSUME NEW name, NEW clean PROVE Guard(Call(name), clean) = One(name, clean)
BY DEF Guard, Call, One

LEMMA GuardThen ==
  ASSUME NEW A, NEW s \in Seq(A), NEW t \in Seq(A), NEW clean
  PROVE  Guard(s \o t, clean) = Guard(s, clean) \o Guard(t, clean)
<1> DEFINE g(x) == [x EXCEPT !.clean = clean]
           B == {g(x) : x \in A}
<1>1. /\ Guard(s, clean) = [k \in 1 .. Len(s) |-> g(s[k])]
      /\ Guard(t, clean) = [k \in 1 .. Len(t) |-> g(t[k])]
      /\ Guard(s \o t, clean) = [k \in 1 .. Len(s) + Len(t) |-> g((s \o t)[k])]
  BY DEF Guard
<1>a. /\ \A k \in 1 .. Len(s) : s[k] \in A
      /\ \A k \in 1 .. Len(t) : t[k] \in A
      /\ Len(s) \in Nat /\ Len(t) \in Nat
  OBVIOUS
<1>b. \A x \in A : g(x) \in B
  OBVIOUS
<1> HIDE DEF g, B
<1>2. /\ Guard(s, clean) \in Seq(B) /\ Len(Guard(s, clean)) = Len(s)
      /\ Guard(t, clean) \in Seq(B) /\ Len(Guard(t, clean)) = Len(t)
  BY <1>1, <1>a, <1>b
<1>3. \A k \in 1 .. Len(s) + Len(t) :
        g((s \o t)[k]) = (Guard(s, clean) \o Guard(t, clean))[k]
  BY <1>1, <1>2, <1>a
<1> QED BY <1>1, <1>2, <1>3, <1>a

Leave == One("sleep", <<>>) \o One("onload", <<>>)

\* None of the clean-ups that wait for nothing is careful.
LEMMA LeaveIsNotCareful ==
  /\ <<>> \notin Careful /\ One("sleep", <<>>) \notin Careful /\ Leave \notin Careful
  /\ One("ensure asleep", <<>>) \notin Careful
<1>1. \A s \in Careful : s = One("onload", <<>>) \/ s = One("ensure offloaded", <<>>)
  BY DEF Careful
<1>2. ASSUME NEW s \in Careful
      PROVE  Len(s) = 1 /\ s[1].name \in {"onload", "ensure offloaded"}
  <2>1. PICK name \in {"onload", "ensure offloaded"} : s = One(name, <<>>)
    BY <1>1
  <2>2. Len(s) = 1 /\ s[1].name = name
    BY <2>1, OneFacts
  <2> QED BY <2>2
<1>3. Len(Leave) = 2
  BY TwoFacts DEF Leave
<1>4. <<>> \notin Careful /\ Leave \notin Careful
  <2>1. ASSUME <<>> \in Careful PROVE FALSE
    <3>1. Len(<<>>) = 1
      BY <1>2, <2>1
    <3> QED BY <3>1
  <2>2. ASSUME Leave \in Careful PROVE FALSE
    <3>1. Len(Leave) = 1
      BY <1>2, <2>2
    <3> QED BY <3>1, <1>3
  <2> QED BY <2>1, <2>2
<1>5. One("sleep", <<>>)[1].name = "sleep" /\ One("ensure asleep", <<>>)[1].name = "ensure asleep"
  BY OneFacts
<1>6. One("sleep", <<>>) \notin Careful /\ One("ensure asleep", <<>>) \notin Careful
  BY <1>2, <1>5
<1> QED BY <1>4, <1>6

LEMMA SplitOnes ==
  ASSUME NEW c \in Recipe, ~c.anchored, NEW clean \in {<<>>, One("sleep", <<>>), Leave}
  PROVE  /\ Part(c, One("sleep", clean), "any", "asleep")
         /\ Part(c, One("onload", clean), "asleep", "asleep")
         /\ Part(c, One("offload", clean), "any", "gone")
         /\ Part(c, One("offload optimizer", clean), "any", "light")
         /\ Part(c, One("build engine", clean), "gone", "any")
         /\ Part(c, One("wake", clean), "gone", "any")
         /\ \A name \in {"build sync", "preserve", "generate", "evaluate", "train"} :
              Part(c, One(name, clean), "any", "any")
         /\ c.sync = "streaming" =>
              /\ Part(c, One("wake weights", clean), "light", "light")
              /\ Part(c, One("sync", clean), "light", "light")
              /\ Part(c, One("offload model", clean), "light", "gone")
         /\ c.sync # "streaming" =>
              /\ Part(c, One("wake weights", clean), "any", "any")
              /\ Part(c, One("sync", clean), "any", "any")
<1>1. clean \in Cleans(c) /\ clean \notin Careful
  BY LeaveIsNotCareful DEF Cleans, Leave
<1>2. ASSUME NEW name \in SplitCalls, NEW q, q \in Gives(c, [name |-> name, clean |-> clean])
      PROVE  Part(c, One(name, clean), Requires(c, name), q)
  BY <1>1, <1>2, OneIsPart DEF Names
<1>3. Part(c, One("sleep", clean), "any", "asleep")
  BY <1>2 DEF SplitCalls, Gives, Requires
<1>4. Part(c, One("onload", clean), "asleep", "asleep")
  BY <1>2 DEF SplitCalls, Gives, Requires
<1>5. Part(c, One("offload", clean), "any", "gone")
  BY <1>2 DEF SplitCalls, Gives, Requires
<1>6. Part(c, One("offload optimizer", clean), "any", "light")
  BY <1>2 DEF SplitCalls, Gives, Requires
<1>7. Part(c, One("build engine", clean), "gone", "any")
  BY <1>2 DEF SplitCalls, Gives, Requires
<1>8. Part(c, One("wake", clean), "gone", "any")
  BY <1>2 DEF SplitCalls, Gives, Requires
<1>9. \A name \in {"build sync", "preserve", "generate", "evaluate", "train"} :
        Part(c, One(name, clean), "any", "any")
  BY <1>2 DEF SplitCalls, Gives, Requires
<1>10. c.sync = "streaming" =>
         /\ Part(c, One("wake weights", clean), "light", "light")
         /\ Part(c, One("sync", clean), "light", "light")
         /\ Part(c, One("offload model", clean), "light", "gone")
  BY <1>2 DEF SplitCalls, Gives, Requires
<1>11. c.sync # "streaming" =>
         /\ Part(c, One("wake weights", clean), "any", "any")
         /\ Part(c, One("sync", clean), "any", "any")
  BY <1>2 DEF SplitCalls, Gives, Requires
<1> QED BY <1>3, <1>4, <1>5, <1>6, <1>7, <1>8, <1>9, <1>10, <1>11

\* An engine that cannot wake in stages is woken in full, to be synced.
LEMMA WakeToSync ==
  ASSUME NEW c \in Recipe, ~c.anchored, ~c.staged, c.sync # "streaming",
         NEW clean \in {<<>>, One("sleep", <<>>), Leave}
  PROVE  Part(c, One("wake", clean) \o One("sync", clean), "any", "any")
<1>1. /\ Part(c, One("wake", clean), "gone", "any")
      /\ Part(c, One("sync", clean), "any", "any")
  BY SplitOnes
<1>2. Part(c, One("wake", clean) \o One("sync", clean), "gone", "any")
  BY <1>1, Then
<1>3. Need(c, One("wake", clean) \o One("sync", clean), 1) = "any"
  <2>1. clean \notin Careful
    BY LeaveIsNotCareful
  <2> DEFINE both == One("wake", clean) \o One("sync", clean)
  <2>3. /\ Len(both) = 2 /\ both[1].clean = clean /\ both[1].name = "wake"
        /\ both[1 + 1].name = "sync"
    BY TwoFacts
  <2> HIDE DEF both
  <2>4. Need(c, both, 1) = "any"
    BY <2>1, <2>3 DEF Need
  <2> QED BY <2>4 DEF both
<1> QED BY <1>2, <1>3 DEF Part

\* The clean-ups of a session.
LEMMA FinishIs == Finish(TRUE) = Leave /\ Finish(FALSE) = One("sleep", <<>>)
<1>1. Call("sleep") = One("sleep", <<>>) /\ Call("onload") = One("onload", <<>>)
  BY CallIsOne
<1>2. One("sleep", <<>>) \o <<>> = One("sleep", <<>>)
  BY OneFacts
<1> QED BY <1>1, <1>2 DEF Finish, Leave, If

LEMMA LeaveIsPart ==
  ASSUME NEW c \in Recipe, ~c.anchored PROVE Part(c, Leave, "any", "asleep")
<1>1. Part(c, One("sleep", <<>>), "any", "asleep") /\ Part(c, One("onload", <<>>), "asleep", "asleep")
  BY SplitOnes
<1> QED BY <1>1, Then DEF Leave

\* Two calls with one clean-up.
LEMMA GuardTwo ==
  ASSUME NEW a, NEW b, NEW clean
  PROVE  Guard(Call(a) \o Call(b), clean) = One(a, clean) \o One(b, clean)
<1>1. /\ Call(a) \in Seq({[name |-> a, clean |-> <<>>], [name |-> b, clean |-> <<>>]})
      /\ Call(b) \in Seq({[name |-> a, clean |-> <<>>], [name |-> b, clean |-> <<>>]})
  BY DEF Call
<1>2. Guard(Call(a) \o Call(b), clean) = Guard(Call(a), clean) \o Guard(Call(b), clean)
  BY <1>1, GuardThen
<1> QED BY <1>2, GuardOne

\* _prepare_rollout, in each of its four ways.
LEMMA PrepareIsPart ==
  ASSUME NEW c \in Recipe, ~c.anchored, Accepted(c), Offloads(c), NEW sync \in BOOLEAN
  PROVE  Part(c, Prepare(c, sync), "any", "any")
<1> DEFINE sl == One("sleep", <<>>)
<1>1. Offloads(c) = TRUE
  BY DEF Offloads, Recipe
<1>2. CASE sync /\ c.staged /\ c.sync = "streaming"
  <2>1. Prepare(c, sync)
          = One("offload optimizer", sl) \o One("wake weights", <<>>) \o One("sync", <<>>)
              \o One("offload model", <<>>) \o One("wake", <<>>)
    BY <1>1, <1>2, FinishIs, GuardOne, CallIsOne DEF Prepare
  <2>2. Part(c, One("offload optimizer", sl), "any", "light")
    BY SplitOnes
  <2>3. /\ Part(c, One("wake weights", <<>>), "light", "light")
        /\ Part(c, One("sync", <<>>), "light", "light")
        /\ Part(c, One("offload model", <<>>), "light", "gone")
        /\ Part(c, One("wake", <<>>), "gone", "any")
    BY <1>2, SplitOnes
  <2>4. Part(c, One("offload optimizer", sl) \o One("wake weights", <<>>), "any", "light")
    BY <2>2, <2>3, Then
  <2>5. Part(c, One("offload optimizer", sl) \o One("wake weights", <<>>) \o One("sync", <<>>),
             "any", "light")
    BY <2>3, <2>4, Then
  <2>6. Part(c, One("offload optimizer", sl) \o One("wake weights", <<>>) \o One("sync", <<>>)
                  \o One("offload model", <<>>), "any", "gone")
    BY <2>3, <2>5, Then
  <2> QED BY <2>1, <2>3, <2>6, Then
<1>3. CASE sync /\ c.staged /\ c.sync # "streaming"
  <2>1. Prepare(c, sync)
          = One("wake weights", sl) \o One("sync", sl) \o One("offload", Leave)
              \o One("wake", <<>>)
    <3>1. Prepare(c, sync)
            = Guard(Call("wake weights") \o Call("sync"), Finish(FALSE))
                \o Guard(Call("offload"), Finish(TRUE)) \o Call("wake")
      BY <1>1, <1>3 DEF Prepare
    <3>2. Guard(Call("wake weights") \o Call("sync"), sl)
            = One("wake weights", sl) \o One("sync", sl)
      BY GuardTwo
    <3>3. Guard(Call("offload"), Leave) = One("offload", Leave)
      BY GuardOne
    <3>4. Call("wake") = One("wake", <<>>)
      BY CallIsOne
    <3> QED BY <3>1, <3>2, <3>3, <3>4, FinishIs
  <2>2. Part(c, One("wake weights", sl), "any", "any") /\ Part(c, One("sync", sl), "any", "any")
    BY <1>3, SplitOnes
  <2>3. Part(c, One("offload", Leave), "any", "gone") /\ Part(c, One("wake", <<>>), "gone", "any")
    BY SplitOnes
  <2>4. Part(c, One("wake weights", sl) \o One("sync", sl), "any", "any")
    BY <2>2, Then
  <2>5. Part(c, One("wake weights", sl) \o One("sync", sl) \o One("offload", Leave), "any", "gone")
    BY <2>3, <2>4, Then
  <2> QED BY <2>1, <2>3, <2>5, Then
<1>4. CASE sync /\ ~c.staged
  <2>1. Prepare(c, sync) = One("wake", sl) \o One("sync", sl) \o One("offload", Leave)
    <3>1. Prepare(c, sync)
            = Guard(Call("wake") \o Call("sync"), Finish(FALSE))
                \o Guard(Call("offload"), Finish(TRUE))
      BY <1>1, <1>4 DEF Prepare, If
    <3>2. Guard(Call("wake") \o Call("sync"), sl) = One("wake", sl) \o One("sync", sl)
      BY GuardTwo
    <3>3. Guard(Call("offload"), Leave) = One("offload", Leave)
      BY GuardOne
    <3> QED BY <3>1, <3>2, <3>3, FinishIs
  <2>2. c.sync # "streaming"
    BY <1>4 DEF Accepted
  <2>3. Part(c, One("wake", sl) \o One("sync", sl), "any", "any")
    BY <1>4, <2>2, WakeToSync
  <2>4. Part(c, One("offload", Leave), "any", "any")
    BY SplitOnes, GivesLess
  <2> QED BY <2>1, <2>3, <2>4, Then
<1>5. CASE ~sync
  <2>1. Prepare(c, sync) = One("offload", Leave) \o One("wake", <<>>)
    BY <1>1, <1>5, FinishIs, GuardOne, CallIsOne DEF Prepare
  <2>2. Part(c, One("offload", Leave), "any", "gone") /\ Part(c, One("wake", <<>>), "gone", "any")
    BY SplitOnes
  <2> QED BY <2>1, <2>2, Then
<1> QED BY <1>2, <1>3, <1>4, <1>5

LEMMA SplitSession ==
  ASSUME NEW c \in Recipe, ~c.anchored, Accepted(c), Offloads(c), NEW sync \in BOOLEAN,
         NEW keep \in BOOLEAN, NEW name \in {"generate", "evaluate"}
  PROVE  Part(c, Session(c, sync, keep, Call(name)), "any", "asleep")
<1> DEFINE kept == If(keep, Call("preserve")) \o Call(name)
           does == sync /\ c.sync # "none"
<1>1. Session(c, sync, keep, Call(name)) = Prepare(c, does) \o Guard(kept, Leave) \o Leave
  <2>1. Offloads(c) = TRUE
    BY DEF Offloads, Recipe
  <2> QED BY <2>1, FinishIs DEF Session
<1>2. does \in BOOLEAN
  OBVIOUS
<1>3. Part(c, Prepare(c, does), "any", "any")
  BY <1>2, PrepareIsPart
<1>4. Part(c, Guard(kept, Leave), "any", "any")
  <2>1. Part(c, One("preserve", Leave), "any", "any") /\ Part(c, One(name, Leave), "any", "any")
    BY SplitOnes
  <2>2. CASE keep
    <3>1. Guard(kept, Leave) = One("preserve", Leave) \o One(name, Leave)
      BY <2>2, GuardTwo DEF If
    <3> QED BY <2>1, <3>1, Then
  <2>3. CASE ~keep
    <3>1. kept = Call(name)
      <4>1. Call(name) \in Seq({[name |-> name, clean |-> <<>>]})
        BY DEF Call
      <4>2. kept = <<>> \o Call(name)
        BY <2>3 DEF If
      <4>3. \A s \in Seq({[name |-> name, clean |-> <<>>]}) : <<>> \o s = s
        OBVIOUS
      <4> QED BY <4>1, <4>2, <4>3
    <3>2. Guard(kept, Leave) = One(name, Leave)
      BY <3>1, GuardOne
    <3> QED BY <2>1, <3>2
  <2> QED BY <2>2, <2>3
<1> HIDE DEF kept, does
<1>5. Part(c, Prepare(c, does) \o Guard(kept, Leave), "any", "any")
  BY <1>3, <1>4, Then
<1> QED BY <1>1, <1>5, LeaveIsPart, Then
-----------------------------------------------------------------------------
(***************************************************************************)
(* The calls of the anchored layout.                                       *)
(***************************************************************************)

\* Calls made under a condition, before or after others.
LEMMA IfThen ==
  ASSUME NEW c, NEW b \in BOOLEAN, NEW s, NEW t, NEW p, NEW r,
         Part(c, s, p, p), Part(c, t, p, r)
  PROVE  Part(c, If(b, s) \o t, p, r)
<1>1. CASE b
  BY <1>1, Then DEF If
<1>2. CASE ~b
  <2>1. t \in Seq([name : Names(c), clean : Cleans(c)])
    BY DEF Part, Line
  <2>2. <<>> \o t = t
    BY <2>1
  <2> QED BY <1>2, <2>2 DEF If
<1> QED BY <1>1, <1>2

LEMMA ThenIf ==
  ASSUME NEW c, NEW b \in BOOLEAN, NEW s, NEW t, NEW p, NEW q,
         Part(c, s, p, q), Part(c, t, q, q)
  PROVE  Part(c, s \o If(b, t), p, q)
<1>1. CASE b
  BY <1>1, Then DEF If
<1>2. CASE ~b
  <2>1. s \in Seq([name : Names(c), clean : Cleans(c)])
    BY DEF Part, Line
  <2>2. s \o <<>> = s
    BY <2>1
  <2> QED BY <1>2, <2>2 DEF If
<1> QED BY <1>1, <1>2

\* The same for calls that are yet to be given a clean-up.
Bare == [name : WholeCalls, clean : {<<>>}]
Guarded(c, s, clean, p, q) == s \in Seq(Bare) /\ Part(c, Guard(s, clean), p, q)

LEMMA GuardedOne ==
  ASSUME NEW c, NEW name \in WholeCalls, NEW clean, NEW p, NEW q,
         Part(c, One(name, clean), p, q)
  PROVE  Guarded(c, Call(name), clean, p, q)
<1>1. Call(name) \in Seq(Bare)
  BY DEF Call, Bare
<1>2. Guard(Call(name), clean) = One(name, clean)
  BY GuardOne
<1> QED BY <1>1, <1>2 DEF Guarded

LEMMA GuardedThen ==
  ASSUME NEW c, NEW s, NEW t, NEW clean, NEW p, NEW q, NEW r,
         Guarded(c, s, clean, p, q), Guarded(c, t, clean, q, r)
  PROVE  Guarded(c, s \o t, clean, p, r)
<1>1. s \in Seq(Bare) /\ t \in Seq(Bare)
  BY DEF Guarded
<1>2. s \o t \in Seq(Bare)
  BY <1>1
<1>3. Guard(s \o t, clean) = Guard(s, clean) \o Guard(t, clean)
  BY <1>1, GuardThen
<1>4. Part(c, Guard(s, clean) \o Guard(t, clean), p, r)
  BY Then DEF Guarded
<1> QED BY <1>2, <1>3, <1>4 DEF Guarded

LEMMA GuardedIfThen ==
  ASSUME NEW c, NEW b \in BOOLEAN, NEW s, NEW t, NEW clean, NEW p, NEW r,
         Guarded(c, s, clean, p, p), Guarded(c, t, clean, p, r)
  PROVE  Guarded(c, If(b, s) \o t, clean, p, r)
<1>1. CASE b
  BY <1>1, GuardedThen DEF If
<1>2. CASE ~b
  <2>1. t \in Seq(Bare)
    BY DEF Guarded
  <2>2. <<>> \o t = t
    BY <2>1
  <2> QED BY <1>2, <2>2 DEF If
<1> QED BY <1>1, <1>2

LEMMA GuardedThenIf ==
  ASSUME NEW c, NEW b \in BOOLEAN, NEW s, NEW t, NEW clean, NEW p, NEW q,
         Guarded(c, s, clean, p, q), Guarded(c, t, clean, q, q)
  PROVE  Guarded(c, s \o If(b, t), clean, p, q)
<1>1. CASE b
  BY <1>1, GuardedThen DEF If
<1>2. CASE ~b
  <2>1. s \in Seq(Bare)
    BY DEF Guarded
  <2>2. s \o <<>> = s
    BY <2>1
  <2> QED BY <1>2, <2>2 DEF If
<1> QED BY <1>1, <1>2

LEMMA AnchoredOnes ==
  ASSUME NEW c \in Recipe, c.anchored, NEW clean \in {<<>>, One("ensure asleep", <<>>)}
  PROVE  /\ \A name \in {"ensure loaded", "extract", "ensure offloaded"} :
              Part(c, One(name, clean), "asleep", "asleep")
         /\ Part(c, One("ensure offloaded", clean), "asleep", "gone")
         /\ Part(c, One("ensure awake", clean), "gone", "any")
         /\ \A name \in {"push", "preserve", "generate", "evaluate"} :
              Part(c, One(name, clean), "any", "any")
         /\ Part(c, One("ensure asleep", clean), "any", "asleep")
         /\ Part(c, One("offload", clean), "any", "gone")
         /\ Part(c, One("build engine", clean), "gone", "any")
         /\ Part(c, One("sleep", clean), "any", "asleep")
<1>1. clean \in Cleans(c) /\ clean \notin Careful
  BY LeaveIsNotCareful DEF Cleans
<1>2. ASSUME NEW name \in WholeCalls, NEW q, q \in Gives(c, [name |-> name, clean |-> clean])
      PROVE  Part(c, One(name, clean), Requires(c, name), q)
  BY <1>1, <1>2, OneIsPart DEF Names
<1>3. \A name \in {"ensure loaded", "extract", "ensure offloaded"} :
        Part(c, One(name, clean), "asleep", "asleep")
  BY <1>2 DEF WholeCalls, Gives, Requires
<1>4. Part(c, One("ensure offloaded", clean), "asleep", "gone")
  BY <1>2 DEF WholeCalls, Gives, Requires
<1>5. Part(c, One("ensure awake", clean), "gone", "any")
  BY <1>2 DEF WholeCalls, Gives, Requires
<1>6. \A name \in {"push", "preserve", "generate", "evaluate"} :
        Part(c, One(name, clean), "any", "any")
  BY <1>2 DEF WholeCalls, Gives, Requires
<1>7. Part(c, One("ensure asleep", clean), "any", "asleep")
  BY <1>2 DEF WholeCalls, Gives, Requires
<1>8. Part(c, One("offload", clean), "any", "gone")
  BY <1>2 DEF WholeCalls, Gives, Requires
<1>9. Part(c, One("build engine", clean), "gone", "any")
  BY <1>2 DEF WholeCalls, Gives, Requires
<1>10. Part(c, One("sleep", clean), "any", "asleep")
  BY <1>2 DEF WholeCalls, Gives, Requires
<1> QED BY <1>3, <1>4, <1>5, <1>6, <1>7, <1>8, <1>9, <1>10

LEMMA CarefulTrain ==
  ASSUME NEW c \in Recipe, c.anchored
  PROVE  Part(c, One("train", One("ensure offloaded", <<>>)), "asleep", "asleep")
<1>1. One("ensure offloaded", <<>>) \in Cleans(c) \cap Careful /\ "train" \in Names(c)
  BY DEF Cleans, Careful, Names, WholeCalls
<1>2. "asleep" \in Gives(c, [name |-> "train", clean |-> One("ensure offloaded", <<>>)])
  BY <1>1 DEF Gives
<1> QED BY <1>1, <1>2, OneIsPart

LEMMA AnchoredSession ==
  ASSUME NEW c \in Recipe, c.anchored, NEW sync \in BOOLEAN,
         NEW keep \in BOOLEAN, NEW name \in {"generate", "evaluate"}
  PROVE  Part(c, Session(c, sync, keep, Call(name)), "asleep", "asleep")
<1> DEFINE does == sync /\ c.sync # "none"
           ea   == One("ensure asleep", <<>>)
           enter == If(does, Call("ensure loaded") \o Call("extract"))
           load  == If(does, Call("push"))
           work  == If(keep, Call("preserve")) \o Call(name)
           inner == enter \o Call("ensure offloaded") \o Call("ensure awake") \o load \o work
<1>1. Session(c, sync, keep, Call(name)) = Guard(inner, ea) \o ea
  BY CallIsOne DEF Session, Anchored
<1>2. does \in BOOLEAN
  OBVIOUS
<1>3. /\ \A n \in {"ensure loaded", "extract"} : Part(c, One(n, ea), "asleep", "asleep")
      /\ Part(c, One("ensure offloaded", ea), "asleep", "gone")
      /\ Part(c, One("ensure awake", ea), "gone", "any")
      /\ \A n \in {"push", "preserve", name} : Part(c, One(n, ea), "any", "any")
      /\ Part(c, ea, "any", "asleep")
  BY AnchoredOnes
<1> HIDE DEF does, ea
<1>4. /\ \A n \in {"ensure loaded", "extract"} : Guarded(c, Call(n), ea, "asleep", "asleep")
      /\ Guarded(c, Call("ensure offloaded"), ea, "asleep", "gone")
      /\ Guarded(c, Call("ensure awake"), ea, "gone", "any")
      /\ \A n \in {"push", "preserve", name} : Guarded(c, Call(n), ea, "any", "any")
  BY <1>3, GuardedOne DEF WholeCalls
<1>5. Guarded(c, enter \o Call("ensure offloaded"), ea, "asleep", "gone")
  <2>1. Guarded(c, Call("ensure loaded") \o Call("extract"), ea, "asleep", "asleep")
    BY <1>4, GuardedThen
  <2> QED BY <1>2, <1>4, <2>1, GuardedIfThen
<1>6. Guarded(c, enter \o Call("ensure offloaded") \o Call("ensure awake"), ea, "asleep", "any")
  BY <1>4, <1>5, GuardedThen
<1>7. Guarded(c, enter \o Call("ensure offloaded") \o Call("ensure awake") \o load,
              ea, "asleep", "any")
  BY <1>2, <1>4, <1>6, GuardedThenIf
<1>8. Guarded(c, work, ea, "any", "any")
  BY <1>4, GuardedIfThen
<1>9. Guarded(c, inner, ea, "asleep", "any")
  BY <1>7, <1>8, GuardedThen
<1>10. Part(c, Guard(inner, ea) \o ea, "asleep", "asleep")
  BY <1>3, <1>9, Then DEF Guarded
<1> QED BY <1>1, <1>10
-----------------------------------------------------------------------------
(***************************************************************************)
(* What the trainer does, in either layout: between two rounds, the        *)
(* anchored engine is asleep.                                              *)
(***************************************************************************)
Between(c) == IF c.anchored THEN "asleep" ELSE "any"

LEMMA SessionIsPart ==
  ASSUME NEW c \in Recipe, Accepted(c), Offloads(c), NEW sync \in BOOLEAN,
         NEW keep \in BOOLEAN, NEW name \in {"generate", "evaluate"}
  PROVE  Part(c, Session(c, sync, keep, Call(name)), Between(c), Between(c))
<1>1. CASE c.anchored
  BY <1>1, AnchoredSession DEF Between
<1>2. CASE ~c.anchored
  <2>1. Part(c, Session(c, sync, keep, Call(name)), "any", "asleep")
    BY <1>2, SplitSession
  <2> QED BY <1>2, <2>1, GivesLess DEF Between
<1> QED BY <1>1, <1>2

LEMMA EvaluateIsPart ==
  ASSUME NEW c \in Recipe, Accepted(c), Offloads(c), NEW n, NEW nextSyncs
  PROVE  Part(c, Evaluate(c, n, nextSyncs), Between(c), Between(c))
<1>1. MustPreserve(c, nextSyncs, n < NumRollouts) \in BOOLEAN
  BY DEF MustPreserve
<1> QED BY <1>1, SessionIsPart DEF Evaluate

LEMMA TrainStepIsPart ==
  ASSUME NEW c \in Recipe, Accepted(c), Offloads(c), NEW id
  PROVE  Part(c, TrainStep(c, id), Between(c), Between(c))
<1> DEFINE keep == MustPreserve(c, EvalFollows(c, id + 1) \/ NextSyncs(c, id + 1),
                                id + 1 < NumRollouts)
           session == Session(c, SyncDue(c, id), keep, Call("generate"))
           eo == If(c.anchored, Call("ensure offloaded"))
<1>1. Part(c, session, Between(c), Between(c))
  <2>1. keep \in BOOLEAN /\ SyncDue(c, id) \in BOOLEAN
    BY DEF MustPreserve, SyncDue
  <2> HIDE DEF keep
  <2> QED BY <2>1, SessionIsPart
<1>2. TrainStep(c, id)
        = session \o If(c.anchored, Call("ensure loaded")) \o Guard(Call("train"), eo) \o eo
  BY DEF TrainStep
<1> HIDE DEF session, keep
<1>3. CASE c.anchored
  <2>1. eo = One("ensure offloaded", <<>>)
    BY <1>3, CallIsOne DEF If
  <2>2. TrainStep(c, id)
          = session \o One("ensure loaded", <<>>) \o One("train", One("ensure offloaded", <<>>))
              \o One("ensure offloaded", <<>>)
    BY <1>2, <1>3, <2>1, CallIsOne, GuardOne DEF If
  <2>3. /\ Part(c, One("ensure loaded", <<>>), "asleep", "asleep")
        /\ Part(c, One("ensure offloaded", <<>>), "asleep", "asleep")
    BY <1>3, AnchoredOnes
  <2>4. Part(c, session, "asleep", "asleep")
    BY <1>1, <1>3 DEF Between
  <2>5. Part(c, session \o One("ensure loaded", <<>>), "asleep", "asleep")
    BY <2>3, <2>4, Then
  <2>6. Part(c, session \o One("ensure loaded", <<>>)
                  \o One("train", One("ensure offloaded", <<>>)), "asleep", "asleep")
    BY <1>3, <2>5, CarefulTrain, Then
  <2>7. Part(c, TrainStep(c, id), "asleep", "asleep")
    BY <2>2, <2>3, <2>6, Then
  <2> QED BY <1>3, <2>7 DEF Between
<1>4. CASE ~c.anchored
  <2>1. eo = <<>> /\ If(c.anchored, Call("ensure loaded")) = <<>>
    BY <1>4 DEF If
  <2>2. Guard(Call("train"), <<>>) = One("train", <<>>)
    BY GuardOne
  <2>3. TrainStep(c, id) = session \o <<>> \o One("train", <<>>) \o <<>>
    BY <1>2, <2>1, <2>2
  <2> HIDE DEF eo
  <2>4. Part(c, session, "any", "any") /\ Part(c, One("train", <<>>), "any", "any")
    BY <1>1, <1>4, SplitOnes DEF Between
  <2>5. session \o <<>> = session
    <3>1. session \in Seq([name : Names(c), clean : Cleans(c)])
      BY <2>4 DEF Part, Line
    <3> QED BY <3>1
  <2>6. Part(c, session \o One("train", <<>>), "any", "any")
    BY <2>4, Then
  <2>7. session \o One("train", <<>>) \o <<>> = session \o One("train", <<>>)
    <3>1. session \o One("train", <<>>) \in Seq([name : Names(c), clean : Cleans(c)])
      BY <2>6 DEF Part, Line
    <3> QED BY <3>1
  <2> QED BY <1>4, <2>3, <2>5, <2>6, <2>7 DEF Between
<1> QED BY <1>3, <1>4

LEMMA CarefulOffload ==
  ASSUME NEW c \in Recipe, ~c.anchored
  PROVE  Part(c, One("offload", One("onload", <<>>)), "asleep", "gone")
<1>1. One("onload", <<>>) \in Cleans(c) \cap Careful /\ "offload" \in Names(c)
  BY DEF Cleans, Careful, Names, SplitCalls
<1>2. "gone" \in Gives(c, [name |-> "offload", clean |-> One("onload", <<>>)])
  BY DEF Gives
<1> QED BY <1>1, <1>2, OneIsPart

LEMMA BootIsPart ==
  ASSUME NEW c \in Recipe, Accepted(c), Offloads(c)
  PROVE  Part(c, Boot(c), "asleep", "asleep")
<1>1. c.offload /\ (c.anchored \/ c.sync # "none")
  BY DEF Offloads
<1>2. CASE c.anchored
  <2>1. Boot(c) = One("offload", <<>>) \o One("build engine", <<>>) \o One("sleep", <<>>)
    BY <1>1, <1>2, CallIsOne DEF Boot, If
  <2>2. /\ Part(c, One("offload", <<>>), "asleep", "gone")
        /\ Part(c, One("build engine", <<>>), "gone", "any")
        /\ Part(c, One("sleep", <<>>), "any", "asleep")
    BY <1>2, AnchoredOnes, Weaker
  <2>3. Part(c, One("offload", <<>>) \o One("build engine", <<>>), "asleep", "any")
    BY <2>2, Then
  <2> QED BY <2>1, <2>2, <2>3, Then
<1>3. CASE ~c.anchored
  <2>1. Call("sleep") \o Call("onload") = Leave /\ Call("onload") = One("onload", <<>>)
    BY CallIsOne DEF Leave
  <2>2. Guard(Call("build sync"), Leave) = One("build sync", Leave)
    BY GuardOne
  <2>3. Guard(Call("offload"), One("onload", <<>>)) = One("offload", One("onload", <<>>))
    BY GuardOne
  <2>4. Boot(c)
          = Guard(Call("offload"), Call("onload")) \o Call("build engine")
              \o (Guard(Call("build sync"), Call("sleep") \o Call("onload")) \o Call("sleep"))
              \o Call("onload")
    BY <1>1, <1>3 DEF Boot, If
  <2>5. Boot(c)
          = One("offload", One("onload", <<>>)) \o One("build engine", <<>>)
              \o (One("build sync", Leave) \o One("sleep", <<>>)) \o One("onload", <<>>)
    <3>1. Call("build engine") = One("build engine", <<>>) /\ Call("sleep") = One("sleep", <<>>)
      BY CallIsOne
    <3> QED BY <2>1, <2>2, <2>3, <2>4, <3>1
  <2>6. /\ Part(c, One("build engine", <<>>), "gone", "any")
        /\ Part(c, One("build sync", Leave), "any", "any")
        /\ Part(c, One("sleep", <<>>), "any", "asleep")
        /\ Part(c, One("onload", <<>>), "asleep", "asleep")
    <3>1. Part(c, One("build sync", Leave), "any", "any")
      BY <1>3, SplitOnes
    <3> QED BY <1>3, <3>1, SplitOnes
  <2>7. Part(c, One("offload", One("onload", <<>>)) \o One("build engine", <<>>),
             "asleep", "any")
    BY <1>3, <2>6, CarefulOffload, Then
  <2>8. Part(c, One("build sync", Leave) \o One("sleep", <<>>), "any", "asleep")
    BY <2>6, Then
  <2>9. Part(c, One("offload", One("onload", <<>>)) \o One("build engine", <<>>)
                  \o (One("build sync", Leave) \o One("sleep", <<>>)), "asleep", "asleep")
    BY <2>7, <2>8, Then
  <2> QED BY <2>5, <2>6, <2>9, Then
<1> QED BY <1>2, <1>3
-----------------------------------------------------------------------------
(***************************************************************************)
(* How a call may end.                                                     *)
(***************************************************************************)

\* A part that gives what holds between rounds is ready when its need is met.
LEMMA PartReady ==
  ASSUME NEW c, NEW s, NEW p, NEW state, NEW eng, NEW over,
         Part(c, s, p, Between(c)), Holds(p, state, eng)
  PROVE  Ready(c, s, state, eng, over)
<1>1. Line(c, s) /\ s # <<>> /\ Need(c, s, 1) \in {p, "any"}
  BY DEF Part
<1>2. Holds(Need(c, s, 1), state, eng)
  BY <1>1 DEF Holds
<1>3. c.anchored => "asleep" \in Gives(c, s[Len(s)])
  BY DEF Part, Between
<1> QED BY <1>1, <1>2, <1>3 DEF Ready

LEMMA NotEmpty == ASSUME NEW A, NEW s \in Seq(A), Len(s) > 0 PROVE s # <<>>
OBVIOUS

\* It returns, and what it gives holds.
LEMMA ReturnReady ==
  ASSUME NEW c, NEW s, NEW state, NEW eng, NEW over, NEW state2, NEW eng2,
         Ready(c, s, state, eng, over), s # <<>>,
         \A g \in Gives(c, s[1]) : Holds(g, state2, eng2)
  PROVE  Ready(c, Tail(s), state2, eng2, over)
<1> DEFINE A == [name : Names(c), clean : Cleans(c)]
<1>1. s \in Seq(A)
  BY DEF Ready, Line
<1> HIDE DEF A
<1>2. /\ Tail(s) \in Seq(A) /\ Len(s) \in Nat \ {0} /\ Len(Tail(s)) = Len(s) - 1
      /\ DOMAIN s = 1 .. Len(s) /\ DOMAIN Tail(s) = 1 .. Len(s) - 1
      /\ \A k \in 1 .. Len(s) - 1 : Tail(s)[k] = s[k + 1]
  BY <1>1
<1>3. ASSUME NEW k \in 1 .. Len(s) - 1 PROVE Need(c, Tail(s), k) = Need(c, s, k + 1)
  <2>1. Tail(s)[k] = s[k + 1] /\ (k < Len(Tail(s)) <=> k + 1 < Len(s))
    BY <1>2
  <2>2. k < Len(Tail(s)) => Tail(s)[k + 1] = s[(k + 1) + 1]
    BY <1>2
  <2> QED BY <2>1, <2>2 DEF Need
<1>4. \A k \in 1 .. Len(s) :
        Fit(c, s[k]) /\ (k < Len(s) => Need(c, s, k + 1) \in Gives(c, s[k]) \cup {"any"})
  BY <1>2 DEF Ready, Line
<1>5. Line(c, Tail(s))
  <2>1. ASSUME NEW k \in 1 .. Len(s) - 1
        PROVE  /\ Fit(c, Tail(s)[k])
               /\ k < Len(Tail(s)) =>
                    Need(c, Tail(s), k + 1) \in Gives(c, Tail(s)[k]) \cup {"any"}
    <3>1. k + 1 \in 1 .. Len(s) /\ Tail(s)[k] = s[k + 1]
      BY <1>2
    <3>2. Fit(c, s[k + 1])
      BY <1>4, <3>1
    <3>3. ASSUME k < Len(Tail(s))
          PROVE  Need(c, Tail(s), k + 1) \in Gives(c, Tail(s)[k]) \cup {"any"}
      <4>1. k + 1 \in 1 .. Len(s) - 1 /\ k + 1 < Len(s)
        BY <1>2, <3>3
      <4>2. Need(c, Tail(s), k + 1) = Need(c, s, (k + 1) + 1)
        BY <1>3, <4>1
      <4> QED BY <1>4, <3>1, <4>1, <4>2
    <3> QED BY <3>1, <3>2, <3>3
  <2> QED BY <1>2, <2>1 DEF Line, A
<1>6. ASSUME Tail(s) # <<>> PROVE Holds(Need(c, Tail(s), 1), state2, eng2)
  <2>1. Len(s) > 1
    BY <1>2, <1>6
  <2>2. Need(c, Tail(s), 1) = Need(c, s, 1 + 1)
    BY <1>2, <1>3, <2>1
  <2>3. Need(c, s, 1 + 1) \in Gives(c, s[1]) \cup {"any"}
    BY <1>2, <1>4, <2>1
  <2>4. Holds("any", state2, eng2)
    BY DEF Holds
  <2> QED BY <2>2, <2>3, <2>4
<1>7. ASSUME c.anchored, ~over
      PROVE  IF Tail(s) = <<>> THEN eng2 = "asleep"
             ELSE "asleep" \in Gives(c, Tail(s)[Len(Tail(s))])
  <2>1. "asleep" \in Gives(c, s[Len(s)])
    BY <1>7 DEF Ready
  <2>2. CASE Len(s) = 1
    <3>1. Holds("asleep", state2, eng2) /\ Tail(s) = <<>>
      BY <1>2, <2>1, <2>2
    <3> QED BY <3>1 DEF Holds
  <2>3. CASE Len(s) > 1
    <3>1. Len(s) - 1 \in 1 .. Len(s) - 1 /\ (Len(s) - 1) + 1 = Len(s) /\ Len(Tail(s)) > 0
      BY <1>2, <2>3
    <3>2. Tail(s)[Len(Tail(s))] = s[Len(s)]
      BY <1>2, <3>1
    <3>3. Tail(s) # <<>>
      BY <1>2, <3>1, NotEmpty
    <3> QED BY <2>1, <3>2, <3>3
  <2> QED BY <1>2, <2>2, <2>3
<1> QED BY <1>5, <1>6, <1>7 DEF Ready

\* It fails, and nothing more is done.
LEMMA NothingReady ==
  ASSUME NEW c, NEW state, NEW eng PROVE Ready(c, <<>>, state, eng, TRUE)
BY DEF Ready, Line

\* It is interrupted, and its handlers make their calls.
LEMMA CleanReady ==
  ASSUME NEW c \in Recipe, NEW clean \in Cleans(c), NEW state, NEW eng,
         clean \in Careful => eng = "asleep"
  PROVE  Ready(c, clean, state, eng, TRUE)
<1>1. ASSUME NEW p, NEW q, Part(c, clean, p, q), Holds(p, state, eng)
      PROVE  Ready(c, clean, state, eng, TRUE)
  <2>1. Line(c, clean) /\ clean # <<>> /\ Need(c, clean, 1) \in {p, "any"}
    BY <1>1 DEF Part
  <2>2. Holds(Need(c, clean, 1), state, eng)
    BY <1>1, <2>1 DEF Holds
  <2> QED BY <2>1, <2>2 DEF Ready
<1>2. Holds("any", state, eng)
  BY DEF Holds
<1>0. One("onload", <<>>) # One("ensure offloaded", <<>>)
  <2>1. /\ One("onload", <<>>)[1].name = "onload"
        /\ One("ensure offloaded", <<>>)[1].name = "ensure offloaded"
    BY OneFacts
  <2> QED BY <2>1
<1>3. CASE clean = <<>>
  BY <1>3, NothingReady
<1>4. CASE clean \in Careful
  <2>1. Holds("asleep", state, eng)
    BY <1>4 DEF Holds
  <2>2. CASE clean = One("ensure offloaded", <<>>)
    <3>1. c.anchored
      <4>1. ASSUME ~c.anchored PROVE FALSE
        <5>1. clean \in {<<>>, One("sleep", <<>>), One("onload", <<>>), Leave}
          BY <4>1 DEF Cleans, Leave
        <5>2. clean = One("onload", <<>>)
          BY <1>4, <5>1, LeaveIsNotCareful
        <5> QED BY <1>0, <2>2, <5>2
      <4> QED BY <4>1
    <3>2. Part(c, clean, "asleep", "asleep")
      BY <2>2, <3>1, AnchoredOnes
    <3> QED BY <1>1, <2>1, <3>2
  <2>3. CASE clean = One("onload", <<>>)
    <3>1. ~c.anchored
      <4>1. ASSUME c.anchored PROVE FALSE
        <5>1. clean \in {<<>>, One("ensure asleep", <<>>), One("ensure offloaded", <<>>)}
          BY <4>1 DEF Cleans
        <5>2. clean = One("ensure offloaded", <<>>)
          BY <1>4, <5>1, LeaveIsNotCareful
        <5> QED BY <1>0, <2>3, <5>2
      <4> QED BY <4>1
    <3>2. Part(c, clean, "asleep", "asleep")
      BY <2>3, <3>1, SplitOnes
    <3> QED BY <1>1, <2>1, <3>2
  <2> QED BY <1>4, <2>2, <2>3 DEF Careful
<1>5. CASE clean # <<>> /\ clean \notin Careful /\ c.anchored
  <2>1. clean = One("ensure asleep", <<>>)
    BY <1>5 DEF Cleans, Careful
  <2>2. Part(c, clean, "any", "asleep")
    BY <1>5, <2>1, AnchoredOnes
  <2> QED BY <1>1, <1>2, <2>2
<1>6. CASE clean # <<>> /\ clean \notin Careful /\ ~c.anchored
  <2>1. clean = One("sleep", <<>>) \/ clean = Leave
    BY <1>6 DEF Cleans, Careful, Leave
  <2>2. Part(c, clean, "any", "asleep")
    BY <1>6, <2>1, LeaveIsPart, SplitOnes
  <2> QED BY <1>1, <1>2, <2>2
<1> QED BY <1>3, <1>4, <1>5, <1>6
-----------------------------------------------------------------------------
(***************************************************************************)
(* What the calls do.                                                      *)
(***************************************************************************)

\* The call to be made next fits, and what it needs is there.
LEMMA NextCall ==
  ASSUME ApartInv, Offloads(recipe), todo # <<>>
  PROVE  /\ Fit(recipe, todo[1]) /\ Head(todo) = todo[1]
         /\ Holds(Need(recipe, todo, 1), train, engine)
         /\ todo[1].clean \in Careful =>
              engine = "asleep" /\ todo[1].name \in {"offload", "train"}
         /\ todo[1].name # "wake" => Holds(Requires(recipe, todo[1].name), train, engine)
<1>1. Ready(recipe, todo, train, engine, ended)
  BY DEF ApartInv
<1>2. todo \in Seq([name : Names(recipe), clean : Cleans(recipe)])
  BY <1>1 DEF Ready, Line
<1>3. 1 \in DOMAIN todo /\ Head(todo) = todo[1]
  BY <1>2
<1>4. Fit(recipe, todo[1]) /\ Holds(Need(recipe, todo, 1), train, engine)
  BY <1>1, <1>3 DEF Ready, Line
<1>5. ASSUME todo[1].clean \in Careful
      PROVE  engine = "asleep" /\ todo[1].name \in {"offload", "train"}
  BY <1>4, <1>5 DEF Need, Holds, Fit
<1>6. ASSUME todo[1].name # "wake" PROVE Holds(Requires(recipe, todo[1].name), train, engine)
  <2>1. CASE todo[1].clean \in Careful
    <3>1. Requires(recipe, todo[1].name) = "any"
      BY <1>5, <2>1 DEF Requires
    <3> QED BY <3>1 DEF Holds
  <2>2. CASE todo[1].clean \notin Careful
    BY <1>4, <1>6, <2>2 DEF Need
  <2> QED BY <2>1, <2>2
<1> QED BY <1>3, <1>4, <1>5, <1>6

\* A call that fails or is interrupted, and leaves alone the engine when its
\* handlers rely on that, ends ready.
LEMMA StopsReady ==
  ASSUME ApartInv, Offloads(recipe), todo # <<>>, Fails \/ Interrupted,
         todo[1].clean \in Careful => engine' = engine
  PROVE  Ready(recipe, todo', train', engine', ended')
<1>1. CASE Fails
  <2>1. todo' = <<>> /\ ended' = TRUE
    BY <1>1 DEF Fails
  <2> QED BY <2>1, NothingReady
<1>2. CASE Interrupted
  <2>1. todo' = todo[1].clean /\ ended' = TRUE
    BY <1>2, NextCall DEF Interrupted
  <2>2. todo[1].clean \in Cleans(recipe) /\ recipe \in Recipe
    BY NextCall DEF Fit, ApartInv, RecordInv, WholeMoves
  <2>3. todo[1].clean \in Careful => engine' = "asleep"
    BY NextCall
  <2> QED BY <2>1, <2>2, <2>3, CleanReady
<1> QED BY <1>1, <1>2

\* So does one that is made, if it gives what it should.
LEMMA EndsReady ==
  ASSUME ApartInv, Offloads(recipe), todo # <<>>, Ends,
         \A g \in Gives(recipe, todo[1]) : Holds(g, train', engine'),
         todo[1].clean \in Careful => engine' = engine
  PROVE  Ready(recipe, todo', train', engine', ended')
<1>1. CASE Returns
  <2>1. todo' = Tail(todo) /\ ended' = ended
    BY <1>1 DEF Returns
  <2>2. Ready(recipe, todo, train, engine, ended)
    BY DEF ApartInv
  <2> QED BY <2>1, <2>2, ReturnReady
<1>2. CASE Fails \/ Interrupted
  BY <1>2, StopsReady
<1> QED BY <1>1, <1>2 DEF Ends

\* One call: it keeps train state and engine apart, and it ends ready.
Kept == KeptApart /\ Ready(recipe, todo', train', engine', ended')

LEMMA MoveTrainKeeps ==
  ASSUME ApartInv, Offloads(recipe), MoveTrain
  PROVE  Kept
<1> DEFINE name == todo[1].name
<1>1. /\ todo # <<>> /\ Ends /\ engine' = engine
      /\ \/ name \in {"offload", "ensure offloaded"} /\ train' = {}
         \/ name = "offload optimizer" /\ train' = train \ {"optimizer"}
         \/ name = "offload model" /\ train' = train \ {"model"}
         \/ name \in {"onload", "ensure loaded"} /\ train' = State
  BY NextCall DEF MoveTrain, Made
<1>2. train \subseteq State
  BY DEF ApartInv
<1>3. name # "wake" /\ Holds(Requires(recipe, name), train, engine)
  BY <1>1, NextCall
<1>4. todo[1].clean \in Careful => engine = "asleep"
  BY <1>1, NextCall
<1> HIDE DEF name
<1>5. name \in {"onload", "ensure loaded", "ensure offloaded"} => engine = "asleep"
  BY <1>3 DEF Requires, Holds
<1>6. KeptApart
  BY <1>1, <1>5 DEF KeptApart
<1>7. ASSUME NEW g \in Gives(recipe, todo[1]) PROVE Holds(g, train', engine')
  <2>1. g = "asleep" => engine' = "asleep"
    BY <1>1, <1>4, <1>5, <1>7 DEF Gives, name
  <2>2. g = "gone" => train' = {}
    <3>1. ASSUME name = "offload model", recipe.sync = "streaming" PROVE train' = {}
      <4>1. "optimizer" \notin train
        BY <1>3, <3>1 DEF Requires, Holds
      <4> QED BY <1>1, <1>2, <3>1, <4>1 DEF State
    <3> QED BY <1>1, <1>7, <3>1 DEF Gives, name
  <2>3. g = "light" => "optimizer" \notin train'
    BY <1>1, <1>7 DEF Gives, name
  <2> QED BY <2>1, <2>2, <2>3 DEF Holds
<1>8. Ready(recipe, todo', train', engine', ended')
  BY <1>1, <1>7, EndsReady
<1> QED BY <1>6, <1>8 DEF Kept

LEMMA WakeKeeps ==
  ASSUME ApartInv, Offloads(recipe), Wake
  PROVE  Kept
<1> DEFINE name == todo[1].name
<1>1. /\ todo # <<>> /\ Ends /\ train' = train
      /\ \/ name \in {"build engine", "wake", "ensure awake"} /\ engine' = "awake"
         \/ /\ name = "wake weights"
            /\ engine' = IF engine = "asleep" THEN "weights" ELSE engine
  BY NextCall DEF Wake, Made
<1>2. todo[1].clean \notin Careful
  BY <1>1, NextCall
<1>3. name # "wake" => Holds(Requires(recipe, name), train, engine)
  BY <1>1, NextCall
<1>4. KeptApart
  <2>1. CASE name \in {"build engine", "ensure awake"}
    <3>1. train = {}
      BY <1>3, <2>1 DEF Requires, Holds
    <3> QED BY <1>1, <3>1 DEF KeptApart
  <2>2. CASE name = "wake weights"
    <3>1. recipe.sync = "streaming" => "optimizer" \notin train
      BY <1>3, <2>2 DEF Requires, Holds
    <3> QED BY <1>1, <2>2, <3>1 DEF KeptApart
  <2>3. CASE name = "wake"
    <3>1. CASE ~recipe.staged /\ 1 < Len(todo) /\ todo[1 + 1].name = "sync"
      <4>1. recipe.sync # "streaming"
        BY <3>1 DEF ApartInv, Accepted
      <4>2. At("wake") /\ Len(todo) > 1 /\ todo[2].name = "sync"
        BY <1>1, <2>3, <3>1, NextCall DEF At
      <4> QED BY <3>1, <4>1, <4>2 DEF KeptApart
    <3>2. CASE ~(~recipe.staged /\ 1 < Len(todo) /\ todo[1 + 1].name = "sync")
      <4>1. Need(recipe, todo, 1) = "gone"
        BY <1>2, <2>3, <3>2 DEF Need, Requires
      <4>2. train = {}
        BY <1>1, <4>1, NextCall DEF Holds
      <4> QED BY <1>1, <4>2 DEF KeptApart
    <3> QED BY <3>1, <3>2
  <2> QED BY <1>1, <2>1, <2>2, <2>3
<1>5. ASSUME NEW g \in Gives(recipe, todo[1]) PROVE Holds(g, train', engine')
  <2>1. g = "any" \/ (g = "light" /\ name = "wake weights" /\ recipe.sync = "streaming")
    BY <1>1, <1>2, <1>5 DEF Gives
  <2>2. name = "wake weights" /\ recipe.sync = "streaming" => "optimizer" \notin train
    BY <1>3 DEF Requires, Holds
  <2> QED BY <1>1, <2>1, <2>2 DEF Holds
<1>6. Ready(recipe, todo', train', engine', ended')
  BY <1>1, <1>2, <1>5, EndsReady
<1> QED BY <1>4, <1>6 DEF Kept

LEMMA SleepKeeps ==
  ASSUME ApartInv, Offloads(recipe), Sleep
  PROVE  Kept
<1> DEFINE name == todo[1].name
<1>1. /\ todo # <<>> /\ Ends /\ train' = train /\ engine' = "asleep"
      /\ name \in {"sleep", "ensure asleep"}
  BY NextCall DEF Sleep, Made
<1>2. todo[1].clean \notin Careful
  BY <1>1, NextCall
<1>3. KeptApart
  BY <1>1 DEF KeptApart
<1>4. ASSUME NEW g \in Gives(recipe, todo[1]) PROVE Holds(g, train', engine')
  <2>1. g \in {"any", "asleep"}
    BY <1>1, <1>2, <1>4 DEF Gives
  <2> QED BY <1>1, <2>1 DEF Holds
<1>5. Ready(recipe, todo', train', engine', ended')
  BY <1>1, <1>2, <1>4, EndsReady
<1> QED BY <1>3, <1>5 DEF Kept

\* The calls that move nothing.
LEMMA OthersKeep ==
  ASSUME ApartInv, Offloads(recipe), Preserve \/ Publish \/ Train \/ ReadWeights
  PROVE  Kept
<1> DEFINE name == todo[1].name
<1>1. /\ todo # <<>> /\ Ends /\ train' = train /\ engine' = engine
      /\ name \in {"preserve", "build sync", "sync", "push", "train", "extract", "generate",
                   "evaluate"}
  BY NextCall DEF Preserve, Publish, Train, ReadWeights, Made
<1>2. KeptApart
  BY <1>1 DEF KeptApart
<1>3. /\ Holds(Requires(recipe, name), train, engine)
      /\ todo[1].clean \in Careful => engine = "asleep"
  BY <1>1, NextCall
<1>4. ASSUME NEW g \in Gives(recipe, todo[1]) PROVE Holds(g, train', engine')
  <2>1. /\ g \in {"any", "asleep", "light"}
        /\ g = "asleep" => name = "extract" \/ todo[1].clean \in Careful
        /\ g = "light" => name = "sync" /\ recipe.sync = "streaming"
    <3>1. g \in {"any", "asleep", "light"}
      BY <1>1, <1>4 DEF Gives
    <3>2. g = "asleep" => name = "extract" \/ todo[1].clean \in Careful
      BY <1>1, <1>4 DEF Gives
    <3>3. g = "light" => name = "sync" /\ recipe.sync = "streaming"
      BY <1>1, <1>4 DEF Gives
    <3> QED BY <3>1, <3>2, <3>3
  <2> HIDE DEF name
  <2>2. name = "extract" => engine = "asleep"
    BY <1>3 DEF Requires, Holds
  <2>3. name = "sync" /\ recipe.sync = "streaming" => "optimizer" \notin train
    BY <1>3 DEF Requires, Holds
  <2> QED BY <1>1, <1>3, <2>1, <2>2, <2>3 DEF Holds
<1>5. Ready(recipe, todo', train', engine', ended')
  BY <1>1, <1>4, EndsReady
<1> QED BY <1>2, <1>5 DEF Kept

\* A move that the record says is done, is done.
LEMMA EnsureNothingKeeps ==
  ASSUME ApartInv, Offloads(recipe), EnsureNothing
  PROVE  Kept
<1> DEFINE name == todo[1].name
<1>1. /\ todo # <<>> /\ Ends /\ train' = train /\ engine' = engine
      /\ name \in Ensures /\ AlreadySo
  BY NextCall DEF EnsureNothing, Ends
<1>2. KeptApart
  BY <1>1 DEF KeptApart
<1>3. recipe.anchored /\ recipe.offload
  <2>1. name \in Names(recipe)
    BY <1>1, NextCall DEF Fit
  <2> QED BY <1>1, <2>1 DEF Names, SplitCalls, Ensures, Offloads
<1>4. RecordTrue
  BY DEF ApartInv, RecordInv
<1>5. /\ name = "ensure offloaded" => train = {}
      /\ name = "ensure asleep" => engine = "asleep"
  <2>1. /\ name = "ensure offloaded" => known.backend = "no"
        /\ name = "ensure asleep" => known.rollout = "no"
    BY <1>1, <1>3, NextCall DEF AlreadySo, At
  <2> QED BY <1>3, <1>4, <2>1 DEF RecordTrue
<1>6. /\ Holds(Requires(recipe, name), train, engine)
      /\ todo[1].clean \in Careful => engine = "asleep"
  BY <1>1, NextCall DEF Ensures
<1>7. ASSUME NEW g \in Gives(recipe, todo[1]) PROVE Holds(g, train', engine')
  <2>1. \/ g = "any"
        \/ g = "gone" /\ name = "ensure offloaded"
        \/ g = "asleep"
    BY <1>1, <1>7 DEF Gives, Ensures
  <2>2. g = "asleep" => name \in {"ensure asleep", "ensure loaded", "ensure offloaded"}
                         \/ todo[1].clean \in Careful
    BY <1>1, <1>7 DEF Gives, Ensures
  <2> HIDE DEF name
  <2>3. name \in {"ensure loaded", "ensure offloaded"} => engine = "asleep"
    BY <1>6 DEF Requires, Holds
  <2> QED BY <1>1, <1>5, <1>6, <2>1, <2>2, <2>3 DEF Holds
<1>8. Ready(recipe, todo', train', engine', ended')
  BY <1>1, <1>7, EndsReady
<1> QED BY <1>2, <1>8 DEF Kept

\* A call that is not made cannot return.
LEMMA NotMadeKeeps ==
  ASSUME ApartInv, Offloads(recipe), NotMade
  PROVE  Kept
<1>1. todo # <<>> /\ (Fails \/ Interrupted) /\ train' = train /\ engine' = engine
  BY DEF NotMade
<1>2. KeptApart
  BY <1>1 DEF KeptApart
<1>3. Ready(recipe, todo', train', engine', ended')
  BY <1>1, StopsReady
<1> QED BY <1>2, <1>3 DEF Kept
-----------------------------------------------------------------------------
(***************************************************************************)
(* The invariant, and what it says of every step.                          *)
(***************************************************************************)
LEMMA ApartInit == Init => ApartInv
<1> SUFFICES ASSUME Init PROVE ApartInv
  OBVIOUS
<1>1. RecordInv /\ recipe \in Recipe /\ Accepted(recipe)
  BY RecordInit DEF Init
<1>2. train = State /\ engine = "asleep"
  BY DEF Init
<1>3. ASSUME Offloads(recipe) PROVE Ready(recipe, todo, train, engine, ended)
  <2> DEFINE eval == Evaluate(recipe, recipe.start, recipe.start > 0)
  <2>1. todo = Boot(recipe) \o If(recipe.evals > 0, eval)
    BY DEF Init
  <2>2. Part(recipe, Boot(recipe), "asleep", "asleep")
    BY <1>1, <1>3, BootIsPart
  <2>3. Part(recipe, Boot(recipe), "asleep", Between(recipe))
    BY <2>2, GivesLess DEF Between
  <2>4. Part(recipe, eval, Between(recipe), Between(recipe))
    BY <1>1, <1>3, EvaluateIsPart
  <2> HIDE DEF eval
  <2>5. Part(recipe, todo, "asleep", Between(recipe))
    <3>1. (recipe.evals > 0) \in BOOLEAN
      BY <1>1 DEF Recipe
    <3> QED BY <2>1, <2>3, <2>4, <3>1, ThenIf
  <2>6. Holds("asleep", train, engine)
    BY <1>2 DEF Holds
  <2> QED BY <2>5, <2>6, PartReady
<1> QED BY <1>1, <1>2, <1>3 DEF ApartInv

LEMMA RoundKeeps ==
  ASSUME ApartInv, Offloads(recipe), Round
  PROVE  Kept
<1>1. recipe \in Recipe /\ Accepted(recipe)
  BY DEF ApartInv, RecordInv, WholeMoves
<1>2. train' = train /\ engine' = engine /\ ended' = ended /\ ~ended /\ todo = <<>>
  BY DEF Round
<1> DEFINE eval == Evaluate(recipe, upcoming + 1, NextSyncs(recipe, upcoming + 1))
           due  == EvalFollows(recipe, upcoming + 1)
<1>3. todo' = TrainStep(recipe, upcoming) \o If(due, eval)
  BY DEF Round
<1>4. Part(recipe, TrainStep(recipe, upcoming), Between(recipe), Between(recipe))
  BY <1>1, TrainStepIsPart
<1>5. Part(recipe, eval, Between(recipe), Between(recipe)) /\ due \in BOOLEAN
  BY <1>1, EvaluateIsPart DEF EvalFollows
<1> HIDE DEF eval, due
<1>6. Part(recipe, todo', Between(recipe), Between(recipe))
  BY <1>3, <1>4, <1>5, ThenIf
<1>7. Holds(Between(recipe), train', engine')
  BY <1>2 DEF ApartInv, Ready, Between, Holds
<1>8. Ready(recipe, todo', train', engine', ended')
  BY <1>6, <1>7, PartReady
<1>9. KeptApart
  BY <1>2 DEF KeptApart
<1> QED BY <1>8, <1>9 DEF Kept

LEMMA NextKeeps ==
  ASSUME ApartInv, Offloads(recipe), Next
  PROVE  Kept
BY RoundKeeps, EnsureNothingKeeps, MoveTrainKeeps, WakeKeeps, SleepKeeps, OthersKeep,
   NotMadeKeeps DEF Next

LEMMA ApartStep ==
  ASSUME ApartInv, [Next]_vars
  PROVE  ApartInv' /\ [KeptApart]_vars
<1>1. RecordInv'
  BY WholeMovesStep, RecordTrueStep DEF ApartInv, RecordInv
<1>2. recipe' = recipe
  BY DEF Next, vars, Round, EnsureNothing, MoveTrain, Wake, Sleep, Preserve, Publish, Train,
         ReadWeights, NotMade
<1>3. Accepted(recipe)' /\ Offloads(recipe)' = Offloads(recipe)
  BY <1>2 DEF ApartInv, Accepted, Offloads
<1>4. train' \subseteq State
  BY DEF ApartInv, Next, vars, Round, EnsureNothing, MoveTrain, Wake, Sleep, Preserve, Publish,
         Train, ReadWeights, NotMade, State
<1>5. CASE Offloads(recipe)
  <2>1. Kept \/ UNCHANGED vars
    BY <1>5, NextKeeps
  <2>2. [KeptApart]_vars
    BY <2>1 DEF Kept
  <2>3. Ready(recipe, todo, train, engine, ended)'
    <3>1. CASE Kept
      BY <1>2, <3>1 DEF Kept
    <3>2. CASE UNCHANGED vars
      BY <1>5, <3>2 DEF ApartInv, vars
    <3> QED BY <2>1, <3>1, <3>2
  <2> QED BY <1>1, <1>3, <1>4, <2>2, <2>3 DEF ApartInv
<1>6. CASE ~Offloads(recipe)
  BY <1>1, <1>3, <1>4, <1>6 DEF ApartInv, KeptApart
<1> QED BY <1>5, <1>6

(***************************************************************************)
(* With offloading, the whole engine and the train state are never brought *)
(* together on the GPU, nor a streaming sync's engine and the optimizer,   *)
(* on no path of an exception either: for every number of rollouts, every  *)
(* interval between syncs and between evaluations, fresh or resumed.       *)
(***************************************************************************)
THEOREM EngineAndTrainStateApart == Spec => ApartOnTheGpu
<1>1. Init => ApartInv
  BY ApartInit
<1>2. ApartInv /\ [Next]_vars => ApartInv' /\ [KeptApart]_vars
  BY ApartStep
<1> QED BY <1>1, <1>2, PTL DEF Spec, ApartOnTheGpu

-----------------------------------------------------------------------------
(***************************************************************************)
(* Work finds its state.  Again an annotated program, of whole states of   *)
(* the GPU this time: Runs(c, s, P, Q) says that the calls s, if they      *)
(* return, lead from any state of P to one of Q, and that each finds what  *)
(* it needs.  What an exception leads to does no work.                     *)
(***************************************************************************)
Gpu == [train : SUBSET State, engine : {"asleep", "weights", "awake"}, weights : Int,
        preserve : BOOLEAN, version : Nat]

Now == [train |-> train, engine |-> engine, weights |-> weights, preserve |-> preserve,
        version |-> version]

\* What WorkFindsItsState asks of a call.
Finds(c, name, g) ==
  LET lag == g.version - g.weights
  IN  /\ name \in {"generate", "evaluate"} => g.engine = "awake" /\ g.weights # Discarded
      /\ c.sync # "none" =>
           (name = "generate" => lag < c.interval) /\ (name = "evaluate" => lag = 0)
      /\ name \in {"train", "extract"} => g.train = State
      /\ name = "sync" => "model" \in g.train /\ g.engine # "asleep"
      /\ name = "push" => g.engine = "awake"

\* What a call that returns may do: h is a state after g.
TrainAfter(name, g) ==
  IF name \in {"offload", "ensure offloaded"} THEN {}
  ELSE IF name = "offload optimizer" THEN g.train \ {"optimizer"}
  ELSE IF name = "offload model" THEN g.train \ {"model"}
  ELSE IF name \in {"onload", "ensure loaded"} THEN State
  ELSE g.train

EngineAfter(name, g) ==
  IF name \in {"build engine", "wake", "ensure awake"} THEN "awake"
  ELSE IF name = "wake weights" /\ g.engine = "asleep" THEN "weights"
  ELSE IF name \in {"sleep", "ensure asleep"} THEN "asleep"
  ELSE g.engine

Sleeps(name, g) == name \in {"sleep", "ensure asleep"} /\ g.engine # "asleep"

WeightsAfter(c, name, g) ==
  IF name \in {"sync", "push"} THEN g.version
  ELSE IF Sleeps(name, g) /\ c.sync = "streaming" /\ ~g.preserve THEN Discarded
  ELSE g.weights

Leads(c, name, g, h) ==
  IF name \in Ensures /\ ~c.offload THEN h = g
  ELSE /\ h.train = TrainAfter(name, g) /\ h.engine = EngineAfter(name, g)
       /\ h.weights = WeightsAfter(c, name, g)
       /\ name \in {"build sync", "preserve"} \/ Sleeps(name, g) \/ h.preserve = g.preserve
       /\ name = "preserve" \/ (name = "build sync" /\ c.sync = "streaming") => h.preserve
       /\ h.version \in {g.version} \cup (IF name = "train" THEN {g.version + 1} ELSE {})

Handlers == [name : {"sleep", "onload", "ensure asleep", "ensure offloaded"}, clean : {<<>>}]
Program(c) == [name : Names(c), clean : Seq(Handlers)]

\* The states before each call, and after the last.
Annotates(c, s, notes) ==
  \A k \in 1 .. Len(s) : \A g \in notes[k] :
    /\ Finds(c, s[k].name, g)
    /\ \A h \in Gpu : Leads(c, s[k].name, g, h) => h \in notes[k + 1]

Runs(c, s, P, Q) ==
  /\ s \in Seq(Program(c))
  /\ \E notes \in [1 .. Len(s) + 1 -> SUBSET Gpu] :
       P \subseteq notes[1] /\ notes[Len(s) + 1] \subseteq Q /\ Annotates(c, s, notes)

-----------------------------------------------------------------------------
(***************************************************************************)
(* The rules.                                                              *)
(***************************************************************************)
LEMMA RunsLess ==
  ASSUME NEW c, NEW s, NEW P, NEW Q, NEW P2, NEW Q2, Runs(c, s, P, Q),
         P2 \subseteq P, Q \subseteq Q2
  PROVE  Runs(c, s, P2, Q2)
<1>1. PICK notes \in [1 .. Len(s) + 1 -> SUBSET Gpu] :
        P \subseteq notes[1] /\ notes[Len(s) + 1] \subseteq Q /\ Annotates(c, s, notes)
  BY DEF Runs
<1>2. P2 \subseteq notes[1] /\ notes[Len(s) + 1] \subseteq Q2
  BY <1>1
<1> QED BY <1>1, <1>2 DEF Runs

LEMMA RunsNothing ==
  ASSUME NEW c, NEW P \in SUBSET Gpu PROVE Runs(c, <<>>, P, P)
<1> DEFINE notes == [k \in 1 .. 1 |-> P]
<1>1. notes \in [1 .. Len(<<>>) + 1 -> SUBSET Gpu] /\ notes[1] = P /\ Len(<<>>) + 1 = 1
  OBVIOUS
<1>2. Annotates(c, <<>>, notes)
  BY DEF Annotates
<1>3. <<>> \in Seq(Program(c))
  OBVIOUS
<1> HIDE DEF notes
<1> QED BY <1>1, <1>2, <1>3 DEF Runs

LEMMA RunsCall ==
  ASSUME NEW c, NEW name \in Names(c), NEW P \in SUBSET Gpu, NEW Q \in SUBSET Gpu,
         \A g \in P : /\ Finds(c, name, g)
                      /\ \A h \in Gpu : Leads(c, name, g, h) => h \in Q
  PROVE  Runs(c, Call(name), P, Q)
<1> DEFINE notes == [k \in 1 .. 2 |-> IF k = 1 THEN P ELSE Q]
           call == [name |-> name, clean |-> <<>>]
<1>1. call \in Program(c) /\ call.name = name
  <2>1. <<>> \in Seq(Handlers)
    OBVIOUS
  <2> QED BY <2>1 DEF Program
<1> HIDE DEF call
<1>2. Call(name) = <<call>> /\ Call(name) \in Seq(Program(c)) /\ Len(Call(name)) = 1
  BY <1>1 DEF Call, call
<1>3. Call(name)[1] = call
  BY <1>2
<1>4. notes \in [1 .. Len(Call(name)) + 1 -> SUBSET Gpu] /\ notes[1] = P /\ notes[2] = Q
      /\ Len(Call(name)) + 1 = 2
  BY <1>2
<1> HIDE DEF notes
<1>5. Annotates(c, Call(name), notes)
  BY <1>1, <1>2, <1>3, <1>4 DEF Annotates
<1>6. P \subseteq notes[1] /\ notes[Len(Call(name)) + 1] \subseteq Q
  BY <1>4
<1> QED BY <1>2, <1>4, <1>5, <1>6 DEF Runs

LEMMA RunsThen ==
  ASSUME NEW c, NEW s, NEW t, NEW P, NEW Q, NEW R, Runs(c, s, P, Q), Runs(c, t, Q, R)
  PROVE  Runs(c, s \o t, P, R)
<1>1. PICK m \in [1 .. Len(s) + 1 -> SUBSET Gpu] :
        P \subseteq m[1] /\ m[Len(s) + 1] \subseteq Q /\ Annotates(c, s, m)
  BY DEF Runs
<1>2. PICK n \in [1 .. Len(t) + 1 -> SUBSET Gpu] :
        Q \subseteq n[1] /\ n[Len(t) + 1] \subseteq R /\ Annotates(c, t, n)
  BY DEF Runs
<1>3. s \in Seq(Program(c)) /\ t \in Seq(Program(c))
  BY DEF Runs
<1> DEFINE A == Program(c)
<1>4. s \in Seq(A) /\ t \in Seq(A)
  BY <1>3
<1> HIDE DEF A
<1>5. /\ Len(s) \in Nat /\ Len(t) \in Nat
      /\ s \o t \in Seq(A) /\ Len(s \o t) = Len(s) + Len(t)
      /\ \A k \in 1 .. Len(s) : (s \o t)[k] = s[k]
      /\ \A k \in 1 .. Len(t) : (s \o t)[Len(s) + k] = t[k]
  BY <1>4
<1> DEFINE notes == [k \in 1 .. Len(s) + Len(t) + 1 |->
                       IF k <= Len(s) THEN m[k] ELSE n[k - Len(s)]]
<1>6. notes \in [1 .. Len(s) + Len(t) + 1 -> SUBSET Gpu]
  <2>1. ASSUME NEW k \in 1 .. Len(s) + Len(t) + 1
        PROVE  (IF k <= Len(s) THEN m[k] ELSE n[k - Len(s)]) \in SUBSET Gpu
    <3>1. CASE k <= Len(s)
      <4>1. k \in 1 .. Len(s) + 1
        BY <1>5, <3>1
      <4> QED BY <1>1, <3>1, <4>1
    <3>2. CASE ~(k <= Len(s))
      <4>1. k - Len(s) \in 1 .. Len(t) + 1
        BY <1>5, <3>2
      <4> QED BY <1>2, <3>2, <4>1
    <3> QED BY <3>1, <3>2
  <2> QED BY <2>1
<1>7. /\ \A k \in 1 .. Len(s) : notes[k] = m[k]
      /\ \A k \in 1 .. Len(t) + 1 : notes[Len(s) + k] = n[k]
  <2>1. ASSUME NEW k \in 1 .. Len(s)
        PROVE  notes[k] = m[k]
    <3>1. k \in 1 .. Len(s) + Len(t) + 1 /\ k <= Len(s)
      BY <1>5
    <3> QED BY <3>1
  <2>2. ASSUME NEW k \in 1 .. Len(t) + 1
        PROVE  notes[Len(s) + k] = n[k]
    <3>1. /\ Len(s) + k \in 1 .. Len(s) + Len(t) + 1 /\ ~(Len(s) + k <= Len(s))
          /\ (Len(s) + k) - Len(s) = k
      BY <1>5
    <3> QED BY <3>1
  <2> QED BY <2>1, <2>2
<1> HIDE DEF notes
<1>8. m[Len(s) + 1] \subseteq notes[Len(s) + 1]
  <2>1. notes[Len(s) + 1] = n[1]
    BY <1>5, <1>7
  <2> QED BY <1>1, <1>2, <2>1
<1>9. P \subseteq notes[1]
  <2>1. CASE Len(s) = 0
    <3>1. Len(s) + 1 = 1
      BY <2>1
    <3> QED BY <1>1, <1>8, <3>1
  <2>2. CASE Len(s) # 0
    <3>1. 1 \in 1 .. Len(s)
      BY <1>5, <2>2
    <3> QED BY <1>1, <1>7, <3>1
  <2> QED BY <2>1, <2>2
<1>10. notes[Len(s \o t) + 1] \subseteq R
  <2>1. notes[Len(s) + (Len(t) + 1)] = n[Len(t) + 1]
    BY <1>5, <1>7
  <2>2. Len(s) + (Len(t) + 1) = Len(s \o t) + 1
    BY <1>5
  <2> QED BY <1>2, <2>1, <2>2
<1>11. ASSUME NEW k \in 1 .. Len(s \o t), NEW g \in notes[k]
       PROVE  /\ Finds(c, (s \o t)[k].name, g)
              /\ \A h \in Gpu : Leads(c, (s \o t)[k].name, g, h) => h \in notes[k + 1]
  <2>1. CASE k \in 1 .. Len(s)
    <3>1. (s \o t)[k] = s[k] /\ notes[k] = m[k]
      BY <1>5, <1>7, <2>1
    <3>2. m[k + 1] \subseteq notes[k + 1]
      <4>1. CASE k = Len(s)
        BY <1>8, <4>1
      <4>2. CASE k # Len(s)
        <5>1. k + 1 \in 1 .. Len(s)
          BY <1>5, <2>1, <4>2
        <5> QED BY <1>7, <5>1
      <4> QED BY <4>1, <4>2
    <3>3. /\ Finds(c, s[k].name, g)
          /\ \A h \in Gpu : Leads(c, s[k].name, g, h) => h \in m[k + 1]
      BY <1>1, <2>1, <1>11, <3>1 DEF Annotates
    <3> QED BY <3>1, <3>2, <3>3
  <2>2. CASE k \notin 1 .. Len(s)
    <3> DEFINE j == k - Len(s)
    <3>1. j \in 1 .. Len(t) /\ Len(s) + j = k /\ Len(s) + (j + 1) = k + 1 /\ j + 1 \in 1 .. Len(t) + 1
          /\ j \in 1 .. Len(t) + 1
      BY <1>5, <2>2
    <3> HIDE DEF j
    <3>2. (s \o t)[k] = t[j] /\ notes[k] = n[j] /\ notes[k + 1] = n[j + 1]
      <4>1. (s \o t)[Len(s) + j] = t[j]
        BY <1>5, <3>1
      <4>2. notes[Len(s) + j] = n[j] /\ notes[Len(s) + (j + 1)] = n[j + 1]
        BY <1>7, <3>1
      <4> QED BY <3>1, <4>1, <4>2
    <3>3. /\ Finds(c, t[j].name, g)
          /\ \A h \in Gpu : Leads(c, t[j].name, g, h) => h \in n[j + 1]
      BY <1>2, <1>11, <3>1, <3>2 DEF Annotates
    <3> QED BY <3>2, <3>3
  <2> QED BY <2>1, <2>2
<1>12. Annotates(c, s \o t, notes)
  BY <1>11 DEF Annotates
<1>13. notes \in [1 .. Len(s \o t) + 1 -> SUBSET Gpu]
  BY <1>5, <1>6
<1>14. s \o t \in Seq(Program(c))
  BY <1>5 DEF A
<1> QED BY <1>9, <1>10, <1>12, <1>13, <1>14 DEF Runs

LEMMA RunsIf ==
  ASSUME NEW c, NEW b \in BOOLEAN, NEW s, NEW P \in SUBSET Gpu, NEW Q \in SUBSET Gpu,
         b => Runs(c, s, P, Q), ~b => P \subseteq Q
  PROVE  Runs(c, If(b, s), P, Q)
<1>1. CASE b
  BY <1>1 DEF If
<1>2. CASE ~b
  BY <1>2, RunsNothing, RunsLess DEF If
<1> QED BY <1>1, <1>2

\* What a handler does is of no interest to the calls it guards.
LEMMA RunsGuard ==
  ASSUME NEW c, NEW s, NEW P, NEW Q, Runs(c, s, P, Q), NEW clean \in Seq(Handlers)
  PROVE  Runs(c, Guard(s, clean), P, Q)
<1>1. PICK notes \in [1 .. Len(s) + 1 -> SUBSET Gpu] :
        P \subseteq notes[1] /\ notes[Len(s) + 1] \subseteq Q /\ Annotates(c, s, notes)
  BY DEF Runs
<1> DEFINE A == Seq(Handlers)
           B == Program(c)
<1>2. s \in Seq(B) /\ clean \in A /\ B = [name : Names(c), clean : A]
  BY DEF Runs, Program
<1> HIDE DEF A, B
<1>3. /\ Len(s) \in Nat /\ DOMAIN s = 1 .. Len(s)
      /\ \A k \in 1 .. Len(s) : s[k] \in [name : Names(c), clean : A]
  <2>1. \A B2, s2 : s2 \in Seq(B2) =>
           /\ Len(s2) \in Nat /\ DOMAIN s2 = 1 .. Len(s2)
           /\ \A k \in 1 .. Len(s2) : s2[k] \in B2
    OBVIOUS
  <2> QED BY <1>2, <2>1, Zenon
<1>4. \A k \in 1 .. Len(s) :
        /\ [s[k] EXCEPT !.clean = clean] \in [name : Names(c), clean : A]
        /\ [s[k] EXCEPT !.clean = clean].name = s[k].name
  BY <1>2, <1>3
<1>5. /\ Guard(s, clean) \in Seq(B) /\ Len(Guard(s, clean)) = Len(s)
      /\ \A k \in 1 .. Len(s) : Guard(s, clean)[k].name = s[k].name
  BY <1>2, <1>3, <1>4 DEF Guard
<1>6. Annotates(c, Guard(s, clean), notes)
  BY <1>1, <1>5 DEF Annotates
<1> QED BY <1>1, <1>5, <1>6 DEF Runs, B

-----------------------------------------------------------------------------
(***************************************************************************)
(* The calls.  The train state on the GPU is T; the engine is as E says;   *)
(* it has weights and they are as old as one of A says, if d; and its next *)
(* sleep preserves them, if p.                                             *)
(***************************************************************************)
Known(c, T, E, d, A, p) ==
  {g \in Gpu : /\ g.train = T /\ g.engine \in E
               /\ d => /\ g.weights # Discarded
                       /\ c.sync # "none" => g.version - g.weights \in A
               /\ p => g.preserve}

Anyhow == {"asleep", "weights", "awake"}
Grown(A) == A \cup {a + 1 : a \in A}

LEMMA KnownIsGpu ==
  ASSUME NEW c, NEW T, NEW E, NEW d, NEW A, NEW p PROVE Known(c, T, E, d, A, p) \in SUBSET Gpu
BY DEF Known

LEMMA CallMovesTrain ==
  ASSUME NEW c, NEW T, NEW E, NEW d, NEW A, NEW p
  PROVE  /\ "offload" \in Names(c) =>
              Runs(c, Call("offload"), Known(c, T, E, d, A, p), Known(c, {}, E, d, A, p))
         /\ "onload" \in Names(c) =>
              Runs(c, Call("onload"), Known(c, T, E, d, A, p), Known(c, State, E, d, A, p))
         /\ "offload optimizer" \in Names(c) =>
              Runs(c, Call("offload optimizer"), Known(c, State, E, d, A, p),
                   Known(c, {"model"}, E, d, A, p))
         /\ "offload model" \in Names(c) =>
              /\ Runs(c, Call("offload model"), Known(c, {"model"}, E, d, A, p),
                      Known(c, {}, E, d, A, p))
         /\ "ensure offloaded" \in Names(c) /\ c.offload =>
              Runs(c, Call("ensure offloaded"), Known(c, T, E, d, A, p),
                   Known(c, {}, E, d, A, p))
         /\ "ensure loaded" \in Names(c) /\ c.offload =>
              Runs(c, Call("ensure loaded"), Known(c, T, E, d, A, p),
                   Known(c, State, E, d, A, p))
<1> DEFINE P(U) == Known(c, U, E, d, A, p)
<1>1. \A U : P(U) \in SUBSET Gpu
  BY KnownIsGpu
<1>2. ASSUME NEW name \in {"offload", "onload", "offload optimizer", "offload model"}
                          \cup (IF c.offload THEN {"ensure offloaded", "ensure loaded"} ELSE {}),
             name \in Names(c), NEW U, NEW V,
             \A g \in P(U) : TrainAfter(name, g) = V
      PROVE  Runs(c, Call(name), P(U), P(V))
  <2>1. ASSUME NEW g \in P(U) PROVE Finds(c, name, g)
    BY <1>2 DEF Finds
  <2>2. ASSUME NEW g \in P(U), NEW h \in Gpu, Leads(c, name, g, h) PROVE h \in P(V)
    <3>1. h.train = TrainAfter(name, g) /\ h.engine = EngineAfter(name, g)
          /\ h.weights = WeightsAfter(c, name, g) /\ h.preserve = g.preserve
          /\ h.version = g.version
      BY <1>2, <2>2 DEF Leads, Ensures, Sleeps
    <3>2. h.engine = g.engine /\ h.weights = g.weights
      BY <1>2, <3>1 DEF EngineAfter, WeightsAfter, Sleeps
    <3> QED BY <1>2, <3>1, <3>2 DEF Known
  <2> HIDE DEF P
  <2> QED BY <1>1, <1>2, <2>1, <2>2, RunsCall
<1>3. \A g \in P(State) : g.train = State
  BY DEF Known
<1>4. \A g \in P({"model"}) : g.train = {"model"}
  BY DEF Known
<1> HIDE DEF P
<1>5. \A g : TrainAfter("offload", g) = {} /\ TrainAfter("ensure offloaded", g) = {}
             /\ TrainAfter("onload", g) = State /\ TrainAfter("ensure loaded", g) = State
  BY DEF TrainAfter
<1>6. \A g \in P(State) : TrainAfter("offload optimizer", g) = {"model"}
  BY <1>3 DEF TrainAfter, State
<1>7. \A g \in P({"model"}) : TrainAfter("offload model", g) = {}
  BY <1>4 DEF TrainAfter
<1> QED BY <1>2, <1>5, <1>6, <1>7 DEF P

LEMMA CallWakes ==
  ASSUME NEW c, NEW T, NEW E, NEW d, NEW A, NEW p
  PROVE  /\ \A name \in Names(c) :
              name \in {"build engine", "wake"} \/ (name = "ensure awake" /\ c.offload) =>
              Runs(c, Call(name), Known(c, T, E, d, A, p), Known(c, T, {"awake"}, d, A, p))
         /\ "wake weights" \in Names(c) =>
              Runs(c, Call("wake weights"), Known(c, T, E, d, A, p),
                   Known(c, T, {"weights", "awake"}, d, A, p))
<1>1. Known(c, T, E, d, A, p) \in SUBSET Gpu
      /\ \A F : Known(c, T, F, d, A, p) \in SUBSET Gpu
  BY KnownIsGpu
<1>2. ASSUME NEW name \in Names(c),
             name \in {"build engine", "wake", "wake weights"} \/ (name = "ensure awake" /\ c.offload),
             NEW F, \A g \in Known(c, T, E, d, A, p) : EngineAfter(name, g) \in F
      PROVE  Runs(c, Call(name), Known(c, T, E, d, A, p), Known(c, T, F, d, A, p))
  <2>1. ASSUME NEW g \in Known(c, T, E, d, A, p) PROVE Finds(c, name, g)
    BY <1>2 DEF Finds
  <2>2. ASSUME NEW g \in Known(c, T, E, d, A, p), NEW h \in Gpu, Leads(c, name, g, h)
        PROVE  h \in Known(c, T, F, d, A, p)
    <3>1. h.train = TrainAfter(name, g) /\ h.engine = EngineAfter(name, g)
          /\ h.weights = WeightsAfter(c, name, g) /\ h.preserve = g.preserve
          /\ h.version = g.version
      BY <1>2, <2>2 DEF Leads, Ensures, Sleeps
    <3>2. h.train = g.train /\ h.weights = g.weights /\ h.engine \in F
      BY <1>2, <3>1 DEF TrainAfter, WeightsAfter, Sleeps
    <3> QED BY <3>1, <3>2 DEF Known
  <2> QED BY <1>1, <1>2, <2>1, <2>2, RunsCall
<1>3. \A g : EngineAfter("build engine", g) = "awake" /\ EngineAfter("wake", g) = "awake"
             /\ EngineAfter("ensure awake", g) = "awake"
  BY DEF EngineAfter
<1>4. \A g \in Known(c, T, E, d, A, p) : EngineAfter("wake weights", g) \in {"weights", "awake"}
  BY DEF EngineAfter, Known, Gpu
<1> QED BY <1>2, <1>3, <1>4

\* An engine keeps its weights where a streaming sync has not told it to discard
\* them, or it is to preserve them.
LEMMA CallSleeps ==
  ASSUME NEW c, NEW T, NEW E, NEW d, NEW A, NEW p, NEW name \in Names(c),
         name = "sleep" \/ (name = "ensure asleep" /\ c.offload),
         NEW e, e => d /\ (p \/ c.sync # "streaming")
  PROVE  Runs(c, Call(name), Known(c, T, E, d, A, p), Known(c, T, {"asleep"}, e, A, FALSE))
<1>1. ASSUME NEW g \in Known(c, T, E, d, A, p) PROVE Finds(c, name, g)
  BY DEF Finds
<1>2. ASSUME NEW g \in Known(c, T, E, d, A, p), NEW h \in Gpu, Leads(c, name, g, h)
      PROVE  h \in Known(c, T, {"asleep"}, e, A, FALSE)
  <2>1. h.train = TrainAfter(name, g) /\ h.engine = EngineAfter(name, g)
        /\ h.weights = WeightsAfter(c, name, g) /\ h.version = g.version
    BY <1>2 DEF Leads, Ensures, Sleeps
  <2>2. h.train = g.train /\ h.engine = "asleep"
    BY <2>1 DEF TrainAfter, EngineAfter
  <2>3. e => h.weights = g.weights
    BY <2>1 DEF WeightsAfter, Known, Sleeps
  <2> QED BY <2>1, <2>2, <2>3 DEF Known
<1> QED BY <1>1, <1>2, KnownIsGpu, RunsCall

LEMMA CallPublishes ==
  ASSUME NEW c, NEW T, NEW E, NEW d, NEW A, NEW p, NEW name \in Names(c),
         \/ name = "sync" /\ "model" \in T /\ "asleep" \notin E
         \/ name = "push" /\ E = {"awake"}
  PROVE  Runs(c, Call(name), Known(c, T, E, d, A, p), Known(c, T, E, TRUE, {0}, p))
<1>1. ASSUME NEW g \in Known(c, T, E, d, A, p) PROVE Finds(c, name, g)
  BY DEF Finds, Known
<1>2. ASSUME NEW g \in Known(c, T, E, d, A, p), NEW h \in Gpu, Leads(c, name, g, h)
      PROVE  h \in Known(c, T, E, TRUE, {0}, p)
  <2>1. h.train = TrainAfter(name, g) /\ h.engine = EngineAfter(name, g)
        /\ h.weights = WeightsAfter(c, name, g) /\ h.version = g.version
        /\ h.preserve = g.preserve
    BY <1>2 DEF Leads, Ensures, Sleeps
  <2>2. h.train = g.train /\ h.engine = g.engine /\ h.weights = g.version
    BY <2>1 DEF TrainAfter, EngineAfter, WeightsAfter
  <2>3. g.version \in Nat /\ g.version - g.version = 0 /\ g.version # -1
    BY DEF Known, Gpu
  <2> QED BY <2>1, <2>2, <2>3 DEF Known, Discarded
<1> QED BY <1>1, <1>2, KnownIsGpu, RunsCall

LEMMA CallPreserves ==
  ASSUME NEW c, NEW T, NEW E, NEW d, NEW A, NEW p
  PROVE  /\ "preserve" \in Names(c) =>
              Runs(c, Call("preserve"), Known(c, T, E, d, A, p), Known(c, T, E, d, A, TRUE))
         /\ "build sync" \in Names(c) =>
              Runs(c, Call("build sync"), Known(c, T, E, d, A, p),
                   Known(c, T, E, d, A, c.sync = "streaming"))
<1>1. ASSUME NEW name \in {"preserve", "build sync"} \cap Names(c), NEW q,
             q => name = "preserve" \/ c.sync = "streaming"
      PROVE  Runs(c, Call(name), Known(c, T, E, d, A, p), Known(c, T, E, d, A, q))
  <2>1. ASSUME NEW g \in Known(c, T, E, d, A, p) PROVE Finds(c, name, g)
    BY DEF Finds
  <2>2. ASSUME NEW g \in Known(c, T, E, d, A, p), NEW h \in Gpu, Leads(c, name, g, h)
        PROVE  h \in Known(c, T, E, d, A, q)
    <3>1. h.train = TrainAfter(name, g) /\ h.engine = EngineAfter(name, g)
          /\ h.weights = WeightsAfter(c, name, g) /\ h.version = g.version
          /\ (q => h.preserve)
      BY <1>1, <2>2 DEF Leads, Ensures
    <3>2. h.train = g.train /\ h.engine = g.engine /\ h.weights = g.weights
      BY <3>1 DEF TrainAfter, EngineAfter, WeightsAfter, Sleeps
    <3> QED BY <3>1, <3>2 DEF Known
  <2> QED BY <2>1, <2>2, KnownIsGpu, RunsCall
<1> QED BY <1>1

LEMMA CallTrains ==
  ASSUME NEW c, NEW E, NEW d, NEW A, NEW p, "train" \in Names(c), A \subseteq Int
  PROVE  Runs(c, Call("train"), Known(c, State, E, d, A, p), Known(c, State, E, d, Grown(A), p))
<1>1. ASSUME NEW g \in Known(c, State, E, d, A, p) PROVE Finds(c, "train", g)
  BY DEF Finds, Known
<1>2. ASSUME NEW g \in Known(c, State, E, d, A, p), NEW h \in Gpu, Leads(c, "train", g, h)
      PROVE  h \in Known(c, State, E, d, Grown(A), p)
  <2>1. h.train = TrainAfter("train", g) /\ h.engine = EngineAfter("train", g)
        /\ h.weights = WeightsAfter(c, "train", g) /\ h.preserve = g.preserve
        /\ h.version \in {g.version, g.version + 1}
    BY <1>2 DEF Leads, Ensures, Sleeps
  <2>2. h.train = g.train /\ h.engine = g.engine /\ h.weights = g.weights
    BY <2>1 DEF TrainAfter, EngineAfter, WeightsAfter, Sleeps
  <2>3. g.version \in Int /\ g.weights \in Int
    BY DEF Known, Gpu
  <2>4. h.version - h.weights \in {g.version - g.weights, (g.version - g.weights) + 1}
    BY <2>1, <2>2, <2>3
  <2>5. g.version - g.weights \in A => h.version - h.weights \in Grown(A)
    BY <2>4 DEF Grown
  <2> QED BY <2>1, <2>2, <2>5 DEF Known
<1> QED BY <1>1, <1>2, KnownIsGpu, RunsCall

\* Calls that only read.
LEMMA CallReads ==
  ASSUME NEW c, NEW T, NEW E, NEW A, NEW d, NEW p, NEW name \in Names(c),
         \/ /\ name \in {"generate", "evaluate"} /\ E = {"awake"} /\ d
            /\ c.sync # "none" => \A a \in A : IF name = "generate" THEN a < c.interval ELSE a = 0
         \/ name = "extract" /\ T = State
         \/ name \in Ensures /\ ~c.offload
  PROVE  Runs(c, Call(name), Known(c, T, E, d, A, p), Known(c, T, E, d, A, p))
<1>1. ASSUME NEW g \in Known(c, T, E, d, A, p) PROVE Finds(c, name, g)
  BY DEF Finds, Known, Ensures
<1>2. ASSUME NEW g \in Known(c, T, E, d, A, p), NEW h \in Gpu, Leads(c, name, g, h)
      PROVE  h \in Known(c, T, E, d, A, p)
  <2>1. CASE name \in Ensures /\ ~c.offload
    BY <1>2, <2>1 DEF Leads
  <2>2. CASE name \in {"generate", "evaluate", "extract"}
    <3>1. h.train = TrainAfter(name, g) /\ h.engine = EngineAfter(name, g)
          /\ h.weights = WeightsAfter(c, name, g) /\ h.version = g.version
          /\ h.preserve = g.preserve
      BY <1>2, <2>2 DEF Leads, Ensures, Sleeps
    <3>2. h.train = g.train /\ h.engine = g.engine /\ h.weights = g.weights
      BY <2>2, <3>1 DEF TrainAfter, EngineAfter, WeightsAfter, Sleeps
    <3> QED BY <3>1, <3>2 DEF Known
  <2> QED BY <2>1, <2>2
<1> QED BY <1>1, <1>2, KnownIsGpu, RunsCall

-----------------------------------------------------------------------------
(***************************************************************************)
(* The methods of the trainer.                                             *)
(***************************************************************************)
\* What exception handlers call.
LEMMA HandlersCall ==
  /\ \A name \in {"sleep", "onload", "ensure asleep", "ensure offloaded"} :
        Call(name) \in Seq(Handlers)
  /\ <<>> \in Seq(Handlers)
  /\ \A b \in BOOLEAN : /\ Finish(b) \in Seq(Handlers)
                        /\ If(b, Call("ensure offloaded")) \in Seq(Handlers)
                        /\ If(b, Call("sleep") \o Call("onload")) \in Seq(Handlers)
<1>1. \A name \in {"sleep", "onload", "ensure asleep", "ensure offloaded"} :
        Call(name) \in Seq(Handlers)
  <2>1. \A name \in {"sleep", "onload", "ensure asleep", "ensure offloaded"} :
          [name |-> name, clean |-> <<>>] \in Handlers
    BY DEF Handlers
  <2>2. \A x \in Handlers : <<x>> \in Seq(Handlers)
    OBVIOUS
  <2> QED BY <2>1, <2>2 DEF Call
<1>2. <<>> \in Seq(Handlers)
  OBVIOUS
<1>3. \A s, t \in Seq(Handlers) : s \o t \in Seq(Handlers)
  OBVIOUS
<1>4. \A b \in BOOLEAN : \A s \in Seq(Handlers) : If(b, s) \in Seq(Handlers)
  BY <1>2 DEF If
<1>5. \A b \in BOOLEAN : /\ Finish(b) \in Seq(Handlers)
                         /\ If(b, Call("ensure offloaded")) \in Seq(Handlers)
                         /\ If(b, Call("sleep") \o Call("onload")) \in Seq(Handlers)
  BY <1>1, <1>3, <1>4 DEF Finish
<1> QED BY <1>1, <1>2, <1>5

\* Whether weights survive a session that need not be kept.
Retained(c, keep) == keep \/ c.sync # "streaming"

LEMMA FinishRuns ==
  ASSUME NEW c, ~c.anchored, NEW off \in BOOLEAN, NEW T, off \/ T = State,
         NEW E, NEW A, NEW p \in BOOLEAN
  PROVE  Runs(c, Finish(off), Known(c, T, E, TRUE, A, p),
              Known(c, State, {"asleep"}, Retained(c, p), A, FALSE))
<1>1. "sleep" \in Names(c) /\ "onload" \in Names(c)
  BY DEF Names, SplitCalls
<1>2. Runs(c, Call("sleep"), Known(c, T, E, TRUE, A, p),
           Known(c, T, {"asleep"}, Retained(c, p), A, FALSE))
  BY <1>1, CallSleeps DEF Retained
<1>3. Runs(c, Call("onload"), Known(c, T, {"asleep"}, Retained(c, p), A, FALSE),
           Known(c, State, {"asleep"}, Retained(c, p), A, FALSE))
  BY <1>1, CallMovesTrain
<1>4. Runs(c, If(off, Call("onload")), Known(c, T, {"asleep"}, Retained(c, p), A, FALSE),
           Known(c, State, {"asleep"}, Retained(c, p), A, FALSE))
  BY <1>3, KnownIsGpu, RunsIf
<1> QED BY <1>2, <1>4, RunsThen DEF Finish

\* The train state during a rollout.
Room(c) == IF Offloads(c) THEN {} ELSE State

Renewed(does, A) == IF does THEN {0} ELSE A

LEMMA PrepareRuns ==
  ASSUME NEW c \in Recipe, Accepted(c), ~c.anchored, NEW does \in BOOLEAN, NEW d \in BOOLEAN,
         does \/ d, does => c.sync # "none", NEW A
  PROVE  Runs(c, Prepare(c, does), Known(c, State, Anyhow, d, A, FALSE),
              Known(c, Room(c), {"awake"}, TRUE, Renewed(does, A), FALSE))
<1> DEFINE K(T, E, e, B) == Known(c, T, E, e, B, FALSE)
           Off == Guard(Call("offload"), Finish(TRUE))
<1>1. \A name \in SplitCalls : name \in Names(c)
  BY DEF Names
<1>2. Finish(TRUE) \in Seq(Handlers) /\ Finish(FALSE) \in Seq(Handlers)
  BY HandlersCall
<1>3. ASSUME NEW T, NEW E, NEW e, NEW B
      PROVE  /\ Runs(c, Off, K(T, E, e, B), K({}, E, e, B))
             /\ Runs(c, Call("wake"), K(T, E, e, B), K(T, {"awake"}, e, B))
             /\ Runs(c, Call("wake weights"), K(T, E, e, B), K(T, {"weights", "awake"}, e, B))
             /\ "model" \in T /\ "asleep" \notin E =>
                  Runs(c, Call("sync"), K(T, E, e, B), K(T, E, TRUE, {0}))
  <2>1. Runs(c, Call("offload"), K(T, E, e, B), K({}, E, e, B))
    BY <1>1, CallMovesTrain DEF SplitCalls
  <2>2. Runs(c, Off, K(T, E, e, B), K({}, E, e, B))
    BY <1>2, <2>1, RunsGuard
  <2>3. Runs(c, Call("wake"), K(T, E, e, B), K(T, {"awake"}, e, B))
    BY <1>1, CallWakes DEF SplitCalls
  <2>4. Runs(c, Call("wake weights"), K(T, E, e, B), K(T, {"weights", "awake"}, e, B))
    BY <1>1, CallWakes DEF SplitCalls
  <2>5. "model" \in T /\ "asleep" \notin E =>
          Runs(c, Call("sync"), K(T, E, e, B), K(T, E, TRUE, {0}))
    BY <1>1, CallPublishes DEF SplitCalls
  <2> QED BY <2>2, <2>3, <2>4, <2>5
<1>4. /\ Runs(c, Call("offload optimizer"), K(State, Anyhow, d, A), K({"model"}, Anyhow, d, A))
      /\ Runs(c, Call("offload model"), K({"model"}, {"weights", "awake"}, TRUE, {0}),
              K({}, {"weights", "awake"}, TRUE, {0}))
  BY <1>1, CallMovesTrain DEF SplitCalls
<1>5. "model" \in State /\ "model" \in {"model"} /\ "asleep" \notin {"weights", "awake"}
      /\ "asleep" \notin {"awake"}
  BY DEF State
<1> HIDE DEF K, Off
<1>6. CASE does /\ Offloads(c) /\ c.staged /\ c.sync = "streaming"
  <2>1. Runs(c, Guard(Call("offload optimizer"), Finish(FALSE)),
             K(State, Anyhow, d, A), K({"model"}, Anyhow, d, A))
    BY <1>2, <1>4, RunsGuard
  <2>2. Runs(c, Guard(Call("offload optimizer"), Finish(FALSE)) \o Call("wake weights"),
             K(State, Anyhow, d, A), K({"model"}, {"weights", "awake"}, d, A))
    BY <1>3, <2>1, RunsThen
  <2>3. Runs(c, Guard(Call("offload optimizer"), Finish(FALSE)) \o Call("wake weights")
                  \o Call("sync"),
             K(State, Anyhow, d, A), K({"model"}, {"weights", "awake"}, TRUE, {0}))
    BY <1>3, <1>5, <2>2, RunsThen
  <2>4. Runs(c, Guard(Call("offload optimizer"), Finish(FALSE)) \o Call("wake weights")
                  \o Call("sync") \o Call("offload model"),
             K(State, Anyhow, d, A), K({}, {"weights", "awake"}, TRUE, {0}))
    BY <1>4, <2>3, RunsThen
  <2>5. Runs(c, Guard(Call("offload optimizer"), Finish(FALSE)) \o Call("wake weights")
                  \o Call("sync") \o Call("offload model") \o Call("wake"),
             K(State, Anyhow, d, A), K({}, {"awake"}, TRUE, {0}))
    BY <1>3, <2>4, RunsThen
  <2> QED BY <1>6, <2>5 DEF Prepare, Room, Renewed, K
<1>7. CASE does /\ Offloads(c) /\ c.staged /\ c.sync # "streaming"
  <2>1. Runs(c, Call("wake weights") \o Call("sync"),
             K(State, Anyhow, d, A), K(State, {"weights", "awake"}, TRUE, {0}))
    BY <1>3, <1>5, RunsThen
  <2>2. Runs(c, Guard(Call("wake weights") \o Call("sync"), Finish(FALSE)),
             K(State, Anyhow, d, A), K(State, {"weights", "awake"}, TRUE, {0}))
    BY <1>2, <2>1, RunsGuard
  <2>3. Runs(c, Guard(Call("wake weights") \o Call("sync"), Finish(FALSE)) \o Off,
             K(State, Anyhow, d, A), K({}, {"weights", "awake"}, TRUE, {0}))
    BY <1>3, <2>2, RunsThen
  <2>4. Runs(c, Guard(Call("wake weights") \o Call("sync"), Finish(FALSE)) \o Off
                  \o Call("wake"),
             K(State, Anyhow, d, A), K({}, {"awake"}, TRUE, {0}))
    BY <1>3, <2>3, RunsThen
  <2> QED BY <1>7, <2>4 DEF Prepare, Room, Renewed, K, Off
<1>8. CASE does /\ ~(Offloads(c) /\ c.staged)
  <2>1. Runs(c, Call("wake") \o Call("sync"),
             K(State, Anyhow, d, A), K(State, {"awake"}, TRUE, {0}))
    BY <1>3, <1>5, RunsThen
  <2>2. Runs(c, Guard(Call("wake") \o Call("sync"), Finish(FALSE)),
             K(State, Anyhow, d, A), K(State, {"awake"}, TRUE, {0}))
    BY <1>2, <2>1, RunsGuard
  <2>3. Runs(c, If(Offloads(c), Off), K(State, {"awake"}, TRUE, {0}),
             K(Room(c), {"awake"}, TRUE, {0}))
    <3>1. Offloads(c) \in BOOLEAN
      BY DEF Offloads, Recipe
    <3> QED BY <1>3, <3>1, RunsIf, KnownIsGpu DEF Room, K
  <2>4. Runs(c, Guard(Call("wake") \o Call("sync"), Finish(FALSE)) \o If(Offloads(c), Off),
             K(State, Anyhow, d, A), K(Room(c), {"awake"}, TRUE, {0}))
    BY <2>2, <2>3, RunsThen
  <2> QED BY <1>8, <2>4 DEF Prepare, Renewed, K, Off
<1>9. CASE ~does /\ Offloads(c)
  <2>1. Runs(c, Off \o Call("wake"), K(State, Anyhow, d, A), K({}, {"awake"}, d, A))
    BY <1>3, RunsThen
  <2> QED BY <1>9, <2>1 DEF Prepare, Room, Renewed, K, Off
<1>10. CASE ~does /\ ~Offloads(c)
  <2>1. Runs(c, Guard(Call("wake"), Finish(FALSE)),
             K(State, Anyhow, d, A), K(State, {"awake"}, d, A))
    BY <1>2, <1>3, RunsGuard
  <2> QED BY <1>10, <2>1 DEF Prepare, Room, Renewed, K
<1> QED BY <1>6, <1>7, <1>8, <1>9, <1>10

\* Less may be known.
LEMMA KnownLess ==
  ASSUME NEW c, NEW T, NEW E, NEW d, NEW A, NEW p, NEW F, NEW e, NEW B, NEW q,
         E \subseteq F, e => d, e /\ c.sync # "none" => A \subseteq B, q => p
  PROVE  Known(c, T, E, d, A, p) \subseteq Known(c, T, F, e, B, q)
BY DEF Known

\* The trainer between two rounds.
RestTrain(c)  == IF c.anchored /\ c.offload THEN {} ELSE State
RestEngine(c) == IF c.anchored /\ ~c.offload THEN {"awake"} ELSE Anyhow
Rests(c, d, A) == Known(c, RestTrain(c), RestEngine(c), d, A, FALSE)

\* The work of a session, which may be told to keep the weights.
LEMMA KeptRuns ==
  ASSUME NEW c, NEW T, NEW A, NEW keep \in BOOLEAN, NEW name \in {"generate", "evaluate"},
         c.sync # "none" => \A a \in A : IF name = "generate" THEN a < c.interval ELSE a = 0
  PROVE  Runs(c, If(keep, Call("preserve")) \o Call(name), Known(c, T, {"awake"}, TRUE, A, FALSE),
              Known(c, T, {"awake"}, TRUE, A, keep))
<1>1. "preserve" \in Names(c) /\ name \in Names(c)
  BY DEF Names, WholeCalls, SplitCalls
<1>2. Runs(c, If(keep, Call("preserve")), Known(c, T, {"awake"}, TRUE, A, FALSE),
           Known(c, T, {"awake"}, TRUE, A, keep))
  <2>1. Runs(c, Call("preserve"), Known(c, T, {"awake"}, TRUE, A, FALSE),
             Known(c, T, {"awake"}, TRUE, A, TRUE))
    BY <1>1, CallPreserves
  <2>2. CASE keep
    BY <2>1, <2>2, KnownIsGpu, RunsIf
  <2>3. CASE ~keep
    <3>1. keep = FALSE
      BY <2>3
    <3> QED BY <3>1, KnownIsGpu, RunsIf
  <2> QED BY <2>2, <2>3
<1>3. Runs(c, Call(name), Known(c, T, {"awake"}, TRUE, A, keep),
           Known(c, T, {"awake"}, TRUE, A, keep))
  BY <1>1, CallReads
<1> QED BY <1>2, <1>3, RunsThen

LEMMA SplitSessionRuns ==
  ASSUME NEW c \in Recipe, Accepted(c), ~c.anchored, NEW sync \in BOOLEAN, NEW keep \in BOOLEAN,
         NEW name \in {"generate", "evaluate"}, NEW d \in BOOLEAN, NEW A,
         NEW does, does = (sync /\ c.sync # "none"), does \/ d,
         c.sync # "none" => \A a \in Renewed(does, A) :
                              IF name = "generate" THEN a < c.interval ELSE a = 0
  PROVE  Runs(c, Session(c, sync, keep, Call(name)), Rests(c, d, A),
              Rests(c, Retained(c, keep), Renewed(does, A)))
<1> DEFINE kept == If(keep, Call("preserve")) \o Call(name)
           B == Renewed(does, A)
<1>1. does \in BOOLEAN /\ Offloads(c) \in BOOLEAN
  BY DEF Offloads, Recipe
<1>2. Session(c, sync, keep, Call(name))
        = Prepare(c, does) \o Guard(kept, Finish(Offloads(c))) \o Finish(Offloads(c))
  BY DEF Session
<1>3. Runs(c, Prepare(c, does), Known(c, State, Anyhow, d, A, FALSE),
           Known(c, Room(c), {"awake"}, TRUE, B, FALSE))
  BY <1>1, PrepareRuns
<1>4. Runs(c, kept, Known(c, Room(c), {"awake"}, TRUE, B, FALSE),
           Known(c, Room(c), {"awake"}, TRUE, B, keep))
  BY KeptRuns
<1> HIDE DEF kept, B
<1>5. Finish(Offloads(c)) \in Seq(Handlers)
  BY <1>1, HandlersCall
<1>6. Runs(c, Guard(kept, Finish(Offloads(c))), Known(c, Room(c), {"awake"}, TRUE, B, FALSE),
           Known(c, Room(c), {"awake"}, TRUE, B, keep))
  BY <1>4, <1>5, RunsGuard
<1>7. Runs(c, Finish(Offloads(c)), Known(c, Room(c), {"awake"}, TRUE, B, keep),
           Known(c, State, {"asleep"}, Retained(c, keep), B, FALSE))
  BY <1>1, FinishRuns DEF Room
<1>8. Runs(c, Prepare(c, does) \o Guard(kept, Finish(Offloads(c))),
           Known(c, State, Anyhow, d, A, FALSE), Known(c, Room(c), {"awake"}, TRUE, B, keep))
  BY <1>3, <1>6, RunsThen
<1>9. Runs(c, Session(c, sync, keep, Call(name)), Known(c, State, Anyhow, d, A, FALSE),
           Known(c, State, {"asleep"}, Retained(c, keep), B, FALSE))
  BY <1>2, <1>7, <1>8, RunsThen
<1>10. Known(c, State, {"asleep"}, Retained(c, keep), B, FALSE)
         \subseteq Known(c, State, Anyhow, Retained(c, keep), B, FALSE)
  BY DEF Known, Anyhow
<1>11. Runs(c, Session(c, sync, keep, Call(name)), Known(c, State, Anyhow, d, A, FALSE),
            Known(c, State, Anyhow, Retained(c, keep), B, FALSE))
  BY <1>9, <1>10, RunsLess
<1> QED BY <1>11 DEF Rests, RestTrain, RestEngine, B

LEMMA AnchoredSessionRuns ==
  ASSUME NEW c \in Recipe, Accepted(c), c.anchored, NEW sync \in BOOLEAN, NEW keep \in BOOLEAN,
         NEW name \in {"generate", "evaluate"}, NEW d \in BOOLEAN, NEW A,
         NEW does, does = (sync /\ c.sync # "none"), does \/ d,
         c.sync # "none" => \A a \in Renewed(does, A) :
                              IF name = "generate" THEN a < c.interval ELSE a = 0
  PROVE  Runs(c, Session(c, sync, keep, Call(name)), Rests(c, d, A),
              Rests(c, Retained(c, keep), Renewed(does, A)))
<1> DEFINE kept == If(keep, Call("preserve")) \o Call(name)
           B == Renewed(does, A)
           enter == If(does, Call("ensure loaded") \o Call("extract"))
           load  == If(does, Call("push"))
           inner == enter \o Call("ensure offloaded") \o Call("ensure awake") \o load \o kept
           T == RestTrain(c)
           E == RestEngine(c)
           during == Known(c, T, {"awake"}, TRUE, B, keep)
<1>1. does \in BOOLEAN /\ c.sync # "streaming" /\ c.offload \in BOOLEAN
  BY DEF Accepted, Recipe
<1>2. Session(c, sync, keep, Call(name)) = Guard(inner, Call("ensure asleep")) \o Call("ensure asleep")
  BY DEF Session, Anchored
<1>3. \A n \in WholeCalls : n \in Names(c)
  BY DEF Names
<1>4. Runs(c, enter \o Call("ensure offloaded"), Known(c, T, E, d, A, FALSE),
           Known(c, T, E, d, A, FALSE))
  <2>1. CASE c.offload
    <3>1. T = {}
      BY <2>1 DEF RestTrain
    <3> HIDE DEF T, E
    <3>2. /\ Runs(c, Call("ensure loaded"), Known(c, {}, E, d, A, FALSE), Known(c, State, E, d, A, FALSE))
          /\ Runs(c, Call("ensure offloaded"), Known(c, State, E, d, A, FALSE), Known(c, {}, E, d, A, FALSE))
          /\ Runs(c, Call("ensure offloaded"), Known(c, {}, E, d, A, FALSE), Known(c, {}, E, d, A, FALSE))
      BY <1>3, <2>1, CallMovesTrain DEF WholeCalls
    <3>3. Runs(c, Call("extract"), Known(c, State, E, d, A, FALSE), Known(c, State, E, d, A, FALSE))
      BY <1>3, CallReads DEF WholeCalls
    <3>4. Runs(c, Call("ensure loaded") \o Call("extract"),
               Known(c, {}, E, d, A, FALSE), Known(c, State, E, d, A, FALSE))
      BY <3>2, <3>3, RunsThen
    <3>5. CASE does
      <4>1. Runs(c, enter, Known(c, {}, E, d, A, FALSE), Known(c, State, E, d, A, FALSE))
        BY <3>4, <3>5 DEF If
      <4> HIDE DEF enter
      <4> QED BY <3>1, <3>2, <4>1, RunsThen
    <3>6. CASE ~does
      <4>1. Runs(c, enter, Known(c, {}, E, d, A, FALSE), Known(c, {}, E, d, A, FALSE))
        BY <3>6, RunsNothing, KnownIsGpu DEF If
      <4> HIDE DEF enter
      <4> QED BY <3>1, <3>2, <4>1, RunsThen
    <3> QED BY <3>5, <3>6
  <2>2. CASE ~c.offload
    <3>1. T = State
      BY <2>2 DEF RestTrain
    <3> HIDE DEF T, E
    <3>2. /\ Runs(c, Call("ensure loaded"), Known(c, T, E, d, A, FALSE), Known(c, T, E, d, A, FALSE))
          /\ Runs(c, Call("ensure offloaded"), Known(c, T, E, d, A, FALSE), Known(c, T, E, d, A, FALSE))
          /\ Runs(c, Call("extract"), Known(c, T, E, d, A, FALSE), Known(c, T, E, d, A, FALSE))
      BY <1>3, <2>2, <3>1, CallReads DEF WholeCalls, Ensures
    <3>3. Runs(c, Call("ensure loaded") \o Call("extract"),
               Known(c, T, E, d, A, FALSE), Known(c, T, E, d, A, FALSE))
      BY <3>2, RunsThen
    <3>4. Runs(c, enter, Known(c, T, E, d, A, FALSE), Known(c, T, E, d, A, FALSE))
      BY <1>1, <3>3, RunsIf, KnownIsGpu
    <3> HIDE DEF enter
    <3> QED BY <3>2, <3>4, RunsThen
  <2> QED BY <2>1, <2>2, <1>1
<1>5. Runs(c, Call("ensure awake"), Known(c, T, E, d, A, FALSE), Known(c, T, {"awake"}, d, A, FALSE))
  <2>1. CASE c.offload
    BY <1>3, <2>1, CallWakes DEF WholeCalls
  <2>2. CASE ~c.offload
    <3>1. E = {"awake"}
      BY <2>2 DEF RestEngine
    <3> HIDE DEF T, E
    <3> QED BY <1>3, <2>2, <3>1, CallReads DEF WholeCalls, Ensures
  <2> QED BY <2>1, <2>2
<1>6. Runs(c, load, Known(c, T, {"awake"}, d, A, FALSE), Known(c, T, {"awake"}, TRUE, B, FALSE))
  <2>1. Runs(c, Call("push"), Known(c, T, {"awake"}, d, A, FALSE),
             Known(c, T, {"awake"}, TRUE, {0}, FALSE))
    BY <1>3, CallPublishes DEF WholeCalls
  <2>2. does => Runs(c, Call("push"), Known(c, T, {"awake"}, d, A, FALSE),
                     Known(c, T, {"awake"}, TRUE, B, FALSE))
    BY <2>1 DEF Renewed
  <2>3. ~does => Known(c, T, {"awake"}, d, A, FALSE) \subseteq Known(c, T, {"awake"}, TRUE, B, FALSE)
    BY DEF Renewed, Known
  <2> HIDE DEF T, B
  <2> QED BY <1>1, <2>2, <2>3, RunsIf, KnownIsGpu
<1>7. Runs(c, kept, Known(c, T, {"awake"}, TRUE, B, FALSE), during)
  BY KeptRuns
<1> HIDE DEF enter, load, kept, T, E, B
<1>8. Runs(c, inner, Known(c, T, E, d, A, FALSE), during)
  <2>1. Runs(c, enter \o Call("ensure offloaded") \o Call("ensure awake"),
             Known(c, T, E, d, A, FALSE), Known(c, T, {"awake"}, d, A, FALSE))
    BY <1>4, <1>5, RunsThen
  <2>2. Runs(c, enter \o Call("ensure offloaded") \o Call("ensure awake") \o load,
             Known(c, T, E, d, A, FALSE), Known(c, T, {"awake"}, TRUE, B, FALSE))
    BY <1>6, <2>1, RunsThen
  <2> QED BY <1>7, <2>2, RunsThen
<1> HIDE DEF inner
<1>9. Runs(c, Guard(inner, Call("ensure asleep")), Known(c, T, E, d, A, FALSE), during)
  BY <1>8, HandlersCall, RunsGuard
<1>10. Runs(c, Call("ensure asleep"), during, Known(c, T, E, TRUE, B, FALSE))
  <2>1. CASE c.offload
    <3>1. Runs(c, Call("ensure asleep"), during, Known(c, T, {"asleep"}, TRUE, B, FALSE))
      BY <1>1, <1>3, <2>1, CallSleeps DEF WholeCalls
    <3> DEFINE left == Known(c, T, {"asleep"}, TRUE, B, FALSE)
               after == Known(c, T, E, TRUE, B, FALSE)
    <3>2. left \subseteq after /\ during \subseteq during
      BY <2>1 DEF Known, E, RestEngine, Anyhow
    <3>3. Runs(c, Call("ensure asleep"), during, left)
      BY <3>1
    <3> HIDE DEF during, left, after
    <3>4. Runs(c, Call("ensure asleep"), during, after)
      BY <3>2, <3>3, RunsLess, Zenon
    <3> QED BY <3>4 DEF after
  <2>2. CASE ~c.offload
    <3>1. E = {"awake"}
      BY <2>2 DEF RestEngine, E
    <3>2. Runs(c, Call("ensure asleep"), during, during)
      BY <1>3, <2>2, CallReads DEF WholeCalls, Ensures
    <3> DEFINE after == Known(c, T, E, TRUE, B, FALSE)
    <3>3. during \subseteq after /\ during \subseteq during
      BY <3>1 DEF Known
    <3> HIDE DEF during, after
    <3>4. Runs(c, Call("ensure asleep"), during, after)
      BY <3>2, <3>3, RunsLess, Zenon
    <3> QED BY <3>4 DEF after
  <2> QED BY <2>1, <2>2
<1> HIDE DEF during
<1>11. Runs(c, Session(c, sync, keep, Call(name)), Known(c, T, E, d, A, FALSE),
            Known(c, T, E, TRUE, B, FALSE))
  BY <1>2, <1>9, <1>10, RunsThen
<1>12. Known(c, T, E, TRUE, B, FALSE) = Known(c, T, E, Retained(c, keep), B, FALSE)
  BY <1>1 DEF Retained, Known
<1> QED BY <1>11, <1>12 DEF Rests, T, E, B

LEMMA SessionRuns ==
  ASSUME NEW c \in Recipe, Accepted(c), NEW sync \in BOOLEAN, NEW keep \in BOOLEAN,
         NEW name \in {"generate", "evaluate"}, NEW d \in BOOLEAN, NEW A,
         NEW does, does = (sync /\ c.sync # "none"), does \/ d,
         c.sync # "none" => \A a \in Renewed(does, A) :
                              IF name = "generate" THEN a < c.interval ELSE a = 0
  PROVE  Runs(c, Session(c, sync, keep, Call(name)), Rests(c, d, A),
              Rests(c, Retained(c, keep), Renewed(does, A)))
<1>1. CASE c.anchored
  BY <1>1, AnchoredSessionRuns, Zenon
<1>2. CASE ~c.anchored
  BY <1>2, SplitSessionRuns, Zenon
<1> QED BY <1>1, <1>2

-----------------------------------------------------------------------------
(***************************************************************************)
(* The schedule.                                                           *)
(***************************************************************************)
\* The next rollout generates from the weights the engine has.
Unsynced(c, n) == n < NumRollouts /\ ~SyncDue(c, n)

Ages(c, n) == IF Unsynced(c, n) THEN {a \in Int : a <= n % c.interval} ELSE Int

\* The trainer about to start rollout n.
Resting(c, n) == Rests(c, Retained(c, Unsynced(c, n)), Ages(c, n))

\* The remainder grows by one until it is zero again.
LEMMA RemainderGrows ==
  ASSUME NEW n \in Nat, NEW i \in Nat \ {0}
  PROVE  /\ n % i \in 0 .. i - 1
         /\ (n + 1) % i # 0 => (n + 1) % i = (n % i) + 1
<1>1. n % i \in 0 .. i - 1 /\ n \div i \in Nat /\ n = i * (n \div i) + (n % i)
  BY Z3T(20)
<1>2. /\ (n + 1) % i \in 0 .. i - 1 /\ (n + 1) \div i \in Nat
      /\ n + 1 = i * ((n + 1) \div i) + ((n + 1) % i)
  BY Z3T(20)
<1> DEFINE q == n \div i
           r == n % i
           s == (n + 1) \div i
           t == (n + 1) % i
<1>3. q \in Nat /\ s \in Nat /\ r \in 0 .. i - 1 /\ t \in 0 .. i - 1
      /\ i * q + r + 1 = i * s + t
  BY <1>1, <1>2
<1> HIDE DEF q, r, s, t
<1>4. i * (s - q) = (r + 1) - t
  <2>1. i * (s - q) = i * s - i * q
    BY <1>3, Z3T(20)
  <2>2. i * s \in Int /\ i * q \in Int
    BY <1>3
  <2> QED BY <1>3, <2>1, <2>2, Z3T(20)
<1>5. ASSUME t # 0
      PROVE  t = r + 1
  <2>1. (r + 1) - t < i /\ (r + 1) - t > -i
    BY <1>3, <1>5
  <2>2. CASE s - q >= 1
    <3>1. i * (s - q) >= i
      BY <1>3, <2>2, Z3T(20)
    <3> QED BY <1>3, <1>4, <2>1, <3>1
  <2>3. CASE s - q <= -1
    <3>1. i * (s - q) <= -i
      BY <1>3, <2>3, Z3T(20)
    <3> QED BY <1>3, <1>4, <2>1, <3>1
  <2>4. CASE s - q = 0
    <3>1. i * (s - q) = 0
      BY <2>4, Z3T(20)
    <3> QED BY <1>3, <1>4, <3>1
  <2> QED BY <1>3, <2>2, <2>3, <2>4
<1> QED BY <1>1, <1>5 DEF r, t

LEMMA MustPreserveIs ==
  ASSUME NEW c, NEW b \in BOOLEAN, NEW h \in BOOLEAN
  PROVE  /\ MustPreserve(c, b, h) \in BOOLEAN
         /\ Retained(c, MustPreserve(c, b, h)) <=> c.sync # "streaming" \/ (h /\ ~b)
BY DEF MustPreserve, Retained

\* An evaluation publishes, and keeps what it published if the next rollout needs it.
LEMMA EvaluateRuns ==
  ASSUME NEW c \in Recipe, Accepted(c), NEW n \in Nat, NEW nextSyncs \in BOOLEAN,
         Unsynced(c, n) => ~nextSyncs,
         NEW d \in BOOLEAN, NEW A, c.sync = "none" => d
  PROVE  Runs(c, Evaluate(c, n, nextSyncs), Rests(c, d, A), Resting(c, n))
<1> DEFINE does == TRUE /\ c.sync # "none"
           keep == MustPreserve(c, nextSyncs, n < NumRollouts)
           B == Renewed(does, A)
<1>1. keep \in BOOLEAN /\ (does \/ d) /\ does = (TRUE /\ c.sync # "none")
  <2>1. keep \in BOOLEAN
    BY DEF MustPreserve
  <2>2. does \/ d
    OBVIOUS
  <2> QED BY <2>1, <2>2
<1>2. c.sync # "none" => \A a \in B : a = 0
  BY DEF Renewed
<1>3. Runs(c, Session(c, TRUE, keep, Call("evaluate")), Rests(c, d, A), Rests(c, Retained(c, keep), B))
  <2> HIDE DEF keep
  <2> QED BY <1>1, <1>2, SessionRuns
<1>4. Retained(c, Unsynced(c, n)) => Retained(c, keep)
  <2>1. Unsynced(c, n) => n < NumRollouts /\ ~nextSyncs
    BY DEF Unsynced
  <2> QED BY <2>1, MustPreserveIs DEF Retained
<1>5. c.sync # "none" => B \subseteq Ages(c, n)
  <2>1. c.interval \in Nat \ {0}
    BY ScheduleAssumption DEF Recipe
  <2>2. n % c.interval \in 0 .. c.interval - 1
    BY <2>1, RemainderGrows
  <2>3. 0 \in Ages(c, n)
    BY <2>1, <2>2 DEF Ages
  <2> QED BY <1>2, <2>3
<1>6. Rests(c, Retained(c, keep), B) \subseteq Resting(c, n)
  <2> HIDE DEF keep, B
  <2> QED BY <1>4, <1>5 DEF Rests, Resting, Known
<1>7. Runs(c, Session(c, TRUE, keep, Call("evaluate")), Rests(c, d, A), Resting(c, n))
  <2> HIDE DEF keep, B
  <2>1. Rests(c, d, A) \subseteq Rests(c, d, A)
    OBVIOUS
  <2> QED BY <1>3, <1>6, <2>1, RunsLess, Zenon
<1> QED BY <1>7 DEF Evaluate

LEMMA TrainRuns ==
  ASSUME NEW c \in Recipe, NEW d, NEW A, A \subseteq Int
  PROVE  Runs(c, If(c.anchored, Call("ensure loaded"))
                   \o (Guard(Call("train"), If(c.anchored, Call("ensure offloaded")))
                         \o If(c.anchored, Call("ensure offloaded"))),
              Rests(c, d, A), Rests(c, d, Grown(A)))
<1> DEFINE E == RestEngine(c)
           eo == If(c.anchored, Call("ensure offloaded"))
           el == If(c.anchored, Call("ensure loaded"))
<1>1. c.anchored \in BOOLEAN /\ c.offload \in BOOLEAN
  BY DEF Recipe
<1>2. Runs(c, el, Rests(c, d, A), Known(c, State, E, d, A, FALSE))
  <2>1. ASSUME c.anchored
        PROVE  Runs(c, Call("ensure loaded"), Rests(c, d, A), Known(c, State, E, d, A, FALSE))
    <3>1. "ensure loaded" \in Names(c) /\ "ensure loaded" \in Ensures
      BY <2>1 DEF Names, WholeCalls, Ensures
    <3>2. CASE c.offload
      BY <3>1, <3>2, CallMovesTrain DEF Rests
    <3>3. CASE ~c.offload
      <4>1. RestTrain(c) = State
        BY <3>3 DEF RestTrain
      <4> QED BY <3>1, <3>3, <4>1, CallReads DEF Rests
    <3> QED BY <3>2, <3>3
  <2>2. ASSUME ~c.anchored
        PROVE  Rests(c, d, A) \subseteq Known(c, State, E, d, A, FALSE)
    BY <2>2 DEF Rests, RestTrain
  <2>3. Rests(c, d, A) \in SUBSET Gpu
    BY KnownIsGpu DEF Rests
  <2> QED BY <1>1, <2>1, <2>2, <2>3, RunsIf, KnownIsGpu
<1>3. Runs(c, Guard(Call("train"), eo), Known(c, State, E, d, A, FALSE),
           Known(c, State, E, d, Grown(A), FALSE))
  <2>1. "train" \in Names(c)
    BY DEF Names, WholeCalls, SplitCalls
  <2>2. Runs(c, Call("train"), Known(c, State, E, d, A, FALSE),
             Known(c, State, E, d, Grown(A), FALSE))
    BY <2>1, CallTrains
  <2>3. eo \in Seq(Handlers)
    BY <1>1, HandlersCall
  <2> HIDE DEF eo
  <2> QED BY <2>2, <2>3, RunsGuard
<1>4. Runs(c, eo, Known(c, State, E, d, Grown(A), FALSE), Rests(c, d, Grown(A)))
  <2>1. ASSUME c.anchored
        PROVE  Runs(c, Call("ensure offloaded"), Known(c, State, E, d, Grown(A), FALSE),
                    Rests(c, d, Grown(A)))
    <3>1. "ensure offloaded" \in Names(c) /\ "ensure offloaded" \in Ensures
      BY <2>1 DEF Names, WholeCalls, Ensures
    <3>2. CASE c.offload
      <4>1. RestTrain(c) = {}
        BY <2>1, <3>2 DEF RestTrain
      <4> QED BY <3>1, <3>2, <4>1, CallMovesTrain DEF Rests
    <3>3. CASE ~c.offload
      <4>1. RestTrain(c) = State
        BY <3>3 DEF RestTrain
      <4> QED BY <3>1, <3>3, <4>1, CallReads DEF Rests
    <3> QED BY <3>2, <3>3
  <2>2. ASSUME ~c.anchored
        PROVE  Known(c, State, E, d, Grown(A), FALSE) \subseteq Rests(c, d, Grown(A))
    BY <2>2 DEF Rests, RestTrain
  <2>3. Rests(c, d, Grown(A)) \in SUBSET Gpu
    BY KnownIsGpu DEF Rests
  <2> QED BY <1>1, <2>1, <2>2, <2>3, RunsIf, KnownIsGpu
<1> HIDE DEF eo, el, E
<1>5. Runs(c, Guard(Call("train"), eo) \o eo, Known(c, State, E, d, A, FALSE),
           Rests(c, d, Grown(A)))
  BY <1>3, <1>4, RunsThen
<1>6. Runs(c, el \o (Guard(Call("train"), eo) \o eo), Rests(c, d, A), Rests(c, d, Grown(A)))
  BY <1>2, <1>5, RunsThen
<1> QED BY <1>6 DEF eo, el

\* One round, with the evaluation that may follow.
LEMMA RoundRuns ==
  ASSUME NEW c \in Recipe, Accepted(c), NEW id \in Nat, id < NumRollouts
  PROVE  Runs(c, TrainStep(c, id)
                   \o If(EvalFollows(c, id + 1), Evaluate(c, id + 1, NextSyncs(c, id + 1))),
              Resting(c, id), Resting(c, id + 1))
<1> DEFINE n == id + 1
           follows == EvalFollows(c, n)
           next == follows \/ NextSyncs(c, n)
           hasNext == n < NumRollouts
           keep == MustPreserve(c, next, hasNext)
           does == SyncDue(c, id) /\ c.sync # "none"
           A == Renewed(does, Ages(c, id))
           B == Grown(A)
           work == If(c.anchored, Call("ensure loaded"))
                     \o (Guard(Call("train"), If(c.anchored, Call("ensure offloaded")))
                           \o If(c.anchored, Call("ensure offloaded")))
           session == Session(c, SyncDue(c, id), keep, Call("generate"))
<1>1. c.interval \in Nat \ {0} /\ NumRollouts \in Nat /\ n \in Nat
  <2>1. c.interval \in Intervals
    BY DEF Recipe
  <2>2. n \in Nat
    OBVIOUS
  <2>3. \A i \in Intervals : i \in Nat \ {0}
    BY ScheduleAssumption
  <2>4. NumRollouts \in Nat
    BY ScheduleAssumption
  <2> QED BY <2>1, <2>2, <2>3, <2>4, Zenon
<1>2. /\ id % c.interval \in 0 .. c.interval - 1 /\ n % c.interval \in 0 .. c.interval - 1
      /\ n % c.interval # 0 => n % c.interval = (id % c.interval) + 1
  BY <1>1, RemainderGrows
<1>3. /\ SyncDue(c, id) \in BOOLEAN /\ follows \in BOOLEAN /\ next \in BOOLEAN
      /\ keep \in BOOLEAN /\ NextSyncs(c, n) \in BOOLEAN /\ does \in BOOLEAN
      /\ Retained(c, Unsynced(c, id)) \in BOOLEAN /\ Retained(c, keep) \in BOOLEAN
  BY DEF SyncDue, EvalFollows, NextSyncs, MustPreserve, Retained, Unsynced
<1>4. Retained(c, keep) <=> c.sync # "streaming" \/ (hasNext /\ ~next)
  BY DEF MustPreserve, Retained
<1>5. does \/ Retained(c, Unsynced(c, id))
  BY DEF Unsynced, Retained
<1>6. Unsynced(c, n) => n % c.interval # 0 /\ ~NextSyncs(c, n) /\ hasNext
  BY <1>1 DEF Unsynced, SyncDue, NextSyncs
<1>7. Ages(c, id) \subseteq Int /\ A \subseteq Int
  BY DEF Ages, Renewed
<1>8. c.sync # "none" => \A a \in A : a \in Int /\ a < c.interval /\ a <= id % c.interval
  <2>1. CASE does
    BY <2>1, <1>1, <1>2 DEF Renewed
  <2>2. CASE ~does /\ c.sync # "none"
    <3>1. Unsynced(c, id) /\ A = Ages(c, id)
      BY <2>2 DEF Unsynced, Renewed
    <3>2. \A a \in Ages(c, id) : a \in Int /\ a <= id % c.interval
      BY <3>1 DEF Ages
    <3> QED BY <1>1, <1>2, <3>1, <3>2
  <2> QED BY <2>1, <2>2
<1>9. Runs(c, session, Resting(c, id), Rests(c, Retained(c, keep), A))
  <2>1. c.sync # "none" => \A a \in A : IF "generate" = "generate" THEN a < c.interval ELSE a = 0
    BY <1>8
  <2> DEFINE d == Retained(c, Unsynced(c, id))
             S == SyncDue(c, id)
             G == Ages(c, id)
  <2>2. d \in BOOLEAN /\ (does \/ d) /\ S \in BOOLEAN /\ does = (S /\ c.sync # "none")
        /\ keep \in BOOLEAN
    BY <1>3, <1>5
  <2>3. c.sync # "none" => \A a \in Renewed(does, G) :
                             IF "generate" = "generate" THEN a < c.interval ELSE a = 0
    BY <2>1
  <2> HIDE DEF d, S, G, keep, does
  <2>4. Runs(c, Session(c, S, keep, Call("generate")), Rests(c, d, G),
             Rests(c, Retained(c, keep), Renewed(does, G)))
    BY <2>2, <2>3, SessionRuns
  <2> QED BY <2>4 DEF d, S, G, Resting
<1>10. Runs(c, work, Rests(c, Retained(c, keep), A), Rests(c, Retained(c, keep), B))
  <2> HIDE DEF keep, A
  <2> QED BY <1>7, TrainRuns
<1>11. TrainStep(c, id) = session \o If(c.anchored, Call("ensure loaded"))
                            \o Guard(Call("train"), If(c.anchored, Call("ensure offloaded")))
                            \o If(c.anchored, Call("ensure offloaded"))
  BY DEF TrainStep
<1>12. TrainStep(c, id) = session \o work
  <2> DEFINE t == If(c.anchored, Call("ensure loaded"))
             u == Guard(Call("train"), If(c.anchored, Call("ensure offloaded")))
             v == If(c.anchored, Call("ensure offloaded"))
             X == Program(c)
  <2>1. session \in Seq(X)
    BY <1>9 DEF Runs
  <2>2. \A name \in {"ensure loaded", "train", "ensure offloaded"} :
           \A clean \in Seq(Handlers) : name \in Names(c) => One(name, clean) \in Seq(X)
    <3>1. ASSUME NEW name \in {"ensure loaded", "train", "ensure offloaded"} \cap Names(c),
                 NEW clean \in Seq(Handlers)
          PROVE  [name |-> name, clean |-> clean] \in X
      BY DEF Program
    <3>2. \A x \in X : <<x>> \in Seq(X)
      OBVIOUS
    <3> QED BY <3>1, <3>2 DEF One
  <2>3. <<>> \in Seq(X) /\ <<>> \in Seq(Handlers)
    OBVIOUS
  <2>12. v \in Seq(Handlers)
    <3>1. Call("ensure offloaded") \in Seq(Handlers)
      BY HandlersCall
    <3> QED BY <3>1, <2>3 DEF If
  <2>4. /\ c.anchored => "ensure loaded" \in Names(c) /\ "ensure offloaded" \in Names(c)
        /\ "train" \in Names(c)
    BY DEF Names, WholeCalls, SplitCalls
  <2>5. t \in Seq(X) /\ v \in Seq(X)
    BY <2>2, <2>3, <2>4, CallIsOne DEF If
  <2>6. u = One("train", v)
    BY GuardOne
  <2>7. u \in Seq(X)
    BY <2>2, <2>4, <2>6, <2>12
  <2> HIDE DEF t, u, v, X, session
  <2>8. \A a \in Seq(X) : \A b \in Seq(X) : \A e \in Seq(X) :
          a \o b \in Seq(X) /\ (a \o b) \o e = a \o (b \o e)
    OBVIOUS
  <2>9. t \o u \in Seq(X) /\ session \o t \in Seq(X)
        /\ (session \o t) \o u = session \o (t \o u)
    BY <2>1, <2>5, <2>7, <2>8, Zenon
  <2>10. (t \o u) \o v = t \o (u \o v)
    BY <2>5, <2>7, <2>8, Zenon
  <2>13. t \o u \in Seq(X)
    BY <2>9, Zenon
  <2>14. (session \o (t \o u)) \o v = session \o ((t \o u) \o v)
    BY <2>1, <2>5, <2>8, <2>13, Zenon
  <2>11. session \o t \o u \o v = session \o (t \o (u \o v))
    BY <2>9, <2>10, <2>14, Zenon
  <2> QED BY <1>11, <2>11 DEF t, u, v
<1>13. Runs(c, TrainStep(c, id), Resting(c, id), Rests(c, Retained(c, keep), B))
  <2> HIDE DEF session, work, keep, B, A
  <2> QED BY <1>9, <1>10, <1>12, RunsThen
<1>14. ASSUME follows
       PROVE  Runs(c, Evaluate(c, n, NextSyncs(c, n)), Rests(c, Retained(c, keep), B), Resting(c, n))
  <2>1. c.sync = "none" => Retained(c, keep)
    BY DEF Retained
  <2> HIDE DEF keep, B, n
  <2> QED BY <1>1, <1>3, <1>6, <2>1, EvaluateRuns
<1>15. ASSUME ~follows
       PROVE  Rests(c, Retained(c, keep), B) \subseteq Resting(c, n)
  <2>1. Retained(c, Unsynced(c, n)) => Retained(c, keep)
    BY <1>4, <1>6, <1>15 DEF Retained
  <2>2. c.sync # "none" => B \subseteq Ages(c, n)
    <3>1. CASE Unsynced(c, n)
      <4>1. n % c.interval = (id % c.interval) + 1 /\ n % c.interval \in Int /\ id % c.interval \in Int
        BY <1>1, <1>2, <1>6, <3>1
      <4>2. c.sync # "none" => \A b \in B : b \in Int /\ b <= n % c.interval
        BY <1>8, <4>1 DEF Grown
      <4> QED BY <3>1, <4>2 DEF Ages
    <3>2. CASE ~Unsynced(c, n)
      <4>1. B \subseteq Int
        BY <1>7 DEF Grown
      <4> QED BY <3>2, <4>1 DEF Ages
    <3> QED BY <3>1, <3>2
  <2> HIDE DEF keep, B
  <2> QED BY <2>1, <2>2 DEF Rests, Resting, Known
<1>16. Runs(c, If(follows, Evaluate(c, n, NextSyncs(c, n))), Rests(c, Retained(c, keep), B), Resting(c, n))
  <2>1. Rests(c, Retained(c, keep), B) \in SUBSET Gpu /\ Resting(c, n) \in SUBSET Gpu
    BY KnownIsGpu DEF Rests, Resting
  <2> HIDE DEF keep, B, n, follows
  <2> QED BY <1>3, <1>14, <1>15, <2>1, RunsIf
<1> HIDE DEF keep, B, follows, n
<1>17. Runs(c, TrainStep(c, id) \o If(follows, Evaluate(c, n, NextSyncs(c, n))),
            Resting(c, id), Resting(c, n))
  BY <1>13, <1>16, RunsThen
<1> QED BY <1>17 DEF follows, n

\* The constructor leaves the engine with the weights it was built with.
LEMMA BootRuns ==
  ASSUME NEW c \in Recipe, Accepted(c), NEW A
  PROVE  Runs(c, Boot(c), Known(c, State, {"asleep"}, TRUE, A, FALSE), Rests(c, TRUE, A))
<1> DEFINE K(T, E, p) == Known(c, T, E, TRUE, A, p)
           room == c.offload /\ c.sync # "none"
           synced == c.sync # "none"
           streams == c.sync = "streaming"
<1>1. c.offload \in BOOLEAN /\ room \in BOOLEAN /\ synced \in BOOLEAN /\ streams \in BOOLEAN
  BY DEF Recipe
<1>2. \A T, E, p : K(T, E, p) \in SUBSET Gpu
  BY KnownIsGpu
<1>3. CASE c.anchored
  <2> DEFINE T == IF c.offload THEN {} ELSE State
             E == IF c.offload THEN {"asleep"} ELSE {"awake"}
  <2>1. /\ \A name \in WholeCalls : name \in Names(c)
        /\ c.sync # "streaming"
    BY <1>3 DEF Names, Accepted
  <2>2. Runs(c, If(c.offload, Call("offload")), K(State, {"asleep"}, FALSE), K(T, {"asleep"}, FALSE))
    <3>1. Runs(c, Call("offload"), K(State, {"asleep"}, FALSE), K({}, {"asleep"}, FALSE))
      BY <2>1, CallMovesTrain DEF WholeCalls
    <3>2. K(T, {"asleep"}, FALSE) = IF c.offload THEN K({}, {"asleep"}, FALSE)
                                                 ELSE K(State, {"asleep"}, FALSE)
      OBVIOUS
    <3> HIDE DEF K, T
    <3> QED BY <1>1, <1>2, <3>1, <3>2, RunsIf
  <2>3. Runs(c, Call("build engine"), K(T, {"asleep"}, FALSE), K(T, {"awake"}, FALSE))
    <3> HIDE DEF T
    <3> QED BY <2>1, CallWakes DEF WholeCalls
  <2>4. Runs(c, If(c.offload, Call("sleep")), K(T, {"awake"}, FALSE), K(T, E, FALSE))
    <3>1. Runs(c, Call("sleep"), K(T, {"awake"}, FALSE), K(T, {"asleep"}, FALSE))
      <4> HIDE DEF T
      <4> QED BY <2>1, CallSleeps DEF WholeCalls
    <3>2. E = IF c.offload THEN {"asleep"} ELSE {"awake"}
      OBVIOUS
    <3> HIDE DEF K, T, E
    <3> QED BY <1>1, <1>2, <3>1, <3>2, RunsIf
  <2>5. Boot(c) = If(c.offload, Call("offload")) \o Call("build engine")
                    \o If(c.offload, Call("sleep"))
    BY <1>3 DEF Boot
  <2>6. K(T, E, FALSE) \subseteq Rests(c, TRUE, A)
    BY <1>3 DEF Known, Rests, RestTrain, RestEngine, Anyhow
  <2> HIDE DEF K, T, E
  <2>7. Runs(c, If(c.offload, Call("offload")) \o Call("build engine"),
             K(State, {"asleep"}, FALSE), K(T, {"awake"}, FALSE))
    BY <2>2, <2>3, RunsThen
  <2>8. Runs(c, Boot(c), K(State, {"asleep"}, FALSE), K(T, E, FALSE))
    BY <2>4, <2>5, <2>7, RunsThen
  <2>9. K(State, {"asleep"}, FALSE) \subseteq K(State, {"asleep"}, FALSE)
    OBVIOUS
  <2>10. Runs(c, Boot(c), K(State, {"asleep"}, FALSE), Rests(c, TRUE, A))
    BY <2>6, <2>8, <2>9, RunsLess, Zenon
  <2> QED BY <2>10 DEF K
<1>4. CASE ~c.anchored
  <2> DEFINE T == IF room THEN {} ELSE State
             E == IF synced THEN {"asleep"} ELSE {"awake"}
             back == If(room, Call("sleep") \o Call("onload"))
             first == If(room, Guard(Call("offload"), Call("onload")))
             build == Guard(Call("build sync"), back) \o Call("sleep")
             middle == If(synced, build)
             last == If(room, Call("onload"))
  <2>1. \A name \in SplitCalls : name \in Names(c)
    BY <1>4 DEF Names
  <2>2. Call("onload") \in Seq(Handlers) /\ back \in Seq(Handlers)
    BY <1>1, HandlersCall
  <2>3. Runs(c, first, K(State, {"asleep"}, FALSE), K(T, {"asleep"}, FALSE))
    <3>1. Runs(c, Call("offload"), K(State, {"asleep"}, FALSE), K({}, {"asleep"}, FALSE))
      BY <2>1, CallMovesTrain DEF SplitCalls
    <3>2. K(T, {"asleep"}, FALSE) = IF room THEN K({}, {"asleep"}, FALSE)
                                            ELSE K(State, {"asleep"}, FALSE)
      OBVIOUS
    <3> HIDE DEF K, T, room
    <3>3. Runs(c, Guard(Call("offload"), Call("onload")), K(State, {"asleep"}, FALSE),
               K({}, {"asleep"}, FALSE))
      BY <2>2, <3>1, RunsGuard
    <3> QED BY <1>1, <1>2, <3>2, <3>3, RunsIf
  <2>4. Runs(c, Call("build engine"), K(T, {"asleep"}, FALSE), K(T, {"awake"}, FALSE))
    <3> HIDE DEF T
    <3> QED BY <2>1, CallWakes DEF SplitCalls
  <2>5. Runs(c, middle, K(T, {"awake"}, FALSE), K(T, E, FALSE))
    <3>1. Runs(c, Call("build sync"), K(T, {"awake"}, FALSE), K(T, {"awake"}, streams))
      <4> HIDE DEF T
      <4> QED BY <2>1, CallPreserves DEF SplitCalls
    <3>2. Runs(c, Call("sleep"), K(T, {"awake"}, streams), K(T, {"asleep"}, FALSE))
      <4> HIDE DEF T
      <4> QED BY <2>1, CallSleeps DEF SplitCalls
    <3>3. E = IF synced THEN {"asleep"} ELSE {"awake"}
      OBVIOUS
    <3> HIDE DEF K, T, E, synced, streams, back
    <3>4. Runs(c, Guard(Call("build sync"), back), K(T, {"awake"}, FALSE), K(T, {"awake"}, streams))
      BY <2>2, <3>1, RunsGuard
    <3>5. Runs(c, build, K(T, {"awake"}, FALSE), K(T, {"asleep"}, FALSE))
      BY <3>2, <3>4, RunsThen
    <3> QED BY <1>1, <1>2, <3>3, <3>5, RunsIf
  <2>6. Runs(c, last, K(T, E, FALSE), K(State, E, FALSE))
    <3>1. Runs(c, Call("onload"), K(T, E, FALSE), K(State, E, FALSE))
      <4> HIDE DEF T, E
      <4> QED BY <2>1, CallMovesTrain DEF SplitCalls
    <3>2. T = IF room THEN {} ELSE State
      OBVIOUS
    <3> HIDE DEF K, T, E, room
    <3> QED BY <1>1, <1>2, <3>1, <3>2, RunsIf
  <2>7. Boot(c) = first \o Call("build engine") \o middle \o last
    BY <1>4 DEF Boot
  <2>8. K(State, E, FALSE) \subseteq Rests(c, TRUE, A)
    BY <1>4 DEF Known, Rests, RestTrain, RestEngine, Anyhow
  <2> HIDE DEF K, T, E, first, middle, last
  <2>9. Runs(c, first \o Call("build engine"), K(State, {"asleep"}, FALSE), K(T, {"awake"}, FALSE))
    BY <2>3, <2>4, RunsThen
  <2>10. Runs(c, first \o Call("build engine") \o middle, K(State, {"asleep"}, FALSE),
              K(T, E, FALSE))
    BY <2>5, <2>9, RunsThen
  <2>11. Runs(c, Boot(c), K(State, {"asleep"}, FALSE), K(State, E, FALSE))
    BY <2>6, <2>7, <2>10, RunsThen
  <2>12. K(State, {"asleep"}, FALSE) \subseteq K(State, {"asleep"}, FALSE)
    OBVIOUS
  <2>13. Runs(c, Boot(c), K(State, {"asleep"}, FALSE), Rests(c, TRUE, A))
    BY <2>8, <2>11, <2>12, RunsLess, Zenon
  <2> QED BY <2>13 DEF K
<1> QED BY <1>3, <1>4

\* The constructor and the evaluation that may precede the first rollout.
LEMMA StartRuns ==
  ASSUME NEW c \in Recipe, Accepted(c)
  PROVE  Runs(c, Boot(c) \o If(c.evals > 0, Evaluate(c, c.start, c.start > 0)),
              Known(c, State, {"asleep"}, TRUE, {c.start}, FALSE), Resting(c, c.start))
<1> DEFINE evals == c.evals > 0
           eval == Evaluate(c, c.start, c.start > 0)
           booted == Rests(c, TRUE, {c.start})
<1>1. c.start \in Nat /\ c.interval \in Nat \ {0} /\ c.evals \in Nat
  <2>1. c.start \in Starts /\ c.interval \in Intervals /\ c.evals \in Cadences
    BY DEF Recipe
  <2>2. \A i \in Intervals : i \in Nat \ {0}
    BY ScheduleAssumption
  <2>3. \A i \in Cadences : i \in Nat
    BY ScheduleAssumption
  <2>4. \A i \in Starts : i \in Nat
    BY ScheduleAssumption
  <2> QED BY <2>1, <2>2, <2>3, <2>4, Zenon
<1>2. evals \in BOOLEAN /\ (c.start > 0) \in BOOLEAN
  OBVIOUS
<1>3. Unsynced(c, c.start) => c.start = 0
  BY <1>1 DEF Unsynced, SyncDue
<1>4. Runs(c, Boot(c), Known(c, State, {"asleep"}, TRUE, {c.start}, FALSE), booted)
  BY BootRuns
<1>5. Runs(c, eval, booted, Resting(c, c.start))
  <2>1. Unsynced(c, c.start) => ~(c.start > 0)
    BY <1>3
  <2> QED BY <1>1, <1>2, <2>1, EvaluateRuns
<1>6. booted \subseteq Resting(c, c.start)
  <2>1. {c.start} \subseteq Ages(c, c.start)
    <3>1. c.start % c.interval \in 0 .. c.interval - 1
      BY <1>1, RemainderGrows
    <3>2. c.start = 0 => c.start <= c.start % c.interval
      BY <1>1, <3>1
    <3> QED BY <1>1, <1>3, <3>2 DEF Ages
  <2> QED BY <2>1 DEF Rests, Resting, Known
<1>7. booted \in SUBSET Gpu /\ Resting(c, c.start) \in SUBSET Gpu
  BY KnownIsGpu DEF Rests, Resting
<1> HIDE DEF evals, eval, booted
<1>8. Runs(c, If(evals, eval), booted, Resting(c, c.start))
  BY <1>2, <1>5, <1>6, <1>7, RunsIf
<1>9. Runs(c, Boot(c) \o If(evals, eval), Known(c, State, {"asleep"}, TRUE, {c.start}, FALSE),
           Resting(c, c.start))
  BY <1>4, <1>8, RunsThen
<1> QED BY <1>9 DEF evals, eval

-----------------------------------------------------------------------------
(***************************************************************************)
(* The invariant.                                                          *)
(***************************************************************************)
WorkInv ==
  /\ RecordInv /\ Accepted(recipe)
  /\ Now \in Gpu /\ upcoming \in 0 .. NumRollouts
  /\ IF ended THEN todo \in Seq(Handlers)
     ELSE Runs(recipe, todo, {Now}, Resting(recipe, upcoming))

\* The first call finds what it needs, and when it has returned the rest runs.
LEMMA RunsHead ==
  ASSUME NEW c, NEW s, NEW g, NEW Q, Runs(c, s, {g}, Q), s # <<>>
  PROVE  /\ Head(s) \in Program(c) /\ Finds(c, Head(s).name, g)
         /\ \A h \in Gpu : Leads(c, Head(s).name, g, h) => Runs(c, Tail(s), {h}, Q)
<1>1. PICK notes \in [1 .. Len(s) + 1 -> SUBSET Gpu] :
        {g} \subseteq notes[1] /\ notes[Len(s) + 1] \subseteq Q /\ Annotates(c, s, notes)
  BY DEF Runs
<1> DEFINE A == Program(c)
<1>2. s \in Seq(A)
  BY DEF Runs
<1> HIDE DEF A
<1>3. /\ Len(s) \in Nat \ {0} /\ Head(s) = s[1] /\ Head(s) \in A
      /\ Tail(s) \in Seq(A) /\ Len(Tail(s)) = Len(s) - 1
      /\ \A k \in 1 .. Len(s) - 1 : Tail(s)[k] = s[k + 1]
  BY <1>2
<1>4. 1 \in 1 .. Len(s) /\ g \in notes[1]
  BY <1>1, <1>3
<1>5. /\ Finds(c, s[1].name, g)
      /\ \A h \in Gpu : Leads(c, s[1].name, g, h) => h \in notes[2]
  BY <1>1, <1>4 DEF Annotates
<1>6. ASSUME NEW h \in Gpu, Leads(c, Head(s).name, g, h)
      PROVE  Runs(c, Tail(s), {h}, Q)
  <2> DEFINE rest == [k \in 1 .. Len(s) |-> notes[k + 1]]
  <2>1. rest \in [1 .. Len(Tail(s)) + 1 -> SUBSET Gpu]
    BY <1>1, <1>3
  <2>2. h \in rest[1] /\ rest[Len(Tail(s)) + 1] \subseteq Q
    BY <1>1, <1>3, <1>5, <1>6
  <2>3. ASSUME NEW k \in 1 .. Len(Tail(s)), NEW b \in rest[k]
        PROVE  /\ Finds(c, Tail(s)[k].name, b)
               /\ \A e \in Gpu : Leads(c, Tail(s)[k].name, b, e) => e \in rest[k + 1]
    <3>1. k + 1 \in 1 .. Len(s) /\ rest[k] = notes[k + 1] /\ rest[k + 1] = notes[(k + 1) + 1]
          /\ Tail(s)[k] = s[k + 1]
      BY <1>3
    <3>2. /\ Finds(c, s[k + 1].name, b)
          /\ \A e \in Gpu : Leads(c, s[k + 1].name, b, e) => e \in notes[(k + 1) + 1]
      BY <1>1, <2>3, <3>1 DEF Annotates
    <3> QED BY <3>1, <3>2
  <2> HIDE DEF rest
  <2>4. Annotates(c, Tail(s), rest)
    BY <2>3 DEF Annotates
  <2> QED BY <1>3, <2>1, <2>2, <2>4 DEF Runs, A
<1> QED BY <1>3, <1>5, <1>6 DEF A

\* When nothing is left to do, the state is one of those promised.
LEMMA RunsEnd ==
  ASSUME NEW c, NEW g, NEW Q, Runs(c, <<>>, {g}, Q)
  PROVE  g \in Q
<1>1. PICK notes \in [1 .. Len(<<>>) + 1 -> SUBSET Gpu] :
        {g} \subseteq notes[1] /\ notes[Len(<<>>) + 1] \subseteq Q
  BY DEF Runs
<1>2. Len(<<>>) + 1 = 1
  OBVIOUS
<1> QED BY <1>1, <1>2

LEMMA WorkInit == Init => WorkInv
<1> SUFFICES ASSUME Init PROVE WorkInv
  OBVIOUS
<1>1. RecordInv /\ recipe \in Recipe /\ Accepted(recipe) /\ ~ended
  BY RecordInit DEF Init
<1>2. recipe.start \in 0 .. NumRollouts /\ NumRollouts \in Nat
  <2>1. recipe.start \in Starts
    BY <1>1 DEF Recipe
  <2>2. \A i \in Starts : i \in 0 .. NumRollouts
    BY ScheduleAssumption
  <2>3. NumRollouts \in Nat
    BY ScheduleAssumption
  <2> QED BY <2>1, <2>2, <2>3, Zenon
<1>3. Now \in Gpu
  <2>1. train = State /\ engine = "asleep" /\ weights = 0 /\ preserve = FALSE
    BY DEF Init
  <2>2. version = recipe.start /\ recipe.start \in Nat
    BY <1>2 DEF Init
  <2>3. /\ train \in SUBSET State /\ engine \in {"asleep", "weights", "awake"} /\ weights \in Int
        /\ version \in Nat
    BY <2>1, <2>2
  <2>4. preserve \in BOOLEAN
    BY <2>1, Zenon
  <2> QED BY <2>3, <2>4 DEF Now, Gpu
<1>4. Now \in Known(recipe, State, {"asleep"}, TRUE, {recipe.start}, FALSE)
  <2>1. Now.train = State /\ Now.engine = "asleep" /\ Now.weights = 0
        /\ Now.version = recipe.start
    BY DEF Init, Now
  <2> QED BY <1>2, <1>3, <2>1 DEF Known, Discarded
<1>5. Runs(recipe, todo, {Now}, Resting(recipe, recipe.start))
  <2> DEFINE P == Known(recipe, State, {"asleep"}, TRUE, {recipe.start}, FALSE)
             Q == Resting(recipe, recipe.start)
  <2>1. Runs(recipe, todo, P, Q)
    BY <1>1, StartRuns DEF Init
  <2>2. {Now} \subseteq P /\ Q \subseteq Q
    BY <1>4
  <2> HIDE DEF P, Q
  <2>3. Runs(recipe, todo, {Now}, Q)
    BY <2>1, <2>2, RunsLess, Zenon
  <2> QED BY <2>3 DEF Q
<1> QED BY <1>1, <1>2, <1>3, <1>5 DEF WorkInv, Init

\* What a call that returns does to the GPU.
LEMMA CallLeads ==
  ASSUME WorkInv, Next, ~Round, ~ended, ~ended'
  PROVE  /\ todo # <<>> /\ todo' = Tail(todo) /\ recipe' = recipe /\ upcoming' = upcoming
         /\ Leads(recipe, Head(todo).name, Now, Now')
<1> DEFINE name == Head(todo).name
<1>1. ASSUME Ends PROVE todo' = Tail(todo)
  BY <1>1 DEF Ends, Returns, Fails, Interrupted
<1>2. Now.train = train /\ Now.engine = engine /\ Now.weights = weights
      /\ Now.preserve = preserve /\ Now.version = version
      /\ Now'.train = train' /\ Now'.engine = engine' /\ Now'.weights = weights'
      /\ Now'.preserve = preserve' /\ Now'.version = version'
  BY DEF Now
<1>3. ~AlreadySo => recipe.offload
  BY DEF AlreadySo
<1>4. CASE EnsureNothing
  <2>1. /\ todo # <<>> /\ name \in Ensures /\ AlreadySo /\ todo' = Tail(todo)
        /\ recipe' = recipe /\ upcoming' = upcoming /\ Now' = Now
    BY <1>4 DEF EnsureNothing, Returns, Now
  <2>2. CASE ~recipe.offload
    BY <2>1, <2>2 DEF Leads
  <2>3. CASE recipe.offload
    <3>1. recipe.anchored
      <4>1. name \in Names(recipe)
        BY <2>1, RunsHead DEF WorkInv, Program
      <4> QED BY <2>1, <4>1 DEF Names, SplitCalls, Ensures
    <3>2. /\ known.backend = "yes" => train = State
          /\ known.backend = "no" => train = {}
          /\ known.rollout = "yes" => engine = "awake"
          /\ known.rollout = "no" => engine = "asleep"
      BY <2>3, <3>1 DEF WorkInv, RecordInv, RecordTrue
    <3>3. /\ name = "ensure loaded" => train = State
          /\ name = "ensure offloaded" => train = {}
          /\ name = "ensure awake" => engine = "awake"
          /\ name = "ensure asleep" => engine = "asleep"
      BY <2>1, <2>3, <3>2 DEF AlreadySo, At
    <3>4. TrainAfter(name, Now) = train /\ EngineAfter(name, Now) = engine
          /\ ~Sleeps(name, Now)
      BY <1>2, <2>1, <3>3 DEF TrainAfter, EngineAfter, Sleeps, Ensures
    <3>5. WeightsAfter(recipe, name, Now) = weights
      BY <1>2, <2>1, <3>4 DEF WeightsAfter, Ensures
    <3> HIDE DEF name
    <3>6. Leads(recipe, name, Now, Now)
      BY <1>2, <2>1, <3>4, <3>5 DEF Leads, Ensures
    <3> QED BY <2>1, <3>6 DEF name
  <2> QED BY <2>2, <2>3
<1>5. CASE MoveTrain
  <2>1. /\ todo # <<>> /\ Ends /\ recipe' = recipe /\ upcoming' = upcoming
        /\ name \in Ensures => recipe.offload
        /\ engine' = engine /\ weights' = weights /\ preserve' = preserve /\ version' = version
    BY <1>3, <1>5 DEF MoveTrain, Made, Due
  <2>2. name \in {"offload", "ensure offloaded", "offload optimizer", "offload model", "onload",
                  "ensure loaded"}
        /\ train' = TrainAfter(name, Now)
    BY <1>2, <1>5 DEF MoveTrain, Made, TrainAfter
  <2>3. EngineAfter(name, Now) = engine /\ WeightsAfter(recipe, name, Now) = weights
    BY <1>2, <2>2 DEF EngineAfter, WeightsAfter, Sleeps
  <2> HIDE DEF name
  <2>4. Leads(recipe, name, Now, Now')
    BY <1>2, <2>1, <2>2, <2>3 DEF Leads
  <2> QED BY <1>1, <2>1, <2>4 DEF name
<1>6. CASE Wake
  <2>1. /\ todo # <<>> /\ Ends /\ recipe' = recipe /\ upcoming' = upcoming
        /\ name \in Ensures => recipe.offload
        /\ train' = train /\ weights' = weights /\ preserve' = preserve /\ version' = version
    BY <1>3, <1>6 DEF Wake, Made, Due
  <2>2. name \in {"build engine", "wake", "ensure awake", "wake weights"}
        /\ engine' = EngineAfter(name, Now)
    BY <1>2, <1>6 DEF Wake, Made, EngineAfter
  <2>3. TrainAfter(name, Now) = train /\ WeightsAfter(recipe, name, Now) = weights
    BY <1>2, <2>2 DEF TrainAfter, WeightsAfter, Sleeps
  <2> HIDE DEF name
  <2>4. Leads(recipe, name, Now, Now')
    BY <1>2, <2>1, <2>2, <2>3 DEF Leads
  <2> QED BY <1>1, <2>1, <2>4 DEF name
<1>7. CASE Sleep
  <2>1. /\ todo # <<>> /\ Ends /\ recipe' = recipe /\ upcoming' = upcoming
        /\ name \in Ensures => recipe.offload
        /\ train' = train /\ version' = version /\ engine' = "asleep"
        /\ name \in {"sleep", "ensure asleep"}
    BY <1>3, <1>7 DEF Sleep, Made, Due
  <2>2. TrainAfter(name, Now) = train /\ EngineAfter(name, Now) = "asleep"
    BY <1>2, <2>1 DEF TrainAfter, EngineAfter
  <2>3. WeightsAfter(recipe, name, Now) = weights' /\ (Sleeps(name, Now) \/ preserve' = preserve)
    <3>1. CASE engine = "asleep"
      BY <1>2, <1>7, <2>1, <3>1 DEF Sleep, WeightsAfter, Sleeps
    <3>2. CASE engine # "asleep"
      BY <1>2, <1>7, <2>1, <3>2 DEF Sleep, WeightsAfter, Sleeps, AfterSleep
    <3> QED BY <3>1, <3>2
  <2> HIDE DEF name
  <2>4. Leads(recipe, name, Now, Now')
    BY <1>2, <2>1, <2>2, <2>3 DEF Leads
  <2> QED BY <1>1, <2>1, <2>4 DEF name
<1>8. CASE Preserve
  <2>1. /\ todo # <<>> /\ Ends /\ recipe' = recipe /\ upcoming' = upcoming
        /\ train' = train /\ version' = version /\ engine' = engine /\ weights' = weights
        /\ name \in {"preserve", "build sync"}
    BY <1>8 DEF Preserve, Made
  <2>2. name = "preserve" \/ (name = "build sync" /\ recipe.sync = "streaming") => preserve'
    BY <1>8 DEF Preserve, Made
  <2>3. TrainAfter(name, Now) = train /\ EngineAfter(name, Now) = engine
        /\ WeightsAfter(recipe, name, Now) = weights
    BY <1>2, <2>1 DEF TrainAfter, EngineAfter, WeightsAfter, Sleeps
  <2> HIDE DEF name
  <2>4. Leads(recipe, name, Now, Now')
    BY <1>2, <2>1, <2>2, <2>3 DEF Leads, Ensures
  <2> QED BY <1>1, <2>1, <2>4 DEF name
<1>9. CASE Publish
  <2>1. /\ todo # <<>> /\ Ends /\ recipe' = recipe /\ upcoming' = upcoming
        /\ train' = train /\ version' = version /\ engine' = engine /\ weights' = version
        /\ preserve' = preserve /\ name \in {"sync", "push"}
    BY <1>9 DEF Publish, Made
  <2>2. TrainAfter(name, Now) = train /\ EngineAfter(name, Now) = engine
        /\ WeightsAfter(recipe, name, Now) = version
    BY <1>2, <2>1 DEF TrainAfter, EngineAfter, WeightsAfter
  <2> HIDE DEF name
  <2>3. Leads(recipe, name, Now, Now')
    BY <1>2, <2>1, <2>2 DEF Leads, Ensures
  <2> QED BY <1>1, <2>1, <2>3 DEF name
<1>10. CASE Train \/ ReadWeights
  <2>1. /\ todo # <<>> /\ Ends /\ recipe' = recipe /\ upcoming' = upcoming
        /\ train' = train /\ engine' = engine /\ weights' = weights /\ preserve' = preserve
        /\ name \in {"train", "extract", "generate", "evaluate"}
        /\ version' = version \/ (name = "train" /\ version' = version + 1)
    BY <1>10 DEF Train, ReadWeights, Made
  <2>2. TrainAfter(name, Now) = train /\ EngineAfter(name, Now) = engine
        /\ WeightsAfter(recipe, name, Now) = weights
    BY <1>2, <2>1 DEF TrainAfter, EngineAfter, WeightsAfter, Sleeps
  <2> HIDE DEF name
  <2>3. Leads(recipe, name, Now, Now')
    BY <1>2, <2>1, <2>2 DEF Leads, Ensures
  <2> QED BY <1>1, <2>1, <2>3 DEF name
<1>11. ~NotMade
  BY DEF NotMade, Fails, Interrupted
<1> QED BY <1>4, <1>5, <1>6, <1>7, <1>8, <1>9, <1>10, <1>11 DEF Next

\* No step leaves the states the GPU can be in.
LEMMA GpuStep ==
  ASSUME WorkInv, Next
  PROVE  Now' \in Gpu /\ upcoming' \in 0 .. NumRollouts /\ recipe' = recipe
<1>1. /\ train \in SUBSET State /\ engine \in {"asleep", "weights", "awake"} /\ weights \in Int
      /\ preserve \in BOOLEAN /\ version \in Nat /\ upcoming \in 0 .. NumRollouts
  BY DEF WorkInv, Now, Gpu
<1>2. /\ recipe' = recipe /\ (~Round => upcoming' = upcoming)
      /\ Round => upcoming' = upcoming + 1 /\ upcoming < NumRollouts
  BY DEF Next, Round, EnsureNothing, MoveTrain, Wake, Sleep, Preserve, Publish, Train,
         ReadWeights, NotMade
<1>3. NumRollouts \in Nat
  BY ScheduleAssumption
<1>4. upcoming' \in 0 .. NumRollouts
  BY <1>1, <1>2, <1>3
<1>5. train' \in SUBSET State
  BY <1>1 DEF Next, Round, EnsureNothing, MoveTrain, Wake, Sleep, Preserve, Publish, Train,
              ReadWeights, NotMade
<1>6. engine' \in {"asleep", "weights", "awake"}
  BY <1>1 DEF Next, Round, EnsureNothing, MoveTrain, Wake, Sleep, Preserve, Publish, Train,
              ReadWeights, NotMade
<1>7. weights' \in {weights, version, -1} /\ version' \in {version, version + 1}
  BY DEF Next, Round, EnsureNothing, MoveTrain, Wake, Sleep, Preserve, Publish, Train,
         ReadWeights, NotMade, AfterSleep, Discarded
<1>9. weights' \in Int /\ version' \in Nat
  BY <1>1, <1>7
<1>8. preserve' \in BOOLEAN
  BY <1>1 DEF Next, Round, EnsureNothing, MoveTrain, Wake, Sleep, Preserve, Publish, Train,
              ReadWeights, NotMade
<1> QED BY <1>2, <1>4, <1>5, <1>6, <1>8, <1>9 DEF Now, Gpu

\* An exception leaves the handlers to call.
LEMMA EndsInHandlers ==
  ASSUME WorkInv, Next, ended'
  PROVE  todo' \in Seq(Handlers)
<1>1. todo # <<>> /\ Ends
  BY DEF Next, Round, EnsureNothing, MoveTrain, Wake, Sleep, Preserve, Publish, Train,
         ReadWeights, NotMade, Made, Ends, WorkInv, Returns
<1>2. CASE ended
  <2>1. todo \in Seq(Handlers)
    BY <1>2 DEF WorkInv
  <2> DEFINE X == Handlers
  <2> HIDE DEF X
  <2>2. todo \in Seq(X)
    BY <2>1 DEF X
  <2>3. Tail(todo) \in Seq(X) /\ <<>> \in Seq(X)
    BY <1>1, <2>2
  <2>4. todo' \in Seq(X)
    BY <1>1, <1>2, <2>3 DEF Ends, Returns, Fails, Interrupted
  <2> QED BY <2>4 DEF X
<1>3. CASE ~ended
  <2>1. Head(todo).clean \in Seq(Handlers)
    BY <1>1, <1>3, RunsHead DEF WorkInv, Program
  <2>2. <<>> \in Seq(Handlers)
    OBVIOUS
  <2> QED BY <1>1, <1>3, <2>1, <2>2 DEF Ends, Returns, Fails, Interrupted
<1> QED BY <1>2, <1>3

LEMMA WorkStep ==
  ASSUME WorkInv, [Next]_vars
  PROVE  WorkInv'
<1>1. RecordInv'
  BY WholeMovesStep, RecordTrueStep DEF WorkInv, RecordInv
<1>2. CASE UNCHANGED vars
  <2>1. Now' = Now
    BY <1>2 DEF vars, Now
  <2> QED BY <1>1, <1>2, <2>1 DEF vars, WorkInv
<1>3. CASE Next
  <2>1. Now' \in Gpu /\ upcoming' \in 0 .. NumRollouts /\ recipe' = recipe
    BY <1>3, GpuStep
  <2>2. Accepted(recipe)'
    BY <2>1 DEF WorkInv, Accepted
  <2>3. ASSUME ended' PROVE todo' \in Seq(Handlers)
    BY <1>3, <2>3, EndsInHandlers
  <2>4. ASSUME ~ended' PROVE Runs(recipe, todo', {Now'}, Resting(recipe, upcoming'))
    <3>1. CASE Round
      <4>1. /\ ~ended /\ todo = <<>> /\ upcoming < NumRollouts /\ upcoming \in Nat
            /\ upcoming' = upcoming + 1 /\ Now' = Now /\ recipe \in Recipe /\ Accepted(recipe)
        BY <3>1 DEF Round, WorkInv, Now, RecordInv, WholeMoves
      <4>2. todo' = TrainStep(recipe, upcoming)
                      \o If(EvalFollows(recipe, upcoming + 1),
                            Evaluate(recipe, upcoming + 1, NextSyncs(recipe, upcoming + 1)))
        BY <3>1 DEF Round
      <4>3. Runs(recipe, todo', Resting(recipe, upcoming), Resting(recipe, upcoming + 1))
        BY <4>1, <4>2, RoundRuns, Zenon
      <4>4. Runs(recipe, <<>>, {Now}, Resting(recipe, upcoming))
        BY <4>1 DEF WorkInv
      <4> DEFINE P == Resting(recipe, upcoming)
                 Q == Resting(recipe, upcoming + 1)
      <4>5. Now \in P
        BY <4>4, RunsEnd
      <4>6. Runs(recipe, todo', P, Q)
        BY <4>3
      <4> HIDE DEF P, Q
      <4>7. {Now} \subseteq P /\ Q \subseteq Q
        BY <4>5
      <4>8. Runs(recipe, todo', {Now}, Q)
        BY <4>6, <4>7, RunsLess, Zenon
      <4> QED BY <4>1, <4>8 DEF Q
    <3>2. CASE ~Round
      <4>1. ~ended
        BY <1>3, <2>4 DEF Next, Round, EnsureNothing, MoveTrain, Wake, Sleep, Preserve, Publish,
                          Train, ReadWeights, NotMade, Made, Ends, Returns, Fails, Interrupted
      <4>2. /\ todo # <<>> /\ todo' = Tail(todo) /\ upcoming' = upcoming
            /\ Leads(recipe, Head(todo).name, Now, Now')
        BY <1>3, <2>4, <3>2, <4>1, CallLeads
      <4>3. Runs(recipe, todo, {Now}, Resting(recipe, upcoming))
        BY <4>1 DEF WorkInv
      <4>4. Runs(recipe, Tail(todo), {Now'}, Resting(recipe, upcoming))
        BY <2>1, <4>2, <4>3, RunsHead
      <4> QED BY <4>2, <4>4
    <3> QED BY <3>1, <3>2
  <2> QED BY <1>1, <2>1, <2>2, <2>3, <2>4 DEF WorkInv
<1> QED BY <1>2, <1>3

LEMMA WorkFinds == WorkInv => WorkFindsItsState
<1> SUFFICES ASSUME WorkInv, todo # <<>> PROVE WorkFindsItsState
  BY DEF WorkFindsItsState, At
<1> DEFINE name == Head(todo).name
<1>1. CASE ended
  <2>1. todo \in Seq(Handlers)
    BY <1>1 DEF WorkInv
  <2> DEFINE X == Handlers
  <2> HIDE DEF X
  <2>2. todo \in Seq(X)
    BY <2>1 DEF X
  <2>3. Head(todo) \in X
    BY <2>2
  <2>4. Head(todo).name \in {"sleep", "onload", "ensure asleep", "ensure offloaded"}
    BY <2>3 DEF X, Handlers
  <2> QED BY <2>4 DEF WorkFindsItsState, At
<1>2. CASE ~ended
  <2>1. Finds(recipe, name, Now)
    BY <1>2, RunsHead DEF WorkInv
  <2>2. Now.train = train /\ Now.engine = engine /\ Now.weights = weights
        /\ Now.version = version
    BY DEF Now
  <2> QED BY <2>1, <2>2 DEF Finds, WorkFindsItsState, At
<1> QED BY <1>1, <1>2

(***************************************************************************)
(* Whatever was rolled out, evaluated, synced or preserved before, the     *)
(* engine generates awake, with weights, at most a sync interval old (the  *)
(* trainer's own in an evaluation), and the optimizer and the syncs find   *)
(* the train state they need: for every number of rollouts, every interval *)
(* between syncs and between evaluations, fresh or resumed, whichever call *)
(* failed or was interrupted.                                              *)
(***************************************************************************)
THEOREM WorkIsPrepared == Spec => []WorkFindsItsState
<1>1. Init => WorkInv
  BY WorkInit
<1>2. WorkInv /\ [Next]_vars => WorkInv'
  BY WorkStep
<1>3. WorkInv => WorkFindsItsState
  BY WorkFinds
<1> QED BY <1>1, <1>2, <1>3, PTL DEF Spec
=============================================================================
