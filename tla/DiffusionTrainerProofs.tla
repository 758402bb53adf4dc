---------------------- MODULE DiffusionTrainerProofs ----------------------
(***************************************************************************)
(* Proofs about DiffusionTrainer, for every recipe the constructor         *)
(* accepts: any set of resident roles, sync interval, window, start and    *)
(* cadence, any number of rollouts and of evaluation chunks.               *)
(*                                                                         *)
(* What the driver has still to do is a sequence of steps as long as the   *)
(* recipe makes it, so an invariant cannot list what may be in it.  It     *)
(* says instead that the sequence runs: there are sets of states, one      *)
(* before each step and one after the last, that begin with the state at   *)
(* hand and end with those between two rounds, in each of which the step   *)
(* finds what it needs (Finds) and from which it leads to the next.  A     *)
(* method of the source is then a lemma: from these states its steps run   *)
(* to those.  Sequences of steps compose like Hoare triples; what is known *)
(* of a state between two steps has seven parts (Knows).                   *)
(*                                                                         *)
(* A step that puts others in its place leads where they do, so that an    *)
(* expansion keeps the invariant; EnterPhase is proved so from the steps   *)
(* of Transitions, CacheAdapter and SetRole from theirs.                   *)
(***************************************************************************)
EXTENDS DiffusionTrainer, WellFoundedInduction, TLAPS

-----------------------------------------------------------------------------
(***************************************************************************)
(* The state between two steps, and what a step does to it.                *)
(***************************************************************************)
State == [recorded : SUBSET Roles, gpu : SUBSET Roles, version : Nat,
          weights : {"own", "averaged"}, staged : Int, adapter : Int, returns : Nat]

Now == [recorded |-> recorded, gpu |-> gpu, version |-> version,
        weights |-> IF averaged THEN "averaged" ELSE "own", staged |-> staged,
        adapter |-> adapter, returns |-> returns]

\* What is so in every state: the record is true, resident roles stay, and what is
\* staged is up to date.
Sound(c, g) ==
  /\ g.recorded \subseteq Parkable(c) /\ g.recorded \subseteq g.gpu
  /\ \A r \in Roles : r \notin Parkable(c) \/ r \in c.resident => r \in g.gpu
  /\ \A r \in Parkable(c) \cap c.resident : r = "rollout" \/ r \in g.recorded
  /\ g.staged = Nothing \/ (g.staged = g.version /\ c.sync = "lora")
  /\ g.adapter = Nothing \/ g.adapter \in 0 .. g.version

States(c) == {g \in State : Sound(c, g)}

Serves(c, g) == IF c.trainside THEN g.version ELSE IF g.adapter = Nothing THEN 0 ELSE g.adapter
Bound(c) == IF c.sync # "lora" \/ c.interval % c.window = 0 THEN 1 ELSE 2
Leaves(c, g, r, keep) == {x \in g.recorded : x # r /\ x \notin keep /\ x \notin c.resident}
Comes(c, g, r) == IF r \in Parkable(c) /\ r \notin g.recorded THEN {r} ELSE {}

Wants(c, op) ==
  IF op = "generate" THEN {"rollout"} \cup (IF c.trainside THEN {"train"} ELSE {})
                            \cup (IF c.stack THEN {"reward"} ELSE {})
  ELSE IF op = "score" THEN {"reward"}
  ELSE IF op = "push" THEN {"rollout"}
  ELSE IF op = "sync" THEN {"train", "rollout"}
  ELSE {"train"}

Works == {"generate", "score", "train", "save", "extract", "push", "sync"}

\* What the properties ask of a state before a step.
Finds(c, s, g) ==
  /\ g.returns <= Bound(c)
  /\ s.op \in Works =>
       /\ Wants(c, s.op) \subseteq g.gpu
       /\ g.weights = "averaged" <=> c.ema /\ c.trainside /\ s.op = "generate"
       /\ \A r, x \in g.recorded : r # x => r \in c.resident \/ x \in c.resident
  /\ s.op = "move" /\ s.on => \A r \in g.recorded : r \in c.resident
  /\ s.op = "move" => s.role \in Parkable(c) /\ (~s.on => s.role \notin c.resident)
  /\ s.op = "extract" => c.sync = "lora"
  /\ s.op = "train" => g.staged = Nothing
  /\ s.op = "push" => g.staged = g.version
  /\ s.op = "generate" /\ (c.sync # "none" \/ c.trainside)
       /\ ~(c.sync = "lora" /\ Sleeps(c) /\ c.interval > 1 /\ ~s.exact)
       => g.version - Serves(c, g) < IF s.exact THEN 1 ELSE c.interval
  /\ s.op = "cache" /\ g.staged = Nothing =>
       /\ g.weights = "own" /\ c.sync = "lora"
       /\ Comes(c, g, "train") # {} => g.returns + 1 <= Bound(c)

\* The roles X leave, those of Y come.
Shifts(c, g, h, X, Y) ==
  /\ h.recorded = (g.recorded \ X) \cup Y /\ h.gpu = (g.gpu \ X) \cup Y
  /\ h.adapter = IF "rollout" \in X /\ c.sync = "lora" THEN Nothing ELSE g.adapter
  /\ h.returns = IF "train" \in Y THEN g.returns + 1 ELSE g.returns
  /\ h.version = g.version /\ h.weights = g.weights

Weights(c, s, g, h) ==
  /\ h.recorded = g.recorded /\ h.gpu = g.gpu
  /\ h.version = g.version \/ (s.op = "train" /\ h.version = g.version + 1)
  /\ h.weights = IF s.op = "average" THEN "averaged" ELSE IF s.op = "restore" THEN "own"
                 ELSE g.weights
  /\ h.staged = IF s.op = "extract" \/ (s.op = "sync" /\ c.sync = "lora") THEN g.version
                ELSE IF s.op = "invalidate" THEN Nothing ELSE g.staged
  /\ h.adapter = IF s.op = "push" THEN g.staged ELSE IF s.op = "sync" THEN g.version
                 ELSE g.adapter
  /\ h.returns = IF s.op \in {"train", "save"} THEN 0 ELSE g.returns

\* What a step does, with the steps it puts in its place: h is a state after g.
Leads(c, s, g, h) ==
  IF s.op = "enter"
    THEN h.staged = g.staged /\ Shifts(c, g, h, Leaves(c, g, s.role, s.keep), Comes(c, g, s.role))
  ELSE IF s.op = "set"
    THEN h.staged = g.staged /\ Shifts(c, g, h, (g.recorded \cap {s.role}) \ c.resident, {})
  ELSE IF s.op = "move"
    THEN /\ h.staged = g.staged
         /\ Shifts(c, g, h, IF s.on THEN {} ELSE {s.role}, IF s.on THEN {s.role} ELSE {})
  ELSE IF s.op = "cache" /\ g.staged = Nothing
    THEN /\ h.staged = g.version
         /\ Shifts(c, g, h, Leaves(c, g, "train", {}), Comes(c, g, "train"))
  ELSE Weights(c, s, g, h)

After(c, s, g) == {h \in States(c) : Leads(c, s, g, h)}

Ops == {"score", "train", "save", "extract", "push", "sync", "cache", "invalidate", "average",
        "restore"}
Dos         == {Do(op) : op \in Ops}
Generates   == {Work(exact) : exact \in BOOLEAN}
Entering(c) == {Enter(r, keep) : r \in Roles, keep \in SUBSET c.resident}
Moves       == {Move(r, on) : r \in Roles, on \in BOOLEAN}
Steps(c)    == Dos \cup Generates \cup Entering(c) \cup {Set("rollout", FALSE)} \cup Moves

\* The states before each step, and after the last.
Annotates(c, s, notes) ==
  \A k \in 1 .. Len(s) : \A g \in notes[k] :
    /\ Finds(c, s[k], g)
    /\ \A h \in States(c) : Leads(c, s[k], g, h) => h \in notes[k + 1]

Runs(c, s, P, Q) ==
  /\ s \in Seq(Steps(c))
  /\ \E notes \in [1 .. Len(s) + 1 -> SUBSET States(c)] :
       P \subseteq notes[1] /\ notes[Len(s) + 1] \subseteq Q /\ Annotates(c, s, notes)

-----------------------------------------------------------------------------
(***************************************************************************)
(* The rules.                                                              *)
(***************************************************************************)
LEMMA RunsLess ==
  ASSUME NEW c, NEW s, NEW P, NEW Q, NEW P2, NEW Q2, Runs(c, s, P, Q),
         P2 \subseteq P, Q \subseteq Q2
  PROVE  Runs(c, s, P2, Q2)
<1>1. PICK notes \in [1 .. Len(s) + 1 -> SUBSET States(c)] :
        P \subseteq notes[1] /\ notes[Len(s) + 1] \subseteq Q /\ Annotates(c, s, notes)
  BY DEF Runs
<1>2. P2 \subseteq notes[1] /\ notes[Len(s) + 1] \subseteq Q2
  BY <1>1
<1> QED BY <1>1, <1>2 DEF Runs

LEMMA RunsNothing ==
  ASSUME NEW c, NEW P \in SUBSET States(c) PROVE Runs(c, <<>>, P, P)
<1> DEFINE notes == [k \in 1 .. 1 |-> P]
<1>1. notes \in [1 .. Len(<<>>) + 1 -> SUBSET States(c)] /\ notes[1] = P /\ Len(<<>>) + 1 = 1
  OBVIOUS
<1>2. Annotates(c, <<>>, notes)
  BY DEF Annotates
<1>3. <<>> \in Seq(Steps(c))
  OBVIOUS
<1> HIDE DEF notes
<1> QED BY <1>1, <1>2, <1>3 DEF Runs

LEMMA RunsOne ==
  ASSUME NEW c, NEW s \in Steps(c), NEW P \in SUBSET States(c), NEW Q \in SUBSET States(c),
         \A g \in P : /\ Finds(c, s, g)
                      /\ \A h \in States(c) : Leads(c, s, g, h) => h \in Q
  PROVE  Runs(c, <<s>>, P, Q)
<1> DEFINE notes == [k \in 1 .. 2 |-> IF k = 1 THEN P ELSE Q]
           A == Steps(c)
<1> HIDE DEF A
<1>1. s \in A
  BY DEF A
<1>2. <<s>> \in Seq(A) /\ Len(<<s>>) = 1 /\ <<s>>[1] = s
  BY <1>1
<1>3. notes \in [1 .. Len(<<s>>) + 1 -> SUBSET States(c)] /\ notes[1] = P /\ notes[2] = Q
      /\ Len(<<s>>) + 1 = 2
  BY <1>2
<1> HIDE DEF notes
<1>4. Annotates(c, <<s>>, notes)
  BY <1>2, <1>3 DEF Annotates
<1>5. P \subseteq notes[1] /\ notes[Len(<<s>>) + 1] \subseteq Q
  BY <1>3
<1> QED BY <1>2, <1>3, <1>4, <1>5 DEF Runs, A

LEMMA RunsThen ==
  ASSUME NEW c, NEW s, NEW t, NEW P, NEW Q, NEW R, Runs(c, s, P, Q), Runs(c, t, Q, R)
  PROVE  Runs(c, s \o t, P, R)
<1>1. PICK m \in [1 .. Len(s) + 1 -> SUBSET States(c)] :
        P \subseteq m[1] /\ m[Len(s) + 1] \subseteq Q /\ Annotates(c, s, m)
  BY DEF Runs
<1>2. PICK n \in [1 .. Len(t) + 1 -> SUBSET States(c)] :
        Q \subseteq n[1] /\ n[Len(t) + 1] \subseteq R /\ Annotates(c, t, n)
  BY DEF Runs
<1>3. s \in Seq(Steps(c)) /\ t \in Seq(Steps(c))
  BY DEF Runs
<1> DEFINE A == Steps(c)
<1>4. s \in Seq(A) /\ t \in Seq(A)
  BY <1>3
<1> HIDE DEF A
<1>5. /\ Len(s) \in Nat /\ Len(t) \in Nat
      /\ s \o t \in Seq(A) /\ Len(s \o t) = Len(s) + Len(t)
      /\ \A k \in 1 .. Len(s) : (s \o t)[k] = s[k]
      /\ \A k \in 1 .. Len(t) : (s \o t)[Len(s) + k] = t[k]
  BY <1>4
<1> DEFINE notes == [k \in 1 .. Len(s) + Len(t) + 1 |->
                       IF k <= Len(s) THEN m[k] ELSE n[k - Len(s)]]
<1>6. notes \in [1 .. Len(s) + Len(t) + 1 -> SUBSET States(c)]
  <2>1. ASSUME NEW k \in 1 .. Len(s) + Len(t) + 1
        PROVE  (IF k <= Len(s) THEN m[k] ELSE n[k - Len(s)]) \in SUBSET States(c)
    <3>1. CASE k <= Len(s)
      <4>1. k \in 1 .. Len(s) + 1
        BY <1>5, <3>1
      <4> QED BY <1>1, <3>1, <4>1
    <3>2. CASE ~(k <= Len(s))
      <4>1. k - Len(s) \in 1 .. Len(t) + 1
        BY <1>5, <3>2
      <4> QED BY <1>2, <3>2, <4>1
    <3> QED BY <3>1, <3>2
  <2> QED BY <2>1
<1>7. /\ \A k \in 1 .. Len(s) : notes[k] = m[k]
      /\ \A k \in 1 .. Len(t) + 1 : notes[Len(s) + k] = n[k]
  <2>1. ASSUME NEW k \in 1 .. Len(s)
        PROVE  notes[k] = m[k]
    <3>1. k \in 1 .. Len(s) + Len(t) + 1 /\ k <= Len(s)
      BY <1>5
    <3> QED BY <3>1
  <2>2. ASSUME NEW k \in 1 .. Len(t) + 1
        PROVE  notes[Len(s) + k] = n[k]
    <3>1. /\ Len(s) + k \in 1 .. Len(s) + Len(t) + 1 /\ ~(Len(s) + k <= Len(s))
          /\ (Len(s) + k) - Len(s) = k
      BY <1>5
    <3> QED BY <3>1
  <2> QED BY <2>1, <2>2
<1> HIDE DEF notes
<1>8. m[Len(s) + 1] \subseteq notes[Len(s) + 1]
  <2>1. notes[Len(s) + 1] = n[1]
    BY <1>5, <1>7
  <2> QED BY <1>1, <1>2, <2>1
<1>9. P \subseteq notes[1]
  <2>1. CASE Len(s) = 0
    <3>1. Len(s) + 1 = 1
      BY <2>1
    <3> QED BY <1>1, <1>8, <3>1
  <2>2. CASE Len(s) # 0
    <3>1. 1 \in 1 .. Len(s)
      BY <1>5, <2>2
    <3> QED BY <1>1, <1>7, <3>1
  <2> QED BY <2>1, <2>2
<1>10. notes[Len(s \o t) + 1] \subseteq R
  <2>1. notes[Len(s) + (Len(t) + 1)] = n[Len(t) + 1]
    BY <1>5, <1>7
  <2>2. Len(s) + (Len(t) + 1) = Len(s \o t) + 1
    BY <1>5
  <2> QED BY <1>2, <2>1, <2>2
<1>11. ASSUME NEW k \in 1 .. Len(s \o t), NEW g \in notes[k]
       PROVE  /\ Finds(c, (s \o t)[k], g)
              /\ \A h \in States(c) : Leads(c, (s \o t)[k], g, h) => h \in notes[k + 1]
  <2>1. CASE k \in 1 .. Len(s)
    <3>1. (s \o t)[k] = s[k] /\ notes[k] = m[k]
      BY <1>5, <1>7, <2>1
    <3>2. m[k + 1] \subseteq notes[k + 1]
      <4>1. CASE k = Len(s)
        BY <1>8, <4>1
      <4>2. CASE k # Len(s)
        <5>1. k + 1 \in 1 .. Len(s)
          BY <1>5, <2>1, <4>2
        <5> QED BY <1>7, <5>1
      <4> QED BY <4>1, <4>2
    <3>3. /\ Finds(c, s[k], g)
          /\ \A h \in States(c) : Leads(c, s[k], g, h) => h \in m[k + 1]
      BY <1>1, <2>1, <1>11, <3>1 DEF Annotates
    <3> QED BY <3>1, <3>2, <3>3
  <2>2. CASE k \notin 1 .. Len(s)
    <3> DEFINE j == k - Len(s)
    <3>1. j \in 1 .. Len(t) /\ Len(s) + j = k /\ Len(s) + (j + 1) = k + 1 /\ j + 1 \in 1 .. Len(t) + 1
          /\ j \in 1 .. Len(t) + 1
      BY <1>5, <2>2
    <3> HIDE DEF j
    <3>2. (s \o t)[k] = t[j] /\ notes[k] = n[j] /\ notes[k + 1] = n[j + 1]
      <4>1. (s \o t)[Len(s) + j] = t[j]
        BY <1>5, <3>1
      <4>2. notes[Len(s) + j] = n[j] /\ notes[Len(s) + (j + 1)] = n[j + 1]
        BY <1>7, <3>1
      <4> QED BY <3>1, <4>1, <4>2
    <3>3. /\ Finds(c, t[j], g)
          /\ \A h \in States(c) : Leads(c, t[j], g, h) => h \in n[j + 1]
      BY <1>2, <1>11, <3>1, <3>2 DEF Annotates
    <3> QED BY <3>2, <3>3
  <2> QED BY <2>1, <2>2
<1>12. Annotates(c, s \o t, notes)
  BY <1>11 DEF Annotates
<1>13. notes \in [1 .. Len(s \o t) + 1 -> SUBSET States(c)]
  BY <1>5, <1>6
<1>14. s \o t \in Seq(Steps(c))
  BY <1>5 DEF A
<1> QED BY <1>9, <1>10, <1>12, <1>13, <1>14 DEF Runs

LEMMA RunsIf ==
  ASSUME NEW c, NEW b \in BOOLEAN, NEW s, NEW P \in SUBSET States(c), NEW Q \in SUBSET States(c),
         b => Runs(c, s, P, Q), ~b => P \subseteq Q
  PROVE  Runs(c, If(b, s), P, Q)
<1>1. CASE b
  BY <1>1 DEF If
<1>2. CASE ~b
  BY <1>2, RunsNothing, RunsLess DEF If
<1> QED BY <1>1, <1>2

\* The first step finds what it needs, and after it the rest runs.
LEMMA RunsHead ==
  ASSUME NEW c, NEW s, NEW g, NEW Q, Runs(c, s, {g}, Q), s # <<>>
  PROVE  /\ Head(s) \in Steps(c) /\ Finds(c, Head(s), g)
         /\ Runs(c, Tail(s), After(c, Head(s), g), Q)
<1>1. PICK notes \in [1 .. Len(s) + 1 -> SUBSET States(c)] :
        {g} \subseteq notes[1] /\ notes[Len(s) + 1] \subseteq Q /\ Annotates(c, s, notes)
  BY DEF Runs
<1> DEFINE A == Steps(c)
<1>2. s \in Seq(A)
  BY DEF Runs
<1> HIDE DEF A
<1>3. /\ Len(s) \in Nat \ {0} /\ Head(s) = s[1] /\ Head(s) \in A
      /\ Tail(s) \in Seq(A) /\ Len(Tail(s)) = Len(s) - 1
      /\ \A k \in 1 .. Len(s) - 1 : Tail(s)[k] = s[k + 1]
  BY <1>2
<1>4. 1 \in 1 .. Len(s) /\ g \in notes[1]
  BY <1>1, <1>3
<1>5. /\ Finds(c, s[1], g)
      /\ \A h \in States(c) : Leads(c, s[1], g, h) => h \in notes[1 + 1]
  BY <1>1, <1>4 DEF Annotates
<1>6. Runs(c, Tail(s), After(c, Head(s), g), Q)
  <2> DEFINE rest == [k \in 1 .. Len(s) |-> notes[k + 1]]
  <2>1. rest \in [1 .. Len(Tail(s)) + 1 -> SUBSET States(c)]
    BY <1>1, <1>3
  <2>2. After(c, Head(s), g) \subseteq rest[1] /\ rest[Len(Tail(s)) + 1] \subseteq Q
    <3>1. rest[1] = notes[1 + 1] /\ rest[Len(Tail(s)) + 1] = notes[Len(s) + 1]
      BY <1>3
    <3>2. \A h \in After(c, s[1], g) : h \in notes[1 + 1]
      BY <1>5 DEF After
    <3> HIDE DEF rest
    <3> QED BY <1>1, <1>3, <3>1, <3>2
  <2>3. ASSUME NEW k \in 1 .. Len(Tail(s)), NEW b \in rest[k]
        PROVE  /\ Finds(c, Tail(s)[k], b)
               /\ \A e \in States(c) : Leads(c, Tail(s)[k], b, e) => e \in rest[k + 1]
    <3>1. k + 1 \in 1 .. Len(s) /\ rest[k] = notes[k + 1] /\ rest[k + 1] = notes[(k + 1) + 1]
          /\ Tail(s)[k] = s[k + 1]
      BY <1>3
    <3>2. /\ Finds(c, s[k + 1], b)
          /\ \A e \in States(c) : Leads(c, s[k + 1], b, e) => e \in notes[(k + 1) + 1]
      BY <1>1, <2>3, <3>1 DEF Annotates
    <3> QED BY <3>1, <3>2
  <2> HIDE DEF rest
  <2>4. Annotates(c, Tail(s), rest)
    BY <2>3 DEF Annotates
  <2> QED BY <1>3, <2>1, <2>2, <2>4 DEF Runs, A
<1> QED BY <1>3, <1>5, <1>6 DEF A

\* When nothing is left to do, the state is one of those promised.
LEMMA RunsEnd ==
  ASSUME NEW c, NEW g, NEW Q, Runs(c, <<>>, {g}, Q)
  PROVE  g \in Q
<1>1. PICK notes \in [1 .. Len(<<>>) + 1 -> SUBSET States(c)] :
        {g} \subseteq notes[1] /\ notes[Len(<<>>) + 1] \subseteq Q
  BY DEF Runs
<1>2. Len(<<>>) + 1 = 1
  OBVIOUS
<1> QED BY <1>1, <1>2

-----------------------------------------------------------------------------
(***************************************************************************)
(* What is known of a state between two steps: whose phase it is, how old  *)
(* the weights an engine serves may be, how far the trainer has come, what  *)
(* is staged, how often the trainer has returned, whose weights it has.     *)
(***************************************************************************)
Fits(c)     == c \in Recipe /\ Accepted(c)
Extracts(c) == c.sync = "lora" /\ ParksTrain(c)
Mid(c)      == IF c.sync # "lora" \/ c.interval % c.window = 0 THEN 0 ELSE 1
Keeps(c)    == c.sync # "lora" \/ ~Sleeps(c)
Kept(c, a, m) == IF Keeps(c) THEN a ELSE m

Alone(c, r, g) ==
  /\ r \in Parkable(c) => r \in g.recorded
  /\ \A x \in g.recorded : x = r \/ x \in c.resident

Turns(c, k, g) ==
  IF k = "rest" THEN g.returns = 0 /\ (Extracts(c) /\ g.staged = Nothing => "train" \in g.recorded)
  ELSE IF k = "still" THEN g.returns = 0 /\ (Extracts(c) => g.staged # Nothing)
  ELSE IF k = "rolled" THEN g.returns <= IF g.staged = Nothing THEN 0 ELSE Mid(c)
  ELSE g.returns <= Bound(c)

Knows(c, p, a, m, st, k, w, g) ==
  /\ p \in Roles => Alone(c, p, g)
  /\ g.version <= m
  /\ c.sync # "none" => g.version - Serves(c, g) <= a
  /\ st = "held" => g.staged = g.version
  /\ st = "none" => g.staged = Nothing
  /\ Turns(c, k, g)
  /\ g.weights = w

Known(c, p, a, m, st, k, w) == {g \in States(c) : Knows(c, p, a, m, st, k, w, g)}

LEMMA KnownIs ==
  ASSUME NEW c, NEW p, NEW a, NEW m, NEW st, NEW k, NEW w
  PROVE  /\ Known(c, p, a, m, st, k, w) \in SUBSET States(c)
         /\ \A g : g \in Known(c, p, a, m, st, k, w)
                     <=> g \in States(c) /\ Knows(c, p, a, m, st, k, w, g)
BY DEF Known

\* A step of which both parts are known for every state.
LEMMA StepRuns ==
  ASSUME NEW c, NEW s \in Steps(c),
         NEW p, NEW a, NEW m, NEW st, NEW k, NEW w,
         NEW p2, NEW a2, NEW m2, NEW st2, NEW k2, NEW w2,
         \A g \in States(c) : Knows(c, p, a, m, st, k, w, g) =>
           /\ Finds(c, s, g)
           /\ \A h \in States(c) : Leads(c, s, g, h) => Knows(c, p2, a2, m2, st2, k2, w2, h)
  PROVE  Runs(c, <<s>>, Known(c, p, a, m, st, k, w), Known(c, p2, a2, m2, st2, k2, w2))
<1> DEFINE P == Known(c, p, a, m, st, k, w)
           Q == Known(c, p2, a2, m2, st2, k2, w2)
<1>1. /\ P \in SUBSET States(c) /\ Q \in SUBSET States(c)
      /\ \A g : g \in P <=> g \in States(c) /\ Knows(c, p, a, m, st, k, w, g)
      /\ \A g : g \in Q <=> g \in States(c) /\ Knows(c, p2, a2, m2, st2, k2, w2, g)
  BY KnownIs
<1> HIDE DEF P, Q
<1>2. \A g \in P : /\ Finds(c, s, g)
                   /\ \A h \in States(c) : Leads(c, s, g, h) => h \in Q
  BY <1>1
<1>3. Runs(c, <<s>>, P, Q)
  BY <1>1, <1>2, RunsOne
<1> QED BY <1>3 DEF P, Q

LEMMA RecipeIs ==
  ASSUME NEW c, Fits(c)
  PROVE  /\ c.sync \in {"none", "full", "lora"} /\ c.trainside \in BOOLEAN /\ c.ema \in BOOLEAN
         /\ c.stack \in BOOLEAN /\ c.separate \in BOOLEAN
         /\ c.interval \in Nat \ {0} /\ c.window \in Nat \ {0} /\ c.evals \in Nat /\ c.saves \in Nat
         /\ c.start \in 0 .. NumRollouts
         /\ c.trainside => c.sync = "none"
         /\ c.sync = "full" => ~ParksTrain(c)
         /\ c.stack => "reward" \in Parkable(c) /\ "reward" \in c.resident
         /\ Parkable(c) \subseteq Roles /\ "rollout" \in Parkable(c)
         /\ c.trainside => "train" \notin Parkable(c)
         /\ Bound(c) = Mid(c) + 1 /\ Mid(c) \in {0, 1}
         /\ c.start % c.window = 0
<1>1. /\ c.sync \in {"none", "full", "lora"} /\ c.trainside \in BOOLEAN /\ c.ema \in BOOLEAN
      /\ c.stack \in BOOLEAN /\ c.separate \in BOOLEAN
      /\ c.interval \in Intervals /\ c.window \in Windows /\ c.evals \in Cadences
      /\ c.saves \in Cadences /\ c.start \in Starts
  BY DEF Fits, Recipe
<1>2. /\ c.interval \in Nat \ {0} /\ c.window \in Nat \ {0} /\ c.evals \in Nat /\ c.saves \in Nat
      /\ c.start \in 0 .. NumRollouts
  BY <1>1, RecipesAssumption
<1>3. /\ c.trainside => c.sync = "none"
      /\ c.sync = "full" => ~ParksTrain(c)
      /\ c.start % c.window = 0
  BY DEF Fits, Accepted, ParksTrain
<1>4. c.stack => "reward" \in Parkable(c) /\ "reward" \in c.resident
  BY DEF Fits, Accepted, Parkable
<1>5. /\ Parkable(c) \subseteq Roles /\ "rollout" \in Parkable(c)
      /\ c.trainside => "train" \notin Parkable(c)
  BY DEF Parkable, Roles
<1>6. Bound(c) = Mid(c) + 1 /\ Mid(c) \in {0, 1}
  BY DEF Bound, Mid
<1> QED BY <1>1, <1>2, <1>3, <1>4, <1>5, <1>6

LEMMA StateIs ==
  ASSUME NEW c, Fits(c), NEW g \in States(c)
  PROVE  /\ g.version \in Nat /\ g.returns \in Nat /\ g.staged \in Int /\ g.adapter \in Int
         /\ g.staged = Nothing \/ g.staged = g.version
         /\ g.staged # Nothing => c.sync = "lora"
         /\ g.recorded \subseteq Parkable(c) /\ g.recorded \subseteq g.gpu
         /\ \A r \in Roles : r \notin Parkable(c) \/ r \in c.resident => r \in g.gpu
         /\ "train" \in Parkable(c) \cap c.resident => "train" \in g.recorded
         /\ Serves(c, g) \in 0 .. g.version /\ Serves(c, g) \in Int
         /\ g.weights \in {"own", "averaged"}
BY DEF States, State, Sound, Serves, Nothing

-----------------------------------------------------------------------------
(***************************************************************************)
(* What each step asks of a state, and leaves.                             *)
(***************************************************************************)
LEMMA IsStep ==
  ASSUME NEW c
  PROVE  /\ \A op \in Ops : Do(op) \in Steps(c)
         /\ \A exact \in BOOLEAN : Work(exact) \in Steps(c)
         /\ \A r \in Roles, keep \in SUBSET c.resident : Enter(r, keep) \in Steps(c)
         /\ Set("rollout", FALSE) \in Steps(c)
         /\ \A r \in Roles, on \in BOOLEAN : Move(r, on) \in Steps(c)
<1>1. ASSUME NEW op \in Ops PROVE Do(op) \in Steps(c)
  <2>1. Do(op) \in Dos
    BY DEF Dos
  <2> QED BY <2>1 DEF Steps
<1>2. ASSUME NEW exact \in BOOLEAN PROVE Work(exact) \in Steps(c)
  <2>1. Work(exact) \in Generates
    BY DEF Generates
  <2> QED BY <2>1 DEF Steps
<1>3. ASSUME NEW r \in Roles, NEW keep \in SUBSET c.resident PROVE Enter(r, keep) \in Steps(c)
  <2>1. Enter(r, keep) \in Entering(c)
    BY DEF Entering
  <2> QED BY <2>1 DEF Steps
<1>4. Set("rollout", FALSE) \in Steps(c)
  <2>1. Set("rollout", FALSE) \in {Set("rollout", FALSE)}
    OBVIOUS
  <2> QED BY <2>1 DEF Steps
<1>5. ASSUME NEW r \in Roles, NEW on \in BOOLEAN PROVE Move(r, on) \in Steps(c)
  <2>1. Move(r, on) \in Moves
    BY DEF Moves
  <2> QED BY <2>1 DEF Steps
<1> QED BY <1>1, <1>2, <1>3, <1>4, <1>5

\* A phase begins: its role is there, every other that may be parked is not.
LEMMA EnterLeaves ==
  ASSUME NEW c, Fits(c), NEW r \in Roles, NEW keep \in SUBSET c.resident,
         NEW g \in States(c), NEW h \in States(c), Leads(c, Enter(r, keep), g, h)
  PROVE  /\ Alone(c, r, h) /\ h.version = g.version /\ h.weights = g.weights /\ h.staged = g.staged
         /\ h.returns = IF r = "train" /\ "train" \in Parkable(c) /\ "train" \notin g.recorded
                          THEN g.returns + 1 ELSE g.returns
         /\ h.adapter = g.adapter \/ (r # "rollout" /\ ~Keeps(c))
<1> DEFINE X == Leaves(c, g, r, keep)
           Y == Comes(c, g, r)
<1>1. h.staged = g.staged /\ Shifts(c, g, h, X, Y)
  BY DEF Leads, Enter
<1>2. Y = {r} \/ Y = {}
  BY DEF Comes
<1>3. \A x : x \in X <=> x \in g.recorded /\ x # r /\ x \notin keep /\ x \notin c.resident
  BY DEF Leaves
<1>4. \A x : x \in Y <=> x = r /\ r \in Parkable(c) /\ r \notin g.recorded
  BY DEF Comes
<1> HIDE DEF X, Y
<1>5. h.recorded = (g.recorded \ X) \cup Y
  BY <1>1 DEF Shifts
<1>6. Alone(c, r, h)
  BY <1>3, <1>4, <1>5 DEF Alone
<1>7. h.version = g.version /\ h.weights = g.weights
  BY <1>1 DEF Shifts
<1>8. h.returns = IF r = "train" /\ "train" \in Parkable(c) /\ "train" \notin g.recorded
                    THEN g.returns + 1 ELSE g.returns
  BY <1>1, <1>4 DEF Shifts
<1>9. h.adapter = g.adapter \/ (r # "rollout" /\ ~Keeps(c))
  BY <1>1, <1>3 DEF Shifts, Keeps, Sleeps
<1> QED BY <1>1, <1>6, <1>7, <1>8, <1>9

LEMMA EnterFinds ==
  ASSUME NEW c, NEW r, NEW keep, NEW g, g.returns <= Bound(c)
  PROVE  Finds(c, Enter(r, keep), g)
BY DEF Finds, Enter, Works

\* While the trainer has not come back more than once before its own phase.
LEMMA Turning ==
  ASSUME NEW c, Fits(c), NEW g \in States(c), NEW k \in {"rest", "still", "rolled", "back"},
         Turns(c, k, g)
  PROVE  /\ g.returns <= Bound(c)
         /\ k # "back" => g.returns <= Mid(c) /\ Turns(c, "rolled", g)
BY RecipeIs, StateIs DEF Turns

LEMMA Aging ==
  ASSUME NEW c, Fits(c), NEW g \in States(c), NEW m \in Nat, g.version <= m
  PROVE  g.version - Serves(c, g) <= m
BY StateIs

LEMMA EnterRuns ==
  ASSUME NEW c, Fits(c), NEW r \in {"rollout", "reward"}, NEW keep \in SUBSET c.resident,
         NEW p, NEW a \in Int, NEW m \in Nat, NEW st, NEW k \in {"still", "rolled"}, NEW w
  PROVE  Runs(c, <<Enter(r, keep)>>, Known(c, p, a, m, st, k, w),
              Known(c, r, IF r = "rollout" THEN a ELSE Kept(c, a, m), m, st, k, w))
<1> DEFINE s == Enter(r, keep)
           a2 == IF r = "rollout" THEN a ELSE Kept(c, a, m)
<1>1. s \in Steps(c) /\ r \in Roles
  BY IsStep DEF Roles
<1>2. ASSUME NEW g \in States(c), Knows(c, p, a, m, st, k, w, g)
      PROVE  /\ Finds(c, s, g)
             /\ \A h \in States(c) : Leads(c, s, g, h) => Knows(c, r, a2, m, st, k, w, h)
  <2>1. Turns(c, k, g) /\ g.version <= m
    BY <1>2 DEF Knows
  <2>2. Finds(c, s, g)
    BY <2>1, Turning, EnterFinds
  <2>3. ASSUME NEW h \in States(c), Leads(c, s, g, h)
        PROVE  Knows(c, r, a2, m, st, k, w, h)
    <3>1. /\ Alone(c, r, h) /\ h.version = g.version /\ h.weights = g.weights /\ h.staged = g.staged
          /\ h.returns = g.returns
          /\ h.adapter = g.adapter \/ (r # "rollout" /\ ~Keeps(c))
      BY <1>1, <2>3, EnterLeaves
    <3>2. Turns(c, k, h)
      BY <2>1, <3>1 DEF Turns
    <3>3. h.version - Serves(c, h) <= m
      BY <2>1, <3>1, Aging
    <3>4. c.sync # "none" => h.version - Serves(c, h) <= a2
      <4>1. CASE h.adapter = g.adapter /\ a2 = a
        BY <1>2, <3>1, <4>1 DEF Knows, Serves
      <4>2. CASE ~(h.adapter = g.adapter /\ a2 = a)
        BY <3>1, <3>3, <4>2 DEF Kept
      <4> QED BY <4>1, <4>2
    <3> QED BY <1>2, <3>1, <3>2, <3>4 DEF Knows
  <2> QED BY <2>2, <2>3
<1> HIDE DEF s, a2
<1>3. Runs(c, <<s>>, Known(c, p, a, m, st, k, w), Known(c, r, a2, m, st, k, w))
  BY <1>1, <1>2, StepRuns
<1> QED BY <1>3 DEF s, a2

LEMMA ReturnRuns ==
  ASSUME NEW c, Fits(c), NEW p, NEW a \in Int, NEW m \in Nat, NEW st,
         NEW k \in {"rest", "still", "rolled"}, NEW w
  PROVE  Runs(c, <<Enter("train", {})>>, Known(c, p, a, m, st, k, w),
              Known(c, "train", Kept(c, a, m), m, st, "back", w))
<1> DEFINE s == Enter("train", {})
           a2 == Kept(c, a, m)
<1>1. s \in Steps(c) /\ "train" \in Roles /\ {} \in SUBSET c.resident
  BY IsStep DEF Roles
<1>2. ASSUME NEW g \in States(c), Knows(c, p, a, m, st, k, w, g)
      PROVE  /\ Finds(c, s, g)
             /\ \A h \in States(c) : Leads(c, s, g, h) => Knows(c, "train", a2, m, st, "back", w, h)
  <2>1. Turns(c, k, g) /\ g.version <= m
    BY <1>2 DEF Knows
  <2>2. Finds(c, s, g) /\ g.returns <= Mid(c)
    BY <2>1, Turning, EnterFinds
  <2>3. ASSUME NEW h \in States(c), Leads(c, s, g, h)
        PROVE  Knows(c, "train", a2, m, st, "back", w, h)
    <3>1. /\ Alone(c, "train", h) /\ h.version = g.version /\ h.weights = g.weights
          /\ h.staged = g.staged
          /\ h.returns = g.returns \/ h.returns = g.returns + 1
          /\ h.adapter = g.adapter \/ ~Keeps(c)
      BY <1>1, <2>3, EnterLeaves
    <3>2. Turns(c, "back", h)
      BY <2>2, <3>1, RecipeIs, StateIs DEF Turns
    <3>3. h.version - Serves(c, h) <= m
      BY <2>1, <3>1, Aging
    <3>4. c.sync # "none" => h.version - Serves(c, h) <= a2
      <4>1. CASE Keeps(c)
        BY <1>2, <3>1, <4>1 DEF Knows, Serves, Kept
      <4>2. CASE ~Keeps(c)
        BY <3>1, <3>3, <4>2 DEF Kept
      <4> QED BY <4>1, <4>2
    <3> QED BY <1>2, <3>1, <3>2, <3>4 DEF Knows
  <2> QED BY <2>2, <2>3
<1> HIDE DEF s, a2
<1>3. Runs(c, <<s>>, Known(c, p, a, m, st, k, w), Known(c, "train", a2, m, st, "back", w))
  BY <1>1, <1>2, StepRuns
<1> QED BY <1>3 DEF s, a2

\* The engine is put to sleep, if it is not resident.
LEMMA SleepRuns ==
  ASSUME NEW c, Fits(c), NEW p, NEW a \in Int, NEW m \in Nat, NEW st,
         NEW k \in {"still", "rolled"}, NEW w
  PROVE  Runs(c, <<Set("rollout", FALSE)>>, Known(c, p, a, m, st, k, w),
              Known(c, "any", Kept(c, a, m), m, st, k, w))
<1> DEFINE s == Set("rollout", FALSE)
           a2 == Kept(c, a, m)
<1>1. s \in Steps(c) /\ "any" \notin Roles
  BY IsStep DEF Roles
<1>2. ASSUME NEW g \in States(c), Knows(c, p, a, m, st, k, w, g)
      PROVE  /\ Finds(c, s, g)
             /\ \A h \in States(c) : Leads(c, s, g, h) => Knows(c, "any", a2, m, st, k, w, h)
  <2>1. Turns(c, k, g) /\ g.version <= m
    BY <1>2 DEF Knows
  <2>2. g.returns <= Bound(c)
    BY <2>1, Turning
  <2>3. Finds(c, s, g)
    BY <2>2 DEF Finds, Set, Works
  <2>4. ASSUME NEW h \in States(c), Leads(c, s, g, h)
        PROVE  Knows(c, "any", a2, m, st, k, w, h)
    <3>1. h.staged = g.staged /\ Shifts(c, g, h, (g.recorded \cap {"rollout"}) \ c.resident, {})
      BY <2>4 DEF Leads, Set
    <3>2. /\ h.version = g.version /\ h.weights = g.weights /\ h.returns = g.returns
          /\ h.adapter = g.adapter \/ ~Keeps(c)
      BY <3>1 DEF Shifts, Keeps, Sleeps
    <3>3. Turns(c, k, h)
      BY <2>1, <3>1, <3>2 DEF Turns
    <3>4. h.version - Serves(c, h) <= m
      BY <2>1, <3>2, Aging
    <3>5. c.sync # "none" => h.version - Serves(c, h) <= a2
      <4>1. CASE Keeps(c)
        BY <1>2, <3>2, <4>1 DEF Knows, Serves, Kept
      <4>2. CASE ~Keeps(c)
        BY <3>4, <4>2 DEF Kept
      <4> QED BY <4>1, <4>2
    <3> QED BY <1>1, <1>2, <3>1, <3>2, <3>3, <3>5 DEF Knows
  <2> QED BY <2>3, <2>4
<1> HIDE DEF s, a2
<1>3. Runs(c, <<s>>, Known(c, p, a, m, st, k, w), Known(c, "any", a2, m, st, k, w))
  BY <1>1, <1>2, StepRuns
<1> QED BY <1>3 DEF s, a2

\* The adapter is read: the trainer returns for it only if it is away.
LEMMA CacheRuns ==
  ASSUME NEW c, Fits(c), c.sync = "lora", NEW p, NEW a \in Int, NEW m \in Nat, NEW st,
         NEW k \in {"rest", "still", "rolled"}, k = "rolled" => Mid(c) = 1
  PROVE  Runs(c, <<Do("cache")>>, Known(c, p, a, m, st, k, "own"),
              Known(c, "any", Kept(c, a, m), m, "held", IF k = "rolled" THEN k ELSE "still", "own"))
<1> DEFINE s  == Do("cache")
           a2 == Kept(c, a, m)
           k2 == IF k = "rolled" THEN k ELSE "still"
<1>1. s \in Steps(c) /\ "any" \notin Roles
  BY IsStep DEF Roles, Ops
<1>2. ASSUME NEW g \in States(c), Knows(c, p, a, m, st, k, "own", g)
      PROVE  /\ Finds(c, s, g)
             /\ \A h \in States(c) : Leads(c, s, g, h) => Knows(c, "any", a2, m, "held", k2, "own", h)
  <2>1. Turns(c, k, g) /\ g.version <= m /\ g.weights = "own"
    BY <1>2 DEF Knows
  <2>2. g.returns <= Bound(c) /\ g.returns <= Mid(c)
    BY <2>1, Turning
  <2>3. \A x : x \in Comes(c, g, "train") <=> x = "train" /\ "train" \in Parkable(c) /\ "train" \notin g.recorded
    BY DEF Comes
  <2>4. "train" \in Comes(c, g, "train") => Extracts(c)
    BY <2>3, StateIs DEF Extracts, ParksTrain
  <2>5. g.staged = Nothing /\ "train" \in Comes(c, g, "train") => k = "rolled" /\ g.returns = 0
    BY <2>1, <2>3, <2>4, StateIs DEF Turns
  <2>6. g.staged = Nothing /\ Comes(c, g, "train") # {} => g.returns + 1 <= Bound(c)
    BY <2>3, <2>5, RecipeIs
  <2>7. Finds(c, s, g)
    BY <2>1, <2>2, <2>6 DEF Finds, Do, Works
  <2>8. ASSUME NEW h \in States(c), Leads(c, s, g, h)
        PROVE  Knows(c, "any", a2, m, "held", k2, "own", h)
    <3>1. CASE g.staged = Nothing
      <4>1. /\ h.staged = g.version
            /\ Shifts(c, g, h, Leaves(c, g, "train", {}), Comes(c, g, "train"))
        BY <2>8, <3>1 DEF Leads, Do
      <4>2. \A x : x \in Leaves(c, g, "train", {}) <=> x \in g.recorded /\ x # "train" /\ x \notin c.resident
        BY DEF Leaves
      <4>3. /\ h.version = g.version /\ h.weights = g.weights
            /\ h.returns = IF "train" \in Comes(c, g, "train") THEN g.returns + 1 ELSE g.returns
        BY <4>1 DEF Shifts
      <4>4. h.adapter = g.adapter \/ ~Keeps(c)
        BY <4>1, <4>2 DEF Shifts, Keeps, Sleeps
      <4>5. h.staged # Nothing /\ h.staged = h.version
        BY <4>1, <4>3, StateIs DEF Nothing
      <4>6. Turns(c, k2, h)
        <5>1. CASE k = "rolled"
          <6>1. g.returns = 0 /\ Mid(c) = 1
            BY <2>1, <3>1, <5>1, StateIs DEF Turns
          <6>2. h.returns <= 1
            BY <4>3, <6>1
          <6> QED BY <4>5, <5>1, <6>1, <6>2 DEF Turns
        <5>2. CASE k # "rolled"
          <6>1. g.returns = 0
            BY <2>1, <5>2 DEF Turns
          <6>2. h.returns = 0
            BY <2>5, <3>1, <4>3, <5>2, <6>1
          <6> QED BY <4>5, <5>2, <6>2 DEF Turns
        <5> QED BY <5>1, <5>2
      <4>7. h.version - Serves(c, h) <= m
        BY <2>1, <4>3, Aging
      <4>8. c.sync # "none" => h.version - Serves(c, h) <= a2
        <5>1. CASE Keeps(c)
          BY <1>2, <4>3, <4>4, <5>1 DEF Knows, Serves, Kept
        <5>2. CASE ~Keeps(c)
          BY <4>7, <5>2 DEF Kept
        <5> QED BY <5>1, <5>2
      <4> QED BY <1>1, <2>1, <4>3, <4>5, <4>6, <4>8 DEF Knows
    <3>2. CASE g.staged # Nothing
      <4>1. Weights(c, s, g, h)
        BY <2>8, <3>2 DEF Leads, Do
      <4>2. /\ h.version = g.version /\ h.weights = g.weights /\ h.staged = g.staged
            /\ h.adapter = g.adapter /\ h.returns = g.returns
        BY <4>1 DEF Weights, Do
      <4>3. h.staged # Nothing /\ h.staged = h.version
        BY <3>2, <4>2, StateIs
      <4>4. Turns(c, k2, h)
        BY <2>1, <4>2, <4>3 DEF Turns
      <4>5. h.version - Serves(c, h) <= m
        BY <2>1, <4>2, Aging
      <4>6. c.sync # "none" => h.version - Serves(c, h) <= a2
        <5>1. CASE Keeps(c)
          BY <1>2, <4>2, <5>1 DEF Knows, Serves, Kept
        <5>2. CASE ~Keeps(c)
          BY <4>5, <5>2 DEF Kept
        <5> QED BY <5>1, <5>2
      <4> QED BY <1>1, <2>1, <4>2, <4>3, <4>4, <4>6 DEF Knows
    <3> QED BY <3>1, <3>2
  <2> QED BY <2>7, <2>8
<1> HIDE DEF s, a2, k2
<1>3. Runs(c, <<s>>, Known(c, p, a, m, st, k, "own"), Known(c, "any", a2, m, "held", k2, "own"))
  BY <1>1, <1>2, StepRuns
<1> QED BY <1>3 DEF s, a2, k2

\* A role alone in its phase: two of the record that are not resident are the same.
LEMMA AloneIs ==
  ASSUME NEW c, NEW r, NEW g, Alone(c, r, g)
  PROVE  \A x, y \in g.recorded : x # y => x \in c.resident \/ y \in c.resident
BY DEF Alone

LEMMA AloneThere ==
  ASSUME NEW c, Fits(c), NEW r \in Roles, NEW g \in States(c), Alone(c, r, g)
  PROVE  r \in g.gpu
BY StateIs DEF Alone

LEMMA DoLeads ==
  ASSUME NEW c, NEW op \in Ops \ {"cache"}, NEW g, NEW h, Leads(c, Do(op), g, h)
  PROVE  Weights(c, Do(op), g, h) /\ Do(op).op = op
BY DEF Leads, Do, Ops

LEMMA PushRuns ==
  ASSUME NEW c, Fits(c), NEW a \in Int, NEW m \in Nat, NEW k \in {"still", "rolled"}
  PROVE  Runs(c, <<Do("push")>>, Known(c, "rollout", a, m, "held", k, "own"),
              Known(c, "rollout", 0, m, "held", k, "own"))
<1> DEFINE s == Do("push")
<1>1. s \in Steps(c) /\ "rollout" \in Roles /\ "push" \in Ops \ {"cache"}
  BY IsStep DEF Roles, Ops
<1>2. ASSUME NEW g \in States(c), Knows(c, "rollout", a, m, "held", k, "own", g)
      PROVE  /\ Finds(c, s, g)
             /\ \A h \in States(c) : Leads(c, s, g, h) => Knows(c, "rollout", 0, m, "held", k, "own", h)
  <2>1. Turns(c, k, g) /\ Alone(c, "rollout", g) /\ g.weights = "own" /\ g.staged = g.version
        /\ g.version <= m
    BY <1>1, <1>2 DEF Knows
  <2>2. g.returns <= Bound(c)
    BY <2>1, Turning
  <2>3. "rollout" \in g.gpu /\ \A x, y \in g.recorded : x # y => x \in c.resident \/ y \in c.resident
    BY <1>1, <2>1, AloneIs, AloneThere
  <2>4. Finds(c, s, g)
    BY <2>1, <2>2, <2>3 DEF Finds, Do, Works, Wants
  <2>5. ASSUME NEW h \in States(c), Leads(c, s, g, h)
        PROVE  Knows(c, "rollout", 0, m, "held", k, "own", h)
    <3>1. Weights(c, s, g, h) /\ s.op = "push"
      BY <1>1, <2>5, DoLeads
    <3>2. /\ h.version = g.version /\ h.weights = g.weights /\ h.staged = g.staged
          /\ h.adapter = g.staged /\ h.returns = g.returns /\ h.recorded = g.recorded
      BY <3>1 DEF Weights
    <3>3. Turns(c, k, h) /\ Alone(c, "rollout", h)
      BY <2>1, <3>2 DEF Turns, Alone
    <3>4. h.version - Serves(c, h) <= 0
      BY <2>1, <3>2, StateIs DEF Serves, Nothing
    <3> QED BY <2>1, <3>2, <3>3, <3>4 DEF Knows
  <2> QED BY <2>4, <2>5
<1> HIDE DEF s
<1>3. Runs(c, <<s>>, Known(c, "rollout", a, m, "held", k, "own"),
           Known(c, "rollout", 0, m, "held", k, "own"))
  BY <1>1, <1>2, StepRuns
<1> QED BY <1>3 DEF s

LEMMA SyncRuns ==
  ASSUME NEW c, Fits(c), c.sync # "none", ~ParksTrain(c), NEW a \in Int, NEW m \in Nat, NEW st,
         NEW k \in {"still", "rolled"}
  PROVE  Runs(c, <<Do("sync")>>, Known(c, "rollout", a, m, st, k, "own"),
              Known(c, "rollout", 0, m, "any", k, "own"))
<1> DEFINE s == Do("sync")
<1>1. s \in Steps(c) /\ "rollout" \in Roles /\ "train" \in Roles /\ "sync" \in Ops \ {"cache"}
  BY IsStep DEF Roles, Ops
<1>2. ASSUME NEW g \in States(c), Knows(c, "rollout", a, m, st, k, "own", g)
      PROVE  /\ Finds(c, s, g)
             /\ \A h \in States(c) : Leads(c, s, g, h) => Knows(c, "rollout", 0, m, "any", k, "own", h)
  <2>1. Turns(c, k, g) /\ Alone(c, "rollout", g) /\ g.weights = "own" /\ g.version <= m
    BY <1>1, <1>2 DEF Knows
  <2>2. g.returns <= Bound(c) /\ g.returns <= Mid(c)
    BY <2>1, Turning
  <2>3. "rollout" \in g.gpu /\ \A x, y \in g.recorded : x # y => x \in c.resident \/ y \in c.resident
    BY <1>1, <2>1, AloneIs, AloneThere
  <2>4. "train" \in g.gpu
    BY <1>1, StateIs DEF ParksTrain
  <2>5. Finds(c, s, g)
    BY <2>1, <2>2, <2>3, <2>4 DEF Finds, Do, Works, Wants
  <2>6. ASSUME NEW h \in States(c), Leads(c, s, g, h)
        PROVE  Knows(c, "rollout", 0, m, "any", k, "own", h)
    <3>1. Weights(c, s, g, h) /\ s.op = "sync"
      BY <1>1, <2>6, DoLeads
    <3>2. /\ h.version = g.version /\ h.weights = g.weights
          /\ h.staged = IF c.sync = "lora" THEN g.version ELSE g.staged
          /\ h.adapter = g.version /\ h.returns = g.returns /\ h.recorded = g.recorded
      BY <3>1 DEF Weights
    <3>3. Alone(c, "rollout", h)
      BY <2>1, <3>2 DEF Alone
    <3>4. Turns(c, k, h)
      <4>1. h.staged # Nothing \/ h.staged = g.staged
        BY <3>2, StateIs DEF Nothing
      <4>2. ~Extracts(c)
        BY DEF Extracts
      <4> QED BY <2>1, <2>2, <3>2, <4>1, <4>2 DEF Turns
    <3>5. h.version - Serves(c, h) <= 0
      BY <3>2, StateIs, RecipeIs DEF Serves, Nothing
    <3> QED BY <2>1, <3>2, <3>3, <3>4, <3>5 DEF Knows
  <2> QED BY <2>5, <2>6
<1> HIDE DEF s
<1>3. Runs(c, <<s>>, Known(c, "rollout", a, m, st, k, "own"), Known(c, "rollout", 0, m, "any", k, "own"))
  BY <1>1, <1>2, StepRuns
<1> QED BY <1>3 DEF s

\* The averaged weights stand in, and the trainer's own are restored.
LEMMA SwapRuns ==
  ASSUME NEW c, Fits(c), NEW r \in Roles, NEW a \in Int, NEW m \in Nat, NEW st,
         NEW k \in {"still", "rolled"}, NEW w, NEW op \in {"average", "restore"}
  PROVE  Runs(c, <<Do(op)>>, Known(c, r, a, m, st, k, w),
              Known(c, r, a, m, st, k, IF op = "average" THEN "averaged" ELSE "own"))
<1> DEFINE s == Do(op)
           w2 == IF op = "average" THEN "averaged" ELSE "own"
<1>1. s \in Steps(c) /\ op \in Ops \ {"cache"}
  BY IsStep DEF Ops
<1>2. ASSUME NEW g \in States(c), Knows(c, r, a, m, st, k, w, g)
      PROVE  /\ Finds(c, s, g)
             /\ \A h \in States(c) : Leads(c, s, g, h) => Knows(c, r, a, m, st, k, w2, h)
  <2>1. Turns(c, k, g) /\ Alone(c, r, g)
    BY <1>2 DEF Knows
  <2>2. g.returns <= Bound(c)
    BY <2>1, Turning
  <2>3. Finds(c, s, g)
    BY <2>2 DEF Finds, Do, Works
  <2>4. ASSUME NEW h \in States(c), Leads(c, s, g, h)
        PROVE  Knows(c, r, a, m, st, k, w2, h)
    <3>1. Weights(c, s, g, h) /\ s.op = op
      BY <1>1, <2>4, DoLeads
    <3>2. /\ h.version = g.version /\ h.weights = w2 /\ h.staged = g.staged
          /\ h.adapter = g.adapter /\ h.returns = g.returns /\ h.recorded = g.recorded
      BY <3>1 DEF Weights
    <3>3. Turns(c, k, h) /\ Alone(c, r, h) /\ Serves(c, h) = Serves(c, g)
      BY <2>1, <3>2 DEF Turns, Alone, Serves
    <3> HIDE DEF w2
    <3> QED BY <1>2, <3>2, <3>3 DEF Knows
  <2> QED BY <2>3, <2>4
<1> HIDE DEF s, w2
<1>3. Runs(c, <<s>>, Known(c, r, a, m, st, k, w), Known(c, r, a, m, st, k, w2))
  BY <1>1, <1>2, StepRuns
<1> QED BY <1>3 DEF s, w2

\* An engine generates with recent weights, averaged if the algorithm asks for it.
LEMMA GenerationRuns ==
  ASSUME NEW c, Fits(c), NEW a \in Int, NEW m \in Nat, NEW st, NEW k \in {"still", "rolled"},
         NEW w, w = IF c.ema /\ c.trainside THEN "averaged" ELSE "own", NEW exact \in BOOLEAN,
         exact /\ c.sync # "none" => a <= 0,
         ~exact /\ c.sync # "none" /\ (Keeps(c) \/ c.interval = 1) => a < c.interval
  PROVE  Runs(c, <<Work(exact)>>, Known(c, "rollout", a, m, st, k, w),
              Known(c, "rollout", a, m, st, k, w))
<1> DEFINE s == Work(exact)
<1>1. s \in Steps(c) /\ "rollout" \in Roles /\ "train" \in Roles /\ "reward" \in Roles
  BY IsStep DEF Roles
<1>2. ASSUME NEW g \in States(c), Knows(c, "rollout", a, m, st, k, w, g)
      PROVE  /\ Finds(c, s, g)
             /\ \A h \in States(c) : Leads(c, s, g, h) => Knows(c, "rollout", a, m, st, k, w, h)
  <2>1. Turns(c, k, g) /\ Alone(c, "rollout", g) /\ g.weights = w
    BY <1>1, <1>2 DEF Knows
  <2>2. g.returns <= Bound(c)
    BY <2>1, Turning
  <2>3. "rollout" \in g.gpu /\ \A x, y \in g.recorded : x # y => x \in c.resident \/ y \in c.resident
    BY <1>1, <2>1, AloneIs, AloneThere
  <2>4. (c.trainside => "train" \in g.gpu) /\ (c.stack => "reward" \in g.gpu)
    BY <1>1, StateIs, RecipeIs
  <2>5. Wants(c, "generate") \subseteq g.gpu
    BY <2>3, <2>4 DEF Wants
  <2>6. /\ g.version \in Nat /\ Serves(c, g) \in Int /\ c.interval \in Nat \ {0}
        /\ c.trainside => Serves(c, g) = g.version
        /\ c.sync # "none" => g.version - Serves(c, g) <= a
    BY <1>2, StateIs, RecipeIs DEF Knows, Serves
  <2>7. c.sync # "none" \/ c.trainside =>
          (~(c.sync = "lora" /\ Sleeps(c) /\ c.interval > 1 /\ ~exact)
             => g.version - Serves(c, g) < IF exact THEN 1 ELSE c.interval)
    <3>1. CASE c.trainside
      BY <2>6, <3>1
    <3>2. CASE ~c.trainside /\ c.sync # "none"
      <4>1. CASE exact
        BY <2>6, <3>2, <4>1
      <4>2. CASE ~exact
        <5>1. ~(c.sync = "lora" /\ Sleeps(c) /\ c.interval > 1) => Keeps(c) \/ c.interval = 1
          BY <2>6 DEF Keeps
        <5> QED BY <2>6, <3>2, <4>2, <5>1
      <4> QED BY <4>1, <4>2
    <3> QED BY <3>1, <3>2
  <2>8. s.op = "generate" /\ s.exact = exact
    BY DEF Work
  <2>9. g.weights = "averaged" <=> c.ema /\ c.trainside
    BY <2>1
  <2>10. Finds(c, s, g)
    <3> HIDE DEF s
    <3>1. s.op \in Works => /\ Wants(c, s.op) \subseteq g.gpu
                            /\ g.weights = "averaged" <=> c.ema /\ c.trainside /\ s.op = "generate"
                            /\ \A x, y \in g.recorded : x # y => x \in c.resident \/ y \in c.resident
      BY <2>3, <2>5, <2>8, <2>9
    <3>2. s.op = "generate" /\ (c.sync # "none" \/ c.trainside)
            /\ ~(c.sync = "lora" /\ Sleeps(c) /\ c.interval > 1 /\ ~s.exact)
            => g.version - Serves(c, g) < IF s.exact THEN 1 ELSE c.interval
      BY <2>7, <2>8
    <3> QED BY <2>2, <2>8, <3>1, <3>2 DEF Finds
  <2>11. ASSUME NEW h \in States(c), Leads(c, s, g, h)
         PROVE  Knows(c, "rollout", a, m, st, k, w, h)
    <3>1. Weights(c, s, g, h)
      BY <2>8, <2>11 DEF Leads
    <3>2. /\ h.version = g.version /\ h.weights = g.weights /\ h.staged = g.staged
          /\ h.adapter = g.adapter /\ h.returns = g.returns /\ h.recorded = g.recorded
      BY <2>8, <3>1 DEF Weights
    <3>3. Turns(c, k, h) /\ Alone(c, "rollout", h) /\ Serves(c, h) = Serves(c, g)
      BY <2>1, <3>2 DEF Turns, Alone, Serves
    <3> QED BY <1>2, <3>2, <3>3 DEF Knows
  <2> QED BY <2>10, <2>11
<1> HIDE DEF s
<1>3. Runs(c, <<s>>, Known(c, "rollout", a, m, st, k, w), Known(c, "rollout", a, m, st, k, w))
  BY <1>1, <1>2, StepRuns
<1> QED BY <1>3 DEF s

LEMMA ScoreRuns ==
  ASSUME NEW c, Fits(c), NEW a \in Int, NEW m \in Nat, NEW st, NEW k \in {"still", "rolled"}
  PROVE  Runs(c, <<Do("score")>>, Known(c, "reward", a, m, st, k, "own"),
              Known(c, "reward", a, m, st, k, "own"))
<1> DEFINE s == Do("score")
<1>1. s \in Steps(c) /\ "reward" \in Roles /\ "score" \in Ops \ {"cache"}
  BY IsStep DEF Roles, Ops
<1>2. ASSUME NEW g \in States(c), Knows(c, "reward", a, m, st, k, "own", g)
      PROVE  /\ Finds(c, s, g)
             /\ \A h \in States(c) : Leads(c, s, g, h) => Knows(c, "reward", a, m, st, k, "own", h)
  <2>1. Turns(c, k, g) /\ Alone(c, "reward", g) /\ g.weights = "own"
    BY <1>1, <1>2 DEF Knows
  <2>2. g.returns <= Bound(c)
    BY <2>1, Turning
  <2>3. "reward" \in g.gpu /\ \A x, y \in g.recorded : x # y => x \in c.resident \/ y \in c.resident
    BY <1>1, <2>1, AloneIs, AloneThere
  <2>4. Finds(c, s, g)
    BY <2>1, <2>2, <2>3 DEF Finds, Do, Works, Wants
  <2>5. ASSUME NEW h \in States(c), Leads(c, s, g, h)
        PROVE  Knows(c, "reward", a, m, st, k, "own", h)
    <3>1. Weights(c, s, g, h) /\ s.op = "score"
      BY <1>1, <2>5, DoLeads
    <3>2. /\ h.version = g.version /\ h.weights = g.weights /\ h.staged = g.staged
          /\ h.adapter = g.adapter /\ h.returns = g.returns /\ h.recorded = g.recorded
      BY <3>1 DEF Weights
    <3>3. Turns(c, k, h) /\ Alone(c, "reward", h) /\ Serves(c, h) = Serves(c, g)
      BY <2>1, <3>2 DEF Turns, Alone, Serves
    <3> QED BY <1>2, <3>2, <3>3 DEF Knows
  <2> QED BY <2>4, <2>5
<1> HIDE DEF s
<1>3. Runs(c, <<s>>, Known(c, "reward", a, m, st, k, "own"), Known(c, "reward", a, m, st, k, "own"))
  BY <1>1, <1>2, StepRuns
<1> QED BY <1>3 DEF s

LEMMA InvalidateRuns ==
  ASSUME NEW c, Fits(c), NEW a \in Int, NEW m \in Nat, NEW st
  PROVE  Runs(c, <<Do("invalidate")>>, Known(c, "train", a, m, st, "back", "own"),
              Known(c, "train", a, m, "none", "back", "own"))
<1> DEFINE s == Do("invalidate")
<1>1. s \in Steps(c) /\ "train" \in Roles /\ "invalidate" \in Ops \ {"cache"}
  BY IsStep DEF Roles, Ops
<1>2. ASSUME NEW g \in States(c), Knows(c, "train", a, m, st, "back", "own", g)
      PROVE  /\ Finds(c, s, g)
             /\ \A h \in States(c) : Leads(c, s, g, h) => Knows(c, "train", a, m, "none", "back", "own", h)
  <2>1. Turns(c, "back", g) /\ Alone(c, "train", g) /\ g.weights = "own"
    BY <1>1, <1>2 DEF Knows
  <2>2. g.returns <= Bound(c)
    BY <2>1, Turning
  <2>3. Finds(c, s, g)
    BY <2>2 DEF Finds, Do, Works
  <2>4. ASSUME NEW h \in States(c), Leads(c, s, g, h)
        PROVE  Knows(c, "train", a, m, "none", "back", "own", h)
    <3>1. Weights(c, s, g, h) /\ s.op = "invalidate"
      BY <1>1, <2>4, DoLeads
    <3>2. /\ h.version = g.version /\ h.weights = g.weights /\ h.staged = Nothing
          /\ h.adapter = g.adapter /\ h.returns = g.returns /\ h.recorded = g.recorded
      BY <3>1 DEF Weights
    <3>3. Turns(c, "back", h) /\ Alone(c, "train", h) /\ Serves(c, h) = Serves(c, g)
      BY <2>1, <3>2 DEF Turns, Alone, Serves
    <3> QED BY <1>2, <3>2, <3>3 DEF Knows
  <2> QED BY <2>3, <2>4
<1> HIDE DEF s
<1>3. Runs(c, <<s>>, Known(c, "train", a, m, st, "back", "own"),
           Known(c, "train", a, m, "none", "back", "own"))
  BY <1>1, <1>2, StepRuns
<1> QED BY <1>3 DEF s

\* The trainer updates its weights, or not, and has not returned since.
LEMMA TrainRuns ==
  ASSUME NEW c, Fits(c), NEW a \in Int, NEW m \in Nat
  PROVE  Runs(c, <<Do("train")>>, Known(c, "train", a, m, "none", "back", "own"),
              Known(c, "any", a + 1, m + 1, "any", "rest", "own"))
<1> DEFINE s == Do("train")
<1>1. s \in Steps(c) /\ "train" \in Roles /\ "any" \notin Roles /\ "train" \in Ops \ {"cache"}
  BY IsStep DEF Roles, Ops
<1>2. ASSUME NEW g \in States(c), Knows(c, "train", a, m, "none", "back", "own", g)
      PROVE  /\ Finds(c, s, g)
             /\ \A h \in States(c) : Leads(c, s, g, h) => Knows(c, "any", a + 1, m + 1, "any", "rest", "own", h)
  <2>1. Turns(c, "back", g) /\ Alone(c, "train", g) /\ g.weights = "own" /\ g.version <= m
        /\ g.staged = Nothing
    BY <1>1, <1>2 DEF Knows
  <2>2. g.returns <= Bound(c)
    BY <2>1, Turning
  <2>3. "train" \in g.gpu /\ \A x, y \in g.recorded : x # y => x \in c.resident \/ y \in c.resident
    BY <1>1, <2>1, AloneIs, AloneThere
  <2>4. Finds(c, s, g)
    BY <2>1, <2>2, <2>3 DEF Finds, Do, Works, Wants
  <2>5. ASSUME NEW h \in States(c), Leads(c, s, g, h)
        PROVE  Knows(c, "any", a + 1, m + 1, "any", "rest", "own", h)
    <3>1. Weights(c, s, g, h) /\ s.op = "train"
      BY <1>1, <2>5, DoLeads
    <3>2. /\ h.version = g.version \/ h.version = g.version + 1
          /\ h.weights = g.weights /\ h.staged = g.staged
          /\ h.adapter = g.adapter /\ h.returns = 0 /\ h.recorded = g.recorded
      BY <3>1 DEF Weights
    <3>3. Turns(c, "rest", h)
      BY <2>1, <3>2 DEF Turns, Alone, Extracts, ParksTrain
    <3>4. c.sync # "none" => h.version - Serves(c, h) <= a + 1
      <4>1. c.sync # "none" => Serves(c, h) = Serves(c, g)
        BY <3>2, RecipeIs DEF Serves
      <4> QED BY <1>2, <3>2, <4>1, StateIs DEF Knows
    <3>5. h.version <= m + 1
      BY <2>1, <3>2, StateIs
    <3> QED BY <1>1, <2>1, <3>2, <3>3, <3>4, <3>5 DEF Knows
  <2> QED BY <2>4, <2>5
<1> HIDE DEF s
<1>3. Runs(c, <<s>>, Known(c, "train", a, m, "none", "back", "own"),
           Known(c, "any", a + 1, m + 1, "any", "rest", "own"))
  BY <1>1, <1>2, StepRuns
<1> QED BY <1>3 DEF s

LEMMA SaveRuns ==
  ASSUME NEW c, Fits(c), NEW a \in Int, NEW m \in Nat, NEW st
  PROVE  Runs(c, <<Do("save")>>, Known(c, "train", a, m, st, "back", "own"),
              Known(c, "any", a, m, "any", "rest", "own"))
<1> DEFINE s == Do("save")
<1>1. s \in Steps(c) /\ "train" \in Roles /\ "any" \notin Roles /\ "save" \in Ops \ {"cache"}
  BY IsStep DEF Roles, Ops
<1>2. ASSUME NEW g \in States(c), Knows(c, "train", a, m, st, "back", "own", g)
      PROVE  /\ Finds(c, s, g)
             /\ \A h \in States(c) : Leads(c, s, g, h) => Knows(c, "any", a, m, "any", "rest", "own", h)
  <2>1. Turns(c, "back", g) /\ Alone(c, "train", g) /\ g.weights = "own" /\ g.version <= m
    BY <1>1, <1>2 DEF Knows
  <2>2. g.returns <= Bound(c)
    BY <2>1, Turning
  <2>3. "train" \in g.gpu /\ \A x, y \in g.recorded : x # y => x \in c.resident \/ y \in c.resident
    BY <1>1, <2>1, AloneIs, AloneThere
  <2>4. Finds(c, s, g)
    BY <2>1, <2>2, <2>3 DEF Finds, Do, Works, Wants
  <2>5. ASSUME NEW h \in States(c), Leads(c, s, g, h)
        PROVE  Knows(c, "any", a, m, "any", "rest", "own", h)
    <3>1. Weights(c, s, g, h) /\ s.op = "save"
      BY <1>1, <2>5, DoLeads
    <3>2. /\ h.version = g.version /\ h.weights = g.weights /\ h.staged = g.staged
          /\ h.adapter = g.adapter /\ h.returns = 0 /\ h.recorded = g.recorded
      BY <3>1 DEF Weights
    <3>3. Turns(c, "rest", h) /\ Serves(c, h) = Serves(c, g)
      BY <2>1, <3>2 DEF Turns, Alone, Extracts, ParksTrain, Serves
    <3> QED BY <1>1, <1>2, <2>1, <3>2, <3>3 DEF Knows
  <2> QED BY <2>4, <2>5
<1> HIDE DEF s
<1>3. Runs(c, <<s>>, Known(c, "train", a, m, st, "back", "own"),
           Known(c, "any", a, m, "any", "rest", "own"))
  BY <1>1, <1>2, StepRuns
<1> QED BY <1>3 DEF s

\* What is known may be known less exactly.
LEMMA KnownLess ==
  ASSUME NEW c, Fits(c), NEW p, NEW a \in Int, NEW m \in Nat, NEW st,
         NEW k \in {"rest", "still", "rolled", "back"}, NEW w,
         NEW p2, NEW a2 \in Int, NEW m2 \in Nat, NEW st2, NEW k2 \in {"rest", "still", "rolled"},
         p2 = p \/ p2 \notin Roles, a <= a2 \/ m <= a2 \/ c.sync = "none", m <= m2,
         st2 = st \/ st2 = "any",
         k2 = k \/ (k = "still" /\ k2 = "rest") \/ (k \in {"rest", "still"} /\ k2 = "rolled")
           \/ (k = "rest" /\ k2 = "still" /\ ~Extracts(c))
  PROVE  Known(c, p, a, m, st, k, w) \subseteq Known(c, p2, a2, m2, st2, k2, w)
<1>1. ASSUME NEW g \in States(c), Knows(c, p, a, m, st, k, w, g)
      PROVE  Knows(c, p2, a2, m2, st2, k2, w, g)
  <2>1. Turns(c, k, g) /\ g.version <= m
    BY <1>1 DEF Knows
  <2>2. g.version <= m2 /\ g.version - Serves(c, g) <= m
    BY <2>1, StateIs
  <2>3. c.sync # "none" => g.version - Serves(c, g) <= a2
    BY <1>1, <2>2, StateIs DEF Knows
  <2>4. Turns(c, k2, g)
    <3>1. CASE k2 = k
      BY <2>1, <3>1
    <3>2. CASE k = "still" /\ k2 = "rest"
      BY <2>1, <3>2 DEF Turns
    <3>3. CASE k \in {"rest", "still"} /\ k2 = "rolled"
      BY <2>1, <3>3, Turning
    <3>4. CASE k = "rest" /\ k2 = "still" /\ ~Extracts(c)
      BY <2>1, <3>4 DEF Turns
    <3> QED BY <3>1, <3>2, <3>3, <3>4
  <2>5. (p2 \in Roles => Alone(c, p2, g)) /\ (st2 = "held" => g.staged = g.version)
        /\ (st2 = "none" => g.staged = Nothing) /\ g.weights = w
    BY <1>1 DEF Knows
  <2> QED BY <2>2, <2>3, <2>4, <2>5 DEF Knows
<1> QED BY <1>1, KnownIs

LEMMA StillRests ==
  ASSUME NEW c, Fits(c), NEW p, NEW a \in Int, NEW a2 \in Int, a <= a2, NEW m, NEW st, NEW w
  PROVE  Known(c, p, a, m, st, "still", w) \subseteq Known(c, p, a2, m, st, "rest", w)
<1>1. ASSUME NEW g \in States(c), Knows(c, p, a, m, st, "still", w, g)
      PROVE  Knows(c, p, a2, m, st, "rest", w, g)
  <2>1. Turns(c, "rest", g)
    BY <1>1 DEF Knows, Turns
  <2>2. c.sync # "none" => g.version - Serves(c, g) <= a2
    BY <1>1, StateIs DEF Knows
  <2> QED BY <1>1, <2>1, <2>2 DEF Knows
<1> QED BY <1>1, KnownIs

LEMMA KnownAges ==
  ASSUME NEW c, Fits(c), NEW p, NEW a \in Int, NEW a2 \in Int, NEW m \in Nat, NEW m2 \in Nat,
         a <= a2 \/ m <= a2, m <= m2, NEW st, NEW k, NEW w
  PROVE  Known(c, p, a, m, st, k, w) \subseteq Known(c, p, a2, m2, st, k, w)
<1>1. ASSUME NEW g \in States(c), Knows(c, p, a, m, st, k, w, g)
      PROVE  Knows(c, p, a2, m2, st, k, w, g)
  <2>1. g.version <= m
    BY <1>1 DEF Knows
  <2>2. g.version <= m2 /\ g.version - Serves(c, g) <= m
    BY <2>1, StateIs
  <2>3. c.sync # "none" => g.version - Serves(c, g) <= a2
    BY <1>1, <2>2, StateIs DEF Knows
  <2> QED BY <1>1, <2>2, <2>3 DEF Knows
<1> QED BY <1>1, KnownIs

\* In particular the phase and what is staged may be forgotten.
LEMMA KnownMore ==
  ASSUME NEW c, Fits(c), NEW p, NEW a \in Int, NEW m \in Nat, NEW st,
         NEW k, NEW w, NEW p2, NEW a2 \in Int,
         p2 = p \/ p2 \notin Roles, a = a2 \/ c.sync = "none"
  PROVE  Known(c, p, a, m, st, k, w) \subseteq Known(c, p2, a2, m, "any", k, w)
<1>1. ASSUME NEW g \in States(c), Knows(c, p, a, m, st, k, w, g)
      PROVE  Knows(c, p2, a2, m, "any", k, w, g)
  BY <1>1 DEF Knows
<1> QED BY <1>1, KnownIs

LEMMA NothingStaged ==
  ASSUME NEW c, Fits(c), c.sync # "lora", NEW p, NEW a, NEW m, NEW st, NEW k, NEW w
  PROVE  Known(c, p, a, m, st, k, w) \subseteq Known(c, p, a, m, "none", k, w)
<1>1. ASSUME NEW g \in States(c), Knows(c, p, a, m, st, k, w, g)
      PROVE  Knows(c, p, a, m, "none", k, w, g)
  <2>1. g.staged = Nothing
    BY StateIs
  <2> QED BY <1>1, <2>1 DEF Knows
<1> QED BY <1>1, KnownIs

-----------------------------------------------------------------------------
(***************************************************************************)
(* The methods.                                                            *)
(***************************************************************************)
LEMMA RunsLast ==
  ASSUME NEW c, NEW s, NEW t, NEW P, NEW Q, NEW R \in SUBSET States(c), NEW b \in BOOLEAN,
         Runs(c, s, P, Q), Q \in SUBSET States(c), b => Runs(c, t, Q, R), ~b => Q \subseteq R
  PROVE  Runs(c, s \o If(b, t), P, R)
<1>1. Runs(c, If(b, t), Q, R)
  BY RunsIf
<1> QED BY <1>1, RunsThen

\* The weights are sent, if there are any to send, and the engine is up to date.
LEMMA SendRuns ==
  ASSUME NEW c, Fits(c), NEW a \in Int, NEW m \in Nat, NEW k \in {"still", "rolled"},
         NEW split \in BOOLEAN, split => c.sync = "lora",
         ~split /\ c.sync # "none" => ~ParksTrain(c)
  PROVE  Runs(c, Push(c, split),
              Known(c, "rollout", a, m, IF split THEN "held" ELSE "any", k, "own"),
              Known(c, "rollout", 0, m, "any", k, "own"))
<1> DEFINE st == IF split THEN "held" ELSE "any"
           P == Known(c, "rollout", a, m, st, k, "own")
           Q == Known(c, "rollout", 0, m, "any", k, "own")
           s == <<Do(IF split THEN "push" ELSE "sync")>>
<1>1. P \in SUBSET States(c) /\ Q \in SUBSET States(c)
  BY KnownIs
<1>2. CASE split
  <2>1. Runs(c, <<Do("push")>>, Known(c, "rollout", a, m, "held", k, "own"),
             Known(c, "rollout", 0, m, "held", k, "own"))
    BY PushRuns
  <2>2. Known(c, "rollout", 0, m, "held", k, "own") \subseteq Q
    <3>1. 0 \in Int
      OBVIOUS
    <3> QED BY <3>1, KnownMore
  <2>3. Runs(c, <<Do("push")>>, Known(c, "rollout", a, m, "held", k, "own"), Q)
    <3> HIDE DEF Q
    <3> QED BY <2>1, <2>2, RunsLess
  <2>4. c.sync # "none" /\ s = <<Do("push")>> /\ st = "held"
    BY <1>2
  <2>5. Push(c, split) = <<Do("push")>>
    BY <2>4 DEF Push, If
  <2> QED BY <2>3, <2>4, <2>5
<1>3. CASE ~split /\ c.sync # "none"
  <2>1. Runs(c, <<Do("sync")>>, Known(c, "rollout", a, m, "any", k, "own"), Q)
    BY <1>3, SyncRuns
  <2>2. Push(c, split) = <<Do("sync")>> /\ st = "any"
    BY <1>3 DEF Push, If
  <2> QED BY <2>1, <2>2
<1>4. CASE ~split /\ c.sync = "none"
  <2>1. Push(c, split) = <<>> /\ st = "any"
    BY <1>4 DEF Push, If
  <2>2. Known(c, "rollout", a, m, "any", k, "own") \subseteq Q
    <3>1. 0 \in Int
      OBVIOUS
    <3> QED BY <1>4, <3>1, KnownMore
  <2>3. Runs(c, <<>>, P, P)
    <3> HIDE DEF P
    <3> QED BY <1>1, RunsNothing
  <2>4. P \subseteq P /\ P \subseteq Q
    BY <2>1, <2>2
  <2>5. Runs(c, <<>>, P, Q)
    <3> HIDE DEF P, Q
    <3> QED BY <2>3, <2>4, RunsLess
  <2> QED BY <2>1, <2>5
<1> QED BY <1>2, <1>3, <1>4

\* A generation: the weights may be sent before it, and the engine sleeps after it.
LEMMA GenerateRuns ==
  ASSUME NEW c, Fits(c), NEW a \in Int, NEW m \in Nat, NEW sync \in BOOLEAN, NEW exact \in BOOLEAN,
         NEW k \in {"rest", "still", "rolled"}, NEW k2 \in {"still", "rolled"},
         NEW b, b = IF sync THEN 0 ELSE a,
         exact /\ c.sync # "none" => b <= 0,
         ~exact /\ c.sync # "none" /\ (Keeps(c) \/ c.interval = 1) => b < c.interval,
         sync /\ Extracts(c) /\ k = "rolled" => Mid(c) = 1,
         k2 = "rolled" \/ k = "still" \/ (k = "rest" /\ (sync \/ ~Extracts(c)))
  PROVE  Runs(c, Generate(c, sync, Sleeps(c), exact), Known(c, "any", a, m, "any", k, "own"),
              Known(c, "any", Kept(c, b, m), m, "any", k2, "own"))
<1> DEFINE split == sync /\ ParksTrain(c) /\ c.sync = "lora"
           swap == c.ema /\ c.trainside
           a1 == IF split THEN Kept(c, a, m) ELSE a
           st == IF split THEN "held" ELSE "any"
           j  == IF k = "rest" THEN (IF sync \/ ~Extracts(c) THEN "still" ELSE "rolled") ELSE k
           w  == IF swap THEN "averaged" ELSE "own"
           P0 == Known(c, "any", a, m, "any", k, "own")
           P1 == Known(c, "any", a1, m, st, j, "own")
           P2 == Known(c, "rollout", a1, m, st, j, "own")
           P3 == Known(c, "rollout", b, m, "any", j, "own")
           P4 == Known(c, "rollout", b, m, "any", j, w)
           P5 == Known(c, "any", Kept(c, b, m), m, "any", j, "own")
           P6 == Known(c, "any", Kept(c, b, m), m, "any", k2, "own")
<1>1. /\ split \in BOOLEAN /\ swap \in BOOLEAN /\ a1 \in Int /\ b \in Int /\ j \in {"still", "rolled"}
      /\ Kept(c, b, m) \in Int /\ Sleeps(c) \in BOOLEAN /\ {} \in SUBSET c.resident
      /\ "any" \notin Roles /\ "rollout" \in Roles
      /\ split <=> sync /\ Extracts(c)
  BY RecipeIs DEF Kept, Roles, Sleeps, Extracts
<1>2. /\ P0 \in SUBSET States(c) /\ P1 \in SUBSET States(c) /\ P2 \in SUBSET States(c)
      /\ P3 \in SUBSET States(c) /\ P4 \in SUBSET States(c) /\ P5 \in SUBSET States(c)
      /\ P6 \in SUBSET States(c)
  BY KnownIs
<1>3. Runs(c, If(split, <<Do("cache")>>), P0, P1)
  <2>1. ASSUME split PROVE Runs(c, <<Do("cache")>>, P0, P1)
    <3>1. c.sync = "lora" /\ (k = "rolled" => Mid(c) = 1)
      BY <1>1, <2>1
    <3>2. Runs(c, <<Do("cache")>>, Known(c, "any", a, m, "any", k, "own"),
               Known(c, "any", Kept(c, a, m), m, "held", IF k = "rolled" THEN k ELSE "still", "own"))
      BY <3>1, CacheRuns
    <3>3. a1 = Kept(c, a, m) /\ st = "held" /\ j = IF k = "rolled" THEN k ELSE "still"
      BY <2>1
    <3> HIDE DEF a1, st, j
    <3> QED BY <3>2, <3>3
  <2>2. ASSUME ~split PROVE P0 \subseteq P1
    <3>1. a1 = a /\ st = "any"
      BY <2>2
    <3>2. j = k \/ (k = "rest" /\ j = "rolled") \/ (k = "rest" /\ j = "still" /\ ~Extracts(c))
      BY <1>1, <2>2
    <3> HIDE DEF a1, st, j
    <3> QED BY <1>1, <3>1, <3>2, KnownLess
  <2> HIDE DEF P0, P1, split
  <2> QED BY <1>1, <1>2, <2>1, <2>2, RunsIf
<1>4. Runs(c, <<Enter("rollout", {})>>, P1, P2)
  <2> HIDE DEF a1, st, j
  <2> QED BY <1>1, EnterRuns
<1>5. Runs(c, If(sync, Push(c, split)), P2, P3)
  <2>1. ASSUME sync PROVE Runs(c, Push(c, split), P2, P3)
    <3>1. b = 0 /\ (split => c.sync = "lora") /\ (~split /\ c.sync # "none" => ~ParksTrain(c))
      BY <2>1, RecipeIs
    <3> HIDE DEF a1, j, split
    <3> QED BY <1>1, <3>1, SendRuns
  <2>2. ASSUME ~sync PROVE P2 \subseteq P3
    <3>1. a1 = a /\ st = "any" /\ b = a
      BY <2>2
    <3> QED BY <3>1
  <2> HIDE DEF P2, P3, split
  <2> QED BY <1>2, <2>1, <2>2, RunsIf
<1>6. Runs(c, If(swap, <<Do("average")>>), P3, P4)
  <2>1. ASSUME swap PROVE Runs(c, <<Do("average")>>, P3, P4)
    <3>1. Runs(c, <<Do("average")>>, P3, Known(c, "rollout", b, m, "any", j, 
               IF "average" = "average" THEN "averaged" ELSE "own"))
      <4> HIDE DEF j
      <4> QED BY <1>1, SwapRuns
    <3> HIDE DEF j
    <3> QED BY <2>1, <3>1
  <2>2. ASSUME ~swap PROVE P3 \subseteq P4
    BY <2>2
  <2> HIDE DEF P3, P4, swap
  <2> QED BY <1>1, <1>2, <2>1, <2>2, RunsIf
<1>7. Runs(c, <<Work(exact)>>, P4, P4)
  <2>1. w = IF c.ema /\ c.trainside THEN "averaged" ELSE "own"
    OBVIOUS
  <2> HIDE DEF w, j
  <2> QED BY <1>1, <2>1, GenerationRuns
<1>8. Runs(c, If(swap, <<Do("restore")>>), P4, P3)
  <2>1. ASSUME swap PROVE Runs(c, <<Do("restore")>>, P4, P3)
    <3>1. Runs(c, <<Do("restore")>>, P4, Known(c, "rollout", b, m, "any", j, 
               IF "restore" = "average" THEN "averaged" ELSE "own"))
      <4> HIDE DEF j, w
      <4> QED BY <1>1, SwapRuns
    <3> HIDE DEF j, w
    <3> QED BY <2>1, <3>1
  <2>2. ASSUME ~swap PROVE P4 \subseteq P3
    BY <2>2
  <2> HIDE DEF P3, P4, swap
  <2> QED BY <1>1, <1>2, <2>1, <2>2, RunsIf
<1>9. Runs(c, If(Sleeps(c), <<Set("rollout", FALSE)>>), P3, P6)
  <2>1. ASSUME Sleeps(c) PROVE Runs(c, <<Set("rollout", FALSE)>>, P3, P5)
    <3> HIDE DEF j
    <3> QED BY <1>1, SleepRuns
  <2>2. P5 \subseteq P6
    <3>1. j = k2 \/ (j = "still" /\ k2 = "rolled")
      OBVIOUS
    <3> HIDE DEF j
    <3> QED BY <1>1, <3>1, KnownLess
  <2>3. ASSUME ~Sleeps(c) PROVE P3 \subseteq P5
    <3>1. Kept(c, b, m) = b
      BY <2>3 DEF Kept, Keeps
    <3> HIDE DEF j
    <3> QED BY <1>1, <3>1, KnownMore
  <2>4. ASSUME Sleeps(c) PROVE Runs(c, <<Set("rollout", FALSE)>>, P3, P6)
    <3>1. Runs(c, <<Set("rollout", FALSE)>>, P3, P5) /\ P3 \subseteq P3
      BY <2>1, <2>4
    <3> HIDE DEF P3, P5, P6
    <3> QED BY <2>2, <3>1, RunsLess
  <2>5. ~Sleeps(c) => P3 \subseteq P6
    BY <2>2, <2>3
  <2> HIDE DEF P3, P5, P6
  <2> QED BY <1>1, <1>2, <2>4, <2>5, RunsIf
<1>10. Generate(c, sync, Sleeps(c), exact) =
         If(split, <<Do("cache")>>) \o <<Enter("rollout", {})>> \o If(sync, Push(c, split))
           \o If(swap, <<Do("average")>>) \o <<Work(exact)>> \o If(swap, <<Do("restore")>>)
           \o If(Sleeps(c), <<Set("rollout", FALSE)>>)
  BY Zenon DEF Generate
<1> HIDE DEF P0, P1, P2, P3, P4, P5, P6, split, swap
<1>11. Runs(c, If(split, <<Do("cache")>>) \o <<Enter("rollout", {})>>, P0, P2)
  BY <1>3, <1>4, RunsThen
<1>12. Runs(c, If(split, <<Do("cache")>>) \o <<Enter("rollout", {})>> \o If(sync, Push(c, split)),
            P0, P3)
  BY <1>5, <1>11, RunsThen
<1>13. Runs(c, If(split, <<Do("cache")>>) \o <<Enter("rollout", {})>> \o If(sync, Push(c, split))
                 \o If(swap, <<Do("average")>>), P0, P4)
  BY <1>6, <1>12, RunsThen
<1>14. Runs(c, If(split, <<Do("cache")>>) \o <<Enter("rollout", {})>> \o If(sync, Push(c, split))
                 \o If(swap, <<Do("average")>>) \o <<Work(exact)>>, P0, P4)
  BY <1>7, <1>13, RunsThen
<1>15. Runs(c, If(split, <<Do("cache")>>) \o <<Enter("rollout", {})>> \o If(sync, Push(c, split))
                 \o If(swap, <<Do("average")>>) \o <<Work(exact)>> \o If(swap, <<Do("restore")>>), P0, P3)
  BY <1>8, <1>14, RunsThen
<1>16. Runs(c, Generate(c, sync, Sleeps(c), exact), P0, P6)
  BY <1>9, <1>10, <1>15, RunsThen
<1> QED BY <1>16 DEF P0, P6

\* How old the weights an engine serves may be after rollout id.
Since(c, id, m) == IF Keeps(c) THEN id % c.interval ELSE m

LEMMA SinceIs ==
  ASSUME NEW c, Fits(c), NEW id \in Nat, NEW m \in Nat
  PROVE  /\ Since(c, id, m) \in Nat /\ id % c.interval \in Nat /\ id % c.interval < c.interval
         /\ c.interval = 1 /\ ~SyncDue(c, id) => id = 0
         /\ SyncDue(c, id) \in BOOLEAN
<1>1. c.interval \in Nat \ {0}
  BY RecipeIs
<1>2. id % c.interval \in 0 .. c.interval - 1
  BY <1>1, Z3T(20)
<1>3. id % c.interval \in Nat /\ id % c.interval < c.interval
  BY <1>1, <1>2
<1>4. c.interval = 1 => id % c.interval = 0
  BY <1>1, <1>3
<1>5. c.interval = 1 /\ ~SyncDue(c, id) => id = 0
  BY <1>4 DEF SyncDue
<1>6. SyncDue(c, id) \in BOOLEAN
  BY DEF SyncDue
<1> QED BY <1>3, <1>5, <1>6 DEF Since

LEMMA RolloutRuns ==
  ASSUME NEW c, Fits(c), NEW id \in Nat, NEW a \in Int, NEW m \in Nat, NEW k \in {"rest", "rolled"},
         ~SyncDue(c, id) => a <= Since(c, id, m), id = 0 => m = 0,
         SyncDue(c, id) /\ Extracts(c) /\ k = "rolled" => Mid(c) = 1
  PROVE  Runs(c, RolloutAndScore(c, id), Known(c, "any", a, m, "any", k, "own"),
              Known(c, "any", Since(c, id, m), m, "any", "rolled", "own"))
<1> DEFINE sync == SyncDue(c, id)
           b == IF sync THEN 0 ELSE a
           scored == c.reward # "none" /\ ~c.stack
           x == Kept(c, b, m)
           y == Since(c, id, m)
           P0 == Known(c, "any", a, m, "any", k, "own")
           P1 == Known(c, "any", x, m, "any", "rolled", "own")
           P2 == Known(c, "reward", x, m, "any", "rolled", "own")
           P3 == Known(c, "any", y, m, "any", "rolled", "own")
<1>1. /\ sync \in BOOLEAN /\ b \in Int /\ x \in Int /\ scored \in BOOLEAN
      /\ Kept(c, x, m) = x
      /\ c.interval \in Nat \ {0} /\ y \in Int
      /\ "any" \notin Roles /\ {} \in SUBSET c.resident
      /\ k \in {"rest", "still", "rolled"}
  <2>1. sync \in BOOLEAN /\ y \in Int
    BY SinceIs
  <2>2. b \in Int
    BY DEF SyncDue
  <2>3. x \in Int /\ Kept(c, x, m) = x
    <3> HIDE DEF b
    <3> QED BY <2>2 DEF Kept
  <2>4. c.interval \in Nat \ {0} /\ scored \in BOOLEAN
    BY RecipeIs
  <2>5. "any" \notin Roles /\ {} \in SUBSET c.resident /\ k \in {"rest", "still", "rolled"}
    BY DEF Roles
  <2> HIDE DEF sync, b, x, y, scored
  <2> QED BY <2>1, <2>2, <2>3, <2>4, <2>5
<1>2. /\ P0 \in SUBSET States(c) /\ P1 \in SUBSET States(c) /\ P2 \in SUBSET States(c)
      /\ P3 \in SUBSET States(c)
  BY KnownIs
<1>3. ~sync => a <= y
  OBVIOUS
<1>4. Keeps(c) => b <= id % c.interval
  <2>1. id % c.interval \in Nat
    BY SinceIs
  <2>2. CASE sync
    BY <2>1, <2>2
  <2>3. CASE ~sync
    BY <1>3, <2>3 DEF Since
  <2> QED BY <2>2, <2>3
<1>5. x <= y
  <2>1. CASE Keeps(c)
    BY <1>4, <2>1 DEF Kept, Since
  <2>2. CASE ~Keeps(c)
    BY <2>2 DEF Kept, Since
  <2> QED BY <2>1, <2>2
<1>6. Keeps(c) \/ c.interval = 1 => b < c.interval
  <2>1. CASE Keeps(c)
    <3> DEFINE r == id % c.interval
    <3>1. r \in Nat /\ r < c.interval
      BY SinceIs
    <3>2. b <= r
      BY <1>4, <2>1
    <3> HIDE DEF r, b
    <3> QED BY <1>1, <3>1, <3>2
  <2>2. CASE ~Keeps(c) /\ c.interval = 1
    <3>1. CASE sync
      BY <2>2, <3>1
    <3>2. CASE ~sync
      <4>1. m = 0
        BY <2>2, <3>2, SinceIs
      <4>2. y = m
        BY <2>2 DEF Since
      <4> QED BY <1>3, <2>2, <3>2, <4>1, <4>2
    <3> QED BY <3>1, <3>2
  <2> QED BY <2>1, <2>2
<1>7. Runs(c, Generate(c, sync, Sleeps(c), FALSE), P0, P1)
  <2>1. b = IF sync THEN 0 ELSE a
    OBVIOUS
  <2>2. sync /\ Extracts(c) /\ k = "rolled" => Mid(c) = 1
    OBVIOUS
  <2> HIDE DEF sync, b
  <2>3. FALSE /\ c.sync # "none" => b <= 0
    OBVIOUS
  <2>4. ~FALSE /\ c.sync # "none" /\ (Keeps(c) \/ c.interval = 1) => b < c.interval
    BY <1>6
  <2>5. "rolled" \in {"still", "rolled"} /\ FALSE \in BOOLEAN
    OBVIOUS
  <2> QED BY <1>1, <2>1, <2>2, <2>3, <2>4, <2>5, GenerateRuns
<1> HIDE DEF x, y
<1>8. P1 \subseteq P3
  <2>1. x \in Int /\ y \in Int /\ (x <= y \/ m <= y) /\ m <= m
    BY <1>1, <1>5
  <2> QED BY <2>1, KnownAges
<1>9. Runs(c, <<Enter("reward", {}), Do("score")>>, P1, P3)
  <2>1. Runs(c, <<Enter("reward", {})>>, P1, P2)
    <3>1. Runs(c, <<Enter("reward", {})>>, P1,
               Known(c, "reward", IF "reward" = "rollout" THEN x ELSE Kept(c, x, m),
                     m, "any", "rolled", "own"))
      BY <1>1, EnterRuns
    <3> QED BY <1>1, <3>1
  <2>2. Runs(c, <<Do("score")>>, P2, P2)
    BY <1>1, ScoreRuns
  <2>3. P2 \subseteq P3
    <3>1. P2 \subseteq P1
      BY <1>1, KnownMore
    <3> QED BY <1>8, <3>1
  <2>4. <<Enter("reward", {}), Do("score")>> = <<Enter("reward", {})>> \o <<Do("score")>>
    OBVIOUS
  <2> HIDE DEF P1, P2, P3
  <2>5. Runs(c, <<Enter("reward", {})>> \o <<Do("score")>>, P1, P2)
    BY <2>1, <2>2, RunsThen
  <2>6. P1 \subseteq P1
    OBVIOUS
  <2> QED BY <2>3, <2>4, <2>5, <2>6, RunsLess
<1>10. RolloutAndScore(c, id) = Generate(c, sync, Sleeps(c), FALSE)
                                  \o If(scored, <<Enter("reward", {}), Do("score")>>)
  BY DEF RolloutAndScore
<1> HIDE DEF P0, P1, P3, scored, sync
<1>11. Runs(c, RolloutAndScore(c, id), P0, P3)
  BY <1>1, <1>2, <1>7, <1>9, <1>8, <1>10, RunsLast
<1> QED BY <1>11 DEF P0, P3, y

-----------------------------------------------------------------------------
(***************************************************************************)
(* Methods one after the other, and the arithmetic of windows and syncs.   *)
(***************************************************************************)
\* Induction up to a number, from the least one outside the set.
LEMMA CountUp ==
  ASSUME NEW n \in Nat, NEW T, 0 \in T, \A i \in 1 .. n : i - 1 \in T => i \in T
  PROVE  n \in T
<1> SUFFICES ASSUME n \notin T PROVE FALSE
    OBVIOUS
<1> DEFINE Out == {i \in 0 .. n : i \notin T}
<1>1. Out \subseteq Nat /\ Out # {}
      OBVIOUS
<1>2. PICK m \in Out : \A y \in Out : ~ (<<y, m>> \in OpToRel(<, Nat))
      BY <1>1, WFMin, NatLessThanWellFounded
<1>3. \A y \in Out : ~ (y < m)
      BY <1>1, <1>2 DEF OpToRel
<1>4. m \in 1 .. n /\ m \notin T
      OBVIOUS
<1>5. m - 1 \in 0 .. n /\ m - 1 \notin T /\ m - 1 < m
      BY <1>4
<1> QED
    BY <1>3, <1>5

\* What FlattenSeq computes, one sequence after the other.
Joins(f, seqs, n) == f = [i \in 1 .. n |-> IF i = 1 THEN seqs[i] ELSE f[i - 1] \o seqs[i]]

LEMMA JoinsUpTo ==
  ASSUME NEW n \in Nat \ {0}, NEW seqs
  PROVE  \E f : Joins(f, seqs, n)
<1> DEFINE T == {m \in 0 .. n : m = 0 \/ \E f : Joins(f, seqs, m)}
<1>1. 0 \in T
  OBVIOUS
<1>2. ASSUME NEW m \in 1 .. n, m - 1 \in T PROVE m \in T
  <2>1. CASE m = 1
    <3> DEFINE f == [i \in 1 .. 1 |-> seqs[1]]
    <3>1. Joins(f, seqs, 1)
      BY DEF Joins
    <3> QED BY <2>1, <3>1
  <2>2. CASE m # 1
    <3>1. PICK g : Joins(g, seqs, m - 1)
      BY <1>2, <2>2
    <3> DEFINE f == [i \in 1 .. m |-> IF i = m THEN g[m - 1] \o seqs[m] ELSE g[i]]
    <3>2. DOMAIN f = 1 .. m /\ f[m] = g[m - 1] \o seqs[m] /\ f[m - 1] = g[m - 1]
      <4>1. m \in 1 .. m /\ m - 1 \in 1 .. m /\ m - 1 # m
        BY <2>2
      <4> QED BY <4>1
    <3>3. \A i \in 1 .. m - 1 : f[i] = g[i]
      OBVIOUS
    <3>4. \A i \in 1 .. m - 1 : g[i] = IF i = 1 THEN seqs[i] ELSE g[i - 1] \o seqs[i]
      BY <3>1 DEF Joins
    <3>8. f = [i \in 1 .. m |-> f[i]]
      OBVIOUS
    <3> HIDE DEF f
    <3>5. ASSUME NEW i \in 1 .. m PROVE f[i] = IF i = 1 THEN seqs[i] ELSE f[i - 1] \o seqs[i]
      <4>1. CASE i = m
        BY <2>2, <3>2, <4>1
      <4>2. CASE i # m /\ i = 1
        BY <3>3, <3>4, <4>2
      <4>3. CASE i # m /\ i # 1
        <5>1. i \in 1 .. m - 1 /\ i - 1 \in 1 .. m - 1
          BY <4>3
        <5> QED BY <3>3, <3>4, <4>3, <5>1
      <4> QED BY <4>1, <4>2, <4>3
    <3>6. f = [i \in 1 .. m |-> IF i = 1 THEN seqs[i] ELSE f[i - 1] \o seqs[i]]
      BY <3>5, <3>8
    <3>7. \E h : Joins(h, seqs, m)
      BY <3>6 DEF Joins
    <3>9. m \in 0 .. n
      OBVIOUS
    <3> QED BY <3>7, <3>9
  <2> QED BY <2>1, <2>2
<1> HIDE DEF T
<1>3. n \in T
  BY <1>1, <1>2, CountUp
<1> QED BY <1>3 DEF T

LEMMA Flattened ==
  ASSUME NEW n \in Nat \ {0}, NEW seqs, Len(seqs) = n
  PROVE  \E f : Joins(f, seqs, n) /\ FlattenSeq(seqs) = f[n]
<1> DEFINE F == CHOOSE f : f = [i \in 1 .. n |-> IF i = 1 THEN seqs[i] ELSE f[i - 1] \o seqs[i]]
<1>1. Joins(F, seqs, n)
  BY JoinsUpTo DEF Joins
<1>2. FlattenSeq(seqs) = F[n]
  BY DEF FlattenSeq
<1> HIDE DEF F
<1> QED BY <1>1, <1>2

LEMMA RunsFlat ==
  ASSUME NEW c, NEW n \in Nat \ {0}, NEW seqs, Len(seqs) = n, NEW R,
         \A k \in 1 .. n : Runs(c, seqs[k], R[k - 1], R[k])
  PROVE  Runs(c, FlattenSeq(seqs), R[0], R[n])
<1>1. PICK f : Joins(f, seqs, n) /\ FlattenSeq(seqs) = f[n]
  BY Flattened
<1>2. \A i \in 1 .. n : f[i] = IF i = 1 THEN seqs[i] ELSE f[i - 1] \o seqs[i]
  BY <1>1 DEF Joins
<1> DEFINE T == {m \in 0 .. n : m = 0 \/ Runs(c, f[m], R[0], R[m])}
<1>3. 0 \in T
  OBVIOUS
<1>4. ASSUME NEW m \in 1 .. n, m - 1 \in T PROVE m \in T
  <2>1. m \in 0 .. n /\ Runs(c, seqs[m], R[m - 1], R[m])
    OBVIOUS
  <2>2. CASE m = 1
    <3>1. f[m] = seqs[m] /\ m - 1 = 0
      BY <1>2, <2>2
    <3> QED BY <2>1, <3>1
  <2>3. CASE m # 1
    <3>1. f[m] = f[m - 1] \o seqs[m] /\ Runs(c, f[m - 1], R[0], R[m - 1])
      <4>1. f[m] = f[m - 1] \o seqs[m]
        BY <1>2, <2>3
      <4>2. m - 1 # 0 /\ (m - 1 = 0 \/ Runs(c, f[m - 1], R[0], R[m - 1]))
        BY <1>4, <2>3
      <4> QED BY <4>1, <4>2
    <3>2. Runs(c, f[m - 1] \o seqs[m], R[0], R[m])
      BY <2>1, <3>1, RunsThen
    <3> QED BY <2>1, <3>1, <3>2
  <2> QED BY <2>2, <2>3
<1> HIDE DEF T
<1>5. n \in T
  BY <1>3, <1>4, CountUp
<1> QED BY <1>1, <1>5 DEF T

LEMMA RemainderGrows ==
  ASSUME NEW n \in Nat, NEW i \in Nat \ {0}
  PROVE  /\ n % i \in 0 .. i - 1
         /\ (n + 1) % i # 0 => (n + 1) % i = (n % i) + 1
<1>1. n % i \in 0 .. i - 1 /\ n \div i \in Nat /\ n = i * (n \div i) + (n % i)
  BY Z3T(20)
<1>2. /\ (n + 1) % i \in 0 .. i - 1 /\ (n + 1) \div i \in Nat
      /\ n + 1 = i * ((n + 1) \div i) + ((n + 1) % i)
  BY Z3T(20)
<1> DEFINE q == n \div i
           r == n % i
           s == (n + 1) \div i
           t == (n + 1) % i
<1>3. q \in Nat /\ s \in Nat /\ r \in 0 .. i - 1 /\ t \in 0 .. i - 1
      /\ i * q + r + 1 = i * s + t
  BY <1>1, <1>2
<1> HIDE DEF q, r, s, t
<1>4. i * (s - q) = (r + 1) - t
  <2>1. i * (s - q) = i * s - i * q
    BY <1>3, Z3T(20)
  <2>2. i * s \in Int /\ i * q \in Int
    BY <1>3
  <2> QED BY <1>3, <2>1, <2>2, Z3T(20)
<1>5. ASSUME t # 0
      PROVE  t = r + 1
  <2>1. (r + 1) - t < i /\ (r + 1) - t > -i
    BY <1>3, <1>5
  <2>2. CASE s - q >= 1
    <3>1. i * (s - q) >= i
      BY <1>3, <2>2, Z3T(20)
    <3> QED BY <1>3, <1>4, <2>1, <3>1
  <2>3. CASE s - q <= -1
    <3>1. i * (s - q) <= -i
      BY <1>3, <2>3, Z3T(20)
    <3> QED BY <1>3, <1>4, <2>1, <3>1
  <2>4. CASE s - q = 0
    <3>1. i * (s - q) = 0
      BY <2>4, Z3T(20)
    <3> QED BY <1>3, <1>4, <3>1
  <2> QED BY <1>3, <2>2, <2>3, <2>4
<1> QED BY <1>1, <1>5 DEF r, t

\* A remainder is what is left of a multiple.
LEMMA ModUnique ==
  ASSUME NEW q \in Nat, NEW b \in Nat \ {0}, NEW r \in 0 .. b - 1
  PROVE  (b * q + r) % b = r
<1>1. b * q + r \in Nat
  OBVIOUS
<1> DEFINE a == b * q + r
           p == a \div b
           t == a % b
<1>2. a = b * p + t /\ p \in Nat /\ t \in 0 .. b - 1
  BY <1>1
<1> HIDE DEF p, t
<1>3. b * (p - q) = r - t
  BY <1>2
<1>4. p = q
  <2>1. p - q \in Int
    BY <1>2
  <2>2. CASE p - q >= 1
    <3>1. b * (p - q) >= b
      BY <2>1, <2>2
    <3> QED BY <1>2, <1>3, <3>1
  <2>3. CASE p - q <= -1
    <3>1. b * (p - q) <= -b
      BY <2>1, <2>3
    <3> QED BY <1>2, <1>3, <3>1
  <2> QED BY <1>2, <2>1, <2>2, <2>3
<1>5. t = r
  BY <1>2, <1>4
<1> QED BY <1>5 DEF t

\* Within a window, no rollout but the first is a multiple of its size.
LEMMA InWindow ==
  ASSUME NEW n \in Nat, NEW w \in Nat \ {0}, n % w = 0, NEW j \in 0 .. w - 1
  PROVE  (n + j) % w = j
<1> DEFINE q == n \div w
<1>1. q \in Nat /\ n = (w * q) + (n % w)
  BY Z3T(20)
<1> HIDE DEF q
<1>2. (w * q + j) % w = j
  BY <1>1, ModUnique
<1>3. w * q \in Nat /\ n = w * q
  BY <1>1
<1> QED BY <1>2, <1>3

LEMMA NextMultiple ==
  ASSUME NEW n \in Nat, NEW w \in Nat \ {0}, n % w = 0
  PROVE  (n + w) % w = 0
<1> DEFINE q == n \div w
<1>1. q \in Nat /\ n = (w * q) + (n % w)
  BY Z3T(20)
<1> HIDE DEF q
<1>2. q + 1 \in Nat /\ 0 \in 0 .. w - 1
  BY <1>1
<1>3. (w * (q + 1) + 0) % w = 0
  BY <1>2, ModUnique
<1>4. w * q \in Nat /\ w * (q + 1) = w * q + w
  BY <1>1
<1>5. w * (q + 1) + 0 = n + w
  BY <1>1, <1>4
<1> QED BY <1>3, <1>5

LEMMA Multiple ==
  ASSUME NEW n \in Nat, NEW i \in Nat \ {0}, NEW w \in Nat \ {0}, n % i = 0, i % w = 0
  PROVE  n % w = 0
<1> DEFINE q == n \div i
           p == i \div w
<1>1. q \in Nat /\ n = (i * q) + (n % i) /\ p \in Nat /\ i = (w * p) + (i % w)
  BY Z3T(20)
<1> HIDE DEF q, p
<1>2. p * q \in Nat /\ 0 \in 0 .. w - 1
  BY <1>1
<1>3. (w * (p * q) + 0) % w = 0
  BY <1>2, ModUnique
<1>4. n = (w * p) * q /\ w * p \in Nat /\ (w * p) * q = w * (p * q)
  <2>1. i * q \in Nat /\ w * p \in Nat
    BY <1>1
  <2>2. n = i * q /\ i = w * p
    BY <1>1, <2>1
  <2>3. (w * p) * q = w * (p * q)
    BY <1>1
  <2> QED BY <2>1, <2>2, <2>3
<1>5. n = w * (p * q) + 0
  BY <1>1, <1>4
<1> QED BY <1>3, <1>5

-----------------------------------------------------------------------------
(***************************************************************************)
(* A round of the training loop.                                           *)
(***************************************************************************)
\* How old they may be before rollout n, the first of its window.
Old(c, n) == IF SyncDue(c, n) THEN n ELSE Since(c, n, n)

Resting(c, n) == Known(c, "any", Old(c, n), n, "any", "rest", "own")

LEMMA OldIs ==
  ASSUME NEW c, Fits(c), NEW n \in Nat
  PROVE  /\ Old(c, n) \in Nat
         /\ Kept(c, 0, n) \in Nat /\ Kept(c, 0, n) <= Old(c, n)
         /\ Kept(c, Old(c, n), n) = Old(c, n)
         /\ Kept(c, Kept(c, 0, n), n) = Kept(c, 0, n)
<1>1. Old(c, n) \in Nat
  BY SinceIs DEF Old
<1>2. ~Keeps(c) => Old(c, n) = n
  BY DEF Old, Since
<1> QED BY <1>1, <1>2 DEF Kept

\* In a window, a rollout finds weights as old as the one before it leaves them.
LEMMA NextRollout ==
  ASSUME NEW c, Fits(c), NEW n \in Nat, n % c.window = 0, NEW k \in 2 .. c.window
  PROVE  /\ ~SyncDue(c, n + k - 1) => Since(c, n + k - 2, n) <= Since(c, n + k - 1, n)
         /\ SyncDue(c, n + k - 1) /\ Extracts(c) => Mid(c) = 1
<1> DEFINE id == n + k - 1
<1>1. /\ c.window \in Nat \ {0} /\ c.interval \in Nat \ {0} /\ id \in Nat \ {0} /\ id - 1 \in Nat
      /\ (id - 1) + 1 = id /\ n + k - 2 = id - 1
  BY RecipeIs
<1>2. id % c.window # 0
  <2>1. k - 1 \in 0 .. c.window - 1
    BY <1>1
  <2>2. (n + (k - 1)) % c.window = k - 1
    BY <1>1, <2>1, InWindow
  <2>3. n + (k - 1) = id /\ k - 1 # 0
    BY <1>1
  <2> HIDE DEF id
  <2> QED BY <2>2, <2>3
<1> HIDE DEF id
<1>3. ASSUME ~SyncDue(c, id) PROVE Since(c, id - 1, n) <= Since(c, id, n)
  <2>1. id % c.interval # 0
    BY <1>1, <1>3 DEF SyncDue
  <2>2. id % c.interval = ((id - 1) % c.interval) + 1
    <3>1. ((id - 1) + 1) % c.interval # 0 => ((id - 1) + 1) % c.interval = ((id - 1) % c.interval) + 1
      BY <1>1, RemainderGrows
    <3> QED BY <1>1, <2>1, <3>1
  <2>3. (id - 1) % c.interval \in Nat
    BY <1>1, SinceIs
  <2>4. (id - 1) % c.interval <= id % c.interval
    BY <2>2, <2>3
  <2> QED BY <2>4 DEF Since
<1>4. ASSUME SyncDue(c, id), Extracts(c) PROVE Mid(c) = 1
  <2>1. CASE id % c.interval = 0
    <3>1. c.interval % c.window # 0
      BY <1>1, <1>2, <2>1, Multiple
    <3> QED BY <1>4, <3>1 DEF Mid, Extracts
  <2>2. CASE id = c.start
    BY <1>2, <2>2, RecipeIs
  <2> QED BY <1>4, <2>1, <2>2 DEF SyncDue
<1>5. ~SyncDue(c, id) => Since(c, n + k - 2, n) <= Since(c, id, n)
  BY <1>1, <1>3
<1> QED BY <1>4, <1>5 DEF id

\* After the update, the first rollout of the next window finds them no older than it may.
LEMMA NextWindow ==
  ASSUME NEW c, Fits(c), NEW n \in Nat, NEW m \in Nat, m <= n
  PROVE  Since(c, n, m) + 1 <= Old(c, n + 1) \/ m + 1 <= Old(c, n + 1)
<1>1. c.interval \in Nat \ {0} /\ n + 1 \in Nat
  BY RecipeIs
<1>2. CASE SyncDue(c, n + 1)
  <2>1. Old(c, n + 1) = n + 1
    BY <1>2 DEF Old
  <2> QED BY <2>1
<1>3. CASE ~SyncDue(c, n + 1) /\ ~Keeps(c)
  <2>1. Old(c, n + 1) = n + 1
    BY <1>3 DEF Old, Since
  <2> QED BY <2>1
<1>4. CASE ~SyncDue(c, n + 1) /\ Keeps(c)
  <2>1. (n + 1) % c.interval # 0
    BY <1>4 DEF SyncDue
  <2>2. (n + 1) % c.interval = (n % c.interval) + 1
    BY <1>1, <2>1, RemainderGrows
  <2>3. Old(c, n + 1) = (n + 1) % c.interval /\ Since(c, n, m) = n % c.interval
    BY <1>4 DEF Old, Since
  <2>4. (n + 1) % c.interval \in Nat
    BY <1>1, SinceIs
  <2> QED BY <2>2, <2>3, <2>4
<1> QED BY <1>2, <1>3, <1>4

\* The rollouts of a window, and what they do.
Ids(c, n)      == [k \in 1 .. c.window |-> n + k - 1]
Rollouts(c, n) == FlattenSeq([k \in 1 .. Len(Ids(c, n)) |-> RolloutAndScore(c, Ids(c, n)[k])])

LEMMA WindowRuns ==
  ASSUME NEW c, Fits(c), NEW n \in Nat, n % c.window = 0
  PROVE  Runs(c, Rollouts(c, n), Resting(c, n),
              Known(c, "any", Since(c, n + c.window - 1, n), n, "any", "rolled", "own"))
<1> DEFINE w == c.window
           ids == Ids(c, n)
           seqs == [k \in 1 .. Len(ids) |-> RolloutAndScore(c, ids[k])]
           R == [k \in 0 .. w |-> IF k = 0 THEN Resting(c, n)
                                  ELSE Known(c, "any", Since(c, n + k - 1, n), n, "any", "rolled", "own")]
<1>1. w \in Nat \ {0}
  BY RecipeIs
<1>2. Len(ids) = w /\ DOMAIN ids = 1 .. w /\ \A k \in 1 .. w : ids[k] = n + k - 1
  BY <1>1 DEF Ids
<1> HIDE DEF ids
<1>3. seqs = [k \in 1 .. w |-> RolloutAndScore(c, ids[k])]
  BY <1>2
<1>4. Len(seqs) = w /\ \A k \in 1 .. w : seqs[k] = RolloutAndScore(c, n + k - 1)
  BY <1>1, <1>2, <1>3
<1>5. /\ R[0] = Resting(c, n)
      /\ \A k \in 1 .. w : R[k] = Known(c, "any", Since(c, n + k - 1, n), n, "any", "rolled", "own")
  BY <1>1
<1> HIDE DEF R, seqs
<1>6. ASSUME NEW k \in 1 .. w PROVE Runs(c, seqs[k], R[k - 1], R[k])
  <2> DEFINE id == n + k - 1
             y == Since(c, id, n)
  <2>1. id \in Nat /\ seqs[k] = RolloutAndScore(c, id)
        /\ R[k] = Known(c, "any", y, n, "any", "rolled", "own")
    BY <1>4, <1>5
  <2>2. CASE k = 1
    <3> DEFINE a == Old(c, n)
    <3>1. id = n /\ a \in Int /\ R[k - 1] = Known(c, "any", a, n, "any", "rest", "own")
      BY <1>5, <2>2, OldIs DEF Resting
    <3>2. ~SyncDue(c, id) => a <= Since(c, id, n)
      BY <3>1, SinceIs DEF Old
    <3> HIDE DEF a, id
    <3>3. "rest" \in {"rest", "rolled"} /\ (id = 0 => n = 0)
          /\ (SyncDue(c, id) /\ Extracts(c) /\ "rest" = "rolled" => Mid(c) = 1)
      BY <3>1
    <3>4. Runs(c, RolloutAndScore(c, id), Known(c, "any", a, n, "any", "rest", "own"),
               Known(c, "any", Since(c, id, n), n, "any", "rolled", "own"))
      BY <2>1, <3>1, <3>2, <3>3, RolloutRuns
    <3> QED BY <2>1, <3>1, <3>4
  <2>3. CASE k # 1
    <3> DEFINE a == Since(c, n + k - 2, n)
    <3>1. k \in 2 .. c.window /\ n + k - 2 \in Nat /\ k - 1 \in 1 .. w /\ n + (k - 1) - 1 = n + k - 2
      BY <1>1, <2>3
    <3>2. a \in Int /\ R[k - 1] = Known(c, "any", a, n, "any", "rolled", "own")
      <4>1. a \in Int
        BY <3>1, SinceIs
      <4>2. R[k - 1] = Known(c, "any", Since(c, n + (k - 1) - 1, n), n, "any", "rolled", "own")
        BY <1>5, <3>1
      <4> QED BY <3>1, <4>1, <4>2
    <3>3. /\ ~SyncDue(c, id) => a <= Since(c, id, n)
          /\ SyncDue(c, id) /\ Extracts(c) => Mid(c) = 1
      BY <3>1, NextRollout
    <3>4. id # 0
      BY <3>1
    <3> HIDE DEF a, id
    <3>5. "rolled" \in {"rest", "rolled"} /\ (id = 0 => n = 0)
          /\ (SyncDue(c, id) /\ Extracts(c) /\ "rolled" = "rolled" => Mid(c) = 1)
      BY <3>3, <3>4
    <3>6. Runs(c, RolloutAndScore(c, id), Known(c, "any", a, n, "any", "rolled", "own"),
               Known(c, "any", Since(c, id, n), n, "any", "rolled", "own"))
      BY <2>1, <3>2, <3>3, <3>5, RolloutRuns
    <3> QED BY <2>1, <3>2, <3>6
  <2> QED BY <2>2, <2>3
<1>7. Runs(c, FlattenSeq(seqs), R[0], R[w])
  <2> HIDE DEF w
  <2> QED BY <1>1, <1>4, <1>6, RunsFlat
<1>8. R[w] = Known(c, "any", Since(c, n + c.window - 1, n), n, "any", "rolled", "own")
  BY <1>1, <1>5
<1>9. Rollouts(c, n) = FlattenSeq(seqs)
  BY DEF Rollouts, seqs, ids
<1> QED BY <1>5, <1>7, <1>8, <1>9

LEMMA TrainStepRuns ==
  ASSUME NEW c, Fits(c), NEW n \in Nat, n % c.window = 0
  PROVE  Runs(c, TrainStep(c, Ids(c, n)), Resting(c, n), Resting(c, n + c.window))
<1> DEFINE id == n + c.window - 1
           a  == Since(c, id, n)
           s0 == Rollouts(c, n)
           s  == s0 \o <<Enter("train", {})>> \o If(c.sync = "lora", <<Do("invalidate")>>)
           P0 == Resting(c, n)
           P1 == Known(c, "any", a, n, "any", "rolled", "own")
           P2 == Known(c, "train", a, n, "any", "back", "own")
           P3 == Known(c, "train", a, n, "none", "back", "own")
           P4 == Known(c, "any", a + 1, n + 1, "any", "rest", "own")
           e  == n + c.window
           P5 == Resting(c, e)
<1>1. c.window \in Nat \ {0} /\ id \in Nat /\ n <= id /\ e \in Nat /\ id + 1 = e
  BY RecipeIs
<1>2. a \in Nat /\ a \in Int /\ Kept(c, a, n) = a
  <2> HIDE DEF id
  <2>1. a \in Nat
    BY <1>1, SinceIs
  <2>2. Kept(c, a, n) = a
    BY DEF Kept, Since
  <2> QED BY <2>1, <2>2
<1>3. /\ P0 \in SUBSET States(c) /\ P1 \in SUBSET States(c) /\ P2 \in SUBSET States(c)
      /\ P3 \in SUBSET States(c) /\ P4 \in SUBSET States(c) /\ P5 \in SUBSET States(c)
  BY KnownIs DEF Resting
<1>4. Runs(c, s0, P0, P1)
  BY WindowRuns
<1> HIDE DEF s0
<1>5. Runs(c, <<Enter("train", {})>>, P1, P2)
  <2> HIDE DEF a
  <2>1. Runs(c, <<Enter("train", {})>>, P1, Known(c, "train", Kept(c, a, n), n, "any", "back", "own"))
    BY <1>2, ReturnRuns
  <2> QED BY <1>2, <2>1
<1>6. Runs(c, If(c.sync = "lora", <<Do("invalidate")>>), P2, P3)
  <2> HIDE DEF a
  <2>1. Runs(c, <<Do("invalidate")>>, P2, P3)
    BY <1>2, InvalidateRuns
  <2>2. c.sync # "lora" => P2 \subseteq P3
    BY NothingStaged
  <2> HIDE DEF P2, P3
  <2> QED BY <1>3, <2>1, <2>2, RunsIf
<1>7. Runs(c, <<Do("train")>>, P3, P4)
  <2> HIDE DEF a
  <2> QED BY <1>2, TrainRuns
<1>8. P4 \subseteq P5
  <2> DEFINE b == Old(c, e)
  <2>1. b \in Int
    <3> HIDE DEF e
    <3> QED BY <1>1, OldIs
  <2>2. a + 1 <= b \/ n + 1 <= b
    <3>1. Since(c, id, n) + 1 <= Old(c, id + 1) \/ n + 1 <= Old(c, id + 1)
      <4> HIDE DEF id
      <4> QED BY <1>1, NextWindow
    <3> QED BY <1>1, <3>1
  <2>3. a + 1 \in Int /\ n + 1 \in Nat /\ n + 1 <= e /\ "any" \notin Roles
    BY <1>1, <1>2 DEF Roles
  <2> HIDE DEF a, b, e
  <2>4. P4 \subseteq Known(c, "any", b, e, "any", "rest", "own")
    <3> DEFINE a1 == a + 1
               n1 == n + 1
    <3>1. a1 \in Int /\ n1 \in Nat /\ n1 <= e /\ (a1 <= b \/ n1 <= b)
      BY <2>2, <2>3
    <3> HIDE DEF a1, n1
    <3>2. Known(c, "any", a1, n1, "any", "rest", "own") \subseteq Known(c, "any", b, e, "any", "rest", "own")
      BY <1>1, <2>1, <3>1, KnownAges
    <3> QED BY <3>2 DEF a1, n1
  <2> QED BY <2>4 DEF Resting, b
<1>9. TrainStep(c, Ids(c, n)) = s \o <<Do("train")>>
  BY Zenon DEF TrainStep, Rollouts, s0
<1>10. P0 \subseteq P0
  OBVIOUS
<1> HIDE DEF P0, P1, P2, P3, P4, P5
<1>11. Runs(c, s0 \o <<Enter("train", {})>>, P0, P2)
  BY <1>4, <1>5, RunsThen
<1>12. Runs(c, s, P0, P3)
  BY <1>6, <1>11, RunsThen
<1> HIDE DEF s
<1>13. Runs(c, s \o <<Do("train")>>, P0, P4)
  BY <1>7, <1>12, RunsThen
<1>14. Runs(c, TrainStep(c, Ids(c, n)), P0, P5)
  BY <1>8, <1>9, <1>10, <1>13, RunsLess
<1> QED BY <1>14 DEF P0, P5, e

\* A chunk of an evaluation: generate with today's weights, then score.
LEMMA ChunkRuns ==
  ASSUME NEW c, Fits(c), NEW n \in Nat, NEW a \in Int, NEW sync \in BOOLEAN,
         NEW k \in {"rest", "still"}, sync \/ (k = "still" /\ a <= 0)
  PROVE  Runs(c, Generate(c, sync, Sleeps(c), TRUE)
                   \o <<Enter("reward", IF Sleeps(c) THEN {} ELSE {"rollout"}), Do("score")>>,
              Known(c, "any", a, n, "any", k, "own"),
              Known(c, "any", IF sync THEN Kept(c, 0, n) ELSE Kept(c, a, n), n, "any", "still", "own"))
<1> DEFINE b == IF sync THEN 0 ELSE a
           x == Kept(c, b, n)
           keep == IF Sleeps(c) THEN {} ELSE {"rollout"}
           P0 == Known(c, "any", a, n, "any", k, "own")
           P1 == Known(c, "any", x, n, "any", "still", "own")
           P2 == Known(c, "reward", x, n, "any", "still", "own")
<1>1. b \in Int /\ b <= 0
  OBVIOUS
<1>2. x \in Int /\ Kept(c, x, n) = x /\ x = IF sync THEN Kept(c, 0, n) ELSE Kept(c, a, n)
  <2>1. x = IF sync THEN Kept(c, 0, n) ELSE Kept(c, a, n)
    OBVIOUS
  <2> HIDE DEF b
  <2> QED BY <1>1, <2>1 DEF Kept
<1>3. keep \in SUBSET c.resident
  BY DEF Sleeps
<1>4. Runs(c, Generate(c, sync, Sleeps(c), TRUE), P0, P1)
  <2>1. b = IF sync THEN 0 ELSE a
    OBVIOUS
  <2>2. /\ k \in {"rest", "still", "rolled"} /\ "still" \in {"still", "rolled"} /\ TRUE \in BOOLEAN
        /\ TRUE /\ c.sync # "none" => b <= 0
        /\ ~TRUE /\ c.sync # "none" /\ (Keeps(c) \/ c.interval = 1) => b < c.interval
    BY <1>1
  <2>3. sync /\ Extracts(c) /\ k = "rolled" => Mid(c) = 1
    OBVIOUS
  <2>4. "still" = "rolled" \/ k = "still" \/ (k = "rest" /\ (sync \/ ~Extracts(c)))
    OBVIOUS
  <2> HIDE DEF b
  <2> QED BY <2>1, <2>2, <2>3, <2>4, GenerateRuns
<1> HIDE DEF x, keep
<1>5. Runs(c, <<Enter("reward", keep)>>, P1, P2)
  <2>1. Runs(c, <<Enter("reward", keep)>>, P1,
             Known(c, "reward", IF "reward" = "rollout" THEN x ELSE Kept(c, x, n), n, "any", "still", "own"))
    BY <1>2, <1>3, EnterRuns
  <2> QED BY <1>2, <2>1
<1>6. Runs(c, <<Do("score")>>, P2, P2)
  BY <1>2, ScoreRuns
<1>7. P2 \subseteq P1
  <2>1. "any" \notin Roles
    BY DEF Roles
  <2> QED BY <1>2, <2>1, KnownMore
<1>8. <<Enter("reward", keep), Do("score")>> = <<Enter("reward", keep)>> \o <<Do("score")>>
  OBVIOUS
<1>9. P0 \subseteq P0 /\ P1 \subseteq P1
  OBVIOUS
<1> HIDE DEF P0, P1, P2
<1>10. Runs(c, <<Enter("reward", keep)>> \o <<Do("score")>>, P1, P2)
  BY <1>5, <1>6, RunsThen
<1>11. Runs(c, <<Enter("reward", keep), Do("score")>>, P1, P1)
  BY <1>7, <1>8, <1>9, <1>10, RunsLess
<1>12. Runs(c, Generate(c, sync, Sleeps(c), TRUE) \o <<Enter("reward", keep), Do("score")>>, P0, P1)
  BY <1>4, <1>11, RunsThen
<1> QED BY <1>2, <1>12 DEF P0, P1, keep

LEMMA EvalPassRuns ==
  ASSUME NEW c, Fits(c), NEW n \in Nat, NEW chunks \in Nat \ {0}
  PROVE  Runs(c, EvalPass(c, chunks), Resting(c, n), Resting(c, n))
<1> DEFINE x == Kept(c, 0, n)
           Q == Known(c, "any", x, n, "any", "still", "own")
           keep == IF Sleeps(c) THEN {} ELSE {"rollout"}
           seqs == [k \in 1 .. chunks |-> Generate(c, ChunkSync(c, k), Sleeps(c), TRUE)
                                            \o <<Enter("reward", keep), Do("score")>>]
           R == [k \in 0 .. chunks |-> IF k = 0 THEN Resting(c, n) ELSE Q]
<1>1. x \in Int /\ Kept(c, x, n) = x /\ Old(c, n) \in Int /\ x <= Old(c, n) /\ (Keeps(c) => x = 0)
  BY OldIs DEF Kept
<1> HIDE DEF x
<1>2. /\ Len(seqs) = chunks
      /\ \A k \in 1 .. chunks : seqs[k] = Generate(c, ChunkSync(c, k), Sleeps(c), TRUE)
                                            \o <<Enter("reward", keep), Do("score")>>
  <2> DEFINE t(k) == Generate(c, ChunkSync(c, k), Sleeps(c), TRUE)
                       \o <<Enter("reward", keep), Do("score")>>
  <2>1. seqs = [k \in 1 .. chunks |-> t(k)]
    OBVIOUS
  <2> HIDE DEF seqs, t
  <2>2. Len(seqs) = chunks /\ \A k \in 1 .. chunks : seqs[k] = t(k)
    BY <2>1
  <2> QED BY <2>2 DEF t
<1>3. R[0] = Resting(c, n) /\ (\A k \in 1 .. chunks : R[k] = Q) /\ R[chunks] = Q
  OBVIOUS
<1> HIDE DEF R
<1>4. ASSUME NEW k \in 1 .. chunks PROVE Runs(c, seqs[k], R[k - 1], R[k])
  <2> DEFINE sync == ChunkSync(c, k)
  <2>1. sync \in BOOLEAN /\ (k = 1 => sync) /\ (~sync => ~Sleeps(c))
    BY DEF ChunkSync, Sleeps
  <2>2. CASE k = 1
    <3>1. R[k - 1] = Known(c, "any", Old(c, n), n, "any", "rest", "own")
      BY <1>3, <2>2 DEF Resting
    <3> DEFINE a == Old(c, n)
    <3>2. sync /\ a \in Int
      BY <1>1, <2>1, <2>2
    <3>3. "rest" \in {"rest", "still"} /\ (sync \/ ("rest" = "still" /\ a <= 0))
      BY <3>2
    <3> HIDE DEF sync, a
    <3>4. Runs(c, Generate(c, sync, Sleeps(c), TRUE)
                    \o <<Enter("reward", IF Sleeps(c) THEN {} ELSE {"rollout"}), Do("score")>>,
               Known(c, "any", a, n, "any", "rest", "own"),
               Known(c, "any", IF sync THEN Kept(c, 0, n) ELSE Kept(c, a, n), n, "any", "still", "own"))
      BY <2>1, <3>2, <3>3, ChunkRuns
    <3> QED BY <1>2, <1>3, <3>1, <3>2, <3>4 DEF a, sync, x
  <2>3. CASE k # 1
    <3>1. R[k - 1] = Known(c, "any", x, n, "any", "still", "own")
      <4>1. k - 1 \in 1 .. chunks
        BY <2>3
      <4> QED BY <1>3, <4>1
    <3>2. "still" \in {"rest", "still"} /\ (sync \/ ("still" = "still" /\ x <= 0))
      BY <1>1, <2>1 DEF Keeps
    <3> HIDE DEF sync
    <3>3. Runs(c, Generate(c, sync, Sleeps(c), TRUE)
                    \o <<Enter("reward", IF Sleeps(c) THEN {} ELSE {"rollout"}), Do("score")>>,
               Known(c, "any", x, n, "any", "still", "own"),
               Known(c, "any", IF sync THEN Kept(c, 0, n) ELSE Kept(c, x, n), n, "any", "still", "own"))
      BY <1>1, <2>1, <3>2, ChunkRuns
    <3>4. (IF sync THEN Kept(c, 0, n) ELSE Kept(c, x, n)) = x
      BY <1>1 DEF x
    <3>5. R[k] = Q /\ seqs[k] = Generate(c, sync, Sleeps(c), TRUE) \o <<Enter("reward", keep), Do("score")>>
      BY <1>2, <1>3 DEF sync
    <3> HIDE DEF seqs
    <3> QED BY <3>1, <3>3, <3>4, <3>5
  <2> QED BY <2>2, <2>3
<1>5. EvalPass(c, chunks) = FlattenSeq(seqs)
  BY Zenon DEF EvalPass
<1> HIDE DEF seqs
<1>6. Runs(c, FlattenSeq(seqs), R[0], R[chunks])
  BY <1>2, <1>4, RunsFlat
<1>7. Q \subseteq Resting(c, n)
  <2> DEFINE y == Old(c, n)
  <2>1. y \in Int /\ x <= y
    BY <1>1
  <2> HIDE DEF y
  <2>2. Q \subseteq Known(c, "any", y, n, "any", "rest", "own")
    BY <1>1, <2>1, StillRests
  <2> QED BY <2>2 DEF y, Resting
<1>8. Resting(c, n) \subseteq Resting(c, n)
  OBVIOUS
<1> QED BY <1>3, <1>5, <1>6, <1>7, <1>8, RunsLess

LEMMA EmptyRuns ==
  ASSUME NEW c, Fits(c), NEW n \in Nat
  PROVE  Runs(c, EmptyEvaluation(c), Resting(c, n), Resting(c, n))
<1> DEFINE split == c.sync = "lora"
           a  == Old(c, n)
           a1 == IF split THEN Kept(c, a, n) ELSE a
           st == IF split THEN "held" ELSE "any"
           x  == Kept(c, 0, n)
           z  == 0
           P0 == Known(c, "any", a, n, "any", "rest", "own")
           P1 == Known(c, "any", a1, n, st, "still", "own")
           P2 == Known(c, "rollout", a1, n, st, "still", "own")
           P3 == Known(c, "rollout", z, n, "any", "still", "own")
           P4 == Known(c, "any", x, n, "any", "still", "own")
           P5 == Known(c, "any", a, n, "any", "rest", "own")
<1>1. /\ a \in Int /\ a1 \in Int /\ x \in Int /\ z \in Int /\ x <= a
      /\ split \in BOOLEAN /\ Sleeps(c) \in BOOLEAN /\ {} \in SUBSET c.resident /\ "any" \notin Roles
  BY OldIs DEF Sleeps, Roles
<1>2. /\ P0 \in SUBSET States(c) /\ P1 \in SUBSET States(c) /\ P2 \in SUBSET States(c)
      /\ P3 \in SUBSET States(c) /\ P4 \in SUBSET States(c) /\ P5 \in SUBSET States(c)
  BY KnownIs
<1> HIDE DEF a
<1>3. Runs(c, If(split, <<Do("cache")>>), P0, P1)
  <2>1. ASSUME split PROVE Runs(c, <<Do("cache")>>, P0, P1)
    <3>1. Runs(c, <<Do("cache")>>, Known(c, "any", a, n, "any", "rest", "own"),
               Known(c, "any", Kept(c, a, n), n, "held", IF "rest" = "rolled" THEN "rest" ELSE "still", "own"))
      BY <1>1, <2>1, CacheRuns
    <3>2. a1 = Kept(c, a, n) /\ st = "held"
      BY <2>1
    <3> HIDE DEF a1, st
    <3> QED BY <3>1, <3>2
  <2>2. ASSUME ~split PROVE P0 \subseteq P1
    <3>1. a1 = a /\ st = "any" /\ ~Extracts(c)
      BY <2>2 DEF Extracts
    <3> HIDE DEF a1, st
    <3>2. ASSUME NEW g \in States(c), Knows(c, "any", a, n, "any", "rest", "own", g)
          PROVE  Knows(c, "any", a, n, "any", "still", "own", g)
      BY <3>1, <3>2 DEF Knows, Turns
    <3> QED BY <3>1, <3>2, KnownIs
  <2> HIDE DEF P0, P1, split
  <2> QED BY <1>1, <1>2, <2>1, <2>2, RunsIf
<1>4. Runs(c, <<Enter("rollout", {})>>, P1, P2)
  <2> HIDE DEF a1, st
  <2>1. "still" \in {"still", "rolled"} /\ "rollout" \in {"rollout", "reward"}
    OBVIOUS
  <2>2. Runs(c, <<Enter("rollout", {})>>, P1,
             Known(c, "rollout", IF "rollout" = "rollout" THEN a1 ELSE Kept(c, a1, n), n, st, "still", "own"))
    BY <1>1, <2>1, EnterRuns
  <2> QED BY <2>2
<1>5. Runs(c, Push(c, split), P2, P3)
  <2>1. ~split /\ c.sync # "none" => ~ParksTrain(c)
    BY RecipeIs
  <2>2. split => c.sync = "lora"
    OBVIOUS
  <2> HIDE DEF a1, split
  <2>3. Runs(c, Push(c, split), P2, Known(c, "rollout", 0, n, "any", "still", "own"))
    BY <1>1, <2>1, <2>2, SendRuns
  <2> QED BY <2>3
<1>6. Runs(c, If(Sleeps(c), <<Set("rollout", FALSE)>>), P3, P4)
  <2>1. Runs(c, <<Set("rollout", FALSE)>>, P3, Known(c, "any", Kept(c, z, n), n, "any", "still", "own"))
    <3> HIDE DEF z
    <3> QED BY <1>1, SleepRuns
  <2>2. ASSUME ~Sleeps(c) PROVE P3 \subseteq P4
    <3>1. x = z
      BY <2>2 DEF Kept, Keeps
    <3> HIDE DEF x, z
    <3> QED BY <1>1, <3>1, KnownMore
  <2>3. Runs(c, <<Set("rollout", FALSE)>>, P3, P4)
    BY <2>1
  <2> HIDE DEF P3, P4
  <2> QED BY <1>1, <1>2, <2>2, <2>3, RunsIf
<1>7. P4 \subseteq P5
  <2> HIDE DEF x
  <2> QED BY <1>1, StillRests
<1> DEFINE s0 == If(split, <<Do("cache")>>)
           s1 == s0 \o <<Enter("rollout", {})>>
           s2 == s1 \o Push(c, split)
           s3 == If(Sleeps(c), <<Set("rollout", FALSE)>>)
<1>8. EmptyEvaluation(c) = s2 \o s3
  BY Zenon DEF EmptyEvaluation
<1>9. P0 \subseteq P0 /\ P5 = Resting(c, n) /\ P0 = Resting(c, n)
  BY DEF Resting, a
<1> HIDE DEF P0, P1, P2, P3, P4, P5, s0, s3
<1>10. Runs(c, s1, P0, P2)
  BY <1>3, <1>4, RunsThen DEF s0
<1> HIDE DEF s1
<1>11. Runs(c, s2, P0, P3)
  BY <1>5, <1>10, RunsThen
<1> HIDE DEF s2
<1>12. Runs(c, s2 \o s3, P0, P4)
  BY <1>6, <1>11, RunsThen DEF s3
<1>13. Runs(c, s2 \o s3, P0, P5)
  BY <1>7, <1>9, <1>12, RunsLess
<1> QED BY <1>8, <1>9, <1>13

LEMMA EvaluateRuns ==
  ASSUME NEW c, Fits(c), NEW n \in Nat, NEW chunks \in Nat
  PROVE  Runs(c, Evaluate(c, chunks), Resting(c, n), Resting(c, n))
<1>1. CASE chunks = 0
  BY <1>1, EmptyRuns DEF Evaluate
<1>2. CASE chunks # 0
  BY <1>2, EvalPassRuns DEF Evaluate
<1> QED BY <1>1, <1>2

LEMMA SavingRuns ==
  ASSUME NEW c, Fits(c), NEW n \in Nat
  PROVE  Runs(c, <<Enter("train", {}), Do("save")>>, Resting(c, n), Resting(c, n))
<1> DEFINE a == Old(c, n)
           P == Known(c, "any", a, n, "any", "rest", "own")
           Q == Known(c, "train", a, n, "any", "back", "own")
<1>1. a \in Int /\ Kept(c, a, n) = a
  BY OldIs
<1> HIDE DEF a
<1>2. Runs(c, <<Enter("train", {})>>, P, Q)
  <2>1. Runs(c, <<Enter("train", {})>>, P, Known(c, "train", Kept(c, a, n), n, "any", "back", "own"))
    BY <1>1, ReturnRuns
  <2> QED BY <1>1, <2>1
<1>3. Runs(c, <<Do("save")>>, Q, P)
  BY <1>1, SaveRuns
<1>4. <<Enter("train", {}), Do("save")>> = <<Enter("train", {})>> \o <<Do("save")>>
  OBVIOUS
<1>5. P = Resting(c, n)
  BY DEF Resting, a
<1> HIDE DEF P, Q
<1>6. Runs(c, <<Enter("train", {})>> \o <<Do("save")>>, P, P)
  BY <1>2, <1>3, RunsThen
<1> QED BY <1>4, <1>5, <1>6

LEMMA RoundRuns ==
  ASSUME NEW c, Fits(c), NEW n \in Nat, n % c.window = 0, NEW chunks \in Nat,
         NEW evaluates \in BOOLEAN, NEW saves \in BOOLEAN
  PROVE  Runs(c, TrainStep(c, Ids(c, n)) \o If(evaluates, Evaluate(c, chunks))
                   \o If(saves, <<Enter("train", {}), Do("save")>>),
              Resting(c, n), Resting(c, n + c.window))
<1> DEFINE e  == n + c.window
           P  == Resting(c, n)
           Q  == Resting(c, e)
           s0 == TrainStep(c, Ids(c, n))
           s1 == Evaluate(c, chunks)
           s2 == <<Enter("train", {}), Do("save")>>
<1>1. e \in Nat
  BY RecipeIs
<1>2. Q \in SUBSET States(c) /\ Q \subseteq Q
  BY KnownIs DEF Resting
<1>3. Runs(c, s0, P, Q)
  BY TrainStepRuns
<1> HIDE DEF e
<1>4. Runs(c, s1, Q, Q)
  BY <1>1, EvaluateRuns
<1>5. Runs(c, s2, Q, Q)
  BY <1>1, SavingRuns
<1> HIDE DEF P, Q, s0, s1, s2
<1>6. Runs(c, s0 \o If(evaluates, s1), P, Q)
  BY <1>2, <1>3, <1>4, RunsLast
<1>7. Runs(c, s0 \o If(evaluates, s1) \o If(saves, s2), P, Q)
  BY <1>2, <1>5, <1>6, RunsLast
<1> QED BY <1>7 DEF P, Q, e, s0, s1, s2

-----------------------------------------------------------------------------
(***************************************************************************)
(* Steps that put others in their place.                                   *)
(***************************************************************************)
\* The states in which the roles of X have left, and those of Y have come.
Moved(c, g, X, Y) == {h \in States(c) : h.staged = g.staged /\ Shifts(c, g, h, X, Y)}

LEMMA MovedIs ==
  ASSUME NEW c, NEW g, NEW X, NEW Y
  PROVE  /\ Moved(c, g, X, Y) \in SUBSET States(c)
         /\ \A h : h \in Moved(c, g, X, Y)
                     <=> h \in States(c) /\ h.staged = g.staged /\ Shifts(c, g, h, X, Y)
BY DEF Moved

LEMMA LeaveRuns ==
  ASSUME NEW c, NEW g \in States(c), g.returns <= Bound(c), NEW X \in SUBSET Roles,
         NEW x \in Roles, x \in Parkable(c), x \notin c.resident
  PROVE  Runs(c, <<Move(x, FALSE)>>, Moved(c, g, X, {}), Moved(c, g, X \cup {x}, {}))
<1> DEFINE P == Moved(c, g, X, {})
           Q == Moved(c, g, X \cup {x}, {})
           s == Move(x, FALSE)
<1>1. P \in SUBSET States(c) /\ Q \in SUBSET States(c)
  BY MovedIs
<1>2. s \in Steps(c)
  <2>1. FALSE \in BOOLEAN
    OBVIOUS
  <2> QED BY <2>1, IsStep
<1>3. s.op = "move" /\ s.role = x /\ s.on = FALSE
  BY DEF Move
<1> HIDE DEF s
<1>4. ASSUME NEW h \in P
      PROVE  /\ Finds(c, s, h)
             /\ \A e \in States(c) : Leads(c, s, h, e) => e \in Q
  <2>1. h \in States(c) /\ h.staged = g.staged /\ Shifts(c, g, h, X, {})
    BY <1>4, MovedIs
  <2>2. h.returns = g.returns
    BY <2>1 DEF Shifts
  <2>3. Finds(c, s, h)
    BY <1>3, <2>2 DEF Finds, Works
  <2>4. ASSUME NEW e \in States(c), Leads(c, s, h, e)
        PROVE  e \in Q
    <3>1. e.staged = h.staged /\ Shifts(c, h, e, {x}, {})
      BY <1>3, <2>4 DEF Leads
    <3>2. Shifts(c, g, e, X \cup {x}, {})
      <4>1. e.recorded = (g.recorded \ (X \cup {x})) \cup {} /\ e.gpu = (g.gpu \ (X \cup {x})) \cup {}
        BY <2>1, <3>1 DEF Shifts
      <4>2. /\ e.adapter = IF "rollout" \in X \cup {x} /\ c.sync = "lora" THEN Nothing ELSE g.adapter
            /\ e.returns = g.returns
            /\ e.version = g.version /\ e.weights = g.weights
        BY <2>1, <3>1 DEF Shifts
      <4> QED BY <4>1, <4>2 DEF Shifts
    <3> QED BY <2>1, <3>1, <3>2, MovedIs
  <2> QED BY <2>3, <2>4
<1> HIDE DEF P, Q
<1>5. Runs(c, <<s>>, P, Q)
  BY <1>1, <1>2, <1>4, RunsOne
<1> QED BY <1>5 DEF P, Q, s

LEMMA ComeRuns ==
  ASSUME NEW c, NEW g \in States(c), g.returns <= Bound(c), NEW X \in SUBSET Roles,
         NEW x \in Roles, x \in Parkable(c), \A y \in g.recorded : y \in X \/ y \in c.resident
  PROVE  Runs(c, <<Move(x, TRUE)>>, Moved(c, g, X, {}), Moved(c, g, X, {x}))
<1> DEFINE P == Moved(c, g, X, {})
           Q == Moved(c, g, X, {x})
           s == Move(x, TRUE)
<1>1. P \in SUBSET States(c) /\ Q \in SUBSET States(c)
  BY MovedIs
<1>2. s \in Steps(c)
  <2>1. TRUE \in BOOLEAN
    OBVIOUS
  <2> QED BY <2>1, IsStep
<1>3. s.op = "move" /\ s.role = x /\ s.on = TRUE
  BY DEF Move
<1> HIDE DEF s
<1>4. ASSUME NEW h \in P
      PROVE  /\ Finds(c, s, h)
             /\ \A e \in States(c) : Leads(c, s, h, e) => e \in Q
  <2>1. h \in States(c) /\ h.staged = g.staged /\ Shifts(c, g, h, X, {})
    BY <1>4, MovedIs
  <2>2. h.returns = g.returns /\ \A y \in h.recorded : y \in c.resident
    BY <2>1 DEF Shifts
  <2>3. Finds(c, s, h)
    BY <1>3, <2>2 DEF Finds, Works
  <2>4. ASSUME NEW e \in States(c), Leads(c, s, h, e)
        PROVE  e \in Q
    <3>1. e.staged = h.staged /\ Shifts(c, h, e, {}, {x})
      BY <1>3, <2>4 DEF Leads
    <3>2. Shifts(c, g, e, X, {x})
      <4>1. e.recorded = (g.recorded \ X) \cup {x} /\ e.gpu = (g.gpu \ X) \cup {x}
        BY <2>1, <3>1 DEF Shifts
      <4>2. /\ e.adapter = IF "rollout" \in X /\ c.sync = "lora" THEN Nothing ELSE g.adapter
            /\ e.returns = IF "train" \in {x} THEN g.returns + 1 ELSE g.returns
            /\ e.version = g.version /\ e.weights = g.weights
        BY <2>1, <3>1 DEF Shifts
      <4> QED BY <4>1, <4>2 DEF Shifts
    <3> QED BY <2>1, <3>1, <3>2, MovedIs
  <2> QED BY <2>3, <2>4
<1> HIDE DEF P, Q
<1>5. Runs(c, <<s>>, P, Q)
  BY <1>1, <1>2, <1>4, RunsOne
<1> QED BY <1>5 DEF P, Q, s

LEMMA NotYetMoved ==
  ASSUME NEW c, NEW g \in States(c) PROVE {g} \subseteq Moved(c, g, {}, {})
<1>1. g.recorded = (g.recorded \ {}) \cup {} /\ g.gpu = (g.gpu \ {}) \cup {}
  OBVIOUS
<1>2. Shifts(c, g, g, {}, {})
  BY <1>1 DEF Shifts
<1> QED BY <1>2, MovedIs

\* A role leaves, if it is one of those that do.
LEMMA OutRuns ==
  ASSUME NEW c, NEW g \in States(c), g.returns <= Bound(c), NEW L \in SUBSET Roles,
         \A y \in L : y \in Parkable(c) /\ y \notin c.resident,
         NEW A \in SUBSET Roles, NEW x \in Roles
  PROVE  Runs(c, If(x \in L, <<Move(x, FALSE)>>), Moved(c, g, L \cap A, {}),
              Moved(c, g, L \cap (A \cup {x}), {}))
<1> DEFINE P == Moved(c, g, L \cap A, {})
           Q == Moved(c, g, L \cap (A \cup {x}), {})
           b == x \in L
<1>1. P \in SUBSET States(c) /\ Q \in SUBSET States(c) /\ b \in BOOLEAN
  BY MovedIs
<1>2. ASSUME b PROVE Runs(c, <<Move(x, FALSE)>>, P, Q)
  <2>1. L \cap (A \cup {x}) = (L \cap A) \cup {x} /\ L \cap A \in SUBSET Roles
    BY <1>2
  <2>2. Runs(c, <<Move(x, FALSE)>>, Moved(c, g, L \cap A, {}), Moved(c, g, (L \cap A) \cup {x}, {}))
    BY <1>2, <2>1, LeaveRuns
  <2> QED BY <2>1, <2>2
<1>3. ASSUME ~b PROVE P \subseteq Q
  <2>1. L \cap (A \cup {x}) = L \cap A
    BY <1>3
  <2> QED BY <2>1
<1> HIDE DEF P, Q, b
<1>4. Runs(c, If(b, <<Move(x, FALSE)>>), P, Q)
  BY <1>1, <1>2, <1>3, RunsIf
<1> QED BY <1>4 DEF P, Q, b

\* A request moves a role that is not where it is wanted.
LEMMA RequestIs ==
  ASSUME Fits(recipe), recorded \subseteq Parkable(recipe), NEW r
  PROVE  /\ Request(r, FALSE) = If(r \in recorded /\ r \notin recipe.resident, <<Move(r, FALSE)>>)
         /\ Request(r, TRUE) = If(r \in Parkable(recipe) /\ r \notin recorded, <<Move(r, TRUE)>>)
<1>1. Request(r, FALSE) = If(r \in recorded /\ r \notin recipe.resident, <<Move(r, FALSE)>>)
  <2>1. (r \in Parkable(recipe) /\ (r \in recorded) # FALSE /\ (FALSE \/ r \notin recipe.resident))
          <=> (r \in recorded /\ r \notin recipe.resident)
    <3>1. (r \in recorded) # FALSE <=> r \in recorded
      <4>1. CASE r \in recorded
        <5>1. (r \in recorded) = TRUE
          BY <4>1
        <5> QED BY <4>1, <5>1
      <4>2. CASE r \notin recorded
        <5>1. (r \in recorded) = FALSE
          BY <4>2
        <5> QED BY <4>2, <5>1
      <4> QED BY <4>1, <4>2
    <3>2. r \in recorded => r \in Parkable(recipe)
      OBVIOUS
    <3> QED BY <3>1, <3>2
  <2>2. CASE r \in recorded /\ r \notin recipe.resident
    BY <2>1, <2>2 DEF Request, If
  <2>3. CASE ~(r \in recorded /\ r \notin recipe.resident)
    BY <2>1, <2>3 DEF Request, If
  <2> QED BY <2>2, <2>3
<1>2. Request(r, TRUE) = If(r \in Parkable(recipe) /\ r \notin recorded, <<Move(r, TRUE)>>)
  <2>1. (r \in Parkable(recipe) /\ (r \in recorded) # TRUE /\ (TRUE \/ r \notin recipe.resident))
          <=> (r \in Parkable(recipe) /\ r \notin recorded)
    OBVIOUS
  <2>2. CASE r \in Parkable(recipe) /\ r \notin recorded
    BY <2>1, <2>2 DEF Request, If
  <2>3. CASE ~(r \in Parkable(recipe) /\ r \notin recorded)
    BY <2>1, <2>3 DEF Request, If
  <2> QED BY <2>2, <2>3
<1> QED BY <1>1, <1>2

LEMMA NowIs ==
  /\ Now.recorded = recorded /\ Now.gpu = gpu /\ Now.version = version /\ Now.staged = staged
  /\ Now.adapter = adapter /\ Now.returns = returns
  /\ Now.weights = IF averaged THEN "averaged" ELSE "own"
BY DEF Now

\* Entering a phase: everybody else leaves before the role comes in.
LEMMA TransitionsRun ==
  ASSUME Fits(recipe), Now \in States(recipe), NEW r \in Roles, NEW keep \in SUBSET recipe.resident,
         returns <= Bound(recipe)
  PROVE  Runs(recipe, Transitions(r, keep), {Now}, After(recipe, Enter(r, keep), Now))
<1> DEFINE c == recipe
           g == Now
           L == Leaves(c, g, r, keep)
           Y == Comes(c, g, r)
           out(x) == If(x # r /\ x \notin keep, Request(x, FALSE))
           P0 == Moved(c, g, {}, {})
           P1 == Moved(c, g, L \cap {"train"}, {})
           P2 == Moved(c, g, L \cap {"train", "rollout"}, {})
           P3 == Moved(c, g, L, {})
           P4 == Moved(c, g, L, Y)
<1>1. /\ recorded \subseteq Parkable(c) /\ g.returns <= Bound(c) /\ g.recorded = recorded
      /\ Parkable(c) \subseteq Roles
  BY NowIs, StateIs, RecipeIs
<1>2. L \in SUBSET Roles /\ \A y \in L : y \in Parkable(c) /\ y \notin c.resident
  BY <1>1 DEF Leaves
<1>3. ASSUME NEW x PROVE out(x) = If(x \in L, <<Move(x, FALSE)>>)
  <2>1. Request(x, FALSE) = If(x \in recorded /\ x \notin recipe.resident, <<Move(x, FALSE)>>)
    BY <1>1, RequestIs
  <2>2. x \in L <=> (x # r /\ x \notin keep) /\ (x \in recorded /\ x \notin recipe.resident)
    BY <1>1 DEF Leaves
  <2> HIDE DEF L
  <2> QED BY <2>1, <2>2 DEF If
<1>4. Request(r, TRUE) = If(r \in Parkable(c) /\ r \notin recorded, <<Move(r, TRUE)>>)
  BY <1>1, RequestIs
<1>5. Transitions(r, keep) = out("train") \o out("rollout") \o out("reward") \o Request(r, TRUE)
  BY Zenon DEF Transitions
<1> HIDE DEF L, Y, out
<1>6. {g} \subseteq P0
  BY NotYetMoved
<1>7. Runs(c, out("train"), P0, P1)
  <2>1. /\ L \cap {} = {} /\ L \cap ({} \cup {"train"}) = L \cap {"train"}
        /\ {} \in SUBSET Roles /\ "train" \in Roles
    BY DEF Roles
  <2>2. Runs(c, If("train" \in L, <<Move("train", FALSE)>>), Moved(c, g, L \cap {}, {}),
             Moved(c, g, L \cap ({} \cup {"train"}), {}))
    BY <1>1, <1>2, <2>1, OutRuns
  <2> QED BY <1>3, <2>1, <2>2
<1>8. Runs(c, out("rollout"), P1, P2)
  <2>1. /\ L \cap ({"train"} \cup {"rollout"}) = L \cap {"train", "rollout"}
        /\ {"train"} \in SUBSET Roles /\ "rollout" \in Roles
    BY DEF Roles
  <2>2. Runs(c, If("rollout" \in L, <<Move("rollout", FALSE)>>), Moved(c, g, L \cap {"train"}, {}),
             Moved(c, g, L \cap ({"train"} \cup {"rollout"}), {}))
    BY <1>1, <1>2, <2>1, OutRuns
  <2> QED BY <1>3, <2>1, <2>2
<1>9. Runs(c, out("reward"), P2, P3)
  <2>1. /\ L \cap ({"train", "rollout"} \cup {"reward"}) = L
        /\ {"train", "rollout"} \in SUBSET Roles /\ "reward" \in Roles
    BY <1>2 DEF Roles
  <2>2. Runs(c, If("reward" \in L, <<Move("reward", FALSE)>>), Moved(c, g, L \cap {"train", "rollout"}, {}),
             Moved(c, g, L \cap ({"train", "rollout"} \cup {"reward"}), {}))
    BY <1>1, <1>2, <2>1, OutRuns
  <2> QED BY <1>3, <2>1, <2>2
<1>10. Runs(c, Request(r, TRUE), P3, P4)
  <2> DEFINE b == r \in Parkable(c) /\ r \notin recorded
  <2>1. ASSUME b PROVE Runs(c, <<Move(r, TRUE)>>, P3, P4)
    <3>1. Y = {r}
      BY <1>1, <2>1 DEF Comes, Y
    <3>2. \A y \in g.recorded : y \in L \/ y \in c.resident
      BY <1>1, <2>1 DEF Leaves, L
    <3>3. Runs(c, <<Move(r, TRUE)>>, Moved(c, g, L, {}), Moved(c, g, L, {r}))
      BY <1>1, <1>2, <2>1, <3>2, ComeRuns
    <3> QED BY <3>1, <3>3
  <2>2. ASSUME ~b PROVE P3 \subseteq P4
    <3>1. Y = {}
      BY <1>1, <2>2 DEF Comes, Y
    <3> QED BY <3>1
  <2>3. P3 \in SUBSET States(c) /\ P4 \in SUBSET States(c) /\ b \in BOOLEAN
    BY MovedIs
  <2> HIDE DEF P3, P4, b
  <2>4. Runs(c, If(b, <<Move(r, TRUE)>>), P3, P4)
    BY <2>1, <2>2, <2>3, RunsIf
  <2> QED BY <1>4, <2>4 DEF b
<1>11. P4 \subseteq After(c, Enter(r, keep), g)
  <2>1. ASSUME NEW h \in P4 PROVE h \in After(c, Enter(r, keep), g)
    <3>1. h \in States(c) /\ h.staged = g.staged /\ Shifts(c, g, h, L, Y)
      BY <2>1, MovedIs
    <3>2. Leads(c, Enter(r, keep), g, h)
      BY <3>1 DEF Leads, Enter, L, Y
    <3> QED BY <3>1, <3>2 DEF After
  <2> QED BY <2>1
<1> DEFINE N == {g}
           E == After(c, Enter(r, keep), g)
<1>16. N \subseteq P0 /\ P4 \subseteq E
  BY <1>6, <1>11
<1> HIDE DEF P0, P1, P2, P3, P4, N, E
<1>12. Runs(c, out("train") \o out("rollout"), P0, P2)
  BY <1>7, <1>8, RunsThen
<1>13. Runs(c, out("train") \o out("rollout") \o out("reward"), P0, P3)
  BY <1>9, <1>12, RunsThen
<1>14. Runs(c, out("train") \o out("rollout") \o out("reward") \o Request(r, TRUE), P0, P4)
  BY <1>10, <1>13, RunsThen
<1>15. Runs(c, Transitions(r, keep), N, E)
  BY <1>5, <1>14, <1>16, RunsLess
<1> QED BY <1>15 DEF N, E

\* Putting the engine to sleep, and reading the adapter.
LEMMA SleepingRuns ==
  ASSUME Fits(recipe), Now \in States(recipe), returns <= Bound(recipe)
  PROVE  Runs(recipe, Request("rollout", FALSE), {Now}, After(recipe, Set("rollout", FALSE), Now))
<1> DEFINE c == recipe
           g == Now
           L == (g.recorded \cap {"rollout"}) \ c.resident
           b == "rollout" \in L
           P0 == Moved(c, g, {}, {})
           P1 == Moved(c, g, L, {})
<1>1. /\ recorded \subseteq Parkable(c) /\ g.returns <= Bound(c) /\ g.recorded = recorded
      /\ Parkable(c) \subseteq Roles /\ "rollout" \in Roles /\ {} \in SUBSET Roles
  BY NowIs, StateIs, RecipeIs DEF Roles
<1>2. L \in SUBSET Roles /\ \A y \in L : y \in Parkable(c) /\ y \notin c.resident
  BY <1>1
<1>3. Request("rollout", FALSE) = If(b, <<Move("rollout", FALSE)>>)
  <2>1. Request("rollout", FALSE)
          = If("rollout" \in recorded /\ "rollout" \notin recipe.resident, <<Move("rollout", FALSE)>>)
    BY <1>1, RequestIs
  <2>2. b <=> "rollout" \in recorded /\ "rollout" \notin recipe.resident
    BY <1>1
  <2> HIDE DEF b
  <2> QED BY <2>1, <2>2 DEF If
<1>4. L \cap {} = {} /\ L \cap ({} \cup {"rollout"}) = L
  OBVIOUS
<1> HIDE DEF L
<1>5. Runs(c, If("rollout" \in L, <<Move("rollout", FALSE)>>), Moved(c, g, L \cap {}, {}),
           Moved(c, g, L \cap ({} \cup {"rollout"}), {}))
  BY <1>1, <1>2, OutRuns
<1>6. Runs(c, Request("rollout", FALSE), P0, P1)
  BY <1>3, <1>4, <1>5
<1>7. {g} \subseteq P0
  BY NotYetMoved
<1>8. P1 \subseteq After(c, Set("rollout", FALSE), g)
  <2>1. ASSUME NEW h \in P1 PROVE h \in After(c, Set("rollout", FALSE), g)
    <3>1. h \in States(c) /\ h.staged = g.staged /\ Shifts(c, g, h, L, {})
      BY <2>1, MovedIs
    <3>2. Leads(c, Set("rollout", FALSE), g, h)
      BY <3>1 DEF Leads, Set, L
    <3> QED BY <3>1, <3>2 DEF After
  <2> QED BY <2>1
<1> DEFINE N == {g}
           E == After(c, Set("rollout", FALSE), g)
<1>9. N \subseteq P0 /\ P1 \subseteq E
  BY <1>7, <1>8
<1> HIDE DEF P0, P1, N, E
<1>10. Runs(c, Request("rollout", FALSE), N, E)
  BY <1>6, <1>9, RunsLess
<1> QED BY <1>10 DEF N, E

LEMMA CachingRuns ==
  ASSUME Fits(recipe), Now \in States(recipe), Finds(recipe, Do("cache"), Now)
  PROVE  Runs(recipe, If(staged = Nothing, <<Enter("train", {}), Do("extract")>>), {Now},
              After(recipe, Do("cache"), Now))
<1> DEFINE c == recipe
           g == Now
           e == Enter("train", {})
           x == Do("extract")
           N == {g}
           M == After(c, e, g)
           Q == After(c, Do("cache"), g)
           b == staged = Nothing
<1>1. /\ N \in SUBSET States(c) /\ M \in SUBSET States(c) /\ Q \in SUBSET States(c) /\ b \in BOOLEAN
      /\ "train" \in Roles /\ {} \in SUBSET c.resident /\ g.staged = staged
  BY NowIs DEF After, Roles
<1>2. g.returns <= Bound(c)
  BY DEF Finds
<1>3. ASSUME ~b PROVE N \subseteq Q
  <2>1. Do("cache").op = "cache" /\ g.staged # Nothing
    BY <1>1, <1>3 DEF Do
  <2>2. Weights(c, Do("cache"), g, g)
    BY <2>1 DEF Weights
  <2>3. Leads(c, Do("cache"), g, g)
    BY <2>1, <2>2 DEF Leads
  <2> QED BY <2>3 DEF After
<1>4. ASSUME b PROVE Runs(c, <<e, x>>, N, Q)
  <2>1. g.staged = Nothing /\ Do("cache").op = "cache"
    BY <1>1, <1>4 DEF Do
  <2>2. /\ g.weights = "own" /\ c.sync = "lora"
        /\ Comes(c, g, "train") # {} => g.returns + 1 <= Bound(c)
    BY <2>1 DEF Finds
  <2>3. Runs(c, <<e>>, N, M)
    <3>1. e \in Steps(c) /\ Finds(c, e, g)
      BY <1>1, <1>2, IsStep, EnterFinds
    <3>2. \A h \in N : /\ Finds(c, e, h)
                       /\ \A k \in States(c) : Leads(c, e, h, k) => k \in M
      BY <3>1 DEF After
    <3> HIDE DEF N, M, e
    <3> QED BY <1>1, <3>1, <3>2, RunsOne
  <2>4. Runs(c, <<x>>, M, Q)
    <3>1. x \in Steps(c) /\ "extract" \in Ops \ {"cache"}
      BY IsStep DEF Ops
    <3>2. ASSUME NEW h \in M
          PROVE  /\ Finds(c, x, h)
                 /\ \A k \in States(c) : Leads(c, x, h, k) => k \in Q
      <4>1. h \in States(c) /\ Leads(c, e, g, h)
        BY <3>2 DEF After
      <4>2. /\ Alone(c, "train", h) /\ h.version = g.version /\ h.weights = g.weights
            /\ h.staged = g.staged
            /\ h.returns = IF "train" = "train" /\ "train" \in Parkable(c) /\ "train" \notin g.recorded
                             THEN g.returns + 1 ELSE g.returns
        BY <1>1, <4>1, EnterLeaves
      <4>3. h.returns <= Bound(c)
        BY <1>2, <2>2, <4>2 DEF Comes
      <4>4. "train" \in h.gpu /\ \A y, z \in h.recorded : y # z => y \in c.resident \/ z \in c.resident
        BY <1>1, <4>1, <4>2, AloneIs, AloneThere
      <4>5. Finds(c, x, h)
        BY <2>2, <4>2, <4>3, <4>4 DEF Finds, Do, Works, Wants
      <4>6. ASSUME NEW k \in States(c), Leads(c, x, h, k)
            PROVE  k \in Q
        <5>1. Weights(c, x, h, k) /\ x.op = "extract"
          BY <3>1, <4>6, DoLeads
        <5>2. /\ k.recorded = h.recorded /\ k.gpu = h.gpu /\ k.version = h.version
              /\ k.weights = h.weights /\ k.adapter = h.adapter /\ k.returns = h.returns
              /\ k.staged = h.version
          BY <5>1 DEF Weights
        <5>3. Shifts(c, g, h, Leaves(c, g, "train", {}), Comes(c, g, "train"))
          BY <4>1 DEF Leads, Enter
        <5>4. Shifts(c, g, k, Leaves(c, g, "train", {}), Comes(c, g, "train"))
          BY <5>2, <5>3 DEF Shifts
        <5>5. Leads(c, Do("cache"), g, k)
          BY <2>1, <4>2, <5>2, <5>4 DEF Leads
        <5> QED BY <5>5 DEF After
      <4> QED BY <4>5, <4>6
    <3> HIDE DEF M, Q, x
    <3> QED BY <1>1, <3>1, <3>2, RunsOne
  <2>5. <<e, x>> = <<e>> \o <<x>>
    OBVIOUS
  <2> HIDE DEF N, M, Q, e, x
  <2> QED BY <2>3, <2>4, <2>5, RunsThen
<1> HIDE DEF N, Q, e, x, b
<1>5. Runs(c, If(b, <<e, x>>), N, Q)
  BY <1>1, <1>3, <1>4, RunsIf
<1> QED BY <1>5 DEF N, Q, e, x, b

-----------------------------------------------------------------------------
(***************************************************************************)
(* The invariant: from here, what is left to do finds what it needs and    *)
(* ends between two rounds.                                                *)
(***************************************************************************)
WorkInv ==
  /\ Fits(recipe) /\ averaged \in BOOLEAN
  /\ upcoming \in Nat /\ upcoming % recipe.window = 0
  /\ Now \in States(recipe)
  /\ Runs(recipe, todo, {Now}, Resting(recipe, upcoming))

LEMMA StepIs ==
  ASSUME NEW c, NEW s \in Steps(c)
  PROVE  /\ s.op = "enter" => s.role \in Roles /\ s.keep \in SUBSET c.resident /\ s = Enter(s.role, s.keep)
         /\ s.op = "set" => s = Set("rollout", FALSE)
         /\ s.op = "move" => s.role \in Roles /\ s.on \in BOOLEAN
         /\ s.op \in Ops => s = Do(s.op)
<1>1. CASE s \in Dos
  <2>1. PICK op \in Ops : s = Do(op)
    BY <1>1 DEF Dos
  <2>2. s.op = op /\ op \notin {"enter", "set", "move"}
    BY <2>1 DEF Do, Ops
  <2> QED BY <2>1, <2>2
<1>2. CASE s \in Generates
  <2>1. PICK exact \in BOOLEAN : s = Work(exact)
    BY <1>2 DEF Generates
  <2>2. s.op = "generate" /\ "generate" \notin Ops
    BY <2>1 DEF Work, Ops
  <2> QED BY <2>2
<1>3. CASE s \in Entering(c)
  <2>1. PICK r \in Roles, keep \in SUBSET c.resident : s = Enter(r, keep)
    BY <1>3 DEF Entering
  <2>2. s.op = "enter" /\ s.role = r /\ s.keep = keep /\ "enter" \notin Ops
    BY <2>1 DEF Enter, Ops
  <2> QED BY <2>1, <2>2
<1>4. CASE s = Set("rollout", FALSE)
  BY <1>4 DEF Set, Ops
<1>5. CASE s \in Moves
  <2>1. PICK r \in Roles, on \in BOOLEAN : s = Move(r, on)
    BY <1>5 DEF Moves
  <2>2. s.op = "move" /\ s.role = r /\ s.on = on /\ "move" \notin Ops
    BY <2>1 DEF Move, Ops
  <2> QED BY <2>1, <2>2
<1> QED BY <1>1, <1>2, <1>3, <1>4, <1>5 DEF Steps

LEMMA Ahead ==
  ASSUME WorkInv, todo # <<>>
  PROVE  /\ Head(todo) \in Steps(recipe) /\ Finds(recipe, Head(todo), Now)
         /\ Runs(recipe, Tail(todo), After(recipe, Head(todo), Now), Resting(recipe, upcoming))
BY RunsHead DEF WorkInv

\* A step is taken: the state after it is one the rest runs from.
LEMMA Proceeds ==
  ASSUME WorkInv, todo # <<>>, todo' = Tail(todo), recipe' = recipe, upcoming' = upcoming,
         averaged' \in BOOLEAN, Now' \in States(recipe), Leads(recipe, Head(todo), Now, Now')
  PROVE  WorkInv'
<1>1. Runs(recipe, Tail(todo), After(recipe, Head(todo), Now), Resting(recipe, upcoming))
  BY Ahead
<1>2. {Now'} \subseteq After(recipe, Head(todo), Now)
  BY DEF After
<1>3. Runs(recipe, Tail(todo), {Now'}, Resting(recipe, upcoming))
  <2> DEFINE N == {Now'}
             P == After(recipe, Head(todo), Now)
             Q == Resting(recipe, upcoming)
  <2>1. N \subseteq P /\ Q \subseteq Q /\ Runs(recipe, Tail(todo), P, Q)
    BY <1>1, <1>2
  <2> HIDE DEF N, P, Q
  <2>2. Runs(recipe, Tail(todo), N, Q)
    BY <2>1, RunsLess
  <2> QED BY <2>2 DEF N, Q
<1> QED BY <1>3 DEF WorkInv

\* A step is replaced by others that lead where it does.
LEMMA Expands ==
  ASSUME WorkInv, todo # <<>>, NEW s, todo' = s \o Tail(todo), recipe' = recipe, upcoming' = upcoming,
         averaged' = averaged, Now' = Now,
         Runs(recipe, s, {Now}, After(recipe, Head(todo), Now))
  PROVE  WorkInv'
<1>1. Runs(recipe, Tail(todo), After(recipe, Head(todo), Now), Resting(recipe, upcoming))
  BY Ahead
<1>2. Runs(recipe, s \o Tail(todo), {Now}, Resting(recipe, upcoming))
  <2> DEFINE N == {Now}
             P == After(recipe, Head(todo), Now)
             Q == Resting(recipe, upcoming)
             t == Tail(todo)
  <2>1. Runs(recipe, s, N, P) /\ Runs(recipe, t, P, Q)
    BY <1>1
  <2> HIDE DEF N, P, Q, t
  <2>2. Runs(recipe, s \o t, N, Q)
    BY <2>1, RunsThen
  <2> QED BY <2>2 DEF N, Q, t
<1> QED BY <1>2 DEF WorkInv

-----------------------------------------------------------------------------
(***************************************************************************)
(* Every step keeps it.                                                    *)
(***************************************************************************)
LEMMA NowNext ==
  /\ Now'.recorded = recorded' /\ Now'.gpu = gpu' /\ Now'.version = version'
  /\ Now'.staged = staged' /\ Now'.adapter = adapter' /\ Now'.returns = returns'
  /\ Now'.weights = IF averaged' THEN "averaged" ELSE "own"
BY DEF Now

LEMMA InWork ==
  ASSUME WorkInv
  PROVE  /\ recorded \subseteq Roles /\ gpu \subseteq Roles /\ version \in Nat /\ staged \in Int
         /\ adapter \in Int /\ returns \in Nat /\ averaged \in BOOLEAN
         /\ recorded \subseteq Parkable(recipe) /\ recorded \subseteq gpu
         /\ \A r \in Roles : r \notin Parkable(recipe) \/ r \in recipe.resident => r \in gpu
         /\ \A r \in Parkable(recipe) \cap recipe.resident : r = "rollout" \/ r \in recorded
         /\ staged = Nothing \/ (staged = version /\ recipe.sync = "lora")
         /\ adapter = Nothing \/ adapter \in 0 .. version
<1>1. Now \in State /\ Sound(recipe, Now)
  BY DEF WorkInv, States
<1>2. /\ recorded \subseteq Roles /\ gpu \subseteq Roles /\ version \in Nat /\ staged \in Int
      /\ adapter \in Int /\ returns \in Nat
  BY <1>1, NowIs DEF State
<1> QED BY <1>1, <1>2, NowIs DEF Sound, WorkInv

LEMMA NextState ==
  ASSUME NEW c,
         recorded' \subseteq Roles, gpu' \subseteq Roles, version' \in Nat, staged' \in Int,
         adapter' \in Int, returns' \in Nat,
         recorded' \subseteq Parkable(c), recorded' \subseteq gpu',
         \A r \in Roles : r \notin Parkable(c) \/ r \in c.resident => r \in gpu',
         \A r \in Parkable(c) \cap c.resident : r = "rollout" \/ r \in recorded',
         staged' = Nothing \/ (staged' = version' /\ c.sync = "lora"),
         adapter' = Nothing \/ adapter' \in 0 .. version'
  PROVE  Now' \in States(c)
<1>1. Now' \in State
  BY DEF Now, State
<1>2. Sound(c, Now')
  BY NowNext DEF Sound
<1> QED BY <1>1, <1>2 DEF States

LEMMA EnterPhaseStep ==
  ASSUME WorkInv, EnterPhase PROVE WorkInv'
<1> DEFINE s == Head(todo)
<1>1. /\ todo # <<>> /\ s.op = "enter" /\ todo' = Transitions(s.role, s.keep) \o Tail(todo)
      /\ recipe' = recipe /\ upcoming' = upcoming /\ averaged' = averaged /\ Now' = Now
  BY DEF EnterPhase, At, frozen, Now
<1>2. s \in Steps(recipe) /\ Finds(recipe, s, Now)
  BY <1>1, Ahead
<1>3. s.role \in Roles /\ s.keep \in SUBSET recipe.resident /\ s = Enter(s.role, s.keep)
  BY <1>1, <1>2, StepIs
<1>4. returns <= Bound(recipe)
  BY <1>2, NowIs DEF Finds
<1>5. Runs(recipe, Transitions(s.role, s.keep), {Now}, After(recipe, Enter(s.role, s.keep), Now))
  BY <1>3, <1>4, TransitionsRun DEF WorkInv
<1>6. Runs(recipe, Transitions(s.role, s.keep), {Now}, After(recipe, s, Now))
  BY <1>3, <1>5
<1> QED BY <1>1, <1>6, Expands

LEMMA SetRoleStep ==
  ASSUME WorkInv, SetRole PROVE WorkInv'
<1> DEFINE s == Head(todo)
<1>1. /\ todo # <<>> /\ s.op = "set" /\ todo' = Request(s.role, s.on) \o Tail(todo)
      /\ recipe' = recipe /\ upcoming' = upcoming /\ averaged' = averaged /\ Now' = Now
  BY DEF SetRole, At, frozen, Now
<1>2. s \in Steps(recipe) /\ Finds(recipe, s, Now)
  BY <1>1, Ahead
<1>3. s = Set("rollout", FALSE)
  BY <1>1, <1>2, StepIs
<1>4. s.role = "rollout" /\ s.on = FALSE
  BY <1>3 DEF Set
<1>5. returns <= Bound(recipe)
  BY <1>2, NowIs DEF Finds
<1>6. Runs(recipe, Request("rollout", FALSE), {Now}, After(recipe, Set("rollout", FALSE), Now))
  BY <1>5, SleepingRuns DEF WorkInv
<1>7. Runs(recipe, Request(s.role, s.on), {Now}, After(recipe, s, Now))
  BY <1>3, <1>4, <1>6
<1> QED BY <1>1, <1>7, Expands

LEMMA CacheAdapterStep ==
  ASSUME WorkInv, CacheAdapter PROVE WorkInv'
<1> DEFINE s == Head(todo)
           t == If(staged = Nothing, <<Enter("train", {}), Do("extract")>>)
<1>1. /\ todo # <<>> /\ s.op = "cache" /\ todo' = t \o Tail(todo)
      /\ recipe' = recipe /\ upcoming' = upcoming /\ averaged' = averaged /\ Now' = Now
  BY DEF CacheAdapter, At, frozen, Now
<1>2. s \in Steps(recipe) /\ Finds(recipe, s, Now)
  BY <1>1, Ahead
<1>3. s = Do("cache")
  <2>1. "cache" \in Ops
    BY DEF Ops
  <2> QED BY <1>1, <1>2, <2>1, StepIs
<1>4. Runs(recipe, t, {Now}, After(recipe, Do("cache"), Now))
  BY <1>2, <1>3, CachingRuns DEF WorkInv
<1>5. Runs(recipe, t, {Now}, After(recipe, s, Now))
  BY <1>3, <1>4
<1> HIDE DEF t
<1> QED BY <1>1, <1>5, Expands

LEMMA MoveRoleStep ==
  ASSUME WorkInv, MoveRole PROVE WorkInv'
<1> DEFINE s == Head(todo)
           r == s.role
           X == IF s.on THEN {} ELSE {r}
           Y == IF s.on THEN {r} ELSE {}
<1>1. /\ todo # <<>> /\ s.op = "move" /\ todo' = Tail(todo)
      /\ recipe' = recipe /\ upcoming' = upcoming /\ averaged' = averaged
      /\ version' = version /\ staged' = staged
      /\ adapter' = IF r = "rollout" /\ ~s.on THEN AfterSleep ELSE adapter
      /\ returns' = IF r = "train" /\ s.on THEN returns + 1 ELSE returns
  BY DEF MoveRole, Step, At, frozen
<1>2. /\ gpu' = IF s.on THEN gpu \cup {r} ELSE gpu \ {r}
      /\ recorded' = IF s.on THEN recorded \cup {r} ELSE recorded \ {r}
  BY DEF MoveRole
<1>3. s \in Steps(recipe) /\ Finds(recipe, s, Now)
  BY <1>1, Ahead
<1>4. r \in Roles /\ s.on \in BOOLEAN
  BY <1>1, <1>3, StepIs
<1>5. r \in Parkable(recipe) /\ (~s.on => r \notin recipe.resident)
  BY <1>1, <1>3 DEF Finds
<1> HIDE DEF s, r
<1>6. Now' \in States(recipe)
  <2>1. CASE s.on
    <3>1. /\ gpu' = gpu \cup {r} /\ recorded' = recorded \cup {r} /\ adapter' = adapter
          /\ returns' \in Nat
      BY <1>1, <1>2, <2>1, InWork
    <3> QED BY <1>1, <1>4, <1>5, <3>1, InWork, NextState
  <2>2. CASE ~s.on
    <3>1. /\ gpu' = gpu \ {r} /\ recorded' = recorded \ {r} /\ returns' = returns
          /\ adapter' = adapter \/ adapter' = Nothing
          /\ r \notin recipe.resident
      BY <1>1, <1>2, <1>5, <2>2 DEF AfterSleep
    <3> QED BY <1>1, <1>4, <1>5, <3>1, InWork, NextState DEF Nothing
  <2> QED BY <2>1, <2>2
<1>7. Leads(recipe, s, Now, Now')
  <2>1. recorded' = (recorded \ X) \cup Y /\ gpu' = (gpu \ X) \cup Y
    <3>1. CASE s.on
      BY <1>2, <3>1
    <3>2. CASE ~s.on
      BY <1>2, <3>2
    <3> QED BY <3>1, <3>2
  <2>2. /\ adapter' = IF "rollout" \in X /\ recipe.sync = "lora" THEN Nothing ELSE adapter
        /\ returns' = IF "train" \in Y THEN returns + 1 ELSE returns
    <3>1. CASE s.on
      BY <1>1, <3>1
    <3>2. CASE ~s.on
      BY <1>1, <3>2 DEF AfterSleep
    <3> QED BY <3>1, <3>2
  <2>3. Now'.weights = Now.weights
    BY <1>1, NowIs, NowNext
  <2> HIDE DEF X, Y
  <2>4. Shifts(recipe, Now, Now', X, Y)
    BY <1>1, <2>1, <2>2, <2>3, NowIs, NowNext DEF Shifts
  <2>5. Now'.staged = Now.staged
    BY <1>1, NowIs, NowNext
  <2> QED BY <1>1, <2>4, <2>5 DEF Leads, X, Y, r
<1> QED BY <1>1, <1>6, <1>7, Proceeds DEF s, WorkInv

-----------------------------------------------------------------------------
\* The steps that read or change the weights.
LEMMA WeightsStep ==
  ASSUME WorkInv, todo # <<>>, todo' = Tail(todo), recipe' = recipe, upcoming' = upcoming,
         averaged' \in BOOLEAN, recorded' = recorded, gpu' = gpu, returns' \in Nat,
         version' \in Nat, staged' \in Int, adapter' \in Int,
         staged' = Nothing \/ (staged' = version' /\ recipe.sync = "lora"),
         adapter' = Nothing \/ adapter' \in 0 .. version',
         Head(todo).op \notin {"enter", "set", "move", "cache"},
         Weights(recipe, Head(todo), Now, Now')
  PROVE  WorkInv'
<1>1. Now' \in States(recipe)
  BY InWork, NextState
<1>2. Leads(recipe, Head(todo), Now, Now')
  BY DEF Leads
<1> QED BY <1>1, <1>2, Proceeds

LEMMA ExtractStep ==
  ASSUME WorkInv, Extract PROVE WorkInv'
<1> DEFINE s == Head(todo)
<1>1. /\ todo # <<>> /\ s.op = "extract" /\ todo' = Tail(todo)
      /\ recipe' = recipe /\ upcoming' = upcoming /\ recorded' = recorded /\ gpu' = gpu
      /\ staged' = version /\ version' = version /\ adapter' = adapter /\ returns' = returns /\ averaged' = averaged
  BY DEF Extract, Step, At, frozen
<1>2. s \in Steps(recipe) /\ Finds(recipe, s, Now)
  BY <1>1, Ahead
<1> HIDE DEF s
<1>3. recipe.sync = "lora"
  BY <1>1, <1>2, NowIs DEF Finds
<1>4. Weights(recipe, s, Now, Now')
  BY <1>1, NowIs, NowNext DEF Weights
<1>5. /\ averaged' \in BOOLEAN /\ returns' \in Nat /\ version' \in Nat /\ staged' \in Int /\ adapter' \in Int
      /\ staged' = Nothing \/ (staged' = version' /\ recipe.sync = "lora")
      /\ adapter' = Nothing \/ adapter' \in 0 .. version'
  BY <1>1, <1>3, InWork DEF Nothing
<1> QED BY <1>1, <1>4, <1>5, WeightsStep DEF s

LEMMA PushStagedStep ==
  ASSUME WorkInv, PushStaged PROVE WorkInv'
<1> DEFINE s == Head(todo)
<1>1. /\ todo # <<>> /\ s.op = "push" /\ todo' = Tail(todo)
      /\ recipe' = recipe /\ upcoming' = upcoming /\ recorded' = recorded /\ gpu' = gpu
      /\ adapter' = staged /\ version' = version /\ staged' = staged /\ returns' = returns /\ averaged' = averaged
  BY DEF PushStaged, Step, At, frozen
<1>2. s \in Steps(recipe) /\ Finds(recipe, s, Now)
  BY <1>1, Ahead
<1> HIDE DEF s
<1>3. averaged \in BOOLEAN
  BY InWork
<1>4. Weights(recipe, s, Now, Now')
  BY <1>1, NowIs, NowNext DEF Weights
<1>5. /\ averaged' \in BOOLEAN /\ returns' \in Nat /\ version' \in Nat /\ staged' \in Int /\ adapter' \in Int
      /\ staged' = Nothing \/ (staged' = version' /\ recipe.sync = "lora")
      /\ adapter' = Nothing \/ adapter' \in 0 .. version'
  BY <1>1, <1>3, InWork DEF Nothing
<1> QED BY <1>1, <1>4, <1>5, WeightsStep DEF s

LEMMA SyncWeightsStep ==
  ASSUME WorkInv, SyncWeights PROVE WorkInv'
<1> DEFINE s == Head(todo)
<1>1. /\ todo # <<>> /\ s.op = "sync" /\ todo' = Tail(todo)
      /\ recipe' = recipe /\ upcoming' = upcoming /\ recorded' = recorded /\ gpu' = gpu
      /\ adapter' = version /\ version' = version /\ (staged' = IF recipe.sync = "lora" THEN version ELSE staged)
      /\ returns' = returns /\ averaged' = averaged
  BY DEF SyncWeights, Step, At, frozen
<1>2. s \in Steps(recipe) /\ Finds(recipe, s, Now)
  BY <1>1, Ahead
<1> HIDE DEF s
<1>3. averaged \in BOOLEAN
  BY InWork
<1>4. Weights(recipe, s, Now, Now')
  BY <1>1, NowIs, NowNext DEF Weights
<1>5. /\ averaged' \in BOOLEAN /\ returns' \in Nat /\ version' \in Nat /\ staged' \in Int /\ adapter' \in Int
      /\ staged' = Nothing \/ (staged' = version' /\ recipe.sync = "lora")
      /\ adapter' = Nothing \/ adapter' \in 0 .. version'
  BY <1>1, <1>3, InWork DEF Nothing
<1> QED BY <1>1, <1>4, <1>5, WeightsStep DEF s

LEMMA InvalidateStep ==
  ASSUME WorkInv, Invalidate PROVE WorkInv'
<1> DEFINE s == Head(todo)
<1>1. /\ todo # <<>> /\ s.op = "invalidate" /\ todo' = Tail(todo)
      /\ recipe' = recipe /\ upcoming' = upcoming /\ recorded' = recorded /\ gpu' = gpu
      /\ staged' = Nothing /\ version' = version /\ adapter' = adapter /\ returns' = returns /\ averaged' = averaged
  BY DEF Invalidate, Step, At, frozen
<1>2. s \in Steps(recipe) /\ Finds(recipe, s, Now)
  BY <1>1, Ahead
<1> HIDE DEF s
<1>3. averaged \in BOOLEAN
  BY InWork
<1>4. Weights(recipe, s, Now, Now')
  BY <1>1, NowIs, NowNext DEF Weights
<1>5. /\ averaged' \in BOOLEAN /\ returns' \in Nat /\ version' \in Nat /\ staged' \in Int /\ adapter' \in Int
      /\ staged' = Nothing \/ (staged' = version' /\ recipe.sync = "lora")
      /\ adapter' = Nothing \/ adapter' \in 0 .. version'
  BY <1>1, <1>3, InWork DEF Nothing
<1> QED BY <1>1, <1>4, <1>5, WeightsStep DEF s

LEMMA TrainTrackStep ==
  ASSUME WorkInv, TrainTrack PROVE WorkInv'
<1> DEFINE s == Head(todo)
<1>1. /\ todo # <<>> /\ s.op = "train" /\ todo' = Tail(todo)
      /\ recipe' = recipe /\ upcoming' = upcoming /\ recorded' = recorded /\ gpu' = gpu
      /\ (version' = version \/ version' = version + 1) /\ returns' = 0 /\ staged' = staged /\ adapter' = adapter
      /\ averaged' = averaged
  BY DEF TrainTrack, Step, At, frozen
<1>2. s \in Steps(recipe) /\ Finds(recipe, s, Now)
  BY <1>1, Ahead
<1> HIDE DEF s
<1>3. staged = Nothing
  BY <1>1, <1>2, NowIs DEF Finds
<1>4. Weights(recipe, s, Now, Now')
  BY <1>1, NowIs, NowNext DEF Weights
<1>5. /\ averaged' \in BOOLEAN /\ returns' \in Nat /\ version' \in Nat /\ staged' \in Int /\ adapter' \in Int
      /\ staged' = Nothing \/ (staged' = version' /\ recipe.sync = "lora")
      /\ adapter' = Nothing \/ adapter' \in 0 .. version'
  BY <1>1, <1>3, InWork DEF Nothing
<1> QED BY <1>1, <1>4, <1>5, WeightsStep DEF s

LEMMA SwapEmaStep ==
  ASSUME WorkInv, SwapEma PROVE WorkInv'
<1> DEFINE s == Head(todo)
<1>1. /\ todo # <<>> /\ todo' = Tail(todo)
      /\ (s.op = "average" /\ averaged' = TRUE) \/ (s.op = "restore" /\ averaged' = FALSE)
      /\ recipe' = recipe /\ upcoming' = upcoming /\ recorded' = recorded /\ gpu' = gpu
      /\ version' = version /\ staged' = staged /\ adapter' = adapter /\ returns' = returns
  BY DEF SwapEma, Step, At, frozen
<1> HIDE DEF s
<1>2. Weights(recipe, s, Now, Now')
  BY <1>1, NowIs, NowNext DEF Weights
<1>3. averaged' \in BOOLEAN /\ s.op \notin {"enter", "set", "move", "cache"}
  BY <1>1
<1> QED BY <1>1, <1>2, <1>3, InWork, WeightsStep DEF s

LEMMA ReadWeightsStep ==
  ASSUME WorkInv, ReadWeights PROVE WorkInv'
<1> DEFINE s == Head(todo)
<1>1. /\ todo # <<>> /\ todo' = Tail(todo)
      /\ (s.op \in {"generate", "score"} /\ returns' = returns) \/ (s.op = "save" /\ returns' = 0)
      /\ recipe' = recipe /\ upcoming' = upcoming /\ recorded' = recorded /\ gpu' = gpu
      /\ version' = version /\ staged' = staged /\ adapter' = adapter /\ averaged' = averaged
  BY DEF ReadWeights, Step, At, frozen
<1> HIDE DEF s
<1>2. Weights(recipe, s, Now, Now')
  BY <1>1, NowIs, NowNext DEF Weights
<1>3. s.op \notin {"enter", "set", "move", "cache"} /\ returns' \in Nat
  BY <1>1, InWork
<1> QED BY <1>1, <1>2, <1>3, InWork, WeightsStep DEF s

\* A round begins where the last one ended.
LEMMA Ended ==
  ASSUME WorkInv, todo = <<>> PROVE Now \in Resting(recipe, upcoming)
BY RunsEnd DEF WorkInv

LEMMA WindowStep ==
  ASSUME WorkInv, Window PROVE WorkInv'
<1> DEFINE c == recipe
           n == upcoming
           e == n + c.window
<1>1. /\ Fits(c) /\ n \in Nat /\ n % c.window = 0 /\ c.window \in Nat \ {0}
      /\ todo = <<>> /\ upcoming' = e /\ recipe' = recipe /\ averaged' = averaged /\ Now' = Now
  BY RecipeIs DEF WorkInv, Window, Now
<1>2. PICK chunks \in 0 .. MaxChunks :
        todo' = TrainStep(c, [k \in 1 .. c.window |-> n + k - 1]) \o If(EvalDue(c, e), Evaluate(c, chunks))
                  \o If(SaveDue(c, e), <<Enter("train", {}), Do("save")>>)
  BY DEF Window
<1>3. chunks \in Nat /\ EvalDue(c, e) \in BOOLEAN /\ SaveDue(c, e) \in BOOLEAN
  BY RecipesAssumption DEF EvalDue, SaveDue
<1>4. todo' = TrainStep(c, Ids(c, n)) \o If(EvalDue(c, e), Evaluate(c, chunks))
                \o If(SaveDue(c, e), <<Enter("train", {}), Do("save")>>)
  BY <1>2 DEF Ids
<1>5. Runs(c, todo', Resting(c, n), Resting(c, e))
  <2> DEFINE b1 == EvalDue(c, e)
             b2 == SaveDue(c, e)
  <2>1. b1 \in BOOLEAN /\ b2 \in BOOLEAN
    BY <1>3
  <2> HIDE DEF b1, b2
  <2>2. Runs(c, TrainStep(c, Ids(c, n)) \o If(b1, Evaluate(c, chunks))
                  \o If(b2, <<Enter("train", {}), Do("save")>>), Resting(c, n), Resting(c, n + c.window))
    BY <1>1, <1>3, <2>1, RoundRuns
  <2> QED BY <1>4, <2>2 DEF b1, b2
<1>6. {Now} \subseteq Resting(c, n)
  BY <1>1, Ended
<1>7. Runs(c, todo', {Now}, Resting(c, e))
  <2> DEFINE N == {Now}
             P == Resting(c, n)
             Q == Resting(c, e)
             t == todo'
  <2>1. N \subseteq P /\ Q \subseteq Q /\ Runs(c, t, P, Q)
    BY <1>5, <1>6
  <2> HIDE DEF N, P, Q, t
  <2>2. Runs(c, t, N, Q)
    BY <2>1, RunsLess
  <2> QED BY <2>2 DEF N, Q, t
<1>8. e \in Nat /\ e % c.window = 0
  <2> DEFINE w == c.window
             m == n
  <2>1. m \in Nat /\ w \in Nat \ {0} /\ m % w = 0
    BY <1>1
  <2> HIDE DEF m, w
  <2>2. m + w \in Nat
    BY <2>1
  <2>3. (m + w) % w = 0
    BY <2>1, NextMultiple
  <2> QED BY <2>2, <2>3 DEF m, w
<1>9. Fits(recipe) /\ averaged \in BOOLEAN /\ Now \in States(recipe)
  BY DEF WorkInv
<1> QED BY <1>1, <1>7, <1>8, <1>9 DEF WorkInv

-----------------------------------------------------------------------------
(***************************************************************************)
(* The invariant holds in every state.                                     *)
(***************************************************************************)
LEMMA StutterStep ==
  ASSUME WorkInv, UNCHANGED vars PROVE WorkInv'
<1>1. /\ recipe' = recipe /\ averaged' = averaged /\ upcoming' = upcoming /\ todo' = todo
      /\ Now' = Now
  BY DEF vars, Now
<1> QED BY <1>1 DEF WorkInv

LEMMA Quotient ==
  ASSUME NEW n \in Nat, NEW w \in Nat \ {0}
  PROVE  n \div w \in 0 .. n
<1> DEFINE q == n \div w
           r == n % w
<1>1. q \in Nat /\ r \in 0 .. w - 1 /\ n = (w * q) + r
  BY Z3T(20)
<1> HIDE DEF q, r
<1>2. w * q >= q
  BY <1>1, Z3T(20)
<1>3. q <= n
  BY <1>1, <1>2, Z3T(20)
<1> QED BY <1>1, <1>3 DEF q

LEMMA WorkBegins ==
  ASSUME Init PROVE WorkInv
<1> DEFINE c == recipe
           n == recipe.start
<1>1. /\ Fits(c) /\ averaged = FALSE /\ upcoming = n
      /\ recorded = Parkable(c) \ {"rollout"} /\ gpu = Roles
      /\ version = n \div c.window /\ staged = Nothing /\ returns = 0
      /\ adapter = IF c.sync = "full" THEN 0 ELSE Nothing
  BY DEF Init, Fits
<1>2. /\ n \in Nat /\ c.window \in Nat \ {0} /\ n % c.window = 0
      /\ Parkable(c) \subseteq Roles /\ c.evals \in Nat
  BY <1>1, RecipeIs, RecipesAssumption
<1>3. PICK chunks \in 0 .. MaxChunks : todo = If(c.evals > 0, Evaluate(c, chunks))
  BY DEF Init
<1>4. chunks \in Nat
  BY RecipesAssumption
<1>5. version \in 0 .. n
  <2> DEFINE w == c.window
             m == n
  <2>1. m \in Nat /\ w \in Nat \ {0} /\ version = m \div w
    BY <1>1, <1>2
  <2> HIDE DEF m, w
  <2>2. version \in 0 .. m
    BY <2>1, Quotient
  <2> QED BY <2>2 DEF m
<1> HIDE DEF c, n
<1>6. Now \in States(c)
  <2>1. Now \in State
    BY <1>1, <1>2, <1>5 DEF Now, State, Nothing
  <2>2. Sound(c, Now)
    BY <1>1, <1>2, <1>5, NowIs DEF Sound, Nothing
  <2> QED BY <2>1, <2>2 DEF States
<1>7. Now \in Resting(c, n)
  <2>1. Old(c, n) \in Nat /\ version <= Old(c, n)
    <3>1. CASE n > 0
      <4>1. SyncDue(c, n)
        BY <1>2, <3>1 DEF SyncDue, n, c
      <4> QED BY <1>2, <1>5, <4>1 DEF Old
    <3>2. CASE n = 0
      <4>1. version = 0
        BY <1>5, <3>2
      <4> QED BY <1>1, <1>2, <4>1, OldIs
    <3> QED BY <1>2, <3>1, <3>2
  <2>2. Serves(c, Now) \in 0 .. version
    BY <1>1, <1>6, NowIs, StateIs
  <2>3. version - Serves(c, Now) <= Old(c, n)
    BY <1>5, <2>1, <2>2
  <2>4. Turns(c, "rest", Now)
    <3>1. Extracts(c) => "train" \in recorded
      BY <1>1 DEF Extracts, ParksTrain
    <3> QED BY <1>1, <3>1, NowIs DEF Turns
  <2>5. Now.weights = "own" /\ Now.version <= n
    BY <1>1, <1>2, <1>5, NowIs
  <2>6. "any" \notin Roles
    BY DEF Roles
  <2>7. Knows(c, "any", Old(c, n), n, "any", "rest", "own", Now)
    BY <2>3, <2>4, <2>5, <2>6, NowIs DEF Knows
  <2> QED BY <1>6, <2>7, KnownIs DEF Resting
<1>8. Runs(c, todo, {Now}, Resting(c, n))
  <2> DEFINE N == {Now}
             Q == Resting(c, n)
             b == c.evals > 0
             s == Evaluate(c, chunks)
  <2>1. b \in BOOLEAN /\ N \subseteq Q /\ Q \subseteq Q /\ Q \in SUBSET States(c)
    BY <1>2, <1>7, KnownIs DEF Resting
  <2>2. Runs(c, s, Q, Q)
    BY <1>1, <1>2, <1>4, EvaluateRuns
  <2>3. todo = If(b, s)
    BY <1>3
  <2> HIDE DEF N, Q, b, s
  <2>4. Runs(c, If(b, s), Q, Q)
    BY <2>1, <2>2, RunsIf
  <2>5. Runs(c, todo, N, Q)
    BY <2>1, <2>3, <2>4, RunsLess
  <2> QED BY <2>5 DEF N, Q
<1> QED BY <1>1, <1>2, <1>6, <1>8 DEF WorkInv, c, n

LEMMA WorkKept ==
  ASSUME WorkInv, [Next]_vars PROVE WorkInv'
<1>1. CASE Window
  BY <1>1, WindowStep
<1>2. CASE EnterPhase
  BY <1>2, EnterPhaseStep
<1>3. CASE SetRole
  BY <1>3, SetRoleStep
<1>4. CASE MoveRole
  BY <1>4, MoveRoleStep
<1>5. CASE CacheAdapter
  BY <1>5, CacheAdapterStep
<1>6. CASE Extract
  BY <1>6, ExtractStep
<1>7. CASE PushStaged
  BY <1>7, PushStagedStep
<1>8. CASE SyncWeights
  BY <1>8, SyncWeightsStep
<1>9. CASE Invalidate
  BY <1>9, InvalidateStep
<1>10. CASE TrainTrack
  BY <1>10, TrainTrackStep
<1>11. CASE SwapEma
  BY <1>11, SwapEmaStep
<1>12. CASE ReadWeights
  BY <1>12, ReadWeightsStep
<1>13. CASE UNCHANGED vars
  BY <1>13, StutterStep
<1> QED BY <1>1, <1>2, <1>3, <1>4, <1>5, <1>6, <1>7, <1>8, <1>9, <1>10, <1>11, <1>12, <1>13 DEF Next

LEMMA WorkInvariant == Spec => []WorkInv
<1>1. Init => WorkInv
  BY WorkBegins
<1>2. WorkInv /\ [Next]_vars => WorkInv'
  BY WorkKept
<1> QED BY <1>1, <1>2, PTL DEF Spec

-----------------------------------------------------------------------------
(***************************************************************************)
(* What follows from it.                                                   *)
(***************************************************************************)
LEMMA NeedsAre ==
  /\ DOMAIN Needs = Works
  /\ \A op \in Works : Needs[op] = Wants(recipe, op)
BY DEF Needs, Works, Wants

LEMMA WorkFinds ==
  ASSUME WorkInv PROVE PhaseFindsItsWeights
<1> DEFINE s == Head(todo)
<1>1. SUFFICES ASSUME Working
               PROVE  /\ Needs[s.op] \subseteq gpu
                      /\ averaged <=> recipe.ema /\ recipe.trainside /\ At("generate")
  BY DEF PhaseFindsItsWeights
<1>2. todo # <<>> /\ s.op \in Works
  BY <1>1, NeedsAre DEF Working
<1>3. Finds(recipe, s, Now)
  BY <1>2, Ahead
<1>4. At("generate") <=> s.op = "generate"
  BY <1>2 DEF At
<1> HIDE DEF s
<1>5. /\ Wants(recipe, s.op) \subseteq gpu
      /\ Now.weights = "averaged" <=> recipe.ema /\ recipe.trainside /\ s.op = "generate"
  BY <1>2, <1>3, NowIs DEF Finds
<1>6. averaged \in BOOLEAN /\ (Now.weights = "averaged" <=> averaged)
  BY InWork DEF Now
<1>7. Needs[s.op] \subseteq gpu
  BY <1>2, <1>5, NeedsAre
<1>8. averaged <=> recipe.ema /\ recipe.trainside /\ At("generate")
  BY <1>4, <1>5, <1>6
<1> QED BY <1>7, <1>8

LEMMA WorkSharesNothing ==
  ASSUME WorkInv PROVE SlabNotShared
<1> DEFINE s == Head(todo)
           parked(r) == r \in recipe.resident \/ r \notin recorded
<1>1. recorded \subseteq gpu
  BY InWork
<1>2. ASSUME At("move"), s.on PROVE \A r \in Parkable(recipe) : parked(r)
  <2>1. todo # <<>> /\ s.op = "move"
    BY <1>2 DEF At
  <2>2. Finds(recipe, s, Now)
    BY <2>1, Ahead
  <2>3. s.on
    BY <1>2
  <2> HIDE DEF s
  <2>4. \A r \in recorded : r \in recipe.resident
    BY <2>1, <2>2, <2>3, NowIs DEF Finds
  <2> QED BY <2>4
<1>3. ASSUME Working PROVE \A r, x \in Parkable(recipe) : r # x => parked(r) \/ parked(x)
  <2>1. todo # <<>> /\ s.op \in Works
    BY <1>3, NeedsAre DEF Working
  <2>2. Finds(recipe, s, Now)
    BY <2>1, Ahead
  <2> HIDE DEF s
  <2>3. \A r, x \in recorded : r # x => r \in recipe.resident \/ x \in recipe.resident
    BY <2>1, <2>2, NowIs DEF Finds
  <2> QED BY <2>3
<1> QED BY <1>1, <1>2, <1>3 DEF SlabNotShared

LEMMA WorkServes ==
  ASSUME WorkInv PROVE ServesRecentWeights
<1> DEFINE s == Head(todo)
           c == recipe
<1>1. Served = Serves(c, Now)
  BY NowIs DEF Served, Serves
<1>2. ASSUME At("push") PROVE staged = version
  <2>1. todo # <<>> /\ s.op = "push"
    BY <1>2 DEF At
  <2>2. Finds(c, s, Now)
    BY <2>1, Ahead
  <2> HIDE DEF s
  <2> QED BY <2>1, <2>2, NowIs DEF Finds
<1>3. ASSUME At("generate"), c.sync # "none" \/ c.trainside,
             ~(c.sync = "lora" /\ Sleeps(c) /\ c.interval > 1 /\ ~s.exact)
      PROVE  version - Served < IF s.exact THEN 1 ELSE c.interval
  <2>1. todo # <<>> /\ s.op = "generate"
    BY <1>3 DEF At
  <2>2. Finds(c, s, Now)
    BY <2>1, Ahead
  <2>3. ~(c.sync = "lora" /\ Sleeps(c) /\ c.interval > 1 /\ ~s.exact)
    BY <1>3
  <2> HIDE DEF s
  <2>4. version - Serves(c, Now) < IF s.exact THEN 1 ELSE c.interval
    BY <1>3, <2>1, <2>2, <2>3, NowIs DEF Finds
  <2> QED BY <1>1, <2>4
<1> QED BY <1>2, <1>3 DEF ServesRecentWeights

LEMMA WorkReturns ==
  ASSUME WorkInv PROVE TrainerReturnsOnce
<1>1. CASE todo # <<>>
  <2>1. Finds(recipe, Head(todo), Now)
    BY <1>1, Ahead
  <2> QED BY <2>1, NowIs DEF Finds, Bound, TrainerReturnsOnce
<1>2. CASE todo = <<>>
  <2>1. Now \in Resting(recipe, upcoming)
    BY <1>2, Ended
  <2>2. returns = 0
    BY <2>1, KnownIs, NowIs DEF Resting, Knows, Turns
  <2> QED BY <2>2 DEF TrainerReturnsOnce
<1> QED BY <1>1, <1>2

(***************************************************************************)
(* Whatever phases came before, the role that works has its weights on the *)
(* GPU, and the averaged weights stand in for the trainer's own while a    *)
(* trainside rollout samples with them and at no other step that works:    *)
(* enter() and request() move what is missing, whoever was parked and      *)
(* whoever is resident, and the swap is undone before anything else reads. *)
(***************************************************************************)
THEOREM PhasesFindTheirWeights == Spec => []PhaseFindsItsWeights
BY WorkInvariant, WorkFinds, PTL

(***************************************************************************)
(* Of the roles that share the slab and may be parked, at most one is      *)
(* there when a role works, and none is when another comes in; what the    *)
(* planner records as on the GPU is there.  The order of enter(), leavers  *)
(* before the comer, is what the proof rests on.                           *)
(***************************************************************************)
THEOREM SlabIsNotShared == Spec => []SlabNotShared
BY WorkInvariant, WorkSharesNothing, PTL

(***************************************************************************)
(* An adapter that is pushed was extracted from the trainer's present      *)
(* weights, though its extraction may lie many phases back.  An engine     *)
(* that generates for training serves weights that lag the trainer's by    *)
(* less than the sync interval, and one that generates for an evaluation   *)
(* serves today's; left out, as in the property, are training rollouts on  *)
(* an engine that loses its adapter in its sleep and is not sent one every *)
(* time.                                                                   *)
(***************************************************************************)
THEOREM RecentWeightsAreServed == Spec => []ServesRecentWeights
BY WorkInvariant, WorkServes, PTL

(***************************************************************************)
(* Between two updates or saves the trainer comes back to the GPU once; at *)
(* most twice if the sync interval is not a multiple of the window, since  *)
(* a sync within the window has then to read the adapter.                  *)
(***************************************************************************)
THEOREM TrainerReturnsRarely == Spec => []TrainerReturnsOnce
BY WorkInvariant, WorkReturns, PTL
=============================================================================
