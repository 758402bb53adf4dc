------------------------- MODULE AsyncTrainerProofs -------------------------
(***************************************************************************)
(* Theorems about AsyncTrainer for every recipe, batch size, window and    *)
(* number of rollouts: its safety properties, and that it implements       *)
(* TrainingRun.                                                            *)
(*                                                                         *)
(* The inductive invariant counts generations.  What the manager and the   *)
(* driver hold is always (nextGeneration - step) batches' worth of prompts *)
(* (Whole), so every bound of the loop is linear in nextGeneration         *)
(* (Bounded): how many are in flight, how old the last of them will be     *)
(* when it is trained, and where the next boundary is.  Admission          *)
(* establishes the three bounds, each batch trained or published keeps     *)
(* them, and what can be in flight at a boundary follows: nothing.         *)
(*                                                                         *)
(* The first part holds what the proofs need to know of batches, of        *)
(* sequences of prompts, of the filter, of admission, and of a state in    *)
(* which the invariant holds; the second takes the steps; the third reads  *)
(* off the theorems.                                                       *)
(***************************************************************************)
EXTENDS AsyncTrainer, FiniteSetTheorems, SequenceTheorems, TLAPS

-----------------------------------------------------------------------------
(***************************************************************************)
(* The inductive invariant.                                                *)
(***************************************************************************)

Task  == [prompt : Nat, versions : SUBSET Nat, suspended : BOOLEAN]
Group == [prompt : Nat, versions : SUBSET Nat]
Checkpoint == [step : 0 .. NumRollouts, version : Nat, trained : SUBSET Nat]

Streaming == {"top", "collect", "refill", "train"}
Syncing   == {"drain", "align", "prefix", "finishStarted", "finishPrefix", "publish"}
Resting   == Syncing \cup {"setup", "boundary", "after", "save"}
Stopping  == {"closing", "closed"}

TypeInv ==
  /\ recipe \in Recipes
  /\ pc \in Streaming \cup Resting \cup Stopping
  /\ {initial, resumed, broken} \subseteq BOOLEAN
  /\ step \in 0 .. NumRollouts
  /\ {trainVersion, publishedVersion, sinceSync, nextGeneration, crashes} \subseteq Nat
  /\ queued \in Seq(Task) /\ carried \in Seq(Task)
  /\ out \in SUBSET Task /\ IsFiniteSet(out)
  /\ ready \in Seq(Group) /\ batch \in Seq(Group)
  /\ saving \in SUBSET Checkpoint /\ checkpoints \in SUBSET Checkpoint
  /\ trained \in SUBSET Nat

\* What the loop holds at each of its points.
AtPoint ==
  /\ batch = <<>> \/ (pc \in {"refill", "train"} \cup Stopping /\ Len(batch) = BatchSize)
  /\ pc \in {"refill", "train"} => Len(batch) = BatchSize
  /\ pc \in {"collect", "refill", "train"} => step < NumRollouts
  /\ pc = "collect" => nextGeneration > step
  /\ pc \in Streaming \cup {"setup", "boundary", "after", "save", "finishStarted"} =>
       carried = <<>>
  /\ pc \in {"drain", "align", "prefix", "publish", "closed"} => queued = <<>>
  /\ pc \in {"align", "prefix", "publish", "closed"} => out = {}
  /\ pc \in {"prefix", "finishPrefix", "publish"} =>
       \A i \in DOMAIN carried : carried[i].versions = {}
  /\ pc = "finishPrefix" => (Len(queued) + Cardinality(out) + Len(ready)) % BatchSize = 0
  /\ pc = "publish" => Len(ready) % BatchSize = 0
  /\ pc = "save" => SaveDue

\* Before the loop nothing has been drawn yet that is not trained.
AtStart ==
  /\ initial => /\ pc \in {"setup", "drain", "align", "publish", "after", "closed"}
                /\ pc # "closed" => nextGeneration = step /\ sinceSync = 0
  /\ pc = "setup" => initial /\ (resumed \/ trainVersion = publishedVersion)
  /\ pc \in Resting /\ ~initial => step > 0

Held == Len(queued) + Cardinality(out) + Len(carried) + Len(ready) + Len(batch)

\* Whole generations are drawn, and a trained batch is as large as a generation.
Whole ==
  pc # "closed" =>
    /\ nextGeneration >= step
    /\ Held = (nextGeneration - step) * BatchSize

\* Where the run stands still.
Boundaries ==
  {NumRollouts} \cup
    {n \in 1 .. NumRollouts : \E i \in {EvalInterval, SaveInterval} \ {0} : n % i = 0}

\* How far ahead of the training prompts are drawn.
Bounded ==
  /\ pc # "closed" => sinceSync + nextGeneration - step <= MaxStaleness + 1
  /\ pc # "closed" => nextGeneration - step - (IF batch = <<>> THEN 0 ELSE 1) <= MaxInflight
  /\ pc \notin Stopping =>
       \A b \in Boundaries : b > step \/ (b = step /\ pc \in Resting) => nextGeneration <= b
  /\ pc \in {"top", "collect", "refill", "train", "after", "save"} /\ step < NumRollouts =>
       sinceSync < SyncInterval

\* A prompt is in one place.
PromptsIn(seq) == Prompts(Elements(seq))
Distinct(seq)  == \A i, j \in DOMAIN seq : seq[i].prompt = seq[j].prompt => i = j

Apart(Q, O, C, R, B, T) ==
  /\ Q \cap O = {} /\ Q \cap C = {} /\ Q \cap R = {} /\ Q \cap B = {} /\ Q \cap T = {}
  /\ O \cap C = {} /\ O \cap R = {} /\ O \cap B = {} /\ O \cap T = {}
  /\ C \cap R = {} /\ C \cap B = {} /\ C \cap T = {}
  /\ R \cap B = {} /\ R \cap T = {} /\ B \cap T = {}

Placed ==
  pc # "closed" =>
    /\ Distinct(queued) /\ Distinct(carried) /\ Distinct(ready) /\ Distinct(batch)
    /\ \A r, s \in out : r.prompt = s.prompt => r = s
    /\ Apart(PromptsIn(queued), Prompts(out), PromptsIn(carried), PromptsIn(ready),
             PromptsIn(batch), trained)
    /\ PromptsIn(queued) \cup Prompts(out) \cup PromptsIn(carried) \cup PromptsIn(ready)
         \cup PromptsIn(batch) \cup trained = 0 .. nextGeneration * BatchSize - 1

\* The weights the engines run, and what is generated with them.
Served ==
  /\ publishedVersion <= trainVersion
  /\ ~initial \/ pc = "after" => trainVersion - publishedVersion <= sinceSync * UpdatesPerBatch
  /\ \A r \in Elements(queued) \cup out \cup Elements(carried) :
       r.versions \subseteq {publishedVersion}
  /\ \A v \in Versions(ready) \cup Versions(batch) : v <= publishedVersion

\* With one batch in flight, all that is in flight is of one generation.
OneGeneration ==
  MaxInflight = 1 /\ pc # "closed" =>
    \A p \in PromptsIn(queued) \cup Prompts(out) \cup PromptsIn(carried) \cup PromptsIn(ready) :
      p \div BatchSize = nextGeneration - 1

IInv ==
  /\ TypeInv
  /\ AtPoint
  /\ AtStart
  /\ Whole
  /\ Bounded
  /\ Placed
  /\ Served
  /\ OneGeneration
  /\ OneVersionPerBatch
  /\ StalenessBudgeted
  /\ pc = "closed" => InflightBounded
  /\ CheckpointsExact
  /\ ChecksHold

-----------------------------------------------------------------------------
(***************************************************************************)
(* Division by the size of a batch.                                        *)
(***************************************************************************)

\* Whole batches are so many, with nothing over.
LEMMA DivMul ==
  ASSUME NEW B \in Nat \ {0}, NEW g \in Int
  PROVE  (g * B) \div B = g /\ (g * B) % B = 0
  BY Z3T(20)

\* A number of prompts is so many batches and the rest.
LEMMA DivMod ==
  ASSUME NEW B \in Nat \ {0}, NEW n \in Int
  PROVE  n \div B \in Int /\ n % B \in 0 .. B - 1 /\ n = (n \div B) * B + (n % B)
  BY Z3T(20)

\* One batch more.
LEMMA DivNext ==
  ASSUME NEW B \in Nat \ {0}, NEW n \in Int
  PROVE  (n + B) \div B = n \div B + 1
  BY Z3T(20)

\* More prompts are not fewer batches.
LEMMA DivMono ==
  ASSUME NEW B \in Nat \ {0}, NEW n \in Int, NEW m \in Int, n <= m
  PROVE  n \div B <= m \div B
  BY Z3T(20)

\* At most k whole batches: not yet k + 1 times the size.
LEMMA DivBound ==
  ASSUME NEW B \in Nat \ {0}, NEW n \in Int, NEW k \in Int
  PROVE  n \div B <= k <=> n < (k + 1) * B
  BY Z3T(20)

\* The windows before a whole number of batches.
LEMMA LastWindow ==
  ASSUME NEW B \in Nat \ {0}, NEW n \in Int, NEW i \in Int, i <= n, n % B = 0
  PROVE  (i - 1) \div B < n \div B
  BY Z3T(20)

\* More batches are not fewer prompts.
LEMMA MulMono ==
  ASSUME NEW B \in Nat, NEW n \in Int, NEW m \in Int, n <= m
  PROVE  n * B <= m * B
  BY Z3T(20)

\* And the other way round.
LEMMA MulCancel ==
  ASSUME NEW B \in Nat \ {0}, NEW n \in Int, NEW m \in Int, n * B <= m * B
  PROVE  n <= m
  BY Z3T(20)

\* What is missing from q to whole batches.
LEMMA Residue ==
  ASSUME NEW B \in Nat \ {0}, NEW q \in Nat, NEW c \in Nat, NEW k \in Int, q + c = k * B
  PROVE  /\ (-q) % B \in Nat /\ (-q) % B <= c
         /\ (q + ((-q) % B)) % B = 0
<1> DEFINE d == (-q) \div B
           m == (-q) % B
<1>1. d \in Int /\ m \in 0 .. B - 1 /\ -q = d * B + m
      BY DivMod
<1>2. q + m = (-d) * B
      BY <1>1, Z3T(20)
<1>3. (q + m) % B = 0
      BY <1>1, <1>2, DivMul, -d \in Int
<1>4. c - m = (k + d) * B
      BY <1>1, Z3T(20)
<1>5. CASE k + d >= 0
      BY <1>1, <1>3, <1>4, <1>5, MulMono, 0 * B = 0
<1>6. CASE k + d < 0
  <2>1. (k + d) * B <= (-1) * B
        BY <1>6, <1>1, MulMono
  <2>   QED
        BY <1>1, <1>4, <2>1
<1> QED
    BY <1>1, <1>5, <1>6

\* The prompts of a generation.
LEMMA InGeneration ==
  ASSUME NEW B \in Nat \ {0}, NEW g \in Int, NEW p \in g * B .. (g + 1) * B - 1
  PROVE  p \div B = g
<1>1. g * B \in Int /\ (g + 1) * B \in Int /\ p \in Int /\ g * B <= p /\ p < (g + 1) * B
  <2>1. g * B \in Int /\ (g + 1) * B \in Int
        BY Z3T(20)
  <2>   QED
        BY <2>1
<1>2. (g * B) \div B = g /\ (g * B) \div B <= p \div B
      BY <1>1, DivMul, DivMono
<1>3. p \div B <= g
      BY <1>1, DivBound
<1>4. p \div B \in Int
      BY <1>1, DivMod
<1> QED
    BY <1>2, <1>3, <1>4
-----------------------------------------------------------------------------
(***************************************************************************)
(* Sequences of prompts.                                                   *)
(***************************************************************************)

\* The prompts of a sequence, index by index.
LEMMA InSequence ==
  ASSUME NEW S, NEW seq \in Seq(S)
  PROVE  /\ DOMAIN seq = 1 .. Len(seq) /\ Len(seq) \in Nat
         /\ \A i \in DOMAIN seq : seq[i] \in S
         /\ PromptsIn(seq) = {seq[i].prompt : i \in 1 .. Len(seq)}
         /\ PromptsIn(seq) = {} <=> Len(seq) = 0
         /\ seq = <<>> <=> Len(seq) = 0
<1>1. DOMAIN seq = 1 .. Len(seq) /\ Len(seq) \in Nat /\ \A i \in DOMAIN seq : seq[i] \in S
      OBVIOUS
<1>2. PromptsIn(seq) = {seq[i].prompt : i \in 1 .. Len(seq)}
      BY <1>1 DEF PromptsIn, Prompts, Elements
<1>3. Len(seq) = 0 => PromptsIn(seq) = {}
      BY <1>2
<1>4. Len(seq) # 0 => seq[1].prompt \in PromptsIn(seq)
      BY <1>1, <1>2
<1>5. seq = <<>> <=> Len(seq) = 0
      BY EmptySeq
<1> QED
    BY <1>1, <1>2, <1>3, <1>4, <1>5

\* The prompts of an empty sequence.
LEMMA NoPrompts == PromptsIn(<<>>) = {} /\ Distinct(<<>>)
  BY DEF PromptsIn, Prompts, Elements, Distinct

\* One more at the end.
LEMMA OneMore ==
  ASSUME NEW S, NEW seq \in Seq(S), NEW e \in S
  PROVE  /\ PromptsIn(Append(seq, e)) = PromptsIn(seq) \cup {e.prompt}
         /\ Distinct(seq) /\ e.prompt \notin PromptsIn(seq) => Distinct(Append(seq, e))
<1> DEFINE more == Append(seq, e)
<1>1. /\ more \in Seq(S) /\ Len(more) = Len(seq) + 1 /\ more[Len(seq) + 1] = e
      /\ \A i \in 1 .. Len(seq) : more[i] = seq[i]
      OBVIOUS
<1>2. /\ PromptsIn(seq) = {seq[i].prompt : i \in 1 .. Len(seq)} /\ Len(seq) \in Nat
      /\ PromptsIn(more) = {more[i].prompt : i \in 1 .. Len(more)}
      /\ DOMAIN seq = 1 .. Len(seq) /\ DOMAIN more = 1 .. Len(seq) + 1
      BY <1>1, InSequence
<1>3. PromptsIn(more) = PromptsIn(seq) \cup {e.prompt}
  <2>   HIDE DEF more
  <2>1. 1 .. Len(more) = 1 .. Len(seq) \cup {Len(seq) + 1}
        BY <1>1, <1>2
  <2>   QED
        BY <1>1, <1>2, <2>1
<1>4. ASSUME Distinct(seq), e.prompt \notin PromptsIn(seq) PROVE Distinct(more)
  <2>   HIDE DEF more
  <2>   SUFFICES ASSUME NEW i \in 1 .. Len(seq) + 1, NEW j \in 1 .. Len(seq) + 1,
                        more[i].prompt = more[j].prompt
                 PROVE  i = j
        BY <1>2 DEF Distinct
  <2>1. CASE i <= Len(seq) /\ j <= Len(seq)
        BY <1>1, <1>2, <1>4, <2>1 DEF Distinct
  <2>2. CASE i = Len(seq) + 1 /\ j <= Len(seq)
        BY <1>1, <1>2, <1>4, <2>2
  <2>3. CASE j = Len(seq) + 1 /\ i <= Len(seq)
        BY <1>1, <1>2, <1>4, <2>3
  <2>   QED
        BY <1>2, <2>1, <2>2, <2>3
<1> QED
    BY <1>3, <1>4

Splits(seq, front, rest) ==
  /\ PromptsIn(seq) = PromptsIn(front) \cup PromptsIn(rest)
  /\ Distinct(seq) <=> /\ Distinct(front) /\ Distinct(rest)
                       /\ PromptsIn(front) \cap PromptsIn(rest) = {}

\* A sequence is cut in two.
LEMMA Split ==
  ASSUME NEW S, NEW seq \in Seq(S), NEW front \in Seq(S), NEW rest \in Seq(S),
         Len(seq) = Len(front) + Len(rest),
         \A i \in 1 .. Len(front) : front[i] = seq[i],
         \A i \in 1 .. Len(rest) : rest[i] = seq[Len(front) + i]
  PROVE  Splits(seq, front, rest)
<1> DEFINE m == Len(front)
           n == Len(rest)
<1>1. m \in Nat /\ n \in Nat /\ Len(seq) = m + n
      OBVIOUS
<1>2. DOMAIN seq = 1 .. m + n /\ DOMAIN front = 1 .. m /\ DOMAIN rest = 1 .. n
      OBVIOUS
<1>3. /\ PromptsIn(seq) = {seq[i].prompt : i \in 1 .. m + n}
      /\ PromptsIn(front) = {front[i].prompt : i \in 1 .. m}
      /\ PromptsIn(rest) = {rest[i].prompt : i \in 1 .. n}
      BY <1>2 DEF PromptsIn, Prompts, Elements
<1>4. /\ \A i \in 1 .. m : front[i] = seq[i] /\ i \in 1 .. m + n
      /\ \A i \in 1 .. n : rest[i] = seq[m + i] /\ m + i \in 1 .. m + n
      /\ \A i \in 1 .. m + n : i \in 1 .. m \/ (i - m \in 1 .. n /\ rest[i - m] = seq[i])
      BY <1>1
<1> HIDE DEF m, n
<1>5. PromptsIn(seq) = PromptsIn(front) \cup PromptsIn(rest)
  <2>1. \A p \in PromptsIn(front) \cup PromptsIn(rest) : p \in PromptsIn(seq)
        BY <1>3, <1>4
  <2>2. \A i \in 1 .. m + n : seq[i].prompt \in PromptsIn(front) \cup PromptsIn(rest)
        BY <1>3, <1>4
  <2>   QED
        BY <1>3, <2>1, <2>2
<1>6. ASSUME Distinct(seq)
      PROVE  Distinct(front) /\ Distinct(rest) /\ PromptsIn(front) \cap PromptsIn(rest) = {}
  <2>1. \A i, j \in 1 .. m + n : seq[i].prompt = seq[j].prompt => i = j
        BY <1>2, <1>6 DEF Distinct
  <2>2. \A i, j \in 1 .. m : front[i].prompt = front[j].prompt => i = j
        BY <1>4, <2>1
  <2>3. ASSUME NEW i \in 1 .. n, NEW j \in 1 .. n, rest[i].prompt = rest[j].prompt
        PROVE  i = j
    <3>1. m + i = m + j
          BY <1>4, <2>1, <2>3
    <3>   QED
          BY <1>1, <3>1
  <2>4. ASSUME NEW i \in 1 .. m, NEW j \in 1 .. n PROVE front[i].prompt # rest[j].prompt
    <3>1. i # m + j
          BY <1>1
    <3>   QED
          BY <1>4, <2>1, <3>1
  <2>   QED
        BY <1>2, <1>3, <2>2, <2>3, <2>4 DEF Distinct
<1>7. ASSUME Distinct(front), Distinct(rest), PromptsIn(front) \cap PromptsIn(rest) = {},
             NEW i \in 1 .. m + n, NEW j \in 1 .. m + n, seq[i].prompt = seq[j].prompt
      PROVE  i = j
  <2>1. /\ \A k, l \in 1 .. m : front[k].prompt = front[l].prompt => k = l
        /\ \A k, l \in 1 .. n : rest[k].prompt = rest[l].prompt => k = l
        BY <1>2, <1>7 DEF Distinct
  <2>6. \A k \in 1 .. m, l \in 1 .. n : front[k].prompt # rest[l].prompt
        BY <1>3, <1>7
  <2>2. CASE i \in 1 .. m /\ j \in 1 .. m
        BY <1>4, <1>7, <2>1, <2>2
  <2>3. CASE i \notin 1 .. m /\ j \notin 1 .. m
    <3>1. i - m = j - m
          BY <1>4, <1>7, <2>1, <2>3
    <3>   QED
          BY <1>1, <3>1
  <2>4. CASE i \in 1 .. m /\ j \notin 1 .. m
        BY <1>4, <1>7, <2>6, <2>4
  <2>5. CASE i \notin 1 .. m /\ j \in 1 .. m
    <3>1. front[j] = seq[j] /\ i - m \in 1 .. n /\ rest[i - m] = seq[i]
          BY <1>4, <2>5
    <3>   QED
          BY <1>7, <2>5, <2>6, <3>1
  <2>   QED
        BY <2>2, <2>3, <2>4, <2>5
<1> QED
    BY <1>2, <1>5, <1>6, <1>7 DEF Distinct, Splits

\* SubSeq cuts a sequence in two, as collect and FinishPrefix do.
LEMMA Cut ==
  ASSUME NEW S, NEW seq \in Seq(S), NEW n \in 0 .. Len(seq)
  PROVE  /\ SubSeq(seq, 1, n) \in Seq(S) /\ SubSeq(seq, n + 1, Len(seq)) \in Seq(S)
         /\ Len(SubSeq(seq, 1, n)) = n /\ Len(SubSeq(seq, n + 1, Len(seq))) = Len(seq) - n
         /\ \A i \in 1 .. n : SubSeq(seq, 1, n)[i] = seq[i]
         /\ \A i \in 1 .. Len(seq) - n : SubSeq(seq, n + 1, Len(seq))[i] = seq[n + i]
         /\ Splits(seq, SubSeq(seq, 1, n), SubSeq(seq, n + 1, Len(seq)))
<1> DEFINE front == SubSeq(seq, 1, n)
           rest  == SubSeq(seq, n + 1, Len(seq))
<1>1. /\ front \in Seq(S) /\ Len(front) = n /\ \A i \in 1 .. n : front[i] = seq[i]
      /\ rest \in Seq(S) /\ Len(rest) = Len(seq) - n
      /\ \A i \in 1 .. Len(seq) - n : rest[i] = seq[n + i]
      OBVIOUS
<1>2. Len(seq) = n + (Len(seq) - n)
      OBVIOUS
<1> HIDE DEF front, rest
<1>3. /\ Len(seq) = Len(front) + Len(rest)
      /\ \A i \in 1 .. Len(front) : front[i] = seq[i]
      /\ \A i \in 1 .. Len(rest) : rest[i] = seq[Len(front) + i]
      BY <1>1, <1>2, Zenon
<1>4. Splits(seq, front, rest)
      BY <1>1, <1>3, Split
<1> QED
    BY <1>1, <1>4 DEF front, rest

\* The task that is launched next, and the others.
LEMMA HeadAndTail ==
  ASSUME NEW S, NEW seq \in Seq(S), seq # <<>>
  PROVE  /\ Head(seq) \in S /\ Tail(seq) \in Seq(S) /\ Len(Tail(seq)) = Len(seq) - 1
         /\ Elements(Tail(seq)) \subseteq Elements(seq) /\ Head(seq) \in Elements(seq)
         /\ PromptsIn(seq) = {Head(seq).prompt} \cup PromptsIn(Tail(seq))
         /\ Distinct(seq) => /\ Distinct(Tail(seq))
                             /\ Head(seq).prompt \notin PromptsIn(Tail(seq))
<1> DEFINE front == <<Head(seq)>>
           rest  == Tail(seq)
<1>1. /\ Len(seq) \in Nat \ {0} /\ Head(seq) = seq[1] /\ Head(seq) \in S
      /\ rest \in Seq(S) /\ Len(rest) = Len(seq) - 1 /\ \A i \in 1 .. Len(rest) : rest[i] = seq[i + 1]
      BY EmptySeq
<1>2. front \in Seq(S) /\ Len(front) = 1 /\ front[1] = seq[1]
      BY <1>1
<1>3. PromptsIn(front) = {Head(seq).prompt}
  <2>1. PromptsIn(front) = {front[i].prompt : i \in 1 .. Len(front)}
        BY <1>2, InSequence
  <2>   QED
        BY <1>1, <1>2, <2>1
<1>4. Elements(Tail(seq)) \subseteq Elements(seq) /\ Head(seq) \in Elements(seq)
      BY <1>1 DEF Elements
<1> HIDE DEF front, rest
<1>5. /\ PromptsIn(seq) = PromptsIn(front) \cup PromptsIn(rest)
      /\ Distinct(seq) => Distinct(rest) /\ PromptsIn(front) \cap PromptsIn(rest) = {}
  <2>1. Len(seq) = Len(front) + Len(rest)
        BY <1>1, <1>2
  <2>2. \A i \in 1 .. Len(front) : front[i] = seq[i]
        BY <1>2
  <2>3. \A i \in 1 .. Len(rest) : rest[i] = seq[Len(front) + i]
        BY <1>1, <1>2
  <2>4. Splits(seq, front, rest)
        BY <1>1, <1>2, <2>1, <2>2, <2>3, Split
  <2>   QED
        BY <2>4 DEF Splits
<1> QED
    BY <1>1, <1>3, <1>4, <1>5 DEF rest

\* Drawn prompts are put after those that wait.
LEMMA Joined ==
  ASSUME NEW S, NEW front \in Seq(S), NEW rest \in Seq(S)
  PROVE  /\ front \o rest \in Seq(S) /\ Len(front \o rest) = Len(front) + Len(rest)
         /\ Splits(front \o rest, front, rest)
         /\ Elements(front \o rest) \subseteq Elements(front) \cup Elements(rest)
<1> DEFINE seq == front \o rest
<1>1. /\ seq \in Seq(S) /\ Len(seq) = Len(front) + Len(rest)
      /\ \A i \in 1 .. Len(front) : front[i] = seq[i]
      /\ \A i \in 1 .. Len(rest) : rest[i] = seq[Len(front) + i]
      OBVIOUS
<1> HIDE DEF seq
<1>2. Splits(seq, front, rest)
      BY <1>1, Split
<1>3. ASSUME NEW i \in DOMAIN seq PROVE seq[i] \in Elements(front) \cup Elements(rest)
  <2>1. i \in 1 .. Len(front) \/ i - Len(front) \in 1 .. Len(rest)
        BY <1>1
  <2>2. CASE i \in 1 .. Len(front)
        BY <1>1, <2>2 DEF Elements
  <2>3. CASE i - Len(front) \in 1 .. Len(rest)
    <3>1. rest[i - Len(front)] = seq[i]
          BY <1>1, <2>3
    <3>   QED
          BY <2>3, <3>1 DEF Elements
  <2>   QED
        BY <2>1, <2>2, <2>3
<1> QED
  <2>1. Elements(seq) \subseteq Elements(front) \cup Elements(rest)
        BY <1>3 DEF Elements
  <2>   QED
        BY <1>1, <1>2, <2>1 DEF seq

\* As many prompts as elements.
LEMMA CountPrompts ==
  ASSUME NEW S, NEW seq \in Seq(S), Distinct(seq)
  PROVE  IsFiniteSet(PromptsIn(seq)) /\ Cardinality(PromptsIn(seq)) = Len(seq)
<1> DEFINE f == [i \in 1 .. Len(seq) |-> seq[i].prompt]
<1>1. /\ PromptsIn(seq) = {seq[i].prompt : i \in 1 .. Len(seq)} /\ Len(seq) \in Nat
      /\ DOMAIN seq = 1 .. Len(seq)
      BY InSequence
<1>2. f \in Bijection(1 .. Len(seq), PromptsIn(seq))
      BY <1>1 DEF Distinct, Bijection, Injection, Surjection, IsInjective
<1>3. IsFiniteSet(1 .. Len(seq)) /\ Cardinality(1 .. Len(seq)) = Len(seq)
      BY <1>1, FS_Interval
<1> QED
    BY <1>2, <1>3, FS_Bijection DEF ExistsBijection

\* The same of the tasks that are out, which are a set.
LEMMA CountSet ==
  ASSUME NEW S, IsFiniteSet(S), \A r, s \in S : r.prompt = s.prompt => r = s
  PROVE  IsFiniteSet(Prompts(S)) /\ Cardinality(Prompts(S)) = Cardinality(S)
<1> DEFINE f == [r \in S |-> r.prompt]
<1>1. f \in Bijection(S, Prompts(S))
      BY DEF Prompts, Bijection, Injection, Surjection, IsInjective
<1> QED
    BY <1>1, FS_Bijection DEF ExistsBijection

-----------------------------------------------------------------------------
(***************************************************************************)
(* The filter: what has nothing in it that lags too far is left as it is.  *)
(***************************************************************************)
\* Induction on the natural numbers, from the least one outside the set.
LEMMA InductionOnNat ==
  ASSUME NEW T \in SUBSET Nat, 0 \in T, \A n \in T : n + 1 \in T
  PROVE  T = Nat
<1> SUFFICES ASSUME Nat \ T # {} PROVE FALSE
    OBVIOUS
<1>1. PICK m \in Nat \ T : \A y \in Nat \ T : ~ (<<y, m>> \in OpToRel(<, Nat))
      BY WFMin, NatLessThanWellFounded
<1>2. \A y \in Nat \ T : ~ (y < m)
      BY <1>1 DEF OpToRel
<1>3. m \in Nat /\ m \notin T
      OBVIOUS
<1>4. m # 0 /\ m - 1 \in Nat
      BY <1>3
<1>5. m - 1 \in T
      BY <1>2, <1>4
<1>6. m - 1 + 1 = m
      BY <1>3
<1> QED
    BY <1>3, <1>5, <1>6

\* The recursion of Filtered, unfolded by that induction: nothing is dropped where all lies
\* within the lag.
LEMMA FilteredKeeps ==
  ASSUME NEW S, NEW seq \in Seq(S), \A i \in DOMAIN seq : WithinLag(seq[i])
  PROVE  Filtered(seq) = seq
<1> DEFINE Def(f, i) == IF i = 0 THEN <<>>
                        ELSE IF WithinLag(seq[i]) THEN Append(f[i - 1], seq[i]) ELSE f[i - 1]
           kept  == CHOOSE f : f = [i \in 0 .. Len(seq) |-> Def(f, i)]
           start == [i \in 0 .. Len(seq) |-> SubSeq(seq, 1, i)]
           T     == {i \in Nat : i <= Len(seq) => kept[i] = SubSeq(seq, 1, i)}
<1>1. Len(seq) \in Nat /\ \A i \in 1 .. Len(seq) : WithinLag(seq[i]) /\ seq[i] \in S
      OBVIOUS
<1>2. SubSeq(seq, 1, 0) = <<>>
      OBVIOUS
<1>3. ASSUME NEW i \in 1 .. Len(seq) PROVE SubSeq(seq, 1, i) = Append(SubSeq(seq, 1, i - 1), seq[i])
      OBVIOUS
<1>4. start = [i \in 0 .. Len(seq) |-> Def(start, i)]
  <2>   SUFFICES ASSUME NEW i \in 0 .. Len(seq) PROVE start[i] = Def(start, i)
        OBVIOUS
  <2>1. CASE i = 0
        BY <1>2, <2>1
  <2>2. CASE i # 0
    <3>1. i \in 1 .. Len(seq) /\ i - 1 \in 0 .. Len(seq)
          BY <1>1, <2>2
    <3>2. start[i] = Append(start[i - 1], seq[i])
          BY <1>3, <3>1
    <3>   QED
          BY <1>1, <2>2, <3>1, <3>2
  <2>   QED
        BY <2>1, <2>2
<1>5. kept = [i \in 0 .. Len(seq) |-> Def(kept, i)]
      BY <1>4
<1>6. Filtered(seq) = kept[Len(seq)]
      BY DEF Filtered
<1> HIDE DEF kept
<1>11. \A i \in 0 .. Len(seq) : kept[i] = Def(kept, i)
       BY <1>5
<1>7. 0 \in T
      BY <1>1, <1>2, <1>5
<1>8. ASSUME NEW n \in T PROVE n + 1 \in T
  <2>1. CASE n + 1 <= Len(seq)
    <3>1. n + 1 \in 1 .. Len(seq) /\ n + 1 - 1 = n /\ kept[n] = SubSeq(seq, 1, n)
          BY <1>1, <2>1
    <3>2. kept[n + 1] = Def(kept, n + 1)
          BY <1>1, <1>11, <3>1
    <3>3. Def(kept, n + 1) = Append(kept[n], seq[n + 1])
          BY <1>1, <3>1
    <3>4. SubSeq(seq, 1, n + 1) = Append(SubSeq(seq, 1, n), seq[n + 1])
          BY <1>3, <3>1
    <3>   HIDE DEF Def
    <3>5. kept[n + 1] = SubSeq(seq, 1, n + 1)
          BY <3>1, <3>2, <3>3, <3>4
    <3>   QED
          BY <3>1, <3>5
  <2>   QED
        BY <2>1
<1>9. T = Nat
      BY <1>7, <1>8, InductionOnNat
<1>10. kept[Len(seq)] = SubSeq(seq, 1, Len(seq))
       BY <1>1, <1>9
<1> QED
    BY <1>6, <1>10

-----------------------------------------------------------------------------
(***************************************************************************)
(* Prompts change places.                                                  *)
(***************************************************************************)

\* A prompt moves to the engines.
LEMMA ApartOut ==
  ASSUME NEW Q, NEW O, NEW C, NEW R, NEW B, NEW T, NEW Q1, NEW O1, NEW p,
         Apart(Q, O, C, R, B, T), Q1 \subseteq Q, p \in Q, p \notin Q1, O1 = O \cup {p}
  PROVE  Apart(Q1, O1, C, R, B, T)
<1>1. Q1 \cap O1 = {} /\ Q1 \cap C = {} /\ Q1 \cap R = {} /\ Q1 \cap B = {} /\ Q1 \cap T = {}
      BY DEF Apart
<1>2. O1 \cap C = {} /\ O1 \cap R = {} /\ O1 \cap B = {} /\ O1 \cap T = {}
      BY DEF Apart
<1> QED
    BY <1>1, <1>2 DEF Apart

\* And from there to the completed groups, or back to the driver.
LEMMA ApartReady ==
  ASSUME NEW Q, NEW O, NEW C, NEW R, NEW B, NEW T, NEW R1, NEW O1, NEW p,
         Apart(Q, O, C, R, B, T), O1 \subseteq O, p \in O, p \notin O1, R1 = R \cup {p}
  PROVE  Apart(Q, O1, C, R1, B, T)
<1>1. Q \cap R1 = {} /\ O1 \cap R1 = {} /\ C \cap R1 = {} /\ R1 \cap B = {} /\ R1 \cap T = {}
      BY DEF Apart
<1>2. Q \cap O1 = {} /\ O1 \cap C = {} /\ O1 \cap B = {} /\ O1 \cap T = {}
      BY DEF Apart
<1> QED
    BY <1>1, <1>2 DEF Apart

\* The driver carries what an engine has suspended.
LEMMA ApartCarried ==
  ASSUME NEW Q, NEW O, NEW C, NEW R, NEW B, NEW T, NEW C1, NEW O1, NEW p,
         Apart(Q, O, C, R, B, T), O1 \subseteq O, p \in O, p \notin O1, C1 = C \cup {p}
  PROVE  Apart(Q, O1, C1, R, B, T)
<1>1. Q \cap C1 = {} /\ O1 \cap C1 = {} /\ C1 \cap R = {} /\ C1 \cap B = {} /\ C1 \cap T = {}
      BY DEF Apart
<1>2. Q \cap O1 = {} /\ O1 \cap R = {} /\ O1 \cap B = {} /\ O1 \cap T = {}
      BY DEF Apart
<1> QED
    BY <1>1, <1>2 DEF Apart

\* The prompts held and trained on after a step are those of the places after it.
LEMMA Later ==
  /\ PromptsIn(queued)' = PromptsIn(queued') /\ Distinct(queued)' = Distinct(queued')
  /\ PromptsIn(carried)' = PromptsIn(carried') /\ Distinct(carried)' = Distinct(carried')
  /\ PromptsIn(ready)' = PromptsIn(ready') /\ Distinct(ready)' = Distinct(ready')
  /\ PromptsIn(batch)' = PromptsIn(batch') /\ Distinct(batch)' = Distinct(batch')
  /\ Prompts(out)' = Prompts(out')
  /\ Elements(queued)' = Elements(queued') /\ Elements(carried)' = Elements(carried')
  /\ Versions(ready)' = Versions(ready') /\ Versions(batch)' = Versions(batch')
  BY DEF PromptsIn, Prompts, Elements, Distinct, Versions

\* The versions of completed groups are those that have been published.
LEMMA VersionsTyped ==
  ASSUME NEW seq \in Seq(Group)
  PROVE  Versions(seq) \subseteq Nat
<1>1. ASSUME NEW i \in DOMAIN seq PROVE seq[i].versions \subseteq Nat
  <2>1. seq[i] \in Group
        OBVIOUS
  <2>   QED
        BY <2>1 DEF Group
<1> QED
    BY <1>1 DEF Versions
-----------------------------------------------------------------------------
(***************************************************************************)
(* Admission.                                                              *)
(***************************************************************************)

\* What the constructors have checked.
LEMMA Parameters ==
  ASSUME TypeInv
  PROVE  /\ BatchSize \in Nat \ {0} /\ NumRollouts \in Nat
         /\ MaxInflight \in Nat \ {0} /\ SyncInterval \in Nat \ {0} /\ UpdatesPerBatch \in Nat \ {0}
         /\ EvalInterval \in Nat /\ SaveInterval \in Nat
         /\ MaxStaleness \in Nat /\ MaxStaleness >= SyncInterval - 1
         /\ SingleGeneration => MaxInflight = 1
  BY TrainerAssumption DEF TypeInv, Accepted, MaxInflight, SyncInterval, UpdatesPerBatch,
     EvalInterval, SaveInterval, MaxStaleness, SingleGeneration

\* Min is what its name says on numbers of batches.
LEMMA MinOfNats ==
  ASSUME NEW T \in SUBSET Nat, T # {}
  PROVE  Min(T) \in T /\ \A x \in T : Min(T) <= x
<1>1. PICK m \in T : \A y \in T : ~ (<<y, m>> \in OpToRel(<, Nat))
      BY WFMin, NatLessThanWellFounded
<1>2. \A y \in T : ~ (y < m)
      BY <1>1 DEF OpToRel
<1>3. \A y \in T : m <= y
      BY <1>2
<1> QED
    BY <1>3 DEF Min

\* The two bounds of LaunchPrompts, compared.
LEMMA MinOfTwo ==
  ASSUME NEW a \in Int, NEW b \in Int
  PROVE  Min({a, b}) = IF a <= b THEN a ELSE b
<1>1. \E x \in {a, b} : \A y \in {a, b} : x <= y
      OBVIOUS
<1>2. Min({a, b}) \in {a, b} /\ \A y \in {a, b} : Min({a, b}) <= y
      BY <1>1 DEF Min
<1> QED
    BY <1>2

\* And cut off below zero.
LEMMA MaxOfTwo ==
  ASSUME NEW a \in Int, NEW b \in Int
  PROVE  Max({a, b}) = IF a >= b THEN a ELSE b
<1>1. \E x \in {a, b} : \A y \in {a, b} : x >= y
      OBVIOUS
<1>2. Max({a, b}) \in {a, b} /\ \A y \in {a, b} : Max({a, b}) >= y
      BY <1>1 DEF Max
<1> QED
    BY <1>2

\* NextMultiple is the first multiple of the interval that is still ahead.
LEMMA NextMultipleIs ==
  ASSUME NEW n \in Nat, NEW i \in Nat \ {0}
  PROVE  /\ NextMultiple(n, i) \in Nat /\ NextMultiple(n, i) > n
         /\ \A b \in Nat : b > n /\ b % i = 0 => NextMultiple(n, i) <= b
<1> DEFINE q == n \div i
<1>1. q \in Int /\ n % i \in 0 .. i - 1 /\ n = q * i + (n % i)
      BY DivMod
<1>2. NextMultiple(n, i) = (q + 1) * i
      BY DEF NextMultiple
<1> HIDE DEF q
<1>3. (q + 1) * i = q * i + i /\ q * i \in Int
      BY <1>1, Z3T(20)
<1>4. NextMultiple(n, i) \in Nat /\ NextMultiple(n, i) > n
      BY <1>1, <1>2, <1>3
<1>5. ASSUME NEW b \in Nat, b > n, b % i = 0 PROVE (q + 1) * i <= b
  <2>1. b \div i \in Int /\ b = (b \div i) * i
        BY <1>5, DivMod
  <2>2. CASE q + 1 <= b \div i
        BY <1>1, <2>1, <2>2, MulMono
  <2>3. CASE b \div i <= q
    <3>1. (b \div i) * i <= q * i
          BY <1>1, <2>1, <2>3, MulMono
    <3>   QED
          BY <1>1, <1>3, <1>5, <2>1, <3>1
  <2>   QED
        BY <1>1, <2>1, <2>2, <2>3
<1> QED
    BY <1>2, <1>4, <1>5

\* The next hard boundary is the first of the boundaries ahead.
LEMMA HardBoundaryIs ==
  ASSUME TypeInv, step < NumRollouts
  PROVE  /\ HardBoundary(step) \in Nat /\ HardBoundary(step) > step
         /\ \A b \in Boundaries : b > step => HardBoundary(step) <= b
<1> DEFINE I == {EvalInterval, SaveInterval} \ {0}
           T == {NumRollouts} \cup {NextMultiple(step, i) : i \in I}
<1>1. I \subseteq Nat \ {0} /\ NumRollouts \in Nat /\ step \in Nat
      BY Parameters DEF TypeInv
<1>2. \A i \in I : /\ NextMultiple(step, i) \in Nat /\ NextMultiple(step, i) > step
                   /\ \A b \in Nat : b > step /\ b % i = 0 => NextMultiple(step, i) <= b
      BY <1>1, NextMultipleIs
<1>3. HardBoundary(step) = Min(T)
      BY DEF HardBoundary
<1> HIDE DEF I
<1>4. T \in SUBSET Nat /\ T # {} /\ \A t \in T : t > step
      BY <1>1, <1>2
<1>5. Min(T) \in T /\ \A t \in T : Min(T) <= t
      BY <1>4, MinOfNats
<1>6. ASSUME NEW b \in Boundaries, b > step PROVE Min(T) <= b
  <2>1. CASE b = NumRollouts
        BY <1>5, <2>1
  <2>2. CASE b \in 1 .. NumRollouts /\ \E i \in I : b % i = 0
    <3>1. PICK i \in I : b % i = 0
          BY <2>2
    <3>2. NextMultiple(step, i) <= b /\ NextMultiple(step, i) \in T
          BY <1>2, <1>6, <2>2, <3>1
    <3>3. Min(T) <= NextMultiple(step, i) /\ Min(T) \in Nat /\ NextMultiple(step, i) \in Nat
          BY <1>4, <1>5, <3>2
    <3>   QED
          BY <2>2, <3>2, <3>3
  <2>   QED
        BY <1>6, <2>1, <2>2 DEF Boundaries, I
<1> HIDE DEF T
<1> QED
    BY <1>3, <1>4, <1>5, <1>6

\* Whole generations are admitted: none where that many are in flight, would be too
\* old when trained, or belong after the next boundary; some when nothing is left.
LEMMA LaunchPromptsAre ==
  ASSUME TypeInv, step < NumRollouts, NEW done \in Nat, NEW since \in Nat,
         NEW k \in Nat, Outstanding = k * BatchSize
  PROVE  \E g \in Nat :
           /\ LaunchPrompts(done, since) = g * BatchSize
           /\ g > 0 => /\ k + g <= MaxInflight
                       /\ k + g <= MaxStaleness - since + 1
                       /\ k + g <= HardBoundary(step) - done
           /\ k = 0 /\ since <= MaxStaleness /\ done < HardBoundary(step) => g > 0
<1> DEFINE L == MaxStaleness - since + 1
           D == HardBoundary(step) - done
           f == IF L >= 0 THEN L ELSE 0
           r == IF D >= 0 THEN D ELSE 0
           m == IF f <= r THEN f ELSE r
           w == IF MaxInflight <= m THEN MaxInflight ELSE m
           g == IF w >= k THEN w - k ELSE 0
<1>1. BatchSize \in Nat \ {0} /\ MaxInflight \in Nat \ {0} /\ MaxStaleness \in Nat
      BY Parameters
<1>2. L \in Int /\ D \in Int
      BY <1>1, HardBoundaryIs
<1> HIDE DEF L, D
<1>3. f \in Nat /\ r \in Nat /\ m \in Nat /\ w \in Nat /\ g \in Nat
      BY <1>1, <1>2
<1>4. FreshnessBatches(since) = f
  <2>1. FreshnessBatches(since) = Max({0, L})
        BY DEF FreshnessBatches, L
  <2>   QED
        BY <1>2, <2>1, MaxOfTwo
<1>5. Max({0, D}) = r
      BY <1>2, MaxOfTwo
<1>6. Min({FreshnessBatches(since), Max({0, D})}) = m
      BY <1>3, <1>4, <1>5, MinOfTwo
<1> HIDE DEF f, r, m
<1>7. LaunchPrompts(done, since)
        = Max({0, Min({MaxInflight * BatchSize - k * BatchSize, m * BatchSize - k * BatchSize})})
      BY <1>6 DEF LaunchPrompts, D
<1> DEFINE x == MaxInflight * BatchSize - k * BatchSize
           y == m * BatchSize - k * BatchSize
<1>8. x = (MaxInflight - k) * BatchSize /\ y = (m - k) * BatchSize /\ x \in Int /\ y \in Int
      BY <1>1, <1>3, Z3T(20)
<1> HIDE DEF x, y
<1>9. Min({x, y}) = (w - k) * BatchSize
  <2>1. CASE MaxInflight <= m
    <3>1. x <= y
          BY <1>1, <1>3, <1>8, <2>1, MulMono
    <3>   QED
          BY <1>8, <2>1, <3>1, MinOfTwo
  <2>2. CASE ~ (MaxInflight <= m)
    <3>1. y <= x
          BY <1>1, <1>3, <1>8, <2>2, MulMono
    <3>2. Min({x, y}) = y
          BY <1>8, <3>1, MinOfTwo
    <3>   QED
          BY <1>8, <2>2, <3>2
  <2>   QED
        BY <2>1, <2>2
<1> HIDE DEF w
<1>10. LaunchPrompts(done, since) = g * BatchSize
  <2>1. LaunchPrompts(done, since) = Max({0, (w - k) * BatchSize}) /\ (w - k) * BatchSize \in Int
        BY <1>1, <1>3, <1>7, <1>9 DEF x, y
  <2>2. CASE w >= k
    <3>1. 0 * BatchSize <= (w - k) * BatchSize /\ 0 * BatchSize = 0
          BY <1>1, <1>3, <2>2, MulMono
    <3>2. Max({0, (w - k) * BatchSize}) = (w - k) * BatchSize
          BY <2>1, <3>1, MaxOfTwo
    <3>   QED
          BY <2>1, <2>2, <3>2
  <2>3. CASE ~ (w >= k)
    <3>1. (w - k) * BatchSize <= 0 * BatchSize /\ 0 * BatchSize = 0
          BY <1>1, <1>3, <2>3, MulMono
    <3>2. Max({0, (w - k) * BatchSize}) = 0
          BY <2>1, <3>1, MaxOfTwo
    <3>   QED
          BY <2>1, <2>3, <3>1, <3>2
  <2>   QED
        BY <2>2, <2>3
<1>11. /\ g > 0 => k + g <= MaxInflight /\ k + g <= L /\ k + g <= D
       /\ k = 0 /\ L >= 1 /\ D >= 1 => g > 0
       BY <1>1, <1>2 DEF w, m, f, r
<1>12. g > 0 => k + g <= MaxStaleness - since + 1 /\ k + g <= HardBoundary(step) - done
       BY <1>11 DEF L, D
<1>13. since <= MaxStaleness /\ done < HardBoundary(step) => L >= 1 /\ D >= 1
       BY <1>1, HardBoundaryIs DEF L, D
<1> QED
    BY <1>3, <1>10, <1>11, <1>12, <1>13

\* The prompts of the generations drawn next.
LEMMA Numbered ==
  ASSUME NEW a \in Nat, NEW fresh \in Seq(Task),
         \A i \in 1 .. Len(fresh) : fresh[i].prompt = a + i - 1
  PROVE  Distinct(fresh) /\ PromptsIn(fresh) = a .. a + Len(fresh) - 1
<1> DEFINE n == Len(fresh)
<1>1. n \in Nat /\ DOMAIN fresh = 1 .. n
      OBVIOUS
<1>2. PromptsIn(fresh) = {fresh[i].prompt : i \in 1 .. n}
      BY InSequence
<1> HIDE DEF n
<1>3. \A i \in 1 .. n : fresh[i].prompt = a + i - 1
      BY DEF n
<1>4. PromptsIn(fresh) = {a + i - 1 : i \in 1 .. n}
      BY <1>2, <1>3
<1>5. \A p \in a .. a + n - 1 : p - a + 1 \in 1 .. n /\ p = a + (p - a + 1) - 1
      BY <1>1
<1>6. \A i \in 1 .. n : a + i - 1 \in a .. a + n - 1
      BY <1>1
<1>7. PromptsIn(fresh) = a .. a + n - 1
      BY <1>4, <1>5, <1>6
<1>8. \A i, j \in 1 .. n : a + i - 1 = a + j - 1 => i = j
      OBVIOUS
<1>9. \A i, j \in 1 .. n : fresh[i].prompt = fresh[j].prompt => i = j
      BY <1>3, <1>8
<1> QED
    BY <1>1, <1>7, <1>9 DEF Distinct, n

\* The tasks Admit makes: the prompts of the next generations, nothing generated yet.
LEMMA Drawn ==
  ASSUME NEW a \in Nat, NEW n \in Nat, NEW fresh,
         fresh = [i \in 1 .. n |-> NewTask(a + i - 1)]
  PROVE  /\ fresh \in Seq(Task) /\ Len(fresh) = n
         /\ \A i \in 1 .. n : fresh[i].versions = {}
         /\ Distinct(fresh) /\ PromptsIn(fresh) = a .. a + n - 1
<1>1. /\ fresh \in Seq(Task) /\ Len(fresh) = n
      /\ \A i \in 1 .. n : fresh[i].versions = {} /\ fresh[i].prompt = a + i - 1
      BY DEF NewTask, Task
<1> QED
    BY <1>1, Numbered
-----------------------------------------------------------------------------
(***************************************************************************)
(* What follows from the invariant in a state.                             *)
(***************************************************************************)
USE DEF Streaming, Syncing, Resting, Stopping

Data == <<recipe, step, trainVersion, publishedVersion, sinceSync, nextGeneration, batch,
          carried, queued, out, ready, trained>>

\* Sizes are numbers, and zero of nothing.
LEMMA Sizes ==
  ASSUME TypeInv
  PROVE  /\ Len(queued) \in Nat /\ Len(carried) \in Nat /\ Len(ready) \in Nat
         /\ Len(batch) \in Nat /\ Cardinality(out) \in Nat /\ Held \in Nat
         /\ queued = <<>> <=> Len(queued) = 0
         /\ carried = <<>> <=> Len(carried) = 0
         /\ ready = <<>> <=> Len(ready) = 0
         /\ batch = <<>> <=> Len(batch) = 0
         /\ out = {} <=> Cardinality(out) = 0
<1>1. Cardinality(out) \in Nat /\ (out = {} <=> Cardinality(out) = 0)
      BY FS_CardinalityType, FS_EmptySet DEF TypeInv
<1>2. /\ Len(queued) \in Nat /\ Len(carried) \in Nat /\ Len(ready) \in Nat /\ Len(batch) \in Nat
      /\ queued = <<>> <=> Len(queued) = 0
      /\ carried = <<>> <=> Len(carried) = 0
      /\ ready = <<>> <=> Len(ready) = 0
      /\ batch = <<>> <=> Len(batch) = 0
      BY EmptySeq DEF TypeInv
<1> QED
    BY <1>1, <1>2 DEF Held

\* When as many generations are drawn as are trained, nothing is held.
LEMMA NothingHeld ==
  ASSUME TypeInv, Whole, pc # "closed", nextGeneration <= step
  PROVE  /\ nextGeneration = step
         /\ queued = <<>> /\ out = {} /\ carried = <<>> /\ ready = <<>> /\ batch = <<>>
         /\ Empty /\ ~Live
<1>1. nextGeneration = step /\ nextGeneration - step = 0
      BY DEF TypeInv, Whole
<1>2. Held = 0 * BatchSize
      BY <1>1 DEF Whole
<1>3. Held = 0
      BY <1>2, Parameters
<1>4. queued = <<>> /\ out = {} /\ carried = <<>> /\ ready = <<>> /\ batch = <<>>
      BY <1>3, Sizes DEF Held
<1> QED
    BY <1>1, <1>4 DEF Empty, Live

\* Before the loop the manager and the driver hold nothing.
LEMMA FreshStart ==
  ASSUME IInv, initial, pc # "closed"
  PROVE  /\ queued = <<>> /\ out = {} /\ carried = <<>> /\ ready = <<>> /\ batch = <<>>
         /\ Empty /\ ~Live
  BY NothingHeld DEF IInv, AtStart, TypeInv

\* Where evaluations, checkpoints and the end are due, nothing is held.
LEMMA EmptyAtBoundary ==
  ASSUME IInv, pc \in Resting, RequireEmpty \/ step = NumRollouts
  PROVE  /\ nextGeneration = step
         /\ queued = <<>> /\ out = {} /\ carried = <<>> /\ ready = <<>> /\ batch = <<>>
         /\ Empty /\ ~Live
<1>1. CASE initial
      BY <1>1, NothingHeld DEF IInv, AtStart, TypeInv
<1>2. CASE ~initial
  <2>1. step \in Nat \ {0} /\ step <= NumRollouts
        BY <1>2, Parameters DEF IInv, AtStart, TypeInv
  <2>2. step \in Boundaries
    <3>1. CASE step = NumRollouts
          BY <3>1 DEF Boundaries
    <3>2. CASE step # NumRollouts
      <4>1. step \in 1 .. NumRollouts /\ ~ (step >= NumRollouts)
            BY <2>1, <3>2, Parameters DEF IInv
      <4>2. EvalDue \/ SaveDue
            BY <1>2, <3>2 DEF RequireEmpty
      <4>3. \E i \in {EvalInterval, SaveInterval} \ {0} : step % i = 0
            BY <4>1, <4>2 DEF EvalDue, SaveDue
      <4>   QED
            BY <4>1, <4>3 DEF Boundaries
    <3>   QED
          BY <3>1, <3>2
  <2>3. nextGeneration <= step
        BY <2>2 DEF IInv, Bounded
  <2>   QED
        BY <2>3, NothingHeld DEF IInv
<1> QED
    BY <1>1, <1>2

\* Batches in flight, besides the one the driver is about to train on.
InFlight == nextGeneration - step - (IF batch = <<>> THEN 0 ELSE 1)

\* What is in flight is a whole number of batches, besides the one in training.
LEMMA FlightSize ==
  ASSUME TypeInv, AtPoint, Whole, pc # "closed"
  PROVE  /\ InFlight \in Nat
         /\ Len(queued) + Cardinality(out) + Len(carried) + Len(ready) = InFlight * BatchSize
<1> DEFINE d  == nextGeneration - step
           in == Len(queued) + Cardinality(out) + Len(carried) + Len(ready)
<1>1. /\ BatchSize \in Nat \ {0} /\ d \in Nat /\ in \in Nat
      /\ in + Len(batch) = d * BatchSize
  <2>1. BatchSize \in Nat \ {0} /\ in \in Nat
    <3>1. BatchSize \in Nat \ {0}
          BY Parameters
    <3>2. in \in Nat
          BY Sizes
    <3>   QED
          BY <3>1, <3>2
  <2>2. d \in Nat
        BY DEF Whole, TypeInv
  <2>3. in + Len(batch) = Held
        BY Sizes DEF Held
  <2>4. Held = d * BatchSize
        BY DEF Whole
  <2>   QED
        BY <2>1, <2>2, <2>3, <2>4, Zenon
<1>2. CASE batch = <<>>
  <2>1. InFlight = d /\ Len(batch) = 0
        BY <1>1, <1>2, Sizes DEF InFlight
  <2>   QED
        BY <1>1, <2>1
<1>3. CASE batch # <<>>
  <2>1. InFlight = d - 1 /\ Len(batch) = BatchSize
        BY <1>1, <1>3 DEF InFlight, AtPoint
  <2>2. in = (d - 1) * BatchSize
        BY <1>1, <2>1, Z3T(20)
  <2>3. 0 * BatchSize <= (d - 1) * BatchSize
        BY <1>1, <2>2
  <2>4. 0 <= d - 1
        BY <1>1, <2>3, MulCancel
  <2>   QED
        BY <1>1, <2>1, <2>2, <2>4
<1> QED
    BY <1>2, <1>3

\* What is in flight is bounded.
LEMMA InvInflight == IInv => InflightBounded
<1> SUFFICES ASSUME IInv, pc # "closed" PROVE InflightBounded
    BY DEF IInv
<1>1. InFlight <= MaxInflight
      BY DEF IInv, Bounded, InFlight
<1>2. InFlight * BatchSize <= MaxInflight * BatchSize
  <2>1. InFlight \in Nat /\ MaxInflight \in Nat /\ BatchSize \in Nat
        BY FlightSize, Parameters DEF IInv
  <2>   QED
        BY <1>1, <2>1, MulMono
<1> QED
    BY <1>2, FlightSize, Sizes DEF IInv, InflightBounded

\* A group at place i of the completed ones has this many batches before it.
Ahead(i) == (i - 1) \div BatchSize + (IF batch = <<>> THEN 0 ELSE 1)

\* Nothing that is filtered is too old.
LEMMA NothingTooOld ==
  ASSUME IInv
  PROVE  /\ \A i \in DOMAIN ready : WithinLag(ready[i])
         /\ ~initial /\ pc # "closed" => \A i \in DOMAIN carried : WithinLag(carried[i])
<1>1. /\ UpdatesPerBatch \in Nat \ {0} /\ MaxStaleness \in Nat /\ BatchSize \in Nat \ {0}
      /\ Budget \in Nat /\ trainVersion \in Nat /\ publishedVersion \in Nat /\ sinceSync \in Nat
      /\ Budget = MaxStaleness * UpdatesPerBatch
      BY Parameters DEF IInv, TypeInv, Budget
<1>2. ASSUME NEW i \in DOMAIN ready, NEW v \in ready[i].versions PROVE trainVersion - v <= Budget
  <2>1. i \in Nat \ {0} /\ v \in Nat
    <3>1. ready \in Seq(Group)
          BY DEF IInv, TypeInv
    <3>2. i \in Nat \ {0} /\ ready[i] \in Group
          BY <1>2, <3>1
    <3>   QED
          BY <1>2, <3>2 DEF Group
  <2>2. Ahead(i) \in Nat
    <3>1. 0 \div BatchSize = 0 /\ 0 \div BatchSize <= (i - 1) \div BatchSize
      <4>1. 0 * BatchSize = 0 /\ 0 \in Int
            BY <1>1
      <4>   QED
            BY <1>1, <2>1, <4>1, DivMul, DivMono
    <3>2. (i - 1) \div BatchSize \in Int
          BY <1>1, <2>1, DivMod, i - 1 \in Int
    <3>3. (i - 1) \div BatchSize \in Nat
          BY <3>1, <3>2
    <3>   QED
          BY <3>3 DEF Ahead
  <2>3. trainVersion - v + Ahead(i) * UpdatesPerBatch <= Budget
        BY <1>2 DEF IInv, StalenessBudgeted, Ahead
  <2>4. Ahead(i) * UpdatesPerBatch \in Nat
        BY <1>1, <2>2
  <2>   QED
        BY <1>1, <2>1, <2>3, <2>4
<1>3. ASSUME ~initial, pc # "closed", NEW i \in DOMAIN carried, NEW v \in carried[i].versions
      PROVE  trainVersion - v <= Budget
  <2>1. v = publishedVersion
        BY <1>3 DEF IInv, Served, Elements
  <2>2. trainVersion - v <= sinceSync * UpdatesPerBatch
        BY <1>3, <2>1 DEF IInv, Served
  <2>3. carried # <<>>
        BY <1>3 DEF IInv, TypeInv
  <2>4. nextGeneration - step > 0
        BY <1>3, <2>3, NothingHeld DEF IInv, TypeInv
  <2>5. sinceSync <= MaxStaleness
        BY <1>1, <1>3, <2>4 DEF IInv, Bounded, TypeInv
  <2>6. sinceSync * UpdatesPerBatch <= Budget
        BY <1>1, <2>5, MulMono
  <2>7. sinceSync * UpdatesPerBatch \in Nat
        BY <1>1
  <2>   QED
        BY <1>1, <2>1, <2>2, <2>6, <2>7
<1> QED
    BY <1>2, <1>3 DEF WithinLag

\* So the filters of collect, quiesce and finish leave all there is.
LEMMA FiltersKeep ==
  ASSUME IInv
  PROVE  /\ Filtered(ready) = ready
         /\ pc # "closed" => Filtered(carried) = carried
<1>1. Filtered(ready) = ready
      BY NothingTooOld, FilteredKeeps DEF IInv, TypeInv
<1>2. ASSUME pc # "closed" PROVE \A i \in DOMAIN carried : WithinLag(carried[i])
  <2>1. CASE ~initial
        BY <1>2, <2>1, NothingTooOld
  <2>2. CASE initial
        BY <1>2, <2>2, FreshStart
  <2>   QED
        BY <2>1, <2>2 DEF IInv, TypeInv
<1>3. ASSUME pc # "closed" PROVE Filtered(carried) = carried
      BY <1>2, <1>3, FilteredKeeps DEF IInv, TypeInv
<1> QED
    BY <1>1, <1>3
-----------------------------------------------------------------------------
(***************************************************************************)
(* The steps keep the invariant.                                           *)
(***************************************************************************)
USE DEF Streaming, Syncing, Resting, Stopping

-----------------------------------------------------------------------------
(***************************************************************************)
(* Steps that move nothing from place to place.                            *)
(***************************************************************************)

\* Prompts stay where they are.
LEMMA PlacesKept ==
  ASSUME Placed, pc # "closed" \/ pc' = "closed",
         UNCHANGED <<queued, out, carried, ready, batch, trained, nextGeneration>>
  PROVE  Placed'
<1>1. /\ PromptsIn(queued)' = PromptsIn(queued) /\ PromptsIn(carried)' = PromptsIn(carried)
      /\ PromptsIn(ready)' = PromptsIn(ready) /\ PromptsIn(batch)' = PromptsIn(batch)
      /\ Prompts(out)' = Prompts(out)
      BY DEF PromptsIn, Prompts, Elements
<1>2. /\ Distinct(queued)' = Distinct(queued) /\ Distinct(carried)' = Distinct(carried)
      /\ Distinct(ready)' = Distinct(ready) /\ Distinct(batch)' = Distinct(batch)
      BY DEF Distinct
<1>3. (0 .. nextGeneration * BatchSize - 1)' = 0 .. nextGeneration * BatchSize - 1 /\ trained' = trained
      OBVIOUS
<1>4. (\A r, s \in out : r.prompt = s.prompt => r = s) => (\A r, s \in out : r.prompt = s.prompt => r = s)'
      OBVIOUS
<1> SUFFICES ASSUME pc' # "closed" PROVE Placed'
    BY DEF Placed
<1>5. /\ Distinct(queued)' /\ Distinct(carried)' /\ Distinct(ready)' /\ Distinct(batch)'
      /\ (\A r, s \in out : r.prompt = s.prompt => r = s)'
      BY <1>2, <1>4 DEF Placed
<1>6. Apart(PromptsIn(queued), Prompts(out), PromptsIn(carried), PromptsIn(ready),
            PromptsIn(batch), trained)'
      BY <1>1, <1>3 DEF Placed, Apart
<1>7. (PromptsIn(queued) \cup Prompts(out) \cup PromptsIn(carried) \cup PromptsIn(ready)
         \cup PromptsIn(batch) \cup trained = 0 .. nextGeneration * BatchSize - 1)'
      BY <1>1, <1>3 DEF Placed
<1> QED
    BY <1>5, <1>6, <1>7 DEF Placed

\* The parts of the invariant about the data, in a step that leaves it alone.
LEMMA DataKept ==
  ASSUME IInv, UNCHANGED Data, pc # "closed" \/ pc' = "closed"
  PROVE  /\ Whole' /\ Placed' /\ OneGeneration' /\ OneVersionPerBatch' /\ StalenessBudgeted'
         /\ (pc' = "closed" => InflightBounded')
<1> USE DEF Data, MaxInflight, MaxStaleness, UpdatesPerBatch
<1>1. Whole'
      BY DEF IInv, Whole, Held
<1>2. Placed'
      BY PlacesKept DEF IInv
<1>3. OneGeneration'
      BY DEF IInv, OneGeneration, PromptsIn, Prompts, Elements
<1>4. OneVersionPerBatch'
      BY DEF IInv, OneVersionPerBatch
<1>5. StalenessBudgeted'
      BY DEF IInv, StalenessBudgeted, Versions, Budget
<1>6. InflightBounded'
      BY InvInflight DEF InflightBounded
<1> QED
    BY <1>1, <1>2, <1>3, <1>4, <1>5, <1>6

\* An error the loop itself does not check for.
LEMMA RaiseKeeps ==
  ASSUME IInv, NEW why \in {"engine", "work"}, pc \notin Stopping, Raise(why)
  PROVE  IInv'
<1> USE DEF Raise, loopVars, syncVars, managerVars, storeVars
<1>1. TypeInv'
      BY DEF IInv, TypeInv, Checkpoint
<1>2. UNCHANGED Data
      BY DEF Data
<1>3. AtPoint'
      BY FreshStart DEF IInv, AtPoint
<1>4. AtStart'
      BY DEF IInv, AtStart
<1>5. Bounded'
      BY DEF IInv, Bounded, MaxStaleness, MaxInflight
<1>6. Served'
      BY DEF IInv, Served, Elements, Versions, UpdatesPerBatch
<1>7. CheckpointsExact'
      BY DEF IInv, CheckpointsExact
<1>8. ChecksHold'
      BY DEF ChecksHold
<1> QED
    BY <1>1, <1>2, <1>3, <1>4, <1>5, <1>6, <1>7, <1>8, DataKept DEF IInv

\* A broken manager holds what it held.
LEMMA EngineFailsKeeps == ASSUME IInv, EngineFails PROVE IInv'
<1> USE DEF EngineFails, loopVars, syncVars, managerVars, storeVars
<1>1. TypeInv'
      BY DEF IInv, TypeInv, Checkpoint
<1>2. UNCHANGED Data /\ UNCHANGED <<pc, initial, resumed, saving, checkpoints, fault>>
      BY DEF Data
<1>3. AtPoint'
      BY <1>2 DEF IInv, AtPoint, SaveDue, SaveInterval, Data
<1>4. AtStart'
      BY DEF IInv, AtStart
<1>5. Bounded'
      BY DEF IInv, Bounded, MaxStaleness, MaxInflight, SyncInterval, Boundaries,
             EvalInterval, SaveInterval
<1>6. Served'
      BY DEF IInv, Served, Elements, Versions, UpdatesPerBatch
<1>7. CheckpointsExact' /\ ChecksHold'
      BY DEF IInv, CheckpointsExact, ChecksHold
<1> QED
    BY <1>1, <1>2, <1>3, <1>4, <1>5, <1>6, <1>7, DataKept DEF IInv

\* A checkpoint that becomes durable was exact when it was begun.
LEMMA SaveCompletesKeeps == ASSUME IInv, SaveCompletes PROVE IInv'
<1> USE DEF SaveCompletes, loopVars, syncVars, managerVars
<1>1. TypeInv'
      BY DEF IInv, TypeInv, Checkpoint
<1>2. UNCHANGED Data /\ UNCHANGED <<pc, initial, resumed, fault>>
      BY DEF Data
<1>3. AtPoint'
      BY <1>2 DEF IInv, AtPoint, SaveDue, SaveInterval, Data
<1>4. AtStart'
      BY DEF IInv, AtStart
<1>5. Bounded'
      BY DEF IInv, Bounded, MaxStaleness, MaxInflight, SyncInterval, Boundaries,
             EvalInterval, SaveInterval
<1>6. Served'
      BY DEF IInv, Served, Elements, Versions, UpdatesPerBatch
<1>7. CheckpointsExact' /\ ChecksHold'
      BY DEF IInv, CheckpointsExact, ChecksHold
<1> QED
    BY <1>1, <1>2, <1>3, <1>4, <1>5, <1>6, <1>7, DataKept DEF IInv

\* The end of the loop.
LEMMA EndLoopKeeps == ASSUME IInv, pc = "top", EndLoop PROVE IInv'
<1> USE DEF EndLoop, loopVars, syncVars, managerVars, storeVars
<1>1. TypeInv'
      BY DEF IInv, TypeInv, Checkpoint
<1>2. UNCHANGED Data
      BY DEF Data
<1>3. AtPoint' /\ AtStart'
      BY DEF IInv, AtPoint, AtStart
<1>5. Bounded'
      BY DEF IInv, Bounded, MaxStaleness, MaxInflight
<1>6. Served'
      BY DEF IInv, AtStart, Served, Elements, Versions, UpdatesPerBatch
<1>7. CheckpointsExact' /\ ChecksHold'
      BY DEF IInv, CheckpointsExact, ChecksHold
<1> QED
    BY <1>1, <1>2, <1>3, <1>5, <1>6, <1>7, DataKept DEF IInv

\* A boundary without a publication leaves sinceSync below the interval, or is the last.
LEMMA NoSyncKeeps == ASSUME IInv, NoSync PROVE IInv'
<1> USE DEF NoSync, loopVars, syncVars, managerVars, storeVars
<1>1. TypeInv'
      BY DEF IInv, TypeInv, Checkpoint
<1>2. UNCHANGED Data
      BY DEF Data
<1>3. AtPoint' /\ AtStart'
      BY DEF IInv, AtPoint, AtStart
<1>4. sinceSync < SyncInterval \/ ~ (step < NumRollouts)
  <2>1. sinceSync \in Nat /\ SyncInterval \in Nat \ {0}
        BY Parameters DEF IInv, TypeInv
  <2>2. CASE pc = "setup"
        BY <2>1, <2>2 DEF IInv, AtStart
  <2>3. CASE pc = "boundary"
        BY <2>1, <2>3 DEF SyncCalled, SyncDue
  <2>   QED
        BY <2>2, <2>3
<1>5. Bounded'
  <2>1. UNCHANGED <<step, nextGeneration, sinceSync, batch, recipe>> /\ pc \in Resting
        OBVIOUS
  <2>   QED
        BY <1>4, <2>1 DEF IInv, Bounded, MaxStaleness, MaxInflight, SyncInterval, Boundaries,
             EvalInterval, SaveInterval
<1>6. trainVersion - publishedVersion <= sinceSync * UpdatesPerBatch
  <2>1. CASE pc = "setup"
    <3>1. trainVersion = publishedVersion /\ sinceSync = 0
          BY <2>1 DEF IInv, AtStart, SyncCalled
    <3>2. 0 * UpdatesPerBatch = 0 /\ trainVersion \in Nat
          BY Parameters DEF IInv, TypeInv
    <3>   QED
          BY <3>1, <3>2
  <2>2. CASE pc = "boundary"
        BY <2>2 DEF IInv, AtStart, Served
  <2>   QED
        BY <2>1, <2>2
<1>7. Served'
      BY <1>6 DEF IInv, Served, Elements, Versions, UpdatesPerBatch
<1>8. CheckpointsExact' /\ ChecksHold'
      BY DEF IInv, CheckpointsExact, ChecksHold
<1> QED
    BY <1>1, <1>2, <1>3, <1>5, <1>7, <1>8, DataKept DEF IInv

\* Nothing is held where nothing may be.
LEMMA NothingToPublishKeeps == ASSUME IInv, NothingToPublish PROVE IInv'
<1> USE DEF CountAfresh, loopVars, syncVars, managerVars, storeVars
<1>1. pc = "boundary" /\ publishedVersion = trainVersion /\ ~initial
      BY DEF NothingToPublish, SyncCalled, NeedsPublish, IInv, AtStart
<1>2. RequireEmpty => Empty
      BY <1>1, EmptyAtBoundary
<1>3. CountAfresh
      BY <1>2 DEF NothingToPublish, Checked
<1>4. TypeInv'
      BY <1>3 DEF IInv, TypeInv, Checkpoint
<1>5. UNCHANGED <<recipe, step, nextGeneration, batch, ready, queued, out, carried, trained,
                  trainVersion, publishedVersion>>
      BY <1>3
<1>6. AtPoint' /\ AtStart'
      BY <1>1, <1>3 DEF IInv, AtPoint, AtStart
<1>7. Bounded'
  <2>1. sinceSync \in Nat /\ sinceSync' = 0 /\ SyncInterval \in Nat \ {0}
        BY <1>3, Parameters DEF IInv, TypeInv
  <2>2. sinceSync' + nextGeneration - step <= MaxStaleness + 1
    <3>1. sinceSync + nextGeneration - step <= MaxStaleness + 1
          BY <1>1 DEF IInv, Bounded
    <3>2. nextGeneration \in Int /\ step \in Int /\ MaxStaleness \in Int
          BY Parameters DEF IInv, TypeInv
    <3>   QED
          BY <2>1, <3>1, <3>2
  <2>   QED
        BY <1>1, <1>3, <1>5, <2>1, <2>2 DEF IInv, Bounded, MaxStaleness, MaxInflight,
           SyncInterval,
           Boundaries, EvalInterval, SaveInterval
<1>8. Served'
  <2>1. trainVersion \in Nat /\ 0 * UpdatesPerBatch = 0
        BY Parameters DEF IInv, TypeInv
  <2>   QED
        BY <1>1, <1>3, <1>5, <2>1 DEF IInv, Served, Elements, Versions, UpdatesPerBatch
<1>9. /\ Whole' /\ Placed' /\ OneGeneration' /\ OneVersionPerBatch' /\ StalenessBudgeted'
  <2>1. Whole'
        BY <1>1, <1>5 DEF IInv, Whole, Held
  <2>2. Placed'
        BY <1>1, <1>5, PlacesKept DEF IInv
  <2>3. OneGeneration'
        BY <1>1, <1>5 DEF IInv, OneGeneration, PromptsIn, Prompts, Elements, MaxInflight
  <2>4. OneVersionPerBatch'
        BY <1>5 DEF IInv, OneVersionPerBatch
  <2>5. StalenessBudgeted'
        BY <1>5 DEF IInv, StalenessBudgeted, Versions, Budget, MaxStaleness, UpdatesPerBatch
  <2>   QED
        BY <2>1, <2>2, <2>3, <2>4, <2>5
<1>10. CheckpointsExact' /\ ChecksHold' /\ pc' # "closed"
       BY <1>3 DEF IInv, CheckpointsExact, ChecksHold
<1> QED
    BY <1>4, <1>6, <1>7, <1>8, <1>9, <1>10 DEF IInv

\* quiesce returns with an empty manager and the filters drop nothing.
LEMMA QuiesceReturnsKeeps == ASSUME IInv, QuiesceReturns PROVE IInv'
<1>1. /\ pc = "drain" /\ out = {} /\ ready' = ready /\ carried' = carried /\ pc' = "align"
      /\ UNCHANGED <<loopVars, publishedVersion, sinceSync, nextGeneration, batch, fault,
                     queued, out, broken, storeVars>>
      BY FiltersKeep DEF QuiesceReturns, Drained
<1>2. UNCHANGED Data
      BY <1>1 DEF Data, loopVars, storeVars
<1>3. UNCHANGED <<initial, resumed, fault, broken, saving, checkpoints, crashes>>
      BY <1>1 DEF loopVars, storeVars
<1>4. TypeInv'
      BY <1>1, <1>2, <1>3 DEF IInv, TypeInv, Checkpoint, Data
<1>5. AtPoint' /\ AtStart'
      BY <1>1, <1>2, <1>3 DEF IInv, AtPoint, AtStart, Data
<1>6. Bounded'
      BY <1>1, <1>2 DEF IInv, Bounded, MaxStaleness, MaxInflight, SyncInterval, Boundaries,
           EvalInterval, SaveInterval, Data
<1>7. Served'
      BY <1>1, <1>2, <1>3 DEF IInv, Served, Elements, Versions, UpdatesPerBatch, Data
<1>8. CheckpointsExact' /\ ChecksHold'
      BY <1>3 DEF IInv, CheckpointsExact, ChecksHold
<1> QED
    BY <1>1, <1>2, <1>4, <1>5, <1>6, <1>7, <1>8, DataKept DEF IInv

\* finish returns with an empty manager; a finished prefix completes the last batch.
LEMMA FinishReturnsKeeps == ASSUME IInv, FinishReturns PROVE IInv'
<1>1. /\ pc \in {"finishStarted", "finishPrefix"} /\ out = {} /\ queued = <<>> /\ ready' = ready
      /\ pc' = IF pc = "finishStarted" THEN "prefix" ELSE "publish"
      /\ UNCHANGED <<loopVars, syncVars, nextGeneration, batch, fault, queued, out,
                     broken, storeVars>>
      BY FiltersKeep DEF FinishReturns, Live
<1>2. UNCHANGED Data
      BY <1>1 DEF Data, loopVars, syncVars, storeVars
<1>3. UNCHANGED <<initial, resumed, fault, broken, saving, checkpoints, crashes>>
      BY <1>1 DEF loopVars, storeVars
<1>4. TypeInv'
      BY <1>1, <1>2, <1>3 DEF IInv, TypeInv, Checkpoint, Data
<1>5. AtPoint'
  <2>1. pc = "finishPrefix" => Len(ready) % BatchSize = 0
    <3>1. Len(queued) + Cardinality(out) + Len(ready) = Len(ready)
          BY <1>1, Sizes DEF IInv
    <3>   QED
          BY <3>1 DEF IInv, AtPoint
  <2>2. pc = "finishStarted" => carried = <<>>
        BY DEF IInv, AtPoint
  <2>3. pc = "finishPrefix" => \A i \in DOMAIN carried : carried[i].versions = {}
        BY DEF IInv, AtPoint
  <2>4. carried = <<>> => DOMAIN carried = {}
        OBVIOUS
  <2>   QED
        BY <1>1, <1>2, <2>1, <2>2, <2>3, <2>4 DEF IInv, AtPoint, Data
<1>6. AtStart'
      BY <1>1, <1>2, <1>3 DEF IInv, AtStart, Data
<1>7. Bounded'
      BY <1>1, <1>2 DEF IInv, Bounded, MaxStaleness, MaxInflight, SyncInterval, Boundaries,
           EvalInterval, SaveInterval, Data
<1>8. Served'
      BY <1>1, <1>2, <1>3 DEF IInv, Served, Elements, Versions, UpdatesPerBatch, Data
<1>9. CheckpointsExact' /\ ChecksHold'
      BY <1>3 DEF IInv, CheckpointsExact, ChecksHold
<1> QED
    BY <1>1, <1>2, <1>4, <1>5, <1>6, <1>7, <1>8, <1>9, DataKept DEF IInv

\* The last check of the loop: at the end of the run nothing is held.
LEMMA AfterKeeps == ASSUME IInv, After PROVE IInv'
<1> USE DEF PassBoundary, syncVars, managerVars, storeVars
<1>1. pc = "after" /\ (initial \/ step < NumRollouts \/ Empty)
  <2>1. step < NumRollouts \/ step = NumRollouts
        BY Parameters DEF IInv, TypeInv
  <2>   QED
        BY <2>1, EmptyAtBoundary DEF After
<1>2. PassBoundary
      BY <1>1 DEF After, Checked
<1>3. UNCHANGED Data
      BY <1>2 DEF Data
<1>4. TypeInv'
      BY <1>2 DEF IInv, TypeInv, Checkpoint
<1>5. AtPoint' /\ AtStart'
      BY <1>1, <1>2 DEF IInv, AtPoint, AtStart, SaveDue, SaveInterval
<1>6. Bounded'
      BY <1>1, <1>2 DEF IInv, Bounded, MaxStaleness, MaxInflight, SyncInterval, Boundaries,
           EvalInterval, SaveInterval
<1>7. Served'
      BY <1>1, <1>2 DEF IInv, Served, Elements, Versions, UpdatesPerBatch
<1>8. CheckpointsExact' /\ ChecksHold'
      BY <1>2 DEF IInv, CheckpointsExact, ChecksHold
<1> QED
    BY <1>1, <1>2, <1>3, <1>4, <1>5, <1>6, <1>7, <1>8, DataKept DEF IInv

-----------------------------------------------------------------------------
(***************************************************************************)
(* Admission.                                                              *)
(***************************************************************************)

\* One batch is the driver's, or none.
Taken == IF batch = <<>> THEN 0 ELSE 1

\* Admission draws the generations that fit, whatever is in flight.
LEMMA AdmitDraws ==
  ASSUME IInv, pc \in {"top", "refill"}, step < NumRollouts,
         Admit(step + Taken, sinceSync + Taken)
  PROVE  \E g \in Nat : \E fresh \in Seq(Task) :
           /\ nextGeneration' = nextGeneration + g
           /\ queued' = queued \o fresh
           /\ Len(fresh) = g * BatchSize /\ Distinct(fresh)
           /\ PromptsIn(fresh) = nextGeneration * BatchSize .. (nextGeneration + g) * BatchSize - 1
           /\ \A i \in 1 .. Len(fresh) : fresh[i].versions = {}
           /\ g > 0 => /\ InFlight + g <= MaxInflight
                       /\ sinceSync + nextGeneration + g - step <= MaxStaleness + 1
                       /\ nextGeneration + g <= HardBoundary(step)
           /\ pc = "top" => nextGeneration + g > step
<1>1. /\ BatchSize \in Nat \ {0} /\ step \in Nat /\ sinceSync \in Nat /\ nextGeneration \in Nat
      /\ MaxStaleness \in Nat /\ SyncInterval \in Nat \ {0} /\ MaxStaleness >= SyncInterval - 1
      /\ Taken \in {0, 1} /\ InFlight \in Nat /\ InFlight = nextGeneration - step - Taken
  <2>1. InFlight \in Nat /\ InFlight = nextGeneration - step - Taken
        BY FlightSize DEF IInv, Taken, InFlight
  <2>   QED
        BY <2>1, Parameters DEF IInv, TypeInv, Taken
<1>2. Outstanding = InFlight * BatchSize
      BY FlightSize, Sizes DEF IInv, AtPoint, Outstanding
<1>3. HardBoundary(step) \in Nat /\ HardBoundary(step) > step
      BY HardBoundaryIs DEF IInv
<1> DEFINE n == LaunchPrompts(step + Taken, sinceSync + Taken)
<1>4. PICK g \in Nat :
        /\ n = g * BatchSize
        /\ g > 0 => /\ InFlight + g <= MaxInflight
                    /\ InFlight + g <= MaxStaleness - (sinceSync + Taken) + 1
                    /\ InFlight + g <= HardBoundary(step) - (step + Taken)
        /\ InFlight = 0 /\ sinceSync + Taken <= MaxStaleness /\ step + Taken < HardBoundary(step)
             => g > 0
  <2>1. step + Taken \in Nat /\ sinceSync + Taken \in Nat
        BY <1>1
  <2>   QED
        BY <1>1, <1>2, <2>1, LaunchPromptsAre DEF IInv
<1> DEFINE a == nextGeneration * BatchSize
           fresh == [i \in 1 .. n |-> NewTask(a + i - 1)]
<1>5. queued' = queued \o fresh /\ nextGeneration' = nextGeneration + n \div BatchSize
      BY DEF Admit
<1>6. n \div BatchSize = g /\ n \in Nat /\ a \in Nat /\ a + n = (nextGeneration + g) * BatchSize
  <2>1. n \div BatchSize = g
        BY <1>1, <1>4, DivMul
  <2>2. g * BatchSize \in Nat /\ a \in Nat /\ a + g * BatchSize = (nextGeneration + g) * BatchSize
        BY <1>1, Z3T(20)
  <2>   QED
        BY <1>4, <2>1, <2>2
<1> HIDE DEF n, a
<1>7. /\ fresh \in Seq(Task) /\ Len(fresh) = n
      /\ \A i \in 1 .. n : fresh[i].versions = {}
      /\ Distinct(fresh) /\ PromptsIn(fresh) = a .. a + n - 1
      BY <1>6, Drawn
<1> HIDE DEF fresh
<1>8. PromptsIn(fresh) = nextGeneration * BatchSize .. (nextGeneration + g) * BatchSize - 1
      BY <1>6, <1>7 DEF a
<1>9. g > 0 => /\ InFlight + g <= MaxInflight
               /\ sinceSync + nextGeneration + g - step <= MaxStaleness + 1
               /\ nextGeneration + g <= HardBoundary(step)
      BY <1>1, <1>3, <1>4
<1>10. pc = "top" => nextGeneration + g > step
  <2>   SUFFICES ASSUME pc = "top" PROVE nextGeneration + g > step
        OBVIOUS
  <2>1. Taken = 0 /\ sinceSync < SyncInterval
        BY DEF Taken, IInv, AtPoint, Bounded
  <2>2. sinceSync + Taken <= MaxStaleness /\ step + Taken < HardBoundary(step)
        BY <1>1, <1>3, <2>1
  <2>3. InFlight = nextGeneration - step
        BY <1>1, <2>1
  <2>   QED
        BY <1>1, <1>4, <2>2, <2>3
<1> QED
    BY <1>4, <1>5, <1>6, <1>7, <1>8, <1>9, <1>10

\* Admission keeps the invariant: the generations drawn are whole, new, and have room in
\* each of the three bounds.
LEMMA AdmitKeeps ==
  ASSUME IInv, pc \in {"top", "refill"}, step < NumRollouts,
         Admit(step + Taken, sinceSync + Taken),
         pc' = IF pc = "top" THEN "collect" ELSE "train",
         UNCHANGED <<loopVars, syncVars, batch, fault, out, ready, broken, storeVars>>
  PROVE  IInv'
<1> USE DEF loopVars, syncVars, storeVars
<1> DEFINE B == BatchSize
<1>1. /\ B \in Nat \ {0} /\ step \in Nat /\ sinceSync \in Nat /\ nextGeneration \in Nat
      /\ MaxInflight \in Nat \ {0} /\ queued \in Seq(Task)
      BY Parameters DEF IInv, TypeInv
<1>2. PICK g \in Nat : \E fresh \in Seq(Task) :
           /\ nextGeneration' = nextGeneration + g
           /\ queued' = queued \o fresh
           /\ Len(fresh) = g * B /\ Distinct(fresh)
           /\ PromptsIn(fresh) = nextGeneration * B .. (nextGeneration + g) * B - 1
           /\ \A i \in 1 .. Len(fresh) : fresh[i].versions = {}
           /\ g > 0 => /\ InFlight + g <= MaxInflight
                       /\ sinceSync + nextGeneration + g - step <= MaxStaleness + 1
                       /\ nextGeneration + g <= HardBoundary(step)
           /\ pc = "top" => nextGeneration + g > step
      BY AdmitDraws
<1>3. PICK fresh \in Seq(Task) :
           /\ nextGeneration' = nextGeneration + g
           /\ queued' = queued \o fresh
           /\ Len(fresh) = g * B /\ Distinct(fresh)
           /\ PromptsIn(fresh) = nextGeneration * B .. (nextGeneration + g) * B - 1
           /\ \A i \in 1 .. Len(fresh) : fresh[i].versions = {}
           /\ g > 0 => /\ InFlight + g <= MaxInflight
                       /\ sinceSync + nextGeneration + g - step <= MaxStaleness + 1
                       /\ nextGeneration + g <= HardBoundary(step)
           /\ pc = "top" => nextGeneration + g > step
      BY <1>2
<1> HIDE DEF B
<1>4. /\ queued' \in Seq(Task) /\ Len(queued') = Len(queued) + g * B
      /\ Splits(queued', queued, fresh)
      /\ Elements(queued') \subseteq Elements(queued) \cup Elements(fresh)
  <2>1. queued \in Seq(Task) /\ fresh \in Seq(Task) /\ queued' = queued \o fresh
        BY <1>1, <1>3
  <2>2. /\ queued \o fresh \in Seq(Task) /\ Len(queued \o fresh) = Len(queued) + Len(fresh)
        /\ Splits(queued \o fresh, queued, fresh)
        /\ Elements(queued \o fresh) \subseteq Elements(queued) \cup Elements(fresh)
        BY <2>1, Joined, Zenon
  <2>   QED
        BY <1>3, <2>1, <2>2, Zenon
<1>5. TypeInv'
  <2>1. nextGeneration' \in Nat
        BY <1>1, <1>3
  <2>2. pc' \in Streaming \cup Resting \cup Stopping
        OBVIOUS
  <2>   QED
        BY <1>4, <2>1, <2>2 DEF IInv, TypeInv, Checkpoint
<1>6. AtPoint' /\ AtStart'
  <2>1. ~initial
        BY DEF IInv, AtStart
  <2>2. pc = "top" => nextGeneration' > step'
        BY <1>3
  <2>3. carried = <<>> /\ (pc = "top" => batch = <<>>) /\ (pc = "refill" => Len(batch) = BatchSize)
        BY DEF IInv, AtPoint
  <2>   QED
        BY <2>1, <2>2, <2>3 DEF AtPoint, AtStart
<1>7. Whole'
  <2>1. /\ Len(queued) \in Nat /\ Len(carried) \in Nat /\ Len(ready) \in Nat
        /\ Len(batch) \in Nat /\ Cardinality(out) \in Nat
        BY Sizes DEF IInv
  <2>2. nextGeneration >= step /\ Held = (nextGeneration - step) * B
        BY DEF IInv, Whole, B
  <2>3. Held' = Held + g * B
        BY <1>1, <1>4, <2>1 DEF Held
  <2>4. (nextGeneration - step) * B + g * B = (nextGeneration + g - step) * B
        BY <1>1, Z3T(20)
  <2>5. /\ nextGeneration' - step' = nextGeneration + g - step
        /\ nextGeneration' >= step'
        BY <1>1, <1>3, <2>2
  <2>6. Held' = (nextGeneration' - step') * B
        BY <2>2, <2>3, <2>4, <2>5
  <2>   QED
        BY <2>5, <2>6 DEF Whole, B
<1>8. Bounded'
  <2>1. sinceSync' + nextGeneration' - step' <= MaxStaleness' + 1
    <3>1. CASE g = 0
          BY <1>1, <1>3, <3>1 DEF IInv, Bounded, MaxStaleness
    <3>2. CASE g > 0
      <4>1. sinceSync + nextGeneration + g - step <= MaxStaleness + 1
            BY <1>3, <3>2
      <4>2. nextGeneration' = nextGeneration + g /\ MaxStaleness' = MaxStaleness
            BY <1>3 DEF MaxStaleness
      <4>   QED
            BY <1>1, <4>1, <4>2
    <3>   QED
          BY <3>1, <3>2
  <2>2. nextGeneration' - step' - (IF batch' = <<>> THEN 0 ELSE 1) <= MaxInflight'
    <3>1. CASE g = 0
          BY <1>1, <1>3, <3>1 DEF IInv, Bounded, MaxInflight
    <3>2. CASE g > 0
      <4>1. InFlight + g <= MaxInflight
            BY <1>3, <3>2
      <4>2. nextGeneration' = nextGeneration + g /\ MaxInflight' = MaxInflight
            BY <1>3 DEF MaxInflight
      <4>   QED
            BY <1>1, <4>1, <4>2 DEF InFlight
    <3>   QED
          BY <3>1, <3>2
  <2>3. ASSUME NEW b \in Boundaries', b > step PROVE nextGeneration' <= b
    <3>1. b \in Boundaries /\ b \in Nat
          BY Parameters DEF Boundaries, EvalInterval, SaveInterval, IInv
    <3>2. CASE g = 0
      <4>1. nextGeneration <= b
            BY <1>1, <2>3, <3>1 DEF IInv, Bounded
      <4>   QED
            BY <1>1, <1>3, <3>2, <4>1
    <3>3. CASE g > 0
      <4>1. nextGeneration' = nextGeneration + g /\ nextGeneration + g <= HardBoundary(step)
            BY <1>3, <3>3
      <4>2. HardBoundary(step) \in Nat /\ HardBoundary(step) <= b
            BY <1>1, <2>3, <3>1, HardBoundaryIs DEF IInv
      <4>   QED
            BY <1>1, <3>1, <4>1, <4>2
    <3>   QED
          BY <3>2, <3>3
  <2>4. sinceSync < SyncInterval
        BY DEF IInv, Bounded
  <2>   QED
        BY <2>1, <2>2, <2>3, <2>4 DEF Bounded, SyncInterval
<1>9. Placed'
  <2>1. /\ PromptsIn(carried)' = PromptsIn(carried) /\ PromptsIn(ready)' = PromptsIn(ready)
        /\ PromptsIn(batch)' = PromptsIn(batch) /\ Prompts(out)' = Prompts(out)
        /\ Distinct(carried)' = Distinct(carried)
        /\ Distinct(ready)' = Distinct(ready) /\ Distinct(batch)' = Distinct(batch)
        BY DEF PromptsIn, Prompts, Elements, Distinct
  <2>2. /\ PromptsIn(queued') = PromptsIn(queued) \cup PromptsIn(fresh)
        /\ Distinct(queued') <=> /\ Distinct(queued) /\ Distinct(fresh)
                                 /\ PromptsIn(queued) \cap PromptsIn(fresh) = {}
        BY <1>4 DEF Splits
  <2> DEFINE a == nextGeneration * B
             e == (nextGeneration + g) * B
  <2>3. a \in Nat /\ e \in Nat /\ a <= e /\ e = nextGeneration' * BatchSize
    <3>1. a \in Nat /\ e \in Nat
          BY <1>1
    <3>2. a <= e
          BY <1>1, MulMono
    <3>   QED
          BY <1>3, <3>1, <3>2 DEF B
  <2>4. PromptsIn(fresh) = a .. e - 1
        BY <1>3 DEF B
  <2>5. /\ Distinct(queued) /\ Distinct(carried) /\ Distinct(ready) /\ Distinct(batch)
        /\ \A r, s \in out : r.prompt = s.prompt => r = s
        /\ Apart(PromptsIn(queued), Prompts(out), PromptsIn(carried), PromptsIn(ready),
                 PromptsIn(batch), trained)
        /\ PromptsIn(queued) \cup Prompts(out) \cup PromptsIn(carried) \cup PromptsIn(ready)
             \cup PromptsIn(batch) \cup trained = 0 .. a - 1
        BY DEF IInv, Placed, B
  <2> HIDE DEF a, e
  <2>6. (0 .. a - 1) \cap (a .. e - 1) = {} /\ (0 .. a - 1) \cup (a .. e - 1) = 0 .. e - 1
        BY <2>3
  <2>7. Distinct(queued')
        BY <1>3, <2>2, <2>4, <2>5, <2>6
  <2>8. Apart(PromptsIn(queued'), Prompts(out), PromptsIn(carried), PromptsIn(ready),
              PromptsIn(batch), trained)
        BY <2>2, <2>4, <2>5, <2>6 DEF Apart
  <2>9. PromptsIn(queued') \cup Prompts(out) \cup PromptsIn(carried) \cup PromptsIn(ready)
           \cup PromptsIn(batch) \cup trained = 0 .. e - 1
        BY <2>2, <2>4, <2>5, <2>6
  <2>10. PromptsIn(queued)' = PromptsIn(queued') /\ Distinct(queued)' = Distinct(queued')
        BY DEF PromptsIn, Prompts, Elements, Distinct
  <2>   QED
        BY <2>1, <2>3, <2>5, <2>7, <2>8, <2>9, <2>10 DEF Placed
<1>10. Served'
  <2>1. /\ publishedVersion <= trainVersion
        /\ ~initial \/ pc = "after" => trainVersion - publishedVersion <= sinceSync * UpdatesPerBatch
        /\ \A r \in Elements(queued) \cup out \cup Elements(carried) :
             r.versions \subseteq {publishedVersion}
        /\ \A v \in Versions(ready) \cup Versions(batch) : v <= publishedVersion
        BY DEF IInv, Served
  <2>2. \A r \in Elements(fresh) : r.versions = {}
        BY <1>3 DEF Elements
  <2>3. Elements(queued)' = Elements(queued') /\ Elements(carried)' = Elements(carried)
        /\ Versions(ready)' = Versions(ready) /\ Versions(batch)' = Versions(batch)
        BY DEF Elements, Versions
  <2>4. \A r \in Elements(queued)' \cup out \cup Elements(carried)' :
             r.versions \subseteq {publishedVersion}
        BY <1>4, <2>1, <2>2, <2>3
  <2>   QED
        BY <2>1, <2>3, <2>4 DEF Served, UpdatesPerBatch
<1>11. OneGeneration'
  <2>  SUFFICES ASSUME MaxInflight = 1,
                       NEW p \in (PromptsIn(queued) \cup Prompts(out) \cup PromptsIn(carried) \cup PromptsIn(ready))'
                PROVE  p \div BatchSize = nextGeneration' - 1
       BY DEF OneGeneration, MaxInflight
  <2>1. /\ PromptsIn(carried)' = PromptsIn(carried) /\ PromptsIn(ready)' = PromptsIn(ready)
        /\ Prompts(out)' = Prompts(out) /\ PromptsIn(queued)' = PromptsIn(queued')
        BY DEF PromptsIn, Prompts, Elements
  <2>2. PromptsIn(queued') = PromptsIn(queued) \cup PromptsIn(fresh)
        BY <1>4 DEF Splits
  <2>3. CASE g = 0
    <3>1. g * B = 0
          BY <1>1, <2>3
    <3>2. PromptsIn(fresh) = {}
          BY <1>3, <3>1, InSequence
    <3>3. p \in PromptsIn(queued) \cup Prompts(out) \cup PromptsIn(carried) \cup PromptsIn(ready)
          BY <2>1, <2>2, <3>2
    <3>   QED
          BY <1>1, <1>3, <2>3, <3>3 DEF IInv, OneGeneration
  <2>4. CASE g > 0
    <3>1. InFlight \in Nat /\ Len(queued) + Cardinality(out) + Len(carried) + Len(ready) = InFlight * B
          BY FlightSize DEF IInv, B
    <3>2. InFlight = 0 /\ g = 1
          BY <1>3, <2>4, <3>1
    <3>3. Len(queued) = 0 /\ out = {} /\ Len(carried) = 0 /\ Len(ready) = 0
      <4>1. InFlight * B = 0
            BY <1>1, <3>2
      <4>   QED
            BY <3>1, <4>1, Sizes DEF IInv
    <3>4. PromptsIn(queued) = {} /\ Prompts(out) = {} /\ PromptsIn(carried) = {} /\ PromptsIn(ready) = {}
      <4>1. Prompts(out) = {}
            BY <3>3 DEF Prompts
      <4>   QED
            BY <3>3, <4>1, InSequence DEF IInv, TypeInv
    <3>5. p \in nextGeneration * B .. (nextGeneration + 1) * B - 1
          BY <1>3, <2>1, <2>2, <3>2, <3>4 DEF B
    <3>6. p \div B = nextGeneration
      <4>1. nextGeneration \in Int /\ B \in Nat \ {0}
            BY <1>1
      <4>   QED
            BY <3>5, <4>1, InGeneration
    <3>   QED
          BY <1>1, <1>3, <3>2, <3>6 DEF B
  <2>   QED
        BY <2>3, <2>4
<1>12. OneVersionPerBatch'
       BY DEF IInv, OneVersionPerBatch
<1>13. StalenessBudgeted'
       BY DEF IInv, StalenessBudgeted, Versions, Budget, MaxStaleness, UpdatesPerBatch
<1>14. CheckpointsExact' /\ ChecksHold'
       BY DEF IInv, CheckpointsExact, ChecksHold
<1> QED
    BY <1>5, <1>6, <1>7, <1>8, <1>9, <1>10, <1>11, <1>12, <1>13, <1>14 DEF IInv

\* The loop's own check of what it is about to draw.
LEMMA Aligned == ASSUME IInv, pc \in {"top", "refill"} PROVE BatchAligned
<1>1. /\ InFlight \in Nat /\ BatchSize \in Nat \ {0} /\ carried = <<>>
      /\ Len(queued) + Cardinality(out) + Len(carried) + Len(ready) = InFlight * BatchSize
      BY FlightSize, Parameters DEF IInv, AtPoint
<1>2. Outstanding = InFlight * BatchSize
      BY <1>1, Sizes DEF IInv, Outstanding
<1>3. (InFlight * BatchSize) % BatchSize = 0
      BY <1>1, DivMul, InFlight \in Int
<1> QED
    BY <1>2, <1>3 DEF BatchAligned

\* The head of the loop ends it or admits.
LEMMA TopKeeps == ASSUME IInv, Top PROVE IInv'
<1>1. CASE step >= NumRollouts
      BY <1>1, EndLoopKeeps DEF Top
<1>2. CASE ~ (step >= NumRollouts)
  <2>1. step < NumRollouts
        BY <1>2, Parameters DEF IInv, TypeInv
  <2>2. AdmitFirst /\ pc = "top"
        BY <1>2, Aligned DEF Top, Checked
  <2>3. Taken = 0
        BY <2>2 DEF IInv, AtPoint, Taken
  <2>4. Admit(step + Taken, sinceSync + Taken)
    <3>1. step + Taken = step /\ sinceSync + Taken = sinceSync
          BY <2>3 DEF IInv, TypeInv
    <3>   QED
          BY <2>2, <3>1 DEF AdmitFirst
  <2>   QED
        BY <2>1, <2>2, <2>4, AdmitKeeps DEF AdmitFirst
<1> QED
    BY <1>1, <1>2

\* Admission before training counts the batch in the driver's hands as trained.
LEMMA RefillKeeps == ASSUME IInv, Refill PROVE IInv'
<1>1. AdmitNext /\ pc = "refill" /\ step < NumRollouts
      BY Aligned DEF Refill, Checked, IInv, AtPoint
<1>2. Taken = 1
      BY <1>1, Sizes, Parameters DEF IInv, AtPoint, Taken
<1> QED
    BY <1>1, <1>2, AdmitKeeps DEF AdmitNext

-----------------------------------------------------------------------------
(***************************************************************************)
(* Collecting and training.                                                *)
(***************************************************************************)

\* There is always something to collect, or to wait for.
LEMMA NeverStarved ==
  ASSUME IInv, pc = "collect", Len(ready) < BatchSize
  PROVE  Live
<1>1. /\ InFlight \in Nat /\ InFlight >= 1 /\ BatchSize \in Nat \ {0} /\ Len(carried) = 0
      /\ Len(queued) + Cardinality(out) + Len(carried) + Len(ready) = InFlight * BatchSize
  <2>1. batch = <<>> /\ nextGeneration > step /\ carried = <<>>
        BY DEF IInv, AtPoint
  <2>2. InFlight \in Nat /\ Len(queued) + Cardinality(out) + Len(carried) + Len(ready) = InFlight * BatchSize
        BY FlightSize DEF IInv
  <2>3. InFlight >= 1
        BY <2>1 DEF InFlight, IInv, TypeInv
  <2>   QED
        BY <2>1, <2>2, <2>3, Parameters, Sizes DEF IInv
<1>2. 1 * BatchSize <= InFlight * BatchSize
      BY <1>1, MulMono
<1>3. Len(queued) + Cardinality(out) > 0
      BY <1>1, <1>2, Sizes DEF IInv
<1> QED
    BY <1>3, Sizes DEF IInv, Live

\* The first batch of the completed groups is of one version and, where it has to
\* be, of one generation.
LEMMA FirstCombines ==
  ASSUME IInv, pc = "collect", NEW taken \in Seq(Group), Len(taken) = BatchSize,
         Len(ready) >= BatchSize, \A i \in 1 .. BatchSize : taken[i] = ready[i]
  PROVE  Combines(taken)
<1>1. BatchSize \in Nat \ {0} /\ ready \in Seq(Group) /\ Len(ready) \in Nat
      BY Parameters DEF IInv, TypeInv
<1>2. DOMAIN taken = 1 .. BatchSize /\ 1 .. BatchSize \subseteq DOMAIN ready /\ 1 \in 1 .. BatchSize
      BY <1>1
<1>3. ASSUME NEW i \in 1 .. BatchSize PROVE (i - 1) \div BatchSize = 0
  <2>1. 0 * BatchSize = 0 /\ (0 + 1) * BatchSize = BatchSize
        BY <1>1
  <2>2. i - 1 \in 0 * BatchSize .. (0 + 1) * BatchSize - 1
        BY <1>1, <2>1
  <2>   QED
        BY <1>1, <2>2, InGeneration, 0 \in Int
<1>4. \A i \in 1 .. BatchSize : taken[i].versions = ready[1].versions
      BY <1>2, <1>3 DEF IInv, OneVersionPerBatch
<1>5. Cardinality(ready[1].versions) = 1
      BY <1>2 DEF IInv, OneVersionPerBatch
<1>6. Versions(taken) = ready[1].versions
      BY <1>2, <1>4 DEF Versions
<1>7. ASSUME SingleGeneration PROVE Cardinality(Generations(taken)) = 1
  <2>1. \A i \in 1 .. BatchSize : ready[i].prompt \div BatchSize = nextGeneration - 1
    <3>1. \A i \in 1 .. BatchSize : ready[i].prompt \in PromptsIn(ready)
          BY <1>2 DEF PromptsIn, Prompts, Elements
    <3>2. MaxInflight = 1
          BY <1>7, Parameters DEF IInv
    <3>   QED
          BY <3>1, <3>2 DEF IInv, OneGeneration
  <2>2. Generations(taken) = {nextGeneration - 1}
        BY <1>2, <2>1 DEF Generations
  <2>   QED
        BY <2>2, FS_Singleton
<1> QED
    BY <1>5, <1>6, <1>7 DEF Combines

\* A batch is taken from the front of the completed groups.
LEMMA TakeKeeps ==
  ASSUME IInv, pc = "collect", Len(ready) >= BatchSize,
         Take(SubSeq(ready, 1, BatchSize), SubSeq(ready, BatchSize + 1, Len(ready)))
  PROVE  IInv'
<1> USE DEF Take, loopVars, syncVars, storeVars
<1> DEFINE B == BatchSize
           taken == SubSeq(ready, 1, B)
           rest  == SubSeq(ready, B + 1, Len(ready))
<1>1. /\ B \in Nat \ {0} /\ ready \in Seq(Group) /\ Len(ready) \in Nat
      /\ Len(ready) >= B /\ step \in Nat /\ nextGeneration \in Nat /\ step < NumRollouts
      BY Parameters DEF IInv, TypeInv, AtPoint
<1>2. /\ batch = <<>> /\ Len(batch) = 0 /\ PromptsIn(batch) = {} /\ carried = <<>> /\ ~initial
      BY NoPrompts DEF IInv, AtPoint, AtStart
<1>3. /\ taken \in Seq(Group) /\ rest \in Seq(Group)
      /\ Len(taken) = B /\ Len(rest) = Len(ready) - B
      /\ \A i \in 1 .. B : taken[i] = ready[i]
      /\ \A i \in 1 .. Len(ready) - B : rest[i] = ready[B + i]
      /\ Splits(ready, taken, rest)
  <2>1. B \in 0 .. Len(ready)
        BY <1>1
  <2>   QED
        BY <1>1, <2>1, Cut
<1>4. batch' = taken /\ ready' = rest
      OBVIOUS
<1> HIDE DEF B, taken, rest
<1>5. taken # <<>> /\ DOMAIN taken = 1 .. B /\ DOMAIN rest = 1 .. Len(ready) - B /\ DOMAIN ready = 1 .. Len(ready)
      BY <1>1, <1>3
<1>6. TypeInv'
      BY <1>3, <1>4 DEF IInv, TypeInv, Checkpoint
<1>7. AtPoint' /\ AtStart'
      BY <1>1, <1>2, <1>3, <1>4 DEF AtPoint, AtStart, B
<1>8. Whole'
  <2>1. Held' = Held
    <3>1. /\ Len(queued) \in Nat /\ Len(carried) \in Nat /\ Len(ready) \in Nat
          /\ Cardinality(out) \in Nat
          BY Sizes DEF IInv
    <3>2. Held' = Len(queued) + Cardinality(out) + Len(carried) + Len(rest) + Len(taken)
          BY <1>4 DEF Held
    <3>3. Held = Len(queued) + Cardinality(out) + Len(carried) + Len(ready) + 0
          BY <1>2 DEF Held
    <3>4. Len(taken) = B /\ Len(rest) = Len(ready) - B
          BY <1>3
    <3>   QED
          BY <1>1, <3>1, <3>2, <3>3, <3>4
  <2>   QED
        BY <2>1 DEF IInv, Whole
<1>9. Bounded'
  <2>1. nextGeneration - step - 1 <= MaxInflight
        BY <1>1, <1>2, Parameters DEF IInv, Bounded
  <2>   QED
        BY <1>4, <1>5, <2>1 DEF IInv, Bounded, MaxStaleness, MaxInflight, SyncInterval,
           Boundaries,
           EvalInterval, SaveInterval
<1>17. /\ PromptsIn(ready) = PromptsIn(taken) \cup PromptsIn(rest)
       /\ Distinct(ready) => /\ Distinct(taken) /\ Distinct(rest)
                             /\ PromptsIn(taken) \cap PromptsIn(rest) = {}
       BY <1>3 DEF Splits
<1>10. Placed'
  <2>1. /\ PromptsIn(queued)' = PromptsIn(queued) /\ PromptsIn(carried)' = PromptsIn(carried)
        /\ PromptsIn(ready)' = PromptsIn(rest) /\ PromptsIn(batch)' = PromptsIn(taken)
        /\ Prompts(out)' = Prompts(out) /\ Distinct(queued)' = Distinct(queued)
        /\ Distinct(carried)' = Distinct(carried) /\ Distinct(ready)' = Distinct(rest)
        /\ Distinct(batch)' = Distinct(taken)
        BY <1>4, Later
  <2>2. /\ Distinct(queued) /\ Distinct(carried) /\ Distinct(ready)
        /\ \A r, s \in out : r.prompt = s.prompt => r = s
        /\ Apart(PromptsIn(queued), Prompts(out), PromptsIn(carried), PromptsIn(ready), {}, trained)
        /\ PromptsIn(queued) \cup Prompts(out) \cup PromptsIn(carried) \cup PromptsIn(ready)
             \cup {} \cup trained = 0 .. nextGeneration * BatchSize - 1
        BY <1>2 DEF IInv, Placed
  <2>3. Apart(PromptsIn(queued), Prompts(out), PromptsIn(carried), PromptsIn(rest),
              PromptsIn(taken), trained)
        BY <1>17, <2>2 DEF Apart
  <2>4. PromptsIn(queued) \cup Prompts(out) \cup PromptsIn(carried) \cup PromptsIn(rest)
             \cup PromptsIn(taken) \cup trained = 0 .. nextGeneration * BatchSize - 1
        BY <1>17, <2>2
  <2>   QED
        BY <1>17, <2>1, <2>2, <2>3, <2>4 DEF Placed
<1>11. Served'
  <2>1. Versions(taken) \cup Versions(rest) \subseteq Versions(ready)
    <3>1. \A i \in 1 .. B : i \in 1 .. Len(ready)
          BY <1>1
    <3>2. \A i \in 1 .. Len(ready) - B : B + i \in 1 .. Len(ready)
          BY <1>1
    <3>   QED
          BY <1>3, <1>5, <3>1, <3>2 DEF Versions
  <2>   QED
        BY <1>4, <2>1, Later DEF IInv, Served, UpdatesPerBatch
<1>12. OneGeneration'
  <2>1. PromptsIn(rest) \subseteq PromptsIn(ready)
        BY <1>17
  <2>2. /\ PromptsIn(queued)' = PromptsIn(queued) /\ PromptsIn(carried)' = PromptsIn(carried)
        /\ PromptsIn(ready)' = PromptsIn(rest) /\ Prompts(out)' = Prompts(out)
        BY <1>4, Later
  <2>   QED
        BY <2>1, <2>2 DEF IInv, OneGeneration, MaxInflight
<1>13. ASSUME NEW i \in 1 .. Len(rest)
       PROVE  \E k \in DOMAIN ready :
                rest[i] = ready[k] /\ (k - 1) \div B = (i - 1) \div B + 1 /\ (i - 1) \div B \in Int
  <2>1. i \in 1 .. Len(ready) - B /\ B + i \in DOMAIN ready /\ i - 1 \in Int /\ B + i - 1 = (i - 1) + B
        BY <1>1, <1>3, <1>5
  <2>2. (B + i - 1) \div B = (i - 1) \div B + 1 /\ (i - 1) \div B \in Int
        BY <1>1, <2>1, DivNext, DivMod
  <2>   QED
        BY <1>3, <2>1, <2>2
<1>14. OneVersionPerBatch'
  <2>5. \A i \in DOMAIN ready :
          /\ Cardinality(ready[i].versions) = 1
          /\ \A j \in DOMAIN ready :
               (i - 1) \div B = (j - 1) \div B => ready[i].versions = ready[j].versions
          /\ (i - 1) \div B = Len(ready) \div B => ready[i].versions = {publishedVersion}
        BY Zenon DEF IInv, OneVersionPerBatch, B
  <2>1. \A i \in 1 .. Len(rest) : Cardinality(rest[i].versions) = 1
        BY <1>13, <2>5
  <2>2. ASSUME NEW i \in 1 .. Len(rest), NEW j \in 1 .. Len(rest), (i - 1) \div B = (j - 1) \div B
        PROVE  rest[i].versions = rest[j].versions
    <3>1. PICK k \in DOMAIN ready : rest[i] = ready[k] /\ (k - 1) \div B = (i - 1) \div B + 1
          BY <1>13
    <3>2. PICK l \in DOMAIN ready : rest[j] = ready[l] /\ (l - 1) \div B = (j - 1) \div B + 1
          BY <1>13
    <3>3. (k - 1) \div B = (l - 1) \div B
          BY <2>2, <3>1, <3>2
    <3>   QED
          BY <2>5, <3>1, <3>2, <3>3
  <2>3. ASSUME NEW i \in 1 .. Len(rest), (i - 1) \div B = Len(rest) \div B
        PROVE  rest[i].versions = {publishedVersion}
    <3>1. Len(ready) \div B = Len(rest) \div B + 1
      <4>1. Len(ready) = Len(rest) + B /\ Len(rest) \in Int
            BY <1>1, <1>3
      <4>   QED
            BY <1>1, <4>1, DivNext
    <3>2. PICK k \in DOMAIN ready : rest[i] = ready[k] /\ (k - 1) \div B = (i - 1) \div B + 1
          BY <1>13
    <3>3. (k - 1) \div B = Len(ready) \div B
          BY <2>3, <3>1, <3>2
    <3>   QED
          BY <2>5, <3>2, <3>3
  <2>4. DOMAIN ready' = 1 .. Len(rest) /\ ready' = rest /\ publishedVersion' = publishedVersion
        BY <1>3, <1>4, <1>5
  <2>   QED
        BY <2>1, <2>2, <2>3, <2>4 DEF OneVersionPerBatch, B
<1>15. StalenessBudgeted'
  <2>1. /\ UpdatesPerBatch \in Nat /\ Budget \in Nat /\ trainVersion \in Nat
        /\ UpdatesPerBatch' = UpdatesPerBatch /\ Budget' = Budget /\ trainVersion' = trainVersion
    <3>1. UpdatesPerBatch \in Nat /\ Budget \in Nat /\ trainVersion \in Nat
      <4>1. UpdatesPerBatch \in Nat /\ MaxStaleness \in Nat
            BY Parameters DEF IInv
      <4>2. trainVersion \in Nat
            BY DEF IInv, TypeInv
      <4>   QED
            BY <4>1, <4>2 DEF Budget
    <3>   QED
          BY <3>1 DEF Budget, MaxStaleness, UpdatesPerBatch
  <2>2. ASSUME NEW i \in 1 .. B, NEW v \in taken[i].versions PROVE trainVersion - v <= Budget
    <3>1. i \in DOMAIN ready /\ v \in ready[i].versions
          BY <1>1, <1>3, <1>5, <2>2
    <3>2. WithinLag(ready[i])
          BY <3>1, NothingTooOld
    <3>   QED
          BY <3>1, <3>2 DEF WithinLag
  <2>3. \A v \in Versions(batch)' : trainVersion - v <= Budget
        BY <1>4, <1>5, <2>2, Later DEF Versions
  <2>4. ASSUME NEW i \in 1 .. Len(rest), NEW v \in rest[i].versions
        PROVE  trainVersion - v + ((i - 1) \div B + 1) * UpdatesPerBatch <= Budget
    <3>3. \A k \in DOMAIN ready : \A w \in ready[k].versions :
            trainVersion - w + ((k - 1) \div B + 0) * UpdatesPerBatch <= Budget
          BY <1>2, Zenon DEF IInv, StalenessBudgeted, B
    <3>1. PICK k \in DOMAIN ready :
            rest[i] = ready[k] /\ (k - 1) \div B = (i - 1) \div B + 1 /\ (i - 1) \div B \in Int
          BY <1>13
    <3>2. (k - 1) \div B + 0 = (i - 1) \div B + 1
          BY <3>1
    <3>4. trainVersion - v + ((k - 1) \div B + 0) * UpdatesPerBatch <= Budget
          BY <2>4, <3>1, <3>3
    <3>   QED
          BY <3>2, <3>4
  <2>5. DOMAIN ready' = 1 .. Len(rest) /\ batch' # <<>>
        BY <1>3, <1>4, <1>5
  <2>   QED
        BY <1>4, <2>1, <2>3, <2>4, <2>5 DEF StalenessBudgeted, B
<1>16. CheckpointsExact' /\ ChecksHold'
       BY DEF IInv, CheckpointsExact, ChecksHold
<1> QED
    BY <1>6, <1>7, <1>8, <1>9, <1>10, <1>11, <1>12, <1>14, <1>15, <1>16 DEF IInv

\* collect takes a batch, and neither starves nor refuses it.
LEMMA CollectKeeps == ASSUME IInv, Collect PROVE IInv'
<1> DEFINE taken == SubSeq(ready, 1, BatchSize)
           rest  == SubSeq(ready, BatchSize + 1, Len(ready))
<1>1. pc = "collect" /\ Filtered(ready) = ready
      BY FiltersKeep DEF Collect
<1>2. IF Len(ready) >= BatchSize THEN Checked(Combines(taken), Take(taken, rest))
      ELSE ~Live /\ Raise("check")
      BY <1>1 DEF Collect
<1>3. Len(ready) >= BatchSize
      BY <1>1, <1>2, NeverStarved, Sizes, Parameters DEF IInv
<1>4. taken \in Seq(Group) /\ Len(taken) = BatchSize /\ \A i \in 1 .. BatchSize : taken[i] = ready[i]
  <2>1. BatchSize \in 0 .. Len(ready) /\ ready \in Seq(Group)
        BY <1>3, Parameters DEF IInv, TypeInv
  <2>   QED
        BY <2>1, Cut
<1>5. Combines(taken)
      BY <1>1, <1>3, <1>4, FirstCombines
<1>6. Take(taken, rest)
      BY <1>2, <1>3, <1>5 DEF Checked
<1> QED
    BY <1>1, <1>3, <1>6, TakeKeeps

\* Training a batch: what is ready is one batch closer to its turn and at most the updates of
\* one batch older.
LEMMA UpdateKeeps == ASSUME IInv, pc = "train", Update PROVE IInv'
<1> DEFINE B == BatchSize
           U == UpdatesPerBatch
<1>1. /\ B \in Nat \ {0} /\ U \in Nat \ {0} /\ MaxStaleness \in Nat /\ MaxInflight \in Nat
      /\ NumRollouts \in Nat /\ step \in 0 .. NumRollouts /\ step < NumRollouts
      /\ sinceSync \in Nat /\ nextGeneration \in Nat /\ trainVersion \in Nat
      /\ publishedVersion \in Nat /\ batch \in Seq(Group)
  <2>1. B \in Nat \ {0} /\ U \in Nat \ {0} /\ MaxStaleness \in Nat /\ MaxInflight \in Nat /\ NumRollouts \in Nat
        BY Parameters DEF IInv
  <2>   QED
        BY <2>1 DEF IInv, TypeInv, AtPoint
<1>2. PICK u \in 0 .. U : trainVersion' = trainVersion + u
      BY DEF Update
<1>3. /\ step' = step + 1 /\ sinceSync' = sinceSync + 1 /\ batch' = <<>> /\ pc' = "boundary"
      /\ trained' = trained \cup {batch[i].prompt : i \in DOMAIN batch}
      /\ UNCHANGED <<recipe, initial, resumed, publishedVersion, carried, nextGeneration, fault,
                     queued, out, ready, broken, saving, checkpoints, crashes>>
      BY DEF Update, managerVars
<1>4. /\ U' = U /\ MaxInflight' = MaxInflight /\ MaxStaleness' = MaxStaleness /\ Budget' = Budget
      BY <1>3 DEF MaxInflight, MaxStaleness, UpdatesPerBatch, Budget
<1> HIDE DEF U
<1>5. carried = <<>> /\ Len(batch) = B /\ batch # <<>> /\ ~initial
  <2>1. carried = <<>> /\ Len(batch) = B /\ ~initial
        BY DEF IInv, AtPoint, AtStart
  <2>   QED
        BY <1>1, <2>1, Sizes DEF IInv
<1>6. /\ PromptsIn(batch) = {batch[i].prompt : i \in DOMAIN batch}
      /\ PromptsIn(batch) \subseteq Nat
  <2>1. /\ PromptsIn(batch) = {batch[i].prompt : i \in 1 .. Len(batch)}
        /\ DOMAIN batch = 1 .. Len(batch)
        /\ \A i \in DOMAIN batch : batch[i] \in Group
        BY <1>1, InSequence
  <2>   QED
        BY <2>1 DEF Group
<1>7. /\ InFlight \in Nat /\ InFlight = nextGeneration - step - 1 /\ nextGeneration >= step + 1
      /\ Held = (nextGeneration - step) * B
  <2>1. InFlight \in Nat
        BY FlightSize DEF IInv
  <2>2. InFlight = nextGeneration - step - 1
        BY <1>5 DEF InFlight
  <2>3. Held = (nextGeneration - step) * B
        BY DEF IInv, Whole
  <2>   QED
        BY <1>1, <2>1, <2>2, <2>3
<1>8. TypeInv'
  <2>1. step' \in 0 .. NumRollouts /\ trainVersion' \in Nat /\ sinceSync' \in Nat
        BY <1>1, <1>2, <1>3
  <2>2. batch' \in Seq(Group) /\ trained' \in SUBSET Nat
    <3>1. trained \in SUBSET Nat /\ trained' = trained \cup PromptsIn(batch)
          BY <1>3, <1>6 DEF IInv, TypeInv
    <3>2. <<>> \in Seq(Group)
          OBVIOUS
    <3>   QED
          BY <1>3, <1>6, <3>1, <3>2
  <2>   QED
        BY <1>3, <2>1, <2>2 DEF IInv, TypeInv, Checkpoint
<1>9. AtPoint' /\ AtStart'
      BY <1>1, <1>3, <1>5 DEF AtPoint, AtStart
<1>10. Whole'
  <2>1. /\ Len(queued) \in Nat /\ Len(carried) \in Nat /\ Len(ready) \in Nat /\ Cardinality(out) \in Nat
        BY Sizes DEF IInv
  <2>2. Held' = Len(queued) + Cardinality(out) + Len(carried) + Len(ready) + 0
        BY <1>3 DEF Held
  <2>3. Held = Len(queued) + Cardinality(out) + Len(carried) + Len(ready) + B
        BY <1>5 DEF Held
  <2>4. (nextGeneration - step) * B - B = (nextGeneration - (step + 1)) * B
        BY <1>1, Z3T(20)
  <2>5. Held' = (nextGeneration - (step + 1)) * B
        BY <1>1, <1>7, <2>1, <2>2, <2>3, <2>4
  <2>   QED
        BY <1>3, <1>7, <2>5 DEF Whole
<1>11. Bounded'
  <2>1. sinceSync' + nextGeneration' - step' <= MaxStaleness'+ 1
    <3>1. sinceSync + nextGeneration - step <= MaxStaleness + 1
          BY DEF IInv, Bounded
    <3>   QED
          BY <1>1, <1>3, <1>4, <3>1
  <2>2. nextGeneration' - step' - (IF batch' = <<>> THEN 0 ELSE 1) <= MaxInflight'
    <3>1. nextGeneration - step - 1 <= MaxInflight
          BY <1>5 DEF IInv, Bounded
    <3>   QED
          BY <1>1, <1>3, <1>4, <3>1
  <2>3. \A b \in Boundaries' : b > step' \/ b = step' => nextGeneration' <= b
    <3>1. \A b \in Boundaries' : b \in Boundaries /\ b \in Nat
          BY <1>1, <1>3 DEF Boundaries, EvalInterval, SaveInterval
    <3>2. \A b \in Boundaries : b > step => nextGeneration <= b
          BY DEF IInv, Bounded
    <3>   QED
          BY <1>1, <1>3, <3>1, <3>2
  <2>   QED
        BY <1>3, <2>1, <2>2, <2>3 DEF Bounded
<1>12. Placed'
  <2>1. /\ PromptsIn(queued)' = PromptsIn(queued) /\ PromptsIn(carried)' = PromptsIn(carried)
        /\ PromptsIn(ready)' = PromptsIn(ready) /\ PromptsIn(batch)' = {} /\ Prompts(out)' = Prompts(out)
        /\ Distinct(queued)' = Distinct(queued) /\ Distinct(carried)' = Distinct(carried)
        /\ Distinct(ready)' = Distinct(ready) /\ Distinct(batch)'
        BY <1>3, Later, NoPrompts
  <2>2. trained' = trained \cup PromptsIn(batch)
        BY <1>3, <1>6
  <2>3. /\ Distinct(queued) /\ Distinct(carried) /\ Distinct(ready)
        /\ \A r, s \in out : r.prompt = s.prompt => r = s
        /\ Apart(PromptsIn(queued), Prompts(out), PromptsIn(carried), PromptsIn(ready),
                 PromptsIn(batch), trained)
        /\ PromptsIn(queued) \cup Prompts(out) \cup PromptsIn(carried) \cup PromptsIn(ready)
             \cup PromptsIn(batch) \cup trained = 0 .. nextGeneration * BatchSize - 1
        BY DEF IInv, Placed
  <2>4. Apart(PromptsIn(queued), Prompts(out), PromptsIn(carried), PromptsIn(ready),
              {}, trained')
        BY <2>2, <2>3 DEF Apart
  <2>5. PromptsIn(queued) \cup Prompts(out) \cup PromptsIn(carried) \cup PromptsIn(ready)
             \cup {} \cup trained' = 0 .. nextGeneration * BatchSize - 1
        BY <2>2, <2>3
  <2>   QED
        BY <1>3, <2>1, <2>3, <2>4, <2>5 DEF Placed
<1>13. Served'
  <2>1. /\ publishedVersion <= trainVersion
        /\ trainVersion - publishedVersion <= sinceSync * U
        /\ \A r \in Elements(queued) \cup out \cup Elements(carried) :
             r.versions \subseteq {publishedVersion}
        /\ \A v \in Versions(ready) : v <= publishedVersion
        BY <1>5 DEF IInv, Served, U
  <2>2. publishedVersion' <= trainVersion'
        BY <1>1, <1>2, <1>3, <2>1
  <2>3. trainVersion' - publishedVersion' <= sinceSync' * U'
    <3>1. (sinceSync + 1) * U = sinceSync * U + U /\ sinceSync * U \in Nat
          BY <1>1, Z3T(20)
    <3>   QED
          BY <1>1, <1>2, <1>3, <1>4, <2>1, <3>1
  <2>4. Versions(batch)' = {}
        BY <1>3 DEF Versions
  <2>   QED
        BY <1>3, <2>1, <2>2, <2>3, <2>4, Later DEF Served, U
<1>14. OneGeneration'
      BY <1>3, <1>4, Later DEF IInv, OneGeneration
<1>15. OneVersionPerBatch'
       BY <1>3 DEF IInv, OneVersionPerBatch
<1>16. StalenessBudgeted'
  <2>1. Versions(batch)' = {}
        BY <1>3 DEF Versions
  <2>2. ASSUME NEW i \in DOMAIN ready, NEW v \in ready[i].versions
        PROVE  trainVersion' - v + ((i - 1) \div B + 0) * U <= Budget
    <3>1. trainVersion - v + ((i - 1) \div B + 1) * U <= Budget
          BY <1>5, <2>2, Zenon DEF IInv, StalenessBudgeted, U
    <3>2. Budget \in Nat
          BY <1>1 DEF Budget, U
    <3>3. v \in Nat /\ (i - 1) \div B \in Int
      <4>1. ready \in Seq(Group)
            BY DEF IInv, TypeInv
      <4>2. i \in Nat /\ ready[i] \in Group
            BY <2>2, <4>1
      <4>3. v \in Nat
            BY <2>2, <4>2 DEF Group
      <4>   QED
            BY <1>1, <4>2, <4>3, DivMod, i - 1 \in Int
    <3>4. ((i - 1) \div B + 1) * U = ((i - 1) \div B + 0) * U + U /\ ((i - 1) \div B + 0) * U \in Int
      <4>   DEFINE q == (i - 1) \div B
      <4>1. q \in Int
            BY <3>3
      <4>   HIDE DEF q
      <4>2. (q + 1) * U = (q + 0) * U + U /\ (q + 0) * U \in Int
            BY <1>1, <4>1, Z3T(20)
      <4>   QED
            BY <4>2 DEF q
    <3>   QED
          BY <1>1, <1>2, <3>1, <3>2, <3>3, <3>4
  <2>   QED
        BY <1>3, <1>4, <2>1, <2>2 DEF StalenessBudgeted, U
<1>17. CheckpointsExact' /\ ChecksHold'
       BY <1>3 DEF IInv, CheckpointsExact, ChecksHold
<1> QED
    BY <1>3, <1>8, <1>9, <1>10, <1>11, <1>12, <1>13, <1>14, <1>15, <1>16, <1>17 DEF IInv

\* No batch is newer than the weights it is trained on.
LEMMA TrainKeeps == ASSUME IInv, Train PROVE IInv'
<1>1. \A v \in Versions(batch) : v <= trainVersion
  <2>1. Versions(batch) \subseteq Nat
        BY VersionsTyped DEF IInv, TypeInv
  <2>2. \A v \in Versions(batch) : v <= publishedVersion
        BY DEF IInv, Served
  <2>   QED
        BY <2>1, <2>2 DEF IInv, Served, TypeInv
<1> QED
    BY <1>1, UpdateKeeps DEF Train, Checked

-----------------------------------------------------------------------------
(***************************************************************************)
(* Boundaries.                                                             *)
(***************************************************************************)

\* The tasks that wait go over to the driver, or come back from it.
Traded ==
  /\ Len(queued') + Len(carried') = Len(queued) + Len(carried)
  /\ PromptsIn(queued') \cup PromptsIn(carried') = PromptsIn(queued) \cup PromptsIn(carried)
  /\ Distinct(queued') /\ Distinct(carried') /\ PromptsIn(queued') \cap PromptsIn(carried') = {}

\* pause takes the queue away, and submit gives the carried tasks back.
LEMMA SwapTrades ==
  ASSUME IInv, pc # "closed", queued' = carried, carried' = queued
  PROVE  Traded
<1>1. /\ Distinct(queued) /\ Distinct(carried)
      /\ PromptsIn(queued) \cap PromptsIn(carried) = {}
      BY DEF IInv, Placed, Apart
<1>2. Len(queued) \in Nat /\ Len(carried) \in Nat
      BY Sizes DEF IInv
<1> QED
    BY <1>1, <1>2 DEF Traded

\* Nothing changes hands.
LEMMA StayTrades ==
  ASSUME IInv, pc # "closed", queued' = queued, carried' = carried
  PROVE  Traded
<1>1. /\ Distinct(queued) /\ Distinct(carried)
      /\ PromptsIn(queued) \cap PromptsIn(carried) = {}
      BY DEF IInv, Placed, Apart
<1> QED
    BY <1>1 DEF Traded

\* The same prompts stay waiting.
LEMMA TradeKeeps ==
  ASSUME IInv, pc # "closed", Traded,
         UNCHANGED <<recipe, step, nextGeneration, batch, out, ready, trained>>
  PROVE  Whole' /\ Placed' /\ OneGeneration'
<1>1. Whole'
  <2>1. /\ Len(queued) \in Nat /\ Len(carried) \in Nat /\ Len(ready) \in Nat
        /\ Len(batch) \in Nat /\ Cardinality(out) \in Nat
        BY Sizes DEF IInv
  <2>2. Held' = Len(queued') + Cardinality(out) + Len(carried') + Len(ready) + Len(batch)
        BY DEF Held
  <2>3. Held' = Held
    <3>1. Held = Len(queued) + Len(carried) + Cardinality(out) + Len(ready) + Len(batch)
          BY <2>1 DEF Held
    <3>   QED
          BY <2>1, <2>2, <3>1 DEF Traded
  <2>   QED
        BY <2>3 DEF IInv, Whole
<1>2. /\ PromptsIn(ready)' = PromptsIn(ready) /\ PromptsIn(batch)' = PromptsIn(batch)
      /\ Prompts(out)' = Prompts(out)
      /\ Distinct(ready)' = Distinct(ready) /\ Distinct(batch)' = Distinct(batch)
      BY Later
<1>3. Placed'
  <2>1. /\ Distinct(queued) /\ Distinct(carried) /\ Distinct(ready) /\ Distinct(batch)
        /\ \A r, s \in out : r.prompt = s.prompt => r = s
        /\ Apart(PromptsIn(queued), Prompts(out), PromptsIn(carried), PromptsIn(ready),
                 PromptsIn(batch), trained)
        /\ PromptsIn(queued) \cup Prompts(out) \cup PromptsIn(carried) \cup PromptsIn(ready)
             \cup PromptsIn(batch) \cup trained = 0 .. nextGeneration * BatchSize - 1
        BY DEF IInv, Placed
  <2>2. Apart(PromptsIn(queued'), Prompts(out), PromptsIn(carried'), PromptsIn(ready),
              PromptsIn(batch), trained)
        BY <2>1 DEF Apart, Traded
  <2>3. PromptsIn(queued') \cup Prompts(out) \cup PromptsIn(carried') \cup PromptsIn(ready)
             \cup PromptsIn(batch) \cup trained = 0 .. nextGeneration * BatchSize - 1
        BY <2>1 DEF Traded
  <2>   QED
        BY <1>2, <2>1, <2>2, <2>3, Later DEF Placed, Traded
<1>4. OneGeneration'
      BY <1>2, Later DEF IInv, OneGeneration, MaxInflight, Traded
<1> QED
    BY <1>1, <1>3, <1>4

\* The first half of quiesce: the tasks that wait are carried by the driver.
LEMMA QuiesceKeeps == ASSUME IInv, Quiesce PROVE IInv'
<1> USE DEF Quiesce, loopVars, storeVars
<1>1. pc \in {"setup", "boundary"} /\ carried = <<>> /\ batch = <<>>
      BY DEF SyncCalled, IInv, AtPoint
<1>2. TypeInv'
  <2>1. <<>> \in Seq(Task)
        OBVIOUS
  <2>   QED
        BY <2>1 DEF IInv, TypeInv, Checkpoint
<1>3. AtPoint'
      BY <1>1 DEF IInv, AtPoint
<1>4. AtStart'
      BY <1>1 DEF IInv, AtStart
<1>5. Traded
      BY <1>1, SwapTrades
<1>6. Whole' /\ Placed' /\ OneGeneration'
      BY <1>1, <1>5, TradeKeeps
<1>7. Bounded'
      BY <1>1 DEF IInv, Bounded, MaxStaleness, MaxInflight, Boundaries, EvalInterval,
         SaveInterval
<1>8. Served'
  <2>1. /\ publishedVersion <= trainVersion
        /\ ~initial => trainVersion - publishedVersion <= sinceSync * UpdatesPerBatch
        /\ \A r \in Elements(queued) \cup out \cup Elements(carried) :
             r.versions \subseteq {publishedVersion}
        /\ \A v \in Versions(ready) \cup Versions(batch) : v <= publishedVersion
        BY DEF IInv, Served
  <2>2. /\ Elements(queued)' = Elements(carried) /\ Elements(carried)' = Elements(queued)
        /\ Versions(ready)' = Versions(ready) /\ Versions(batch)' = Versions(batch)
        BY <1>1, Later
  <2>   QED
        BY <2>1, <2>2 DEF Served, UpdatesPerBatch
<1>9. OneVersionPerBatch' /\ StalenessBudgeted'
      BY DEF IInv, OneVersionPerBatch, StalenessBudgeted, Versions, Budget, MaxStaleness,
         UpdatesPerBatch
<1>10. CheckpointsExact' /\ ChecksHold'
      BY DEF IInv, CheckpointsExact, ChecksHold
<1> QED
    BY <1>2, <1>3, <1>4, <1>6, <1>7, <1>8, <1>9, <1>10 DEF IInv

\* The carried tasks are finished, or kept, or some of each.
LEMMA FinishKeeps ==
  ASSUME IInv, pc \in {"align", "prefix"}, NEW tasks \in Seq(Task), NEW rest \in Seq(Task),
         NEW next \in {"publish", "finishStarted", "prefix", "finishPrefix"},
         Finish(tasks, rest, next), Traded,
         Elements(tasks) \cup Elements(rest) \subseteq Elements(carried),
         next \in {"publish", "prefix"} => tasks = <<>>,
         next = "publish" => Len(ready) % BatchSize = 0,
         next \in {"publish", "prefix", "finishPrefix"} => \A r \in Elements(rest) : r.versions = {},
         next = "finishStarted" => rest = <<>>,
         next = "finishPrefix" => (Len(tasks) + Len(ready)) % BatchSize = 0,
         initial => next = "publish"
  PROVE  IInv'
<1> USE DEF Finish, loopVars, storeVars
<1>1. queued = <<>> /\ out = {} /\ batch = <<>>
      BY DEF IInv, AtPoint
<1>2. TypeInv'
      BY DEF IInv, TypeInv, Checkpoint
<1>3. AtPoint'
  <2>1. next \in {"publish", "prefix", "finishPrefix"} => \A i \in DOMAIN rest : rest[i].versions = {}
        BY DEF Elements
  <2>2. next = "finishPrefix" => (Len(tasks) + Cardinality(out) + Len(ready)) % BatchSize = 0
    <3>1. Len(tasks) + Cardinality(out) = Len(tasks)
          BY <1>1, FS_EmptySet, Len(tasks) \in Nat
    <3>   QED
          BY <3>1
  <2>3. /\ queued' = tasks /\ carried' = rest /\ pc' = next /\ batch' = <<>> /\ out' = {}
        /\ ready' = ready /\ step' = step
        BY <1>1
  <2>   QED
        BY <2>1, <2>2, <2>3 DEF AtPoint
<1>4. AtStart'
      BY DEF IInv, AtStart
<1>5. Whole' /\ Placed' /\ OneGeneration'
      BY TradeKeeps
<1>6. Bounded'
      BY DEF IInv, Bounded, MaxStaleness, MaxInflight, Boundaries, EvalInterval, SaveInterval
<1>7. Served'
  <2>1. /\ publishedVersion <= trainVersion
        /\ ~initial => trainVersion - publishedVersion <= sinceSync * UpdatesPerBatch
        /\ \A r \in Elements(carried) : r.versions \subseteq {publishedVersion}
        /\ \A v \in Versions(ready) \cup Versions(batch) : v <= publishedVersion
        BY DEF IInv, Served
  <2>2. /\ Elements(queued)' = Elements(tasks) /\ Elements(carried)' = Elements(rest) /\ out' = {}
        /\ Versions(ready)' = Versions(ready) /\ Versions(batch)' = Versions(batch)
        BY <1>1, Later
  <2>   QED
        BY <2>1, <2>2 DEF Served, UpdatesPerBatch
<1>8. OneVersionPerBatch' /\ StalenessBudgeted'
      BY DEF IInv, OneVersionPerBatch, StalenessBudgeted, Versions, Budget, MaxStaleness,
         UpdatesPerBatch
<1>9. CheckpointsExact' /\ ChecksHold'
      BY DEF IInv, CheckpointsExact, ChecksHold
<1> QED
    BY <1>2, <1>3, <1>4, <1>5, <1>6, <1>7, <1>8, <1>9 DEF IInv

\* Before a publication: an empty manager where one is required, all finished if a rollout is
\* half-generated, and otherwise a prefix.
LEMMA AlignKeeps == ASSUME IInv, Align PROVE IInv'
<1>1. /\ pc = "align" /\ queued = <<>> /\ out = {} /\ carried \in Seq(Task) /\ <<>> \in Seq(Task)
      BY DEF Align, IInv, AtPoint, TypeInv
<1>2. RequireEmpty => carried = <<>> /\ Empty /\ ready = <<>>
      BY <1>1, EmptyAtBoundary
<1>3. IF RequireEmpty THEN Finish(<<>>, carried, "publish")
      ELSE IF Started THEN Finish(carried, <<>>, "finishStarted")
      ELSE Finish(<<>>, carried, "prefix")
      BY <1>2 DEF Align, Checked
<1>4. Elements(<<>>) = {}
      BY DEF Elements
<1>5. CASE RequireEmpty
  <2>1. Finish(<<>>, <<>>, "publish")
        BY <1>2, <1>3, <1>5
  <2>2. Len(ready) % BatchSize = 0
    <3>1. Len(ready) = 0 /\ 0 * BatchSize = 0 /\ 0 \in Int /\ BatchSize \in Nat \ {0}
          BY <1>2, <1>5, Parameters DEF IInv
    <3>   QED
          BY <3>1, DivMul
  <2>3. Traded
        BY <1>1, <1>2, <1>5, <2>1, StayTrades DEF Finish
  <2>   QED
        BY <1>1, <1>4, <2>1, <2>2, <2>3, FinishKeeps
<1>6. CASE ~RequireEmpty /\ Started
  <2>1. Finish(carried, <<>>, "finishStarted") /\ ~initial
        BY <1>3, <1>6 DEF RequireEmpty
  <2>2. Traded
        BY <1>1, <2>1, SwapTrades DEF Finish
  <2>   QED
        BY <1>1, <1>4, <2>1, <2>2, FinishKeeps
<1>7. CASE ~RequireEmpty /\ ~Started
  <2>1. Finish(<<>>, carried, "prefix") /\ ~initial
        BY <1>3, <1>7 DEF RequireEmpty
  <2>2. Traded
        BY <1>1, <2>1, StayTrades DEF Finish
  <2>3. \A r \in Elements(carried) : r.versions = {}
        BY <1>7 DEF Started
  <2>   QED
        BY <1>1, <1>4, <2>1, <2>2, <2>3, FinishKeeps
<1> QED
    BY <1>5, <1>6, <1>7

\* The prefix that is finished completes the last batch, and there are enough tasks for it.
LEMMA FinishPrefixKeeps == ASSUME IInv, FinishPrefix PROVE IInv'
<1> DEFINE m     == PromptsToFinish
           tasks == SubSeq(carried, 1, m)
           rest  == SubSeq(carried, m + 1, Len(carried))
<1>1. /\ pc = "prefix" /\ queued = <<>> /\ out = {} /\ carried \in Seq(Task) /\ ~initial
      /\ \A i \in DOMAIN carried : carried[i].versions = {} /\ batch = <<>>
      BY DEF FinishPrefix, IInv, AtPoint, AtStart, TypeInv
<1>2. m \in Nat /\ m <= Len(carried) /\ (Len(ready) + m) % BatchSize = 0
  <2>1. InFlight \in Nat /\ Len(queued) + Cardinality(out) + Len(carried) + Len(ready) = InFlight * BatchSize
        BY <1>1, FlightSize DEF IInv
  <2>2. /\ Len(ready) + Len(carried) = InFlight * BatchSize /\ InFlight \in Int
        /\ Len(ready) \in Nat /\ Len(carried) \in Nat /\ BatchSize \in Nat \ {0}
        BY <1>1, <2>1, Sizes, Parameters DEF IInv
  <2>   QED
        BY <2>2, Residue DEF PromptsToFinish
<1>3. Finish(tasks, rest, "finishPrefix")
      BY <1>2 DEF FinishPrefix, Checked
<1> HIDE DEF m
<1>4. /\ tasks \in Seq(Task) /\ rest \in Seq(Task)
      /\ Len(tasks) = m /\ Len(rest) = Len(carried) - m
      /\ \A i \in 1 .. m : tasks[i] = carried[i]
      /\ \A i \in 1 .. Len(carried) - m : rest[i] = carried[m + i]
      /\ Splits(carried, tasks, rest)
  <2>1. m \in 0 .. Len(carried)
        BY <1>1, <1>2
  <2>   QED
        BY <1>1, <2>1, Cut
<1> HIDE DEF tasks, rest
<1>5. Elements(tasks) \cup Elements(rest) \subseteq Elements(carried)
  <2>1. \A i \in 1 .. m : i \in DOMAIN carried
        BY <1>1, <1>2
  <2>2. \A i \in 1 .. Len(carried) - m : m + i \in DOMAIN carried
        BY <1>1, <1>2
  <2>3. DOMAIN tasks = 1 .. m /\ DOMAIN rest = 1 .. Len(carried) - m
        BY <1>4
  <2>   QED
        BY <1>4, <2>1, <2>2, <2>3 DEF Elements
<1>6. Traded
  <2>1. Distinct(carried) /\ PromptsIn(queued) = {} /\ Len(queued) = 0 /\ Len(carried) \in Nat
        BY <1>1, NoPrompts, Sizes DEF IInv, Placed
  <2>2. queued' = tasks /\ carried' = rest
        BY <1>3 DEF Finish
  <2>3. /\ PromptsIn(carried) = PromptsIn(tasks) \cup PromptsIn(rest)
        /\ Distinct(tasks) /\ Distinct(rest) /\ PromptsIn(tasks) \cap PromptsIn(rest) = {}
        BY <1>4, <2>1 DEF Splits
  <2>4. Len(queued') + Len(carried') = Len(queued) + Len(carried)
    <3>1. Len(queued') = m /\ Len(carried') = Len(carried) - m
          BY <1>4, <2>2
    <3>   QED
          BY <1>2, <2>1, <3>1
  <2>5. PromptsIn(queued') \cup PromptsIn(carried') = PromptsIn(queued) \cup PromptsIn(carried)
        BY <2>1, <2>2, <2>3
  <2>   QED
        BY <2>2, <2>3, <2>4, <2>5 DEF Traded
<1>7. \A r \in Elements(rest) : r.versions = {}
      BY <1>1, <1>5 DEF Elements
<1>8. (Len(tasks) + Len(ready)) % BatchSize = 0
  <2>1. Len(tasks) + Len(ready) = Len(ready) + m
        BY <1>2, <1>4, Sizes DEF IInv
  <2>   QED
        BY <1>2, <2>1
<1> QED
    BY <1>1, <1>3, <1>4, <1>5, <1>6, <1>7, <1>8, FinishKeeps

\* A publication falls between two batches and nothing half-generated crosses it.
LEMMA SyncWeightsKeeps ==
  ASSUME IInv, pc = "publish", Len(ready) % BatchSize = 0, SyncWeights
  PROVE  IInv'
<1> USE DEF SyncWeights, Resubmit, loopVars, storeVars
<1>1. /\ queued = <<>> /\ out = {} /\ batch = <<>> /\ publishedVersion \in Nat /\ trainVersion \in Nat
      /\ \A r \in Elements(carried) : r.versions = {}
      BY DEF IInv, AtPoint, TypeInv, Elements
<1>2. TypeInv'
  <2>1. <<>> \in Seq(Task)
        OBVIOUS
  <2>   QED
        BY <2>1 DEF IInv, TypeInv, Checkpoint
<1>3. AtPoint' /\ AtStart'
      BY <1>1 DEF IInv, AtPoint, AtStart
<1>4. Traded
      BY <1>1, SwapTrades
<1>5. Whole' /\ Placed' /\ OneGeneration'
      BY <1>4, TradeKeeps
<1>6. Bounded'
  <2>1. sinceSync \in Nat /\ sinceSync' = 0 /\ SyncInterval \in Nat \ {0} /\ MaxStaleness \in Nat
        BY Parameters DEF IInv, TypeInv
  <2>2. sinceSync' + nextGeneration - step <= MaxStaleness + 1
        BY <2>1 DEF IInv, Bounded, TypeInv
  <2>   QED
        BY <2>1, <2>2 DEF IInv, Bounded, MaxStaleness, MaxInflight, SyncInterval, Boundaries,
           EvalInterval, SaveInterval
<1>7. Served'
  <2>1. /\ publishedVersion <= trainVersion
        /\ \A v \in Versions(ready) \cup Versions(batch) : v <= publishedVersion
        BY DEF IInv, Served
  <2>2. Versions(ready) \cup Versions(batch) \subseteq Nat
        BY VersionsTyped DEF IInv, TypeInv
  <2>3. /\ Elements(queued)' = Elements(carried) /\ Elements(carried)' = {} /\ out' = {}
        /\ Versions(ready)' = Versions(ready) /\ Versions(batch)' = Versions(batch)
    <3>1. Elements(<<>>) = {}
          BY DEF Elements
    <3>   QED
          BY <1>1, <3>1, Later
  <2>4. trainVersion - trainVersion <= 0 * UpdatesPerBatch
        BY <1>1, Parameters DEF IInv
  <2>   QED
        BY <1>1, <2>1, <2>2, <2>3, <2>4 DEF Served, UpdatesPerBatch
<1>8. OneVersionPerBatch'
  <2>1. ASSUME NEW i \in DOMAIN ready PROVE (i - 1) \div BatchSize # Len(ready) \div BatchSize
    <3>1. /\ i \in Int /\ Len(ready) \in Int /\ i <= Len(ready) /\ BatchSize \in Nat \ {0}
          /\ (i - 1) \div BatchSize \in Int
      <4>1. i \in Int /\ Len(ready) \in Int /\ i <= Len(ready)
            BY <2>1 DEF IInv, TypeInv
      <4>2. BatchSize \in Nat \ {0}
            BY Parameters DEF IInv
      <4>   QED
            BY <4>1, <4>2, DivMod, i - 1 \in Int
    <3>2. (i - 1) \div BatchSize < Len(ready) \div BatchSize
          BY <3>1, LastWindow
    <3>   QED
          BY <3>1, <3>2, DivMod
  <2>   QED
        BY <2>1 DEF IInv, OneVersionPerBatch
<1>9. StalenessBudgeted'
      BY DEF IInv, StalenessBudgeted, Versions, Budget, MaxStaleness, UpdatesPerBatch
<1>10. CheckpointsExact' /\ ChecksHold'
      BY DEF IInv, CheckpointsExact, ChecksHold
<1> QED
    BY <1>2, <1>3, <1>5, <1>6, <1>7, <1>8, <1>9, <1>10 DEF IInv

\* Its checks pass.
LEMMA PublishKeeps == ASSUME IInv, Publish PROVE IInv'
<1>1. /\ pc = "publish" /\ ~Live /\ Len(ready) % BatchSize = 0 /\ trainVersion >= publishedVersion
      BY DEF Publish, IInv, AtPoint, Live, Served, TypeInv
<1> QED
    BY <1>1, SyncWeightsKeeps DEF Publish, Checked

\* Where a checkpoint is due, exactly the batches before it have been trained.
LEMMA TrainedAtBoundary ==
  ASSUME IInv, pc \in Resting, RequireEmpty \/ step = NumRollouts
  PROVE  trained = 0 .. step * BatchSize - 1
<1>1. /\ nextGeneration = step /\ PromptsIn(queued) = {} /\ Prompts(out) = {} /\ PromptsIn(carried) = {}
      /\ PromptsIn(ready) = {} /\ PromptsIn(batch) = {}
      BY EmptyAtBoundary, NoPrompts DEF Prompts
<1> QED
    BY <1>1 DEF IInv, Placed

\* A checkpoint that is begun is exact.
LEMMA SaveKeeps == ASSUME IInv, Save PROVE IInv'
<1> USE DEF Save, loopVars, syncVars, managerVars
<1>1. pc = "save" /\ SaveDue /\ ~initial
      BY DEF IInv, AtPoint, AtStart
<1>2. trained = 0 .. step * BatchSize - 1
      BY <1>1, TrainedAtBoundary DEF RequireEmpty
<1>3. [step |-> step, version |-> trainVersion, trained |-> trained] \in Checkpoint
      BY DEF IInv, TypeInv, Checkpoint
<1>4. TypeInv'
      BY <1>3 DEF IInv, TypeInv, Checkpoint
<1>5. UNCHANGED Data
      BY DEF Data
<1>6. AtPoint' /\ AtStart'
      BY <1>1 DEF IInv, AtPoint, AtStart
<1>7. Bounded'
      BY <1>1 DEF IInv, Bounded, MaxStaleness, MaxInflight, SyncInterval, Boundaries,
           EvalInterval, SaveInterval
<1>8. Served'
      BY <1>1 DEF IInv, Served, Elements, Versions, UpdatesPerBatch
<1>9. CheckpointsExact'
      BY <1>2 DEF IInv, CheckpointsExact
<1>10. ChecksHold'
      BY DEF IInv, ChecksHold
<1> QED
    BY <1>1, <1>4, <1>5, <1>6, <1>7, <1>8, <1>9, <1>10, DataKept DEF IInv

-----------------------------------------------------------------------------
(***************************************************************************)
(* The engines.                                                            *)
(***************************************************************************)

\* A launched rollout has its prompt with it.
LEMMA LaunchKeeps == ASSUME IInv, Launch PROVE IInv'
<1> USE DEF Launch, loopVars, syncVars, storeVars
<1> DEFINE r == Head(queued)
<1>1. /\ queued \in Seq(Task) /\ out \in SUBSET Task /\ IsFiniteSet(out)
      /\ pc # "closed" /\ pc \notin {"drain", "align", "prefix", "publish"}
      BY DEF IInv, TypeInv, AtPoint
<1>2. /\ r \in Task /\ Tail(queued) \in Seq(Task) /\ Len(Tail(queued)) = Len(queued) - 1
      /\ Elements(Tail(queued)) \subseteq Elements(queued) /\ r \in Elements(queued)
      /\ PromptsIn(queued) = {r.prompt} \cup PromptsIn(Tail(queued))
      /\ Distinct(queued) => Distinct(Tail(queued)) /\ r.prompt \notin PromptsIn(Tail(queued))
      BY <1>1, HeadAndTail
<1>3. out' = out \cup {r} /\ queued' = Tail(queued)
      OBVIOUS
<1> HIDE DEF r
<1>4. /\ Distinct(queued) /\ Distinct(carried) /\ Distinct(ready) /\ Distinct(batch)
      /\ \A s, t \in out : s.prompt = t.prompt => s = t
      /\ Apart(PromptsIn(queued), Prompts(out), PromptsIn(carried), PromptsIn(ready),
               PromptsIn(batch), trained)
      /\ PromptsIn(queued) \cup Prompts(out) \cup PromptsIn(carried) \cup PromptsIn(ready)
           \cup PromptsIn(batch) \cup trained = 0 .. nextGeneration * BatchSize - 1
      BY <1>1 DEF IInv, Placed
<1>5. r.prompt \notin Prompts(out) /\ Prompts(out') = Prompts(out) \cup {r.prompt}
      BY <1>2, <1>3, <1>4 DEF Apart, Prompts
<1>6. IsFiniteSet(out') /\ Cardinality(out') = Cardinality(out) + 1
  <2>1. r \notin out
        BY <1>5 DEF Prompts
  <2>   QED
        BY <1>1, <1>3, <2>1, FS_AddElement
<1>7. Len(queued') + Cardinality(out') = Len(queued) + Cardinality(out)
      BY <1>2, <1>3, <1>6, Sizes DEF IInv
<1>8. TypeInv'
      BY <1>1, <1>2, <1>3, <1>6 DEF IInv, TypeInv, Checkpoint
<1>9. AtPoint'
  <2>1. pc = "finishPrefix" => (Len(queued') + Cardinality(out') + Len(ready)) % BatchSize = 0
        BY <1>7 DEF IInv, AtPoint
  <2>   QED
        BY <1>1, <2>1 DEF IInv, AtPoint, SaveDue, SaveInterval
<1>10. AtStart' /\ Bounded'
      BY DEF IInv, AtStart, Bounded, MaxStaleness, MaxInflight, SyncInterval, Boundaries,
         EvalInterval, SaveInterval
<1>11. Whole'
  <2>1. Held' = Held
    <3>1. Held' = (Len(queued') + Cardinality(out')) + Len(carried) + Len(ready) + Len(batch)
          BY DEF Held
    <3>   QED
          BY <1>7, <3>1 DEF Held
  <2>   QED
        BY <2>1 DEF IInv, Whole
<1>12. /\ PromptsIn(carried)' = PromptsIn(carried) /\ PromptsIn(ready)' = PromptsIn(ready)
       /\ PromptsIn(batch)' = PromptsIn(batch) /\ Distinct(carried)' = Distinct(carried)
       /\ Distinct(ready)' = Distinct(ready) /\ Distinct(batch)' = Distinct(batch)
       /\ PromptsIn(queued)' = PromptsIn(queued') /\ Prompts(out)' = Prompts(out')
       /\ Distinct(queued)' = Distinct(queued')
      BY Later
<1>13. Placed'
  <2>1. \A s, t \in out' : s.prompt = t.prompt => s = t
        BY <1>3, <1>4, <1>5 DEF Prompts
  <2>2. Apart(PromptsIn(queued'), Prompts(out'), PromptsIn(carried), PromptsIn(ready),
              PromptsIn(batch), trained)
    <3>1. /\ PromptsIn(queued') \subseteq PromptsIn(queued) /\ r.prompt \in PromptsIn(queued)
          /\ r.prompt \notin PromptsIn(queued')
          BY <1>2, <1>3, <1>4
    <3>   QED
          BY <1>4, <1>5, <3>1, ApartOut, Zenon
  <2>3. PromptsIn(queued') \cup Prompts(out') \cup PromptsIn(carried) \cup PromptsIn(ready)
             \cup PromptsIn(batch) \cup trained = 0 .. nextGeneration * BatchSize - 1
        BY <1>2, <1>3, <1>4, <1>5
  <2>   QED
        BY <1>2, <1>3, <1>4, <1>12, <2>1, <2>2, <2>3 DEF Placed
<1>14. Served'
  <2>1. Elements(queued)' \cup out' \subseteq Elements(queued) \cup out
        BY <1>2, <1>3, Later
  <2>2. Elements(carried)' = Elements(carried) /\ Versions(ready)' = Versions(ready) /\ Versions(batch)' = Versions(batch)
        BY Later
  <2>   QED
        BY <2>1, <2>2 DEF IInv, Served, UpdatesPerBatch
<1>15. OneGeneration'
  <2>1. PromptsIn(queued') \cup Prompts(out') = PromptsIn(queued) \cup Prompts(out)
        BY <1>2, <1>3, <1>5
  <2>   QED
        BY <1>12, <2>1 DEF IInv, OneGeneration, MaxInflight
<1>16. OneVersionPerBatch' /\ StalenessBudgeted'
      BY DEF IInv, OneVersionPerBatch, StalenessBudgeted, Versions, Budget, MaxStaleness,
         UpdatesPerBatch
<1>17. CheckpointsExact' /\ ChecksHold'
      BY DEF IInv, CheckpointsExact, ChecksHold
<1> QED
    BY <1>1, <1>8, <1>9, <1>10, <1>11, <1>13, <1>14, <1>15, <1>16, <1>17 DEF IInv

\* A completed group has room for the batches before it.
LEMMA CompletedInTime ==
  ASSUME IInv, pc # "closed", NEW r \in out
  PROVE  LET i == Len(ready) + 1
         IN  trainVersion - publishedVersion + Ahead(i) * UpdatesPerBatch <= Budget
<1> DEFINE B == BatchSize
           U == UpdatesPerBatch
           q == Len(ready) \div B
           d == IF batch = <<>> THEN 0 ELSE 1
<1>1. /\ B \in Nat \ {0} /\ U \in Nat \ {0} /\ MaxStaleness \in Nat /\ q \in Int /\ d \in {0, 1}
      /\ Len(ready) \in Nat
      /\ trainVersion \in Nat /\ publishedVersion \in Nat /\ sinceSync \in Nat
  <2>1. B \in Nat \ {0} /\ U \in Nat \ {0} /\ MaxStaleness \in Nat /\ Len(ready) \in Nat
        BY Parameters, Sizes DEF IInv
  <2>2. q \in Int
        BY <2>1, DivMod
  <2>   QED
        BY <2>1, <2>2 DEF IInv, TypeInv
<1>2. InFlight \in Nat /\ Len(ready) < InFlight * B /\ ~initial
  <2>1. InFlight \in Nat /\ Len(queued) + Cardinality(out) + Len(carried) + Len(ready) = InFlight * B
        BY FlightSize DEF IInv
  <2>2. Cardinality(out) > 0
        BY Sizes DEF IInv
  <2>3. ~initial
        BY FreshStart
  <2>4. Len(ready) < InFlight * B
        BY <2>1, <2>2, Sizes DEF IInv
  <2>   QED
        BY <2>1, <2>3, <2>4
<1>3. q <= InFlight - 1
  <2>1. (InFlight - 1 + 1) * B = InFlight * B
        BY <1>2
  <2>   QED
        BY <1>1, <1>2, <2>1, DivBound, InFlight - 1 \in Int
<1>4. Ahead(Len(ready) + 1) = q + d
  <2>1. Len(ready) + 1 - 1 = Len(ready)
        BY <1>1
  <2>   QED
        BY <2>1 DEF Ahead
<1>5. sinceSync + (q + d) <= MaxStaleness
  <2>1. InFlight = nextGeneration - step - d
        BY DEF InFlight
  <2>2. sinceSync + nextGeneration - step <= MaxStaleness + 1
        BY DEF IInv, Bounded
  <2>3. step \in Int /\ nextGeneration \in Int
        BY DEF IInv, TypeInv
  <2>   HIDE DEF d, q
  <2>   QED
        BY <1>1, <1>2, <1>3, <2>1, <2>2, <2>3
<1>6. trainVersion - publishedVersion <= sinceSync * U
      BY <1>2 DEF IInv, Served
<1> HIDE DEF B, U, q, d
<1>7. (sinceSync + (q + d)) * U <= MaxStaleness * U
      BY <1>1, <1>5, MulMono, sinceSync + (q + d) \in Int, MaxStaleness \in Int, U \in Nat
<1>8. /\ (sinceSync + (q + d)) * U = sinceSync * U + (q + d) * U
      /\ sinceSync * U \in Int /\ (q + d) * U \in Int /\ MaxStaleness * U \in Int
      BY <1>1, Z3T(20)
<1>9. trainVersion - publishedVersion + (q + d) * U <= MaxStaleness * U
      BY <1>1, <1>6, <1>7, <1>8
<1> QED
    BY <1>4, <1>9 DEF Budget, U

\* A completed group is of the version now published, as the whole of its batch is, and is
\* young enough for the batches before it.
LEMMA CompleteKeeps == ASSUME IInv, NEW r \in out, Complete(r) PROVE IInv'
<1> USE DEF Complete, loopVars, syncVars, storeVars
<1> DEFINE B == BatchSize
           e == [prompt |-> r.prompt, versions |-> Stamped(r)]
           n == Len(ready)
<1>1. /\ r \in Task /\ out \in SUBSET Task /\ IsFiniteSet(out) /\ ready \in Seq(Group) /\ n \in Nat
      /\ B \in Nat \ {0} /\ publishedVersion \in Nat
      /\ pc # "closed" /\ pc \notin {"align", "prefix", "publish"}
  <2>1. B \in Nat \ {0} /\ n \in Nat
        BY Parameters, Sizes DEF IInv
  <2>   QED
        BY <2>1 DEF IInv, TypeInv, AtPoint
<1>2. Stamped(r) = {publishedVersion}
  <2>1. r.versions \subseteq {publishedVersion}
        BY DEF IInv, Served
  <2>   QED
        BY <2>1 DEF Stamped
<1>3. e \in Group /\ e.prompt = r.prompt /\ e.versions = {publishedVersion}
      BY <1>1, <1>2 DEF Task, Group
<1>4. out' = out \ {r} /\ ready' = Append(ready, e)
      OBVIOUS
<1> HIDE DEF e
<1>5. /\ ready' \in Seq(Group) /\ Len(ready') = n + 1 /\ ready'[n + 1] = e
      /\ \A i \in 1 .. n : ready'[i] = ready[i]
      /\ DOMAIN ready = 1 .. n /\ DOMAIN ready' = 1 .. n + 1
      BY <1>1, <1>3, <1>4
<1>6. /\ Distinct(queued) /\ Distinct(carried) /\ Distinct(ready) /\ Distinct(batch)
      /\ \A s, t \in out : s.prompt = t.prompt => s = t
      /\ Apart(PromptsIn(queued), Prompts(out), PromptsIn(carried), PromptsIn(ready),
               PromptsIn(batch), trained)
      /\ PromptsIn(queued) \cup Prompts(out) \cup PromptsIn(carried) \cup PromptsIn(ready)
           \cup PromptsIn(batch) \cup trained = 0 .. nextGeneration * BatchSize - 1
      BY <1>1 DEF IInv, Placed
<1>7. r.prompt \in Prompts(out) /\ r.prompt \notin Prompts(out') /\ Prompts(out') \subseteq Prompts(out)
      /\ Prompts(out) = Prompts(out') \cup {r.prompt}
      BY <1>4, <1>6 DEF Prompts
<1>8. PromptsIn(ready') = PromptsIn(ready) \cup {r.prompt} /\ Distinct(ready')
  <2>1. r.prompt \notin PromptsIn(ready)
        BY <1>6, <1>7 DEF Apart
  <2>2. /\ PromptsIn(Append(ready, e)) = PromptsIn(ready) \cup {e.prompt}
        /\ Distinct(ready) /\ e.prompt \notin PromptsIn(ready) => Distinct(Append(ready, e))
        BY <1>1, <1>3, OneMore
  <2>   QED
        BY <1>3, <1>4, <1>6, <2>1, <2>2
<1>9. IsFiniteSet(out') /\ Cardinality(out') = Cardinality(out) - 1 /\ Cardinality(out) \in Nat
      BY <1>1, <1>4, FS_RemoveElement, FS_CardinalityType
<1>10. Cardinality(out') + Len(ready') = Cardinality(out) + Len(ready)
      BY <1>1, <1>5, <1>9
<1>11. TypeInv'
      BY <1>1, <1>4, <1>5, <1>9 DEF IInv, TypeInv, Checkpoint
<1>12. AtPoint'
  <2>1. pc = "finishPrefix" => (Len(queued') + Cardinality(out') + Len(ready')) % BatchSize = 0
    <3>1. Len(queued') + Cardinality(out') + Len(ready') = Len(queued) + Cardinality(out) + Len(ready)
      <4>1. Len(ready') = Len(ready) + 1 /\ Cardinality(out') = Cardinality(out) - 1
            BY <1>5, <1>9
      <4>2. Len(queued) \in Nat /\ Cardinality(out) \in Nat /\ Len(ready) \in Nat
            BY Sizes DEF IInv
      <4>3. Len(queued') = Len(queued)
            OBVIOUS
      <4>   HIDE DEF Complete
      <4>   QED
            BY <4>1, <4>2, <4>3
    <3>   QED
          BY <3>1 DEF IInv, AtPoint
  <2>   QED
        BY <1>1, <2>1 DEF IInv, AtPoint, SaveDue, SaveInterval
<1>13. AtStart' /\ Bounded'
      BY DEF IInv, AtStart, Bounded, MaxStaleness, MaxInflight, SyncInterval, Boundaries,
         EvalInterval, SaveInterval
<1>14. Whole'
  <2>1. Held' = Held
    <3>1. Held' = Len(queued) + Cardinality(out') + Len(carried) + Len(ready') + Len(batch)
          BY DEF Held
    <3>   QED
          BY <1>1, <1>5, <1>9, <3>1, Sizes DEF IInv, Held
  <2>   QED
        BY <2>1 DEF IInv, Whole
<1>15. /\ PromptsIn(carried)' = PromptsIn(carried) /\ PromptsIn(queued)' = PromptsIn(queued)
       /\ PromptsIn(batch)' = PromptsIn(batch) /\ Distinct(carried)' = Distinct(carried)
       /\ Distinct(queued)' = Distinct(queued) /\ Distinct(batch)' = Distinct(batch)
       /\ PromptsIn(ready)' = PromptsIn(ready') /\ Prompts(out)' = Prompts(out')
       /\ Distinct(ready)' = Distinct(ready')
      BY Later
<1>16. Placed'
  <2>1. \A s, t \in out' : s.prompt = t.prompt => s = t
        BY <1>4, <1>6
  <2>2. Apart(PromptsIn(queued), Prompts(out'), PromptsIn(carried), PromptsIn(ready'),
              PromptsIn(batch), trained)
        BY <1>6, <1>7, <1>8, ApartReady, Zenon
  <2>3. PromptsIn(queued) \cup Prompts(out') \cup PromptsIn(carried) \cup PromptsIn(ready')
             \cup PromptsIn(batch) \cup trained = 0 .. nextGeneration * BatchSize - 1
        BY <1>6, <1>7, <1>8
  <2>   QED
        BY <1>6, <1>8, <1>15, <2>1, <2>2, <2>3 DEF Placed
<1>17. ASSUME NEW i \in DOMAIN ready' PROVE (i \in DOMAIN ready /\ ready'[i] = ready[i]) \/ (i = n + 1 /\ ready'[i] = e)
      BY <1>1, <1>5
<1>18. Served'
  <2>1. Versions(ready') \subseteq Versions(ready) \cup {publishedVersion}
    <3>1. \A i \in DOMAIN ready' : ready'[i].versions \subseteq Versions(ready) \cup {publishedVersion}
          BY <1>3, <1>17 DEF Versions
    <3>   QED
          BY <3>1 DEF Versions
  <2>2. /\ Elements(queued)' = Elements(queued) /\ Elements(carried)' = Elements(carried)
        /\ Versions(ready)' = Versions(ready') /\ Versions(batch)' = Versions(batch)
        BY Later
  <2>   QED
        BY <1>1, <1>4, <2>1, <2>2 DEF IInv, Served, UpdatesPerBatch
<1>19. OneGeneration'
  <2>1. Prompts(out') \cup PromptsIn(ready') = Prompts(out) \cup PromptsIn(ready)
        BY <1>7, <1>8
  <2>   QED
        BY <1>15, <2>1 DEF IInv, OneGeneration, MaxInflight
<1>20. OneVersionPerBatch'
  <2>1. \A i \in DOMAIN ready :
          /\ Cardinality(ready[i].versions) = 1
          /\ \A j \in DOMAIN ready :
               (i - 1) \div B = (j - 1) \div B => ready[i].versions = ready[j].versions
          /\ (i - 1) \div B = n \div B => ready[i].versions = {publishedVersion}
        BY Zenon DEF IInv, OneVersionPerBatch
  <2>2. \A i \in DOMAIN ready' : Cardinality(ready'[i].versions) = 1
        BY <1>3, <1>17, <2>1, FS_Singleton
  <2>3. (n + 1 - 1) \div B = n \div B /\ n + 1 - 1 = n
        BY <1>1
  <2>4. ASSUME NEW i \in DOMAIN ready', (i - 1) \div B = n \div B PROVE ready'[i].versions = {publishedVersion}
        BY <1>3, <1>17, <2>1, <2>4
  <2>5. ASSUME NEW i \in DOMAIN ready', NEW j \in DOMAIN ready', (i - 1) \div B = (j - 1) \div B
        PROVE  ready'[i].versions = ready'[j].versions
    <3>1. CASE i \in DOMAIN ready /\ ready'[i] = ready[i] /\ j \in DOMAIN ready /\ ready'[j] = ready[j]
          BY <2>1, <2>5, <3>1
    <3>2. CASE i = n + 1
      <4>1. (j - 1) \div B = n \div B /\ (i - 1) \div B = n \div B
            BY <2>3, <2>5, <3>2
      <4>   QED
            BY <2>4, <4>1
    <3>3. CASE j = n + 1
      <4>1. (j - 1) \div B = n \div B /\ (i - 1) \div B = n \div B
            BY <2>3, <2>5, <3>3
      <4>   QED
            BY <2>4, <4>1
    <3>   QED
          BY <1>17, <3>1, <3>2, <3>3
  <2>6. ASSUME NEW i \in DOMAIN ready', (i - 1) \div B = (n + 1) \div B PROVE (i - 1) \div B = n \div B
    <3>1. i \in 1 .. n + 1
          BY <1>5
    <3>2. (i - 1) \div B <= n \div B /\ n \div B <= (n + 1) \div B
      <4>1. n \in Int /\ i - 1 \in Int /\ n + 1 \in Int /\ i - 1 <= n /\ n <= n + 1
            BY <1>1, <3>1
      <4>   HIDE DEF n
      <4>2. (i - 1) \div B <= n \div B
            BY <1>1, <4>1, DivMono
      <4>3. n \div B <= (n + 1) \div B
            BY <1>1, <4>1, DivMono
      <4>   QED
            BY <4>2, <4>3
    <3>3. (i - 1) \div B \in Int /\ n \div B \in Int
          BY <1>1, <3>1, DivMod, n \in Int, i - 1 \in Int
    <3>   QED
          BY <2>6, <3>2, <3>3
  <2>7. Len(ready') = n + 1 /\ publishedVersion' = publishedVersion
        BY <1>5
  <2>8. ASSUME NEW i \in DOMAIN ready', (i - 1) \div B = Len(ready') \div B PROVE ready'[i].versions = {publishedVersion}
        BY <2>4, <2>6, <2>7, <2>8
  <2>   QED
        BY <2>2, <2>5, <2>7, <2>8 DEF OneVersionPerBatch
<1>21. StalenessBudgeted'
  <2>1. UNCHANGED <<trainVersion, batch, recipe>>
        OBVIOUS
  <2>2. ASSUME NEW i \in DOMAIN ready', NEW v \in ready'[i].versions
        PROVE  trainVersion - v + Ahead(i) * UpdatesPerBatch <= Budget
    <3>1. CASE i \in DOMAIN ready /\ ready'[i] = ready[i]
          BY <2>2, <3>1 DEF IInv, StalenessBudgeted, Ahead
    <3>2. CASE i = n + 1 /\ ready'[i] = e
      <4>1. v = publishedVersion
            BY <1>3, <2>2, <3>2
      <4>   QED
            BY <1>1, <3>2, <4>1, CompletedInTime
    <3>   QED
          BY <1>17, <3>1, <3>2
  <2>3. \A v \in Versions(batch)' : trainVersion' - v <= Budget'
        BY <2>1, Later DEF IInv, StalenessBudgeted, Budget, MaxStaleness, UpdatesPerBatch
  <2>   QED
        BY <2>1, <2>2, <2>3 DEF StalenessBudgeted, Ahead, Budget, MaxStaleness, UpdatesPerBatch
<1>22. CheckpointsExact' /\ ChecksHold'
      BY DEF IInv, CheckpointsExact, ChecksHold
<1> QED
    BY <1>1, <1>11, <1>12, <1>13, <1>14, <1>16, <1>18, <1>19, <1>20, <1>21, <1>22 DEF IInv

\* A suspended rollout goes to the driver with its prompt, and at most one version.
LEMMA SuspendKeeps == ASSUME IInv, NEW r \in out, Suspend(r) PROVE IInv'
<1> USE DEF Suspend, loopVars, storeVars
<1>1. PICK vs \in {r.versions, Stamped(r)} :
        carried' = Append(carried, [r EXCEPT !.versions = vs, !.suspended = TRUE])
      OBVIOUS
<1> DEFINE e == [r EXCEPT !.versions = vs, !.suspended = TRUE]
<1>2. /\ r \in Task /\ out \in SUBSET Task /\ IsFiniteSet(out) /\ carried \in Seq(Task)
      /\ pc = "drain" /\ publishedVersion \in Nat
      BY DEF IInv, TypeInv
<1>3. r.versions \subseteq {publishedVersion}
      BY DEF IInv, Served
<1>4. e \in Task /\ e.prompt = r.prompt /\ e.versions \subseteq {publishedVersion}
  <2>1. vs \subseteq {publishedVersion} /\ vs \in SUBSET Nat
        BY <1>2, <1>3 DEF Stamped
  <2>   QED
        BY <1>2, <2>1 DEF Task
<1>5. out' = out \ {r} /\ carried' = Append(carried, e)
      BY <1>1
<1> HIDE DEF e
<1>6. /\ carried' \in Seq(Task) /\ Len(carried') = Len(carried) + 1
      /\ Elements(carried') \subseteq Elements(carried) \cup {e}
  <2>1. /\ carried' \in Seq(Task) /\ Len(carried') = Len(carried) + 1
        /\ DOMAIN carried' = 1 .. Len(carried) + 1 /\ DOMAIN carried = 1 .. Len(carried)
        /\ carried'[Len(carried) + 1] = e /\ \A i \in 1 .. Len(carried) : carried'[i] = carried[i]
        BY <1>2, <1>4, <1>5
  <2>2. \A i \in 1 .. Len(carried) + 1 : i \in 1 .. Len(carried) \/ i = Len(carried) + 1
        BY <1>2
  <2>   QED
        BY <2>1, <2>2 DEF Elements
<1>7. /\ Distinct(queued) /\ Distinct(carried) /\ Distinct(ready) /\ Distinct(batch)
      /\ \A s, t \in out : s.prompt = t.prompt => s = t
      /\ Apart(PromptsIn(queued), Prompts(out), PromptsIn(carried), PromptsIn(ready),
               PromptsIn(batch), trained)
      /\ PromptsIn(queued) \cup Prompts(out) \cup PromptsIn(carried) \cup PromptsIn(ready)
           \cup PromptsIn(batch) \cup trained = 0 .. nextGeneration * BatchSize - 1
      BY DEF IInv, Placed
<1>8. r.prompt \in Prompts(out) /\ r.prompt \notin Prompts(out') /\ Prompts(out') \subseteq Prompts(out)
      /\ Prompts(out) = Prompts(out') \cup {r.prompt}
      BY <1>5, <1>7 DEF Prompts
<1>9. PromptsIn(carried') = PromptsIn(carried) \cup {r.prompt} /\ Distinct(carried')
  <2>1. r.prompt \notin PromptsIn(carried)
        BY <1>7, <1>8 DEF Apart
  <2>2. /\ PromptsIn(Append(carried, e)) = PromptsIn(carried) \cup {e.prompt}
        /\ Distinct(carried) /\ e.prompt \notin PromptsIn(carried) => Distinct(Append(carried, e))
        BY <1>2, <1>4, OneMore
  <2>   QED
        BY <1>4, <1>5, <1>7, <2>1, <2>2
<1>10. IsFiniteSet(out') /\ Cardinality(out') = Cardinality(out) - 1 /\ Cardinality(out) \in Nat
      BY <1>2, <1>5, FS_RemoveElement, FS_CardinalityType
<1>11. TypeInv'
      BY <1>2, <1>5, <1>6, <1>10 DEF IInv, TypeInv, Checkpoint
<1>12. AtPoint' /\ AtStart' /\ Bounded'
      BY DEF IInv, AtPoint, AtStart, Bounded, MaxStaleness, MaxInflight, SyncInterval,
         Boundaries,
         EvalInterval, SaveInterval
<1>13. Whole'
  <2>1. Held' = Held
    <3>1. Held' = Len(queued) + Cardinality(out') + Len(carried') + Len(ready) + Len(batch)
          BY DEF Held
    <3>   QED
          BY <1>6, <1>10, <3>1, Sizes DEF IInv, Held
  <2>   QED
        BY <2>1 DEF IInv, Whole
<1>14. /\ PromptsIn(ready)' = PromptsIn(ready) /\ PromptsIn(queued)' = PromptsIn(queued)
       /\ PromptsIn(batch)' = PromptsIn(batch) /\ Distinct(ready)' = Distinct(ready)
       /\ Distinct(queued)' = Distinct(queued) /\ Distinct(batch)' = Distinct(batch)
       /\ PromptsIn(carried)' = PromptsIn(carried') /\ Prompts(out)' = Prompts(out')
       /\ Distinct(carried)' = Distinct(carried')
      BY Later
<1>15. Placed'
  <2>1. \A s, t \in out' : s.prompt = t.prompt => s = t
        BY <1>5, <1>7
  <2>2. Apart(PromptsIn(queued), Prompts(out'), PromptsIn(carried'), PromptsIn(ready),
              PromptsIn(batch), trained)
        BY <1>7, <1>8, <1>9, ApartCarried, Zenon
  <2>3. PromptsIn(queued) \cup Prompts(out') \cup PromptsIn(carried') \cup PromptsIn(ready)
             \cup PromptsIn(batch) \cup trained = 0 .. nextGeneration * BatchSize - 1
        BY <1>7, <1>8, <1>9
  <2>   QED
        BY <1>7, <1>9, <1>14, <2>1, <2>2, <2>3 DEF Placed
<1>16. Served'
  <2>1. /\ Elements(queued)' = Elements(queued) /\ Elements(carried)' = Elements(carried')
        /\ Versions(ready)' = Versions(ready) /\ Versions(batch)' = Versions(batch)
        BY Later
  <2>2. \A s \in Elements(queued) \cup out' \cup Elements(carried') : s.versions \subseteq {publishedVersion}
        BY <1>4, <1>5, <1>6 DEF IInv, Served
  <2>   QED
        BY <2>1, <2>2 DEF IInv, Served, UpdatesPerBatch
<1>17. OneGeneration'
  <2>1. Prompts(out') \cup PromptsIn(carried') = Prompts(out) \cup PromptsIn(carried)
        BY <1>8, <1>9
  <2>   QED
        BY <1>14, <2>1 DEF IInv, OneGeneration, MaxInflight
<1>18. OneVersionPerBatch' /\ StalenessBudgeted'
      BY DEF IInv, OneVersionPerBatch, StalenessBudgeted, Versions, Budget, MaxStaleness,
         UpdatesPerBatch
<1>19. CheckpointsExact' /\ ChecksHold'
      BY DEF IInv, CheckpointsExact, ChecksHold
<1> QED
    BY <1>2, <1>11, <1>12, <1>13, <1>15, <1>16, <1>17, <1>18, <1>19 DEF IInv

-----------------------------------------------------------------------------
(***************************************************************************)
(* Errors, the end of the run, and crashes.                                *)
(***************************************************************************)

\* Errors of the manager, of the transfer and of the work end the loop and move nothing.
LEMMA RaisesKeep ==
  ASSUME IInv, ManagerRaises \/ TransferRaises \/ WorkRaises
  PROVE  IInv'
<1>1. CASE ManagerRaises
      BY <1>1, RaiseKeeps DEF ManagerRaises
<1>2. CASE TransferRaises
      BY <1>2, RaiseKeeps DEF TransferRaises
<1>3. CASE WorkRaises
      BY <1>3, RaiseKeeps DEF WorkRaises
<1> QED
    BY <1>1, <1>2, <1>3

\* close drops what is waiting and what is out.
LEMMA CloseKeeps == ASSUME IInv, Close PROVE IInv'
<1>1. /\ pc = "closing" /\ pc' = "closed" /\ queued' = <<>> /\ out' = {} /\ ~initial
      /\ UNCHANGED <<recipe, initial, resumed, step, trainVersion, publishedVersion, sinceSync,
                     carried, nextGeneration, batch, fault, ready, broken, saving, checkpoints,
                     crashes, trained>>
      BY DEF Close, IInv, AtStart, loopVars, syncVars, storeVars
<1>2. TypeInv'
  <2>1. <<>> \in Seq(Task) /\ {} \in SUBSET Task /\ IsFiniteSet({})
        BY FS_EmptySet
  <2>   QED
        BY <1>1, <2>1 DEF IInv, TypeInv, Checkpoint
<1>3. AtPoint' /\ AtStart'
      BY <1>1 DEF IInv, AtPoint, AtStart
<1>4. Whole' /\ Bounded' /\ Placed' /\ OneGeneration'
      BY <1>1 DEF Whole, Bounded, Placed, OneGeneration
<1>5. Served'
  <2>1. Elements(queued)' = {} /\ Elements(carried)' = Elements(carried)
        /\ Versions(ready)' = Versions(ready) /\ Versions(batch)' = Versions(batch)
    <3>1. Elements(<<>>) = {}
          BY DEF Elements
    <3>   QED
          BY <1>1, <3>1, Later
  <2>   QED
        BY <1>1, <2>1 DEF IInv, Served, UpdatesPerBatch
<1>6. InflightBounded'
  <2>1. Len(queued) + Len(carried) + Cardinality(out) + Len(ready) <= MaxInflight * BatchSize
        BY InvInflight DEF InflightBounded
  <2>2. /\ Len(queued) \in Nat /\ Len(carried) \in Nat /\ Cardinality(out) \in Nat /\ Len(ready) \in Nat
        /\ MaxInflight * BatchSize \in Int
        BY Sizes, Parameters DEF IInv
  <2>3. Len(<<>>) = 0 /\ Cardinality({}) = 0
        BY FS_EmptySet
  <2>4. 0 + Len(carried) + 0 + Len(ready) <= MaxInflight * BatchSize
        BY <2>1, <2>2
  <2>   QED
        BY <1>1, <2>3, <2>4 DEF InflightBounded, MaxInflight
<1>7. OneVersionPerBatch' /\ StalenessBudgeted'
      BY <1>1 DEF IInv, OneVersionPerBatch, StalenessBudgeted, Versions, Budget, MaxStaleness,
         UpdatesPerBatch
<1>8. CheckpointsExact' /\ ChecksHold'
      BY <1>1 DEF IInv, CheckpointsExact, ChecksHold
<1> QED
    BY <1>2, <1>3, <1>4, <1>5, <1>6, <1>7, <1>8 DEF IInv

\* A run that starts with nothing in hand, at the step it has trained to.
Fresh ==
  /\ TypeInv /\ CheckpointsExact /\ ChecksHold
  /\ pc = "setup" /\ initial /\ (resumed \/ trainVersion = publishedVersion)
  /\ step = nextGeneration /\ sinceSync = 0 /\ publishedVersion = 0
  /\ batch = <<>> /\ carried = <<>> /\ queued = <<>> /\ ready = <<>> /\ out = {}
  /\ trained = 0 .. step * BatchSize - 1

\* Such a run has nothing to account for but what it was trained on.
LEMMA FreshRun == Fresh => IInv
<1> SUFFICES ASSUME Fresh PROVE IInv
    OBVIOUS
<1> USE DEF Fresh
<1>1. /\ step \in Nat /\ nextGeneration \in Nat /\ trainVersion \in Nat /\ BatchSize \in Nat \ {0}
      /\ MaxStaleness \in Nat /\ MaxInflight \in Nat
      BY Parameters DEF TypeInv
<1>2. AtPoint /\ AtStart
      BY DEF AtPoint, AtStart
<1>3. Whole
  <2>1. Held = 0
        BY Sizes DEF Held
  <2>2. (nextGeneration - step) * BatchSize = 0
    <3>1. nextGeneration - step = 0
          BY <1>1
    <3>   QED
          BY <1>1, <3>1
  <2>   QED
        BY <1>1, <2>1, <2>2 DEF Whole
<1>4. Bounded
  <2>1. \A b \in Boundaries : b \in Nat
        BY Parameters DEF Boundaries
  <2>   QED
        BY <1>1, <2>1 DEF Bounded
<1>5. Placed
  <2>1. Prompts({}) = {}
        BY DEF Prompts
  <2>2. Apart({}, {}, {}, {}, {}, trained)
        BY DEF Apart
  <2>3. {} \cup {} \cup {} \cup {} \cup {} \cup trained = 0 .. nextGeneration * BatchSize - 1
        OBVIOUS
  <2>   QED
        BY <2>1, <2>2, <2>3, NoPrompts DEF Placed
<1>6. Served
  <2>1. Elements(<<>>) = {} /\ Versions(<<>>) = {}
        BY DEF Elements, Versions
  <2>   QED
        BY <1>1, <2>1 DEF Served
<1>7. OneGeneration
  <2>1. Prompts({}) = {}
        BY DEF Prompts
  <2>   QED
        BY <2>1, NoPrompts DEF OneGeneration
<1>8. OneVersionPerBatch /\ StalenessBudgeted
  <2>1. Versions(<<>>) = {} /\ DOMAIN ready = {}
        BY DEF Versions
  <2>   QED
        BY <2>1 DEF OneVersionPerBatch, StalenessBudgeted
<1> QED
    BY <1>2, <1>3, <1>4, <1>5, <1>6, <1>7, <1>8 DEF IInv

\* The first run starts so, from scratch.
LEMMA InitHolds == Init => IInv
<1> SUFFICES ASSUME Init PROVE IInv
    OBVIOUS
<1>1. NumRollouts \in Nat
      BY TrainerAssumption
<1>2. TypeInv
  <2>1. <<>> \in Seq(Task) /\ <<>> \in Seq(Group) /\ {} \in SUBSET Task /\ IsFiniteSet({})
        BY FS_EmptySet
  <2>   QED
    <3>1. recipe \in Recipes /\ pc \in Resting /\ step \in 0 .. NumRollouts
          BY <1>1 DEF Init
    <3>2. /\ {initial, resumed, broken} \subseteq BOOLEAN
          /\ {trainVersion, publishedVersion, sinceSync, nextGeneration, crashes} \subseteq Nat
      <4>1. /\ trainVersion = 0 /\ publishedVersion = 0 /\ sinceSync = 0 /\ nextGeneration = 0
            /\ crashes = 0 /\ {initial, resumed, broken} \subseteq BOOLEAN
            BY DEF Init
      <4>   QED
            BY <4>1
    <3>3. /\ queued \in Seq(Task) /\ carried \in Seq(Task) /\ out \in SUBSET Task /\ IsFiniteSet(out)
          /\ ready \in Seq(Group) /\ batch \in Seq(Group)
          BY <2>1 DEF Init
    <3>4. saving \in SUBSET Checkpoint /\ checkpoints \in SUBSET Checkpoint /\ trained \in SUBSET Nat
          BY DEF Init
    <3>   QED
          BY <3>1, <3>2, <3>3, <3>4 DEF TypeInv
<1>3. CheckpointsExact /\ ChecksHold
      BY DEF Init, CheckpointsExact, ChecksHold
<1>4. trained = 0 .. step * BatchSize - 1
  <2>1. step = 0 /\ trained = {} /\ 0 * BatchSize = 0
        BY <1>2, Parameters DEF Init
  <2>   QED
        BY <2>1
<1> QED
    BY <1>2, <1>3, <1>4, FreshRun DEF Init, Fresh

\* A run that is started again.
LEMMA RestartKeeps ==
  ASSUME IInv, NEW c \in checkpoints \cup {Scratch}, Restart(c)
  PROVE  IInv'
<1> USE DEF Restart
<1>1. c.step \in 0 .. NumRollouts /\ c.version \in Nat /\ c.trained \in SUBSET Nat
      /\ c.trained = 0 .. c.step * BatchSize - 1
      /\ (c # Scratch \/ c.version = 0)
  <2>1. CASE c \in checkpoints
        BY <2>1 DEF IInv, TypeInv, Checkpoint, CheckpointsExact, Scratch
  <2>2. CASE c = Scratch
    <3>1. 0 * BatchSize = 0 /\ NumRollouts \in Nat /\ 0 .. 0 - 1 = {}
          BY Parameters DEF IInv
    <3>   QED
          BY <2>2, <3>1 DEF Scratch
  <2>   QED
        BY <2>1, <2>2
<1>2. TypeInv'
  <2>1. <<>> \in Seq(Task) /\ <<>> \in Seq(Group) /\ {} \in SUBSET Task /\ IsFiniteSet({})
        BY FS_EmptySet
  <2>2. crashes' \in Nat /\ nextGeneration' \in Nat
        BY <1>1 DEF IInv, TypeInv, BatchesSkipped
  <2>   QED
    <3>1. recipe' \in Recipes /\ pc' \in Resting /\ step' \in 0 .. NumRollouts
          BY <1>1 DEF IInv, TypeInv
    <3>2. /\ {initial', resumed', broken'} \subseteq BOOLEAN
          /\ {trainVersion', publishedVersion', sinceSync', nextGeneration', crashes'} \subseteq Nat
      <4>1. /\ trainVersion' \in Nat /\ publishedVersion' = 0 /\ sinceSync' = 0
            /\ initial' = TRUE /\ resumed' \in BOOLEAN /\ broken' = FALSE
            BY <1>1
      <4>   HIDE DEF Restart
      <4>2. /\ publishedVersion' \in Nat /\ sinceSync' \in Nat
            BY <4>1
      <4>   QED
            BY <2>2, <4>1, <4>2
    <3>3. /\ queued' \in Seq(Task) /\ carried' \in Seq(Task) /\ out' \in SUBSET Task /\ IsFiniteSet(out')
          /\ ready' \in Seq(Group) /\ batch' \in Seq(Group)
          BY <2>1
    <3>4. (saving \in SUBSET Checkpoint /\ checkpoints \in SUBSET Checkpoint /\ trained \in SUBSET Nat)'
          BY <1>1 DEF IInv, TypeInv, Checkpoint
    <3>   QED
          BY <3>1, <3>2, <3>3, <3>4 DEF TypeInv
<1>3. CheckpointsExact' /\ ChecksHold'
      BY DEF IInv, CheckpointsExact, ChecksHold
<1>4. Fresh'
      BY <1>1, <1>2, <1>3 DEF BatchesSkipped, Fresh
<1> QED
    BY <1>4, FreshRun, PTL

\* A step of something else.
LEMMA StutterKeeps == ASSUME IInv, UNCHANGED vars PROVE IInv'
<1>1. /\ UNCHANGED Data
      /\ UNCHANGED <<pc, initial, resumed, fault, broken, saving, checkpoints, crashes>>
      BY DEF vars, loopVars, syncVars, managerVars, storeVars, Data
<1>2. TypeInv'
      BY <1>1 DEF IInv, TypeInv, Checkpoint, Data
<1>3. AtPoint'
      BY <1>1 DEF IInv, AtPoint, SaveDue, SaveInterval, Data
<1>4. AtStart'
      BY <1>1 DEF IInv, AtStart, Data
<1>5. Bounded'
      BY <1>1 DEF IInv, Bounded, MaxStaleness, MaxInflight, SyncInterval, Boundaries,
         EvalInterval, SaveInterval, Data
<1>6. Served'
      BY <1>1 DEF IInv, Served, Elements, Versions, UpdatesPerBatch, Data
<1>7. CheckpointsExact' /\ ChecksHold'
      BY <1>1 DEF IInv, CheckpointsExact, ChecksHold
<1> QED
    BY <1>1, <1>2, <1>3, <1>4, <1>5, <1>6, <1>7, DataKept DEF IInv

-----------------------------------------------------------------------------
(***************************************************************************)
(* The invariant is inductive.                                             *)
(***************************************************************************)

\* Each step keeps the invariant.
LEMMA NextKeeps == IInv /\ [Next]_vars => IInv'
<1> SUFFICES ASSUME IInv, [Next]_vars PROVE IInv'
    OBVIOUS
<1>1. CASE Driver
  <2>1. CASE Top \/ Collect \/ Refill \/ Train
        BY <2>1, TopKeeps, CollectKeeps, RefillKeeps, TrainKeeps
  <2>2. CASE NoSync \/ NothingToPublish \/ Quiesce \/ QuiesceReturns
        BY <2>2, NoSyncKeeps, NothingToPublishKeeps, QuiesceKeeps, QuiesceReturnsKeeps
  <2>3. CASE Align \/ FinishPrefix \/ FinishReturns \/ Publish
        BY <2>3, AlignKeeps, FinishPrefixKeeps, FinishReturnsKeeps, PublishKeeps
  <2>4. CASE After \/ Save \/ Close
        BY <2>4, AfterKeeps, SaveKeeps, CloseKeeps
  <2>   QED
        BY <1>1, <2>1, <2>2, <2>3, <2>4 DEF Driver
<1>2. CASE Engines
      BY <1>2, LaunchKeeps, CompleteKeeps, SuspendKeeps DEF Engines
<1>3. CASE ManagerRaises
      BY <1>3, RaisesKeep
<1>4. CASE SaveCompletes
      BY <1>4, SaveCompletesKeeps
<1>5. CASE Failures
      BY <1>5, EngineFailsKeeps, RaisesKeep, RestartKeeps DEF Failures
<1>6. CASE UNCHANGED vars
      BY <1>6, StutterKeeps
<1> QED
    BY <1>1, <1>2, <1>3, <1>4, <1>5, <1>6 DEF Next

\* The invariant holds in every reachable state of the loop.
THEOREM Inductive == Spec => []IInv
  BY InitHolds, NextKeeps, PTL DEF Spec

\* None of the loop's own checks ever raises: admission is aligned with batches, collect is
\* never starved, a batch always combines, a carry can always be aligned before a publication
\* and the manager is empty at each evaluation, checkpoint and at the end.
THEOREM ChecksNeverRaise == Spec => []ChecksHold
<1>1. IInv => ChecksHold
      BY DEF IInv
<1> QED
    BY <1>1, Inductive, PTL

\* Each batch of completed groups is of one weight version, and the one still incomplete is of
\* the version now published (combine_rollout_prompts rejects a mixed batch).
THEOREM VersionsOfABatch == Spec => []OneVersionPerBatch
<1>1. IInv => OneVersionPerBatch
      BY DEF IInv
<1> QED
    BY <1>1, Inductive, PTL

\* A batch is trained on at most MaxStaleness batches' worth of updates after the weights that
\* generated it; a completed group has room for the batches ahead of it (keep_within_lag).
THEOREM StalenessWithinBudget == Spec => []StalenessBudgeted
<1>1. IInv => StalenessBudgeted
      BY DEF IInv
<1> QED
    BY <1>1, Inductive, PTL

\* At most MaxInflight batches of prompts are waiting, running, carried or completed.
THEOREM FlightBounded == Spec => []InflightBounded
  BY InvInflight, Inductive, PTL

\* A checkpoint of step s was trained on exactly the first s batches of the data source, which
\* the resumed loop skips.
THEOREM CheckpointsOfWholeBatches == Spec => []CheckpointsExact
<1>1. IInv => CheckpointsExact
      BY DEF IInv
<1> QED
    BY <1>1, Inductive, PTL

-----------------------------------------------------------------------------
(***************************************************************************)
(* Every prompt is in one place, counted.                                  *)
(***************************************************************************)

\* Places that share no prompt hold as many as they hold one by one.
LEMMA CountApart ==
  ASSUME NEW S, NEW T, IsFiniteSet(S), IsFiniteSet(T), S \cap T = {}
  PROVE  IsFiniteSet(S \cup T) /\ Cardinality(S \cup T) = Cardinality(S) + Cardinality(T)
<1>1. Cardinality(S \cap T) = 0 /\ Cardinality(S) \in Nat /\ Cardinality(T) \in Nat
      BY FS_EmptySet, FS_CardinalityType
<1>2. IsFiniteSet(S \cup T) /\ Cardinality(S \cup T) = Cardinality(S) + Cardinality(T) - Cardinality(S \cap T)
      BY FS_Union
<1> QED
    BY <1>1, <1>2

\* The places of the invariant are those PromptsAccounted counts.
LEMMA InvPrompts == IInv => PromptsAccounted
<1> SUFFICES ASSUME IInv, pc \notin {"closing", "closed"} PROVE PromptsAccounted
    BY DEF PromptsAccounted
<1> DEFINE Q == PromptsIn(queued)
           O == Prompts(out)
           C == PromptsIn(carried)
           R == PromptsIn(ready)
           B == PromptsIn(batch)
           places == <<Q, O, C, R, B, trained>>
<1>1. /\ Distinct(queued) /\ Distinct(carried) /\ Distinct(ready) /\ Distinct(batch)
      /\ \A r, s \in out : r.prompt = s.prompt => r = s
      /\ Apart(Q, O, C, R, B, trained)
      /\ Q \cup O \cup C \cup R \cup B \cup trained = 0 .. nextGeneration * BatchSize - 1
      BY DEF IInv, Placed
<1>2. /\ IsFiniteSet(Q) /\ Cardinality(Q) = Len(queued) /\ IsFiniteSet(C) /\ Cardinality(C) = Len(carried)
      /\ IsFiniteSet(R) /\ Cardinality(R) = Len(ready) /\ IsFiniteSet(B) /\ Cardinality(B) = Len(batch)
      /\ IsFiniteSet(O) /\ Cardinality(O) = Cardinality(out)
  <2>1. /\ queued \in Seq(Task) /\ carried \in Seq(Task) /\ ready \in Seq(Group) /\ batch \in Seq(Group)
        /\ IsFiniteSet(out)
        BY DEF IInv, TypeInv
  <2>   QED
        BY <1>1, <2>1, CountPrompts, CountSet
<1> HIDE DEF Q, O, C, R, B
<1>4. DOMAIN places = 1 .. 6
      OBVIOUS
<1>5. UNION Elements(places) = 0 .. nextGeneration * BatchSize - 1
  <2>1. Elements(places) = {Q, O, C, R, B, trained}
        BY <1>4 DEF Elements
  <2>   QED
        BY <1>1, <2>1
<1>6. \A i, j \in DOMAIN places : i # j => places[i] \cap places[j] = {}
      BY <1>1, <1>4 DEF Apart
<1>7. UNION {places[i] : i \in 1 .. 5} = Q \cup O \cup C \cup R \cup B
  <2>1. {places[i] : i \in 1 .. 5} = {Q, O, C, R, B}
        OBVIOUS
  <2>   QED
        BY <2>1
<1>8. Cardinality(Q \cup O \cup C \cup R \cup B)
        = Len(queued) + Len(carried) + Len(ready) + Len(batch) + Cardinality(out)
  <2>1. /\ Q \cap O = {} /\ (Q \cup O) \cap C = {} /\ (Q \cup O \cup C) \cap R = {}
        /\ (Q \cup O \cup C \cup R) \cap B = {}
        BY <1>1 DEF Apart
  <2>2. IsFiniteSet(Q \cup O) /\ Cardinality(Q \cup O) = Cardinality(Q) + Cardinality(O)
        BY <1>2, <2>1, CountApart
  <2>3. IsFiniteSet(Q \cup O \cup C) /\ Cardinality(Q \cup O \cup C) = Cardinality(Q \cup O) + Cardinality(C)
        BY <1>2, <2>1, <2>2, CountApart
  <2>4. /\ IsFiniteSet(Q \cup O \cup C \cup R)
        /\ Cardinality(Q \cup O \cup C \cup R) = Cardinality(Q \cup O \cup C) + Cardinality(R)
        BY <1>2, <2>1, <2>3, CountApart
  <2>5. Cardinality(Q \cup O \cup C \cup R \cup B) = Cardinality(Q \cup O \cup C \cup R) + Cardinality(B)
        BY <1>2, <2>1, <2>4, CountApart
  <2>   QED
        BY <1>2, <2>2, <2>3, <2>4, <2>5, Sizes DEF IInv
<1>9. Len(queued) + Len(carried) + Len(ready) + Len(batch) + Cardinality(out)
        = Cardinality(UNION {places[i] : i \in 1 .. 5})
      BY <1>7, <1>8
<1> QED
    BY <1>5, <1>6, <1>9, Zenon DEF PromptsAccounted, Q, O, C, R, B, PromptsIn

\* No prompt is lost or used twice: each one drawn is waiting, out, carried, ready, in the
\* batch, or trained on, through quiesce, carry and restart.
THEOREM PromptsInOnePlace == Spec => []PromptsAccounted
  BY InvPrompts, Inductive, PTL

-----------------------------------------------------------------------------
(***************************************************************************)
(* The refinement.                                                         *)
(***************************************************************************)

\* What the abstract run sees of a step that neither trains, saves nor ends.
LEMMA QuietMaps ==
  ASSUME UNCHANGED <<recipe, step, trained, saving, checkpoints>>,
         pc = "closed" <=> pc' = "closed"
  PROVE  UNCHANGED Abstract!vars
  BY DEF Abstract!vars, Saved, EvalInterval, SaveInterval

\* An error before the loop ends the run at once; later, when the manager has been closed.
LEMMA RaiseMaps ==
  ASSUME pc # "closed", NEW why, Raise(why)
  PROVE  [Abstract!Next]_(Abstract!vars)
<1>1. UNCHANGED <<recipe, step, trained, saving, checkpoints>>
      BY DEF Raise, loopVars, storeVars
<1>2. CASE initial
  <2>1. UNCHANGED <<step, trained, Saved>> /\ (pc' = "closed") = TRUE /\ ~(pc = "closed")
        BY <1>1, <1>2 DEF Raise, Saved
  <2>2. UNCHANGED ({NumRollouts} \cup
          {n \in 1 .. NumRollouts :
             \E i \in {EvalInterval, SaveInterval} \ {0} : n % i = 0})
        BY <1>1 DEF EvalInterval, SaveInterval
  <2>3. Abstract!End
        BY <2>1, <2>2 DEF Abstract!End
  <2>   QED
        BY <2>3 DEF Abstract!Next
<1>3. CASE ~initial
  <2>1. pc' # "closed"
        BY <1>3 DEF Raise
  <2>   QED
        BY <1>1, <2>1, QuietMaps
<1> QED
    BY <1>2, <1>3

\* The operators the abstract specification brings are those of this one.
LEMMA AbstractMin == ASSUME NEW T PROVE Abstract!Min(T) = Min(T)
  BY DEF Abstract!Min, Min

\* The same of Cardinality.
LEMMA AbstractCardinality == ASSUME NEW T PROVE Abstract!Cardinality(T) = Cardinality(T)
  BY DEF Abstract!Cardinality, Cardinality

\* A trained batch is a step of the run: BatchSize prompts, none past the next boundary.
LEMMA UpdateMaps == ASSUME IInv, pc = "train", Update PROVE Abstract!Train
<1> DEFINE B == BatchSize
           W == Min({b \in Boundaries : b > step})
<1>1. /\ B \in Nat \ {0} /\ NumRollouts \in Nat /\ step \in Nat /\ step < NumRollouts
      /\ nextGeneration \in Nat /\ batch \in Seq(Group) /\ Len(batch) = B
      BY Parameters DEF IInv, TypeInv, AtPoint
<1>2. /\ step' = step + 1 /\ pc' = "boundary" /\ UNCHANGED <<recipe, saving, checkpoints>>
      /\ trained' = trained \cup {batch[i].prompt : i \in DOMAIN batch}
      BY DEF Update
<1>3. trained' = trained \cup PromptsIn(batch)
      BY <1>2 DEF PromptsIn, Prompts, Elements
<1>4. /\ Distinct(batch) /\ PromptsIn(batch) \cap trained = {}
      /\ trained \cup PromptsIn(batch) \subseteq 0 .. nextGeneration * B - 1
      BY DEF IInv, Placed, Apart
<1>5. Cardinality(trained' \ trained) = B
  <2>1. trained' \ trained = PromptsIn(batch)
        BY <1>3, <1>4
  <2>   QED
        BY <1>1, <1>4, <2>1, CountPrompts
<1>6. W \in Nat /\ nextGeneration <= W
  <2>1. {b \in Boundaries : b > step} \subseteq Nat /\ NumRollouts \in {b \in Boundaries : b > step}
        BY <1>1 DEF Boundaries
  <2>2. W \in {b \in Boundaries : b > step}
        BY <2>1, MinOfNats
  <2>3. \A b \in Boundaries : b > step => nextGeneration <= b
        BY DEF IInv, Bounded
  <2>   QED
        BY <2>1, <2>2, <2>3
<1>7. Abstract!Window = W * B
      BY AbstractMin DEF Abstract!Window, Boundaries
<1> HIDE DEF B, W
<1>8. trained' \subseteq 0 .. Abstract!Window - 1
  <2>1. nextGeneration * B <= W * B /\ nextGeneration * B \in Int /\ W * B \in Int
        BY <1>1, <1>6, MulMono
  <2>   QED
        BY <1>3, <1>4, <1>7, <2>1
<1>9. UNCHANGED <<Boundaries, Saved>> /\ (pc' = "closed") = FALSE /\ ~(pc = "closed")
      BY <1>2 DEF Boundaries, Saved, EvalInterval, SaveInterval
<1>10. UNCHANGED <<Boundaries, Saved, pc = "closed">>
      BY <1>9
<1>11. Abstract!Cardinality(trained' \ trained) = B
      BY <1>5, AbstractCardinality
<1> QED
    BY <1>1, <1>2, <1>3, <1>8, <1>9, <1>10, <1>11 DEF Abstract!Train, Boundaries, B

\* A checkpoint is taken at a boundary, of all before it.
LEMMA SaveMaps == ASSUME IInv, Save PROVE Abstract!Checkpoint
<1> USE DEF Save, loopVars
<1> DEFINE new == [step |-> step, version |-> trainVersion, trained |-> trained]
<1>1. /\ pc = "save" /\ SaveDue /\ ~initial /\ saving = {} /\ saving' = {new}
      /\ checkpoints' = {c \in checkpoints : c.step # step} /\ pc' = "top"
      /\ UNCHANGED <<recipe, step, trained>>
      BY DEF IInv, AtPoint, AtStart
<1>2. step \in Boundaries
  <2>1. step \in Nat \ {0} /\ step <= NumRollouts /\ NumRollouts \in Nat
        BY <1>1, Parameters DEF IInv, AtStart, TypeInv
  <2>2. SaveInterval # 0 /\ (step % SaveInterval = 0 \/ step = NumRollouts)
        BY <1>1, <2>1, Parameters DEF IInv, SaveDue
  <2>   QED
        BY <2>1, <2>2 DEF Boundaries
<1>3. trained = 0 .. step * BatchSize - 1
      BY <1>1, TrainedAtBoundary DEF RequireEmpty
<1>4. Saved' = {c \in Saved : c.step # step} \cup {[step |-> step, trained |-> trained]}
  <2>1. Saved = {[step |-> c.step, trained |-> c.trained] : c \in checkpoints}
        BY <1>1 DEF Saved
  <2>2. Saved' = {[step |-> c.step, trained |-> c.trained] :
                   c \in {d \in checkpoints : d.step # step} \cup {new}}
        BY <1>1 DEF Saved
  <2>3. new.step = step /\ new.trained = trained
        OBVIOUS
  <2>   HIDE DEF new, Save
  <2>4. {c \in Saved : c.step # step}
          = {[step |-> c.step, trained |-> c.trained] : c \in {d \in checkpoints : d.step # step}}
        BY <2>1
  <2>   QED
        BY <2>2, <2>3, <2>4
<1>5. UNCHANGED Boundaries
      BY <1>1 DEF Boundaries, EvalInterval, SaveInterval
<1>6. (pc' = "closed") = FALSE /\ (pc = "closed") = FALSE
      BY <1>1
<1> QED
    BY <1>1, <1>2, <1>3, <1>4, <1>5, <1>6 DEF Abstract!Checkpoint, Boundaries

\* Whether it is durable already is not seen.
LEMMA SaveCompletesMaps == SaveCompletes => UNCHANGED Abstract!vars
<1> SUFFICES ASSUME SaveCompletes PROVE UNCHANGED Abstract!vars
    OBVIOUS
<1>1. /\ UNCHANGED <<recipe, step, trained, pc>> /\ checkpoints' \cup saving' = checkpoints \cup saving
      BY DEF SaveCompletes, loopVars
<1>2. UNCHANGED Saved
      BY <1>1 DEF Saved
<1> QED
    BY <1>1, <1>2 DEF Abstract!vars, EvalInterval, SaveInterval

\* The end of close is the end of the run.
LEMMA CloseMaps == Close => Abstract!End
<1> SUFFICES ASSUME Close PROVE Abstract!End
    OBVIOUS
<1>1. /\ UNCHANGED <<recipe, step, trained, saving, checkpoints>> /\ pc = "closing" /\ pc' = "closed"
      BY DEF Close, loopVars, storeVars
<1>2. UNCHANGED <<Boundaries, Saved>>
      BY <1>1 DEF Boundaries, Saved, EvalInterval, SaveInterval
<1>3. (pc' = "closed") = TRUE /\ ~(pc = "closed")
      BY <1>1
<1> QED
    BY <1>1, <1>2, <1>3 DEF Abstract!End, Boundaries

\* A restart resumes from a checkpoint that was taken.
LEMMA RestartMaps ==
  ASSUME NEW c \in checkpoints \cup {Scratch}, Restart(c)
  PROVE  Abstract!Resume
<1>1. /\ step' = c.step /\ trained' = c.trained /\ saving' = {} /\ checkpoints' = checkpoints
      /\ recipe' = recipe /\ (pc' = "closed") = FALSE
      BY DEF Restart
<1>2. \E s \in Saved \cup {Abstract!Scratch} : step' = s.step /\ trained' = s.trained
  <2>   DEFINE s == [step |-> c.step, trained |-> c.trained]
  <2>1. s \in Saved \cup {Abstract!Scratch}
    <3>1. CASE c \in checkpoints
          BY <3>1 DEF Saved
    <3>2. CASE c = Scratch
      <4>1. s = Abstract!Scratch
            BY <3>2 DEF Abstract!Scratch, Scratch
      <4>   QED
            BY <4>1
    <3>   QED
          BY <3>1, <3>2
  <2>2. step' = s.step /\ trained' = s.trained
        BY <1>1
  <2>   QED
        BY <2>1, <2>2
<1>3. Saved' \subseteq Saved
      BY <1>1 DEF Saved
<1>4. UNCHANGED Boundaries
      BY <1>1 DEF Boundaries, EvalInterval, SaveInterval
<1> QED
    BY <1>1, <1>2, <1>3, <1>4 DEF Abstract!Resume, Boundaries

\* The other steps of the driver and the engines are not seen.
LEMMA OthersMap ==
  ASSUME \/ Top \/ Collect \/ Refill \/ NoSync \/ NothingToPublish \/ Quiesce \/ QuiesceReturns
         \/ Align \/ FinishPrefix \/ FinishReturns \/ Publish \/ After
  PROVE  [Abstract!Next]_(Abstract!vars)
<1> USE DEF Checked, loopVars, syncVars, storeVars
<1>1. pc # "closed"
      BY DEF Top, Collect, Refill, NoSync, NothingToPublish, Quiesce, QuiesceReturns, Align,
         FinishPrefix, FinishReturns, Publish, After, SyncCalled
<1>2. \/ Raise("check")
      \/ pc' # "closed" /\ UNCHANGED <<recipe, step, trained, saving, checkpoints>>
  <2>1. CASE Top
        BY <2>1 DEF Top, EndLoop, AdmitFirst
  <2>2. CASE Collect
        BY <2>2 DEF Collect, Take
  <2>3. CASE Refill
        BY <2>3 DEF Refill, AdmitNext
  <2>4. CASE NoSync \/ NothingToPublish \/ Quiesce \/ QuiesceReturns
        BY <2>4 DEF NoSync, NothingToPublish, CountAfresh, Quiesce, QuiesceReturns
  <2>5. CASE Align \/ FinishPrefix \/ FinishReturns
        BY <2>5 DEF Align, FinishPrefix, FinishReturns, Finish
  <2>6. CASE Publish \/ After
        BY <2>6 DEF Publish, SyncWeights, After, PassBoundary
  <2>   QED
        BY <2>1, <2>2, <2>3, <2>4, <2>5, <2>6
<1>3. CASE Raise("check")
      BY <1>1, <1>3, RaiseMaps
<1>4. CASE pc' # "closed" /\ UNCHANGED <<recipe, step, trained, saving, checkpoints>>
      BY <1>1, <1>4, QuietMaps
<1> QED
    BY <1>2, <1>3, <1>4

\* The engines are not seen at all.
LEMMA EnginesMap ==
  ASSUME Engines \/ EngineFails \/ UNCHANGED vars
  PROVE  [Abstract!Next]_(Abstract!vars)
<1>1. UNCHANGED <<pc, recipe, step, trained, saving, checkpoints>>
  <2>1. CASE Engines
        BY <2>1 DEF Engines, Launch, Complete, Suspend, loopVars, storeVars
  <2>2. CASE EngineFails
        BY <2>2 DEF EngineFails, loopVars, storeVars
  <2>3. CASE UNCHANGED vars
        BY <2>3 DEF vars, loopVars, storeVars
  <2>   QED
        BY <2>1, <2>2, <2>3
<1> QED
    BY <1>1, QuietMaps

\* So each step is a step of the abstract run, or none.
LEMMA StepMaps == ASSUME IInv, [Next]_vars PROVE [Abstract!Next]_(Abstract!vars)
<1>1. CASE Driver
  <2>1. CASE Train
    <3>1. Update \/ Raise("check")
          BY <2>1 DEF Train, Checked
    <3>2. pc = "train"
          BY <2>1 DEF Train
    <3>   QED
          BY <3>1, <3>2, UpdateMaps, RaiseMaps DEF Abstract!Next
  <2>2. CASE Save \/ Close
        BY <2>2, SaveMaps, CloseMaps DEF Abstract!Next
  <2>   QED
        BY <1>1, <2>1, <2>2, OthersMap DEF Driver
<1>2. CASE ManagerRaises
      BY <1>2, RaiseMaps DEF ManagerRaises
<1>3. CASE SaveCompletes
      BY <1>3, SaveCompletesMaps
<1>4. CASE Failures
  <2>1. CASE TransferRaises \/ WorkRaises
        BY <2>1, RaiseMaps DEF TransferRaises, WorkRaises
  <2>2. CASE \E c \in checkpoints \cup {Scratch} : Restart(c)
        BY <2>2, RestartMaps DEF Abstract!Next
  <2>   QED
        BY <1>4, <2>1, <2>2, EnginesMap DEF Failures
<1> QED
    BY <1>1, <1>2, <1>3, <1>4, EnginesMap DEF Next

\* And it starts as the abstract run does.
LEMMA InitMaps == Init => Abstract!Init
<1> SUFFICES ASSUME Init PROVE Abstract!Init
    OBVIOUS
<1>1. step = 0 /\ trained = {} /\ Saved = {} /\ (pc = "closed") = FALSE
      BY DEF Init, Saved
<1>2. Boundaries \subseteq 0 .. NumRollouts /\ NumRollouts \in Boundaries
      BY TrainerAssumption DEF Boundaries
<1> QED
    BY <1>1, <1>2 DEF Abstract!Init, Boundaries

\* The loop implements TrainingRun: at each boundary it has trained on exactly the prompts
\* before it, only there is it saved, and a restart goes on from there.
THEOREM Implements == Spec => ImplementsTrainingRun
<1>1. IInv /\ [Next]_vars => [Abstract!Next]_(Abstract!vars)
      BY StepMaps
<1> QED
    BY <1>1, InitMaps, Inductive, PTL DEF Spec, ImplementsTrainingRun, Abstract!Spec
=============================================================================
