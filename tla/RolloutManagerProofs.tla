------------------------ MODULE RolloutManagerProofs ------------------------
(***************************************************************************)
(* Theorems about RolloutManager, for any size of a group, lag, number of  *)
(* slots, of roots and of versions.                                        *)
(*                                                                         *)
(* What the manager and the pool hold is three sets of siblings: those     *)
(* still to come (Unfinished), the finished ones of an unfinished root     *)
(* (Buffered) and those of complete groups (Held).  Every operation moves  *)
(* siblings between them or out of them, and a root only as a whole.       *)
(***************************************************************************)
EXTENDS RolloutManager, FiniteSetTheorems, SequenceTheorems, TLAPS

-----------------------------------------------------------------------------
(***************************************************************************)
(* The inductive invariant.                                                *)
(***************************************************************************)

Task == [root : Root, copy : 1 .. GroupSize, versions : SUBSET (0 .. MaxVersion),
         status : {"new", "terminal", "suspended", "malformed"}]
Id   == Root \X (1 .. GroupSize)

Sound == failure = "none" /\ dpc # "closed"

Settling == {"quiesce", "close"}

TypeInv ==
  /\ waiting \in Seq(Task) /\ done \in Seq(Task)
  /\ undispatched \in Seq(Task) /\ carried \in Seq(Task)
  /\ out \in SUBSET Task
  /\ pending \in [Root -> Seq(Task)]
  /\ complete \in Seq(Seq(Task))
  /\ paused \in BOOLEAN /\ broken \in BOOLEAN /\ stopping \in BOOLEAN
  /\ publishedVersion \in 0 .. MaxVersion /\ trainVersion \in 0 .. MaxVersion
  /\ publishedVersion <= trainVersion
  /\ failure \in {"none", "engine", "starved", "check"}
  /\ dpc \in {"idle", "collect", "quiesce", "finish", "close", "closed"}
  /\ want \in 0 .. MaxRoots /\ nextRoot \in 0 .. MaxRoots
  /\ delivered \in SUBSET Id /\ discarded \in SUBSET Id

\* No result is of a version the engines have not run yet.
Stamped ==
  \A t \in Unfinished \cup Buffered \cup Samples(complete) :
    t.versions \subseteq 0 .. publishedVersion

\* A call in progress is one of a sound manager; engines suspend during quiesce and
\* close only, and only then does the manager hold what pause returned.
AtCall ==
  /\ dpc \in {"collect", "quiesce", "finish", "close"} => failure = "none"
  /\ Sound /\ dpc \notin Settling => undispatched = <<>> /\ ~stopping
  /\ dpc \in Settling => waiting = <<>>
  /\ dpc = "quiesce" => carried = <<>>
  /\ \A t \in Elements(done) :
       /\ t.status # "new"
       /\ Sound /\ t.status = "suspended" => dpc \in Settling

\* Nothing is twice in a sequence.
Once(seq) == \A i, j \in DOMAIN seq : seq[i] = seq[j] => i = j

\* The buffers: siblings by root, fewer than a group, and groups of one root each.
PendingKept(buffer) ==
  \A r \in Root :
    /\ Len(buffer[r]) < GroupSize /\ Once(buffer[r])
    /\ \A t \in Elements(buffer[r]) : t.root = r

GroupsKept(groups) ==
  /\ \A i \in DOMAIN groups :
       /\ Len(groups[i]) = GroupSize /\ Once(groups[i])
       /\ \A s, t \in Elements(groups[i]) : s.root = t.root
  /\ \A i, j \in DOMAIN groups :
       \A s \in Elements(groups[i]), t \in Elements(groups[j]) : s.root = t.root => i = j

InBuffer(buffer) == UNION {Elements(buffer[r]) : r \in Root}

\* A sibling is one task.
Unique(tasks) == \A s, t \in tasks : s.root = t.root /\ s.copy = t.copy => s = t

\* F are still to come, P are buffered, G are in groups, and del and dis are gone.
Accounted(F, P, G, del, dis, ids) ==
  /\ F \cap P = {} /\ F \cap G = {} /\ P \cap G = {} /\ del \cap dis = {}
  /\ Unique(F \cup P \cup G)
  /\ Ids(F \cup P \cup G) \cap (del \cup dis) = {}
  /\ Ids(F \cup P \cup G) \cup del \cup dis = ids
  /\ \A t \in F \cup P :
       (\A s \in G : s.root # t.root) /\ (\A x \in del \cup dis : x[1] # t.root)

Apart(W, O, D, U, C) ==
  /\ W \cap O = {} /\ W \cap D = {} /\ W \cap U = {} /\ W \cap C = {} /\ O \cap D = {}
  /\ O \cap U = {} /\ O \cap C = {} /\ D \cap U = {} /\ D \cap C = {} /\ U \cap C = {}

Placed ==
  Sound =>
    /\ Once(waiting) /\ Once(done) /\ Once(undispatched) /\ Once(carried)
    /\ Apart(Elements(waiting), out, Elements(done), Elements(undispatched),
             Elements(carried))
    /\ PendingKept(pending) /\ GroupsKept(complete)
    /\ Accounted(Unfinished, Buffered, Samples(complete), delivered, discarded,
                 (0 .. nextRoot - 1) \X (1 .. GroupSize))

IInv ==
  /\ TypeInv
  /\ Stamped
  /\ AtCall
  /\ Placed
  /\ ChecksHold

-----------------------------------------------------------------------------
(***************************************************************************)
(* Sequences without repetition.                                           *)
(***************************************************************************)

\* The elements of a sequence, index by index.
LEMMA InSequence ==
  ASSUME NEW S, NEW seq \in Seq(S)
  PROVE  /\ DOMAIN seq = 1 .. Len(seq) /\ Len(seq) \in Nat
         /\ \A i \in 1 .. Len(seq) : seq[i] \in S /\ seq[i] \in Elements(seq)
         /\ \A e \in Elements(seq) : e \in S /\ \E i \in 1 .. Len(seq) : e = seq[i]
         /\ seq = <<>> <=> Len(seq) = 0
<1>1. DOMAIN seq = 1 .. Len(seq) /\ Len(seq) \in Nat /\ \A i \in DOMAIN seq : seq[i] \in S
      OBVIOUS
<1>2. seq = <<>> <=> Len(seq) = 0
      BY EmptySeq
<1> QED
    BY <1>1, <1>2 DEF Elements

\* The empty sequence.
LEMMA NoElements == Elements(<<>>) = {} /\ Once(<<>>)
  BY DEF Elements, Once

Splits(seq, front, rest) ==
  /\ Elements(seq) = Elements(front) \cup Elements(rest)
  /\ Once(seq) <=> /\ Once(front) /\ Once(rest)
                   /\ Elements(front) \cap Elements(rest) = {}

\* A sequence is cut in two.
LEMMA Split ==
  ASSUME NEW S, NEW seq \in Seq(S), NEW front \in Seq(S), NEW rest \in Seq(S),
         Len(seq) = Len(front) + Len(rest),
         \A i \in 1 .. Len(front) : front[i] = seq[i],
         \A i \in 1 .. Len(rest) : rest[i] = seq[Len(front) + i]
  PROVE  Splits(seq, front, rest)
<1> DEFINE m == Len(front)
           n == Len(rest)
<1>1. m \in Nat /\ n \in Nat /\ Len(seq) = m + n
      OBVIOUS
<1>2. DOMAIN seq = 1 .. m + n /\ DOMAIN front = 1 .. m /\ DOMAIN rest = 1 .. n
      OBVIOUS
<1>3. /\ Elements(seq) = {seq[i] : i \in 1 .. m + n}
      /\ Elements(front) = {front[i] : i \in 1 .. m}
      /\ Elements(rest) = {rest[i] : i \in 1 .. n}
      BY <1>2 DEF Elements
<1>4. /\ \A i \in 1 .. m : front[i] = seq[i] /\ i \in 1 .. m + n
      /\ \A i \in 1 .. n : rest[i] = seq[m + i] /\ m + i \in 1 .. m + n
      /\ \A i \in 1 .. m + n : i \in 1 .. m \/ (i - m \in 1 .. n /\ rest[i - m] = seq[i])
      BY <1>1
<1> HIDE DEF m, n
<1>5. Elements(seq) = Elements(front) \cup Elements(rest)
  <2>1. \A e \in Elements(front) \cup Elements(rest) : e \in Elements(seq)
        BY <1>3, <1>4
  <2>2. \A i \in 1 .. m + n : seq[i] \in Elements(front) \cup Elements(rest)
        BY <1>3, <1>4
  <2>   QED
        BY <1>3, <2>1, <2>2
<1>6. ASSUME Once(seq)
      PROVE  Once(front) /\ Once(rest) /\ Elements(front) \cap Elements(rest) = {}
  <2>1. \A i, j \in 1 .. m + n : seq[i] = seq[j] => i = j
        BY <1>2, <1>6 DEF Once
  <2>2. \A i, j \in 1 .. m : front[i] = front[j] => i = j
        BY <1>4, <2>1
  <2>3. ASSUME NEW i \in 1 .. n, NEW j \in 1 .. n, rest[i] = rest[j]
        PROVE  i = j
    <3>1. m + i = m + j
          BY <1>4, <2>1, <2>3
    <3>   QED
          BY <1>1, <3>1
  <2>4. ASSUME NEW i \in 1 .. m, NEW j \in 1 .. n PROVE front[i] # rest[j]
    <3>1. i # m + j
          BY <1>1
    <3>   QED
          BY <1>4, <2>1, <3>1
  <2>   QED
        BY <1>2, <1>3, <2>2, <2>3, <2>4 DEF Once
<1>7. ASSUME Once(front), Once(rest), Elements(front) \cap Elements(rest) = {},
             NEW i \in 1 .. m + n, NEW j \in 1 .. m + n, seq[i] = seq[j]
      PROVE  i = j
  <2>1. /\ \A k, l \in 1 .. m : front[k] = front[l] => k = l
        /\ \A k, l \in 1 .. n : rest[k] = rest[l] => k = l
        BY <1>2, <1>7 DEF Once
  <2>6. \A k \in 1 .. m, l \in 1 .. n : front[k] # rest[l]
        BY <1>3, <1>7
  <2>2. CASE i \in 1 .. m /\ j \in 1 .. m
        BY <1>4, <1>7, <2>1, <2>2
  <2>3. CASE i \notin 1 .. m /\ j \notin 1 .. m
    <3>1. i - m = j - m
          BY <1>4, <1>7, <2>1, <2>3
    <3>   QED
          BY <1>1, <3>1
  <2>4. CASE i \in 1 .. m /\ j \notin 1 .. m
        BY <1>4, <1>7, <2>6, <2>4
  <2>5. CASE i \notin 1 .. m /\ j \in 1 .. m
    <3>1. front[j] = seq[j] /\ i - m \in 1 .. n /\ rest[i - m] = seq[i]
          BY <1>4, <2>5
    <3>   QED
          BY <1>7, <2>5, <2>6, <3>1
  <2>   QED
        BY <2>2, <2>3, <2>4, <2>5
<1> QED
    BY <1>2, <1>5, <1>6, <1>7 DEF Once, Splits

\* SubSeq cuts a sequence in two, as take and finish do.
LEMMA Cut ==
  ASSUME NEW S, NEW seq \in Seq(S), NEW n \in 0 .. Len(seq)
  PROVE  /\ SubSeq(seq, 1, n) \in Seq(S) /\ SubSeq(seq, n + 1, Len(seq)) \in Seq(S)
         /\ Splits(seq, SubSeq(seq, 1, n), SubSeq(seq, n + 1, Len(seq)))
<1> DEFINE front == SubSeq(seq, 1, n)
           rest  == SubSeq(seq, n + 1, Len(seq))
<1>1. /\ front \in Seq(S) /\ Len(front) = n /\ \A i \in 1 .. n : front[i] = seq[i]
      /\ rest \in Seq(S) /\ Len(rest) = Len(seq) - n
      /\ \A i \in 1 .. Len(seq) - n : rest[i] = seq[n + i]
      OBVIOUS
<1>2. Len(seq) = n + (Len(seq) - n)
      OBVIOUS
<1> HIDE DEF front, rest
<1>3. /\ Len(seq) = Len(front) + Len(rest)
      /\ \A i \in 1 .. Len(front) : front[i] = seq[i]
      /\ \A i \in 1 .. Len(rest) : rest[i] = seq[Len(front) + i]
      BY <1>1, <1>2, Zenon
<1>4. Splits(seq, front, rest)
      BY <1>1, <1>3, Split
<1> QED
    BY <1>1, <1>4 DEF front, rest

\* Two sequences are joined.
LEMMA Joined ==
  ASSUME NEW S, NEW front \in Seq(S), NEW rest \in Seq(S)
  PROVE  front \o rest \in Seq(S) /\ Splits(front \o rest, front, rest)
<1> DEFINE seq == front \o rest
<1>1. /\ seq \in Seq(S) /\ Len(seq) = Len(front) + Len(rest)
      /\ \A i \in 1 .. Len(front) : front[i] = seq[i]
      /\ \A i \in 1 .. Len(rest) : rest[i] = seq[Len(front) + i]
      OBVIOUS
<1> HIDE DEF seq
<1>2. Splits(seq, front, rest)
      BY <1>1, Split
<1> QED
    BY <1>1, <1>2 DEF seq

\* A sequence of one element.
LEMMA Single ==
  ASSUME NEW S, NEW e \in S
  PROVE  <<e>> \in Seq(S) /\ Len(<<e>>) = 1 /\ Elements(<<e>>) = {e} /\ Once(<<e>>)
<1>1. <<e>> \in Seq(S) /\ Len(<<e>>) = 1 /\ <<e>>[1] = e /\ DOMAIN <<e>> = {1}
      OBVIOUS
<1> QED
    BY <1>1 DEF Elements, Once

Extends(more, seq, e) ==
  /\ Elements(more) = Elements(seq) \cup {e}
  /\ Once(seq) /\ e \notin Elements(seq) => Once(more)

\* One more at the end.
LEMMA OneMore ==
  ASSUME NEW S, NEW seq \in Seq(S), NEW e \in S
  PROVE  /\ Append(seq, e) \in Seq(S) /\ Len(Append(seq, e)) = Len(seq) + 1
         /\ Extends(Append(seq, e), seq, e)
<1> DEFINE more == Append(seq, e)
           last == <<e>>
<1>1. /\ more \in Seq(S) /\ Len(more) = Len(seq) + 1 /\ more[Len(seq) + 1] = e
      /\ \A i \in 1 .. Len(seq) : seq[i] = more[i]
      OBVIOUS
<1>2. last \in Seq(S) /\ Len(last) = 1 /\ Elements(last) = {e} /\ Once(last) /\ last[1] = e
      BY Single
<1> HIDE DEF more, last
<1>3. Len(more) = Len(seq) + Len(last) /\ \A i \in 1 .. Len(last) : last[i] = more[Len(seq) + i]
      BY <1>1, <1>2
<1>4. Splits(more, seq, last)
      BY <1>1, <1>2, <1>3, Split
<1>5. Extends(more, seq, e)
      BY <1>2, <1>4 DEF Splits, Extends
<1> QED
    BY <1>1, <1>5 DEF more

\* The task that is launched next, and the others.
LEMMA HeadAndTail ==
  ASSUME NEW S, NEW seq \in Seq(S), seq # <<>>
  PROVE  /\ Head(seq) \in S /\ Tail(seq) \in Seq(S)
         /\ Elements(seq) = Elements(Tail(seq)) \cup {Head(seq)}
         /\ Once(seq) => Once(Tail(seq)) /\ Head(seq) \notin Elements(Tail(seq))
<1> DEFINE front == <<Head(seq)>>
           rest  == Tail(seq)
<1>1. /\ Len(seq) \in Nat \ {0} /\ Head(seq) = seq[1] /\ Head(seq) \in S
      /\ rest \in Seq(S) /\ Len(rest) = Len(seq) - 1
      /\ \A i \in 1 .. Len(rest) : rest[i] = seq[i + 1]
      BY EmptySeq
<1>2. /\ front \in Seq(S) /\ Len(front) = 1 /\ Elements(front) = {Head(seq)}
      /\ front[1] = seq[1]
      BY <1>1, Single
<1> HIDE DEF front, rest
<1>3. /\ Len(seq) = Len(front) + Len(rest)
      /\ \A i \in 1 .. Len(front) : front[i] = seq[i]
      /\ \A i \in 1 .. Len(rest) : rest[i] = seq[Len(front) + i]
      BY <1>1, <1>2
<1>4. Splits(seq, front, rest)
      BY <1>1, <1>2, <1>3, Split
<1> QED
    BY <1>1, <1>2, <1>4 DEF rest, Splits

\* One more, anywhere.
LEMMA Inserted ==
  ASSUME NEW S, NEW seq \in Seq(S), NEW n \in 0 .. Len(seq), NEW e \in S,
         NEW more, more = SubSeq(seq, 1, n) \o <<e>> \o SubSeq(seq, n + 1, Len(seq))
  PROVE  more \in Seq(S) /\ Extends(more, seq, e)
<1> DEFINE front == SubSeq(seq, 1, n)
           rest  == SubSeq(seq, n + 1, Len(seq))
           begun == front \o <<e>>
<1>1. more = begun \o rest
      OBVIOUS
<1>2. front \in Seq(S) /\ rest \in Seq(S) /\ Splits(seq, front, rest)
      BY Cut
<1>3. <<e>> \in Seq(S) /\ Elements(<<e>>) = {e} /\ Once(<<e>>)
      BY Single
<1> HIDE DEF front, rest
<1>4. begun \in Seq(S) /\ Splits(begun, front, <<e>>)
      BY <1>2, <1>3, Joined
<1> HIDE DEF begun
<1>5. begun \o rest \in Seq(S) /\ Splits(begun \o rest, begun, rest)
      BY <1>2, <1>4, Joined
<1>6. Extends(begun \o rest, seq, e)
      BY <1>2, <1>3, <1>4, <1>5 DEF Splits, Extends
<1> QED
    BY <1>1, <1>5, <1>6

-----------------------------------------------------------------------------
(***************************************************************************)
(* Recursive functions along a sequence.                                   *)
(***************************************************************************)

\* Induction up to a number, from the least one outside the set.
LEMMA CountUp ==
  ASSUME NEW n \in Nat, NEW T, 0 \in T, \A i \in 1 .. n : i - 1 \in T => i \in T
  PROVE  n \in T
<1> SUFFICES ASSUME n \notin T PROVE FALSE
    OBVIOUS
<1> DEFINE Out == {i \in 0 .. n : i \notin T}
<1>1. Out \subseteq Nat /\ Out # {}
      OBVIOUS
<1>2. PICK m \in Out : \A y \in Out : ~ (<<y, m>> \in OpToRel(<, Nat))
      BY <1>1, WFMin, NatLessThanWellFounded
<1>3. \A y \in Out : ~ (y < m)
      BY <1>1, <1>2 DEF OpToRel
<1>4. m \in 1 .. n /\ m \notin T
      OBVIOUS
<1>5. m - 1 \in 0 .. n /\ m - 1 \notin T /\ m - 1 < m
      BY <1>4
<1> QED
    BY <1>3, <1>5

Follows(f, S, b, n, step) ==
  /\ f \in [0 .. n -> S]
  /\ f[0] = b /\ \A i \in 1 .. n : f[i] = step[<<f[i - 1], i>>]

\* A function is defined by its first value and each next one.
LEMMA Recursion ==
  ASSUME NEW S, NEW b \in S, NEW n \in Nat, NEW step \in [S \X (1 .. n) -> S]
  PROVE  \E f : Follows(f, S, b, n, step)
<1> DEFINE Upto(m, f) == f[0] = b /\ \A i \in 1 .. m : f[i] = step[<<f[i - 1], i>>]
           T == {m \in 0 .. n : \E f \in [0 .. m -> S] : Upto(m, f)}
<1>1. 0 \in T
  <2>   DEFINE g == [i \in 0 .. 0 |-> b]
  <2>1. g \in [0 .. 0 -> S] /\ g[0] = b /\ 1 .. 0 = {} /\ 0 \in 0 .. n
        OBVIOUS
  <2>   HIDE DEF g
  <2>2. Upto(0, g)
        BY <2>1
  <2>   HIDE DEF Upto
  <2>   QED
        BY <2>1, <2>2
<1>2. ASSUME NEW m \in 1 .. n, m - 1 \in T PROVE m \in T
  <2>1. PICK f \in [0 .. m - 1 -> S] : Upto(m - 1, f)
        BY <1>2
  <2>   DEFINE g == [i \in 0 .. m |-> IF i = m THEN step[<<f[m - 1], m>>] ELSE f[i]]
  <2>2. step[<<f[m - 1], m>>] \in S
    <3>1. f[m - 1] \in S
          OBVIOUS
    <3>2. <<f[m - 1], m>> \in S \X (1 .. n)
          BY <3>1
    <3>   QED
          BY <3>2
  <2>3. g \in [0 .. m -> S]
        BY <2>2
  <2>4. g[0] = b /\ g[m] = step[<<f[m - 1], m>>] /\ \A i \in 0 .. m - 1 : g[i] = f[i]
        BY <2>1
  <2>   HIDE DEF g
  <2>5. ASSUME NEW i \in 1 .. m PROVE g[i] = step[<<g[i - 1], i>>]
    <3>1. CASE i = m
      <4>1. g[m - 1] = f[m - 1]
            BY <2>4
      <4>   QED
            BY <2>4, <3>1, <4>1
    <3>2. CASE i # m
      <4>1. i \in 1 .. m - 1 /\ g[i] = f[i] /\ g[i - 1] = f[i - 1]
            BY <2>4, <3>2
      <4>   QED
            BY <2>1, <4>1
    <3>   QED
          BY <3>1, <3>2
  <2>6. Upto(m, g)
        BY <2>4, <2>5
  <2>   QED
        BY <2>3, <2>6
<1>3. n \in T
  <2>   HIDE DEF T
  <2>   QED
        BY <1>1, <1>2, CountUp
<1> QED
    BY <1>3 DEF Follows

Selected(some, seq, K) ==
  /\ Elements(some) = Elements(seq) \cap K
  /\ Once(seq) => Once(some)

\* What Select leaves of a sequence.
LEMMA SelectIs ==
  ASSUME NEW S, NEW seq \in Seq(S), NEW K
  PROVE  Select(seq, K) \in Seq(S) /\ Selected(Select(seq, K), seq, K)
<1> DEFINE n == Len(seq)
           Def(f, i) == IF i = 0 THEN <<>>
                        ELSE IF seq[i] \in K THEN Append(f[i - 1], seq[i]) ELSE f[i - 1]
           some == CHOOSE f : f = [i \in 0 .. n |-> Def(f, i)]
           step == [p \in Seq(S) \X (1 .. n) |->
                      IF seq[p[2]] \in K THEN Append(p[1], seq[p[2]]) ELSE p[1]]
<1>1. /\ n \in Nat /\ DOMAIN seq = 1 .. n /\ \A i \in 1 .. n : seq[i] \in S
      /\ <<>> \in Seq(S)
      OBVIOUS
<1>2. step \in [Seq(S) \X (1 .. n) -> Seq(S)]
      BY <1>1
<1>3. PICK f \in [0 .. n -> Seq(S)] :
        f[0] = <<>> /\ \A i \in 1 .. n : f[i] = step[<<f[i - 1], i>>]
  <2>   HIDE DEF step, n
  <2>1. \E g : Follows(g, Seq(S), <<>>, n, step)
        BY <1>1, <1>2, Recursion, Zenon
  <2>   QED
        BY <2>1 DEF Follows
<1>4. \A i \in 1 .. n : f[i - 1] \in Seq(S) /\ f[i] = Def(f, i)
  <2>   SUFFICES ASSUME NEW i \in 1 .. n PROVE f[i - 1] \in Seq(S) /\ f[i] = Def(f, i)
        OBVIOUS
  <2>1. f[i - 1] \in Seq(S) /\ i # 0
        BY <1>1, <1>3
  <2>2. <<f[i - 1], i>> \in Seq(S) \X (1 .. n)
        BY <2>1
  <2>3. f[i] = step[<<f[i - 1], i>>]
        BY <1>3
  <2>   QED
        BY <2>1, <2>2, <2>3
<1>5. f = [i \in 0 .. n |-> Def(f, i)]
  <2>1. ASSUME NEW i \in 0 .. n PROVE f[i] = Def(f, i)
    <3>1. CASE i = 0
          BY <1>3, <3>1
    <3>2. CASE i # 0
      <4>1. i \in 1 .. n
            BY <1>1, <3>2
      <4>   HIDE DEF Def
      <4>   QED
            BY <1>4, <4>1
    <3>   QED
          BY <3>1, <3>2
  <2>   HIDE DEF Def
  <2>   QED
        BY <2>1
<1>6. some = [i \in 0 .. n |-> Def(some, i)]
      BY <1>5
<1>7. Select(seq, K) = some[n]
      BY DEF Select
<1> HIDE DEF some
<1>8. /\ some[0] = <<>>
      /\ \A i \in 1 .. n :
           some[i] = IF seq[i] \in K THEN Append(some[i - 1], seq[i]) ELSE some[i - 1]
  <2>1. \A i \in 0 .. n : some[i] = Def(some, i)
    <3>   HIDE DEF Def
    <3>   QED
          BY <1>6
  <2>   QED
        BY <1>1, <2>1
<1> DEFINE Shown(i) == {seq[j] : j \in 1 .. i}
           T == {i \in 0 .. n : /\ some[i] \in Seq(S)
                                /\ Elements(some[i]) = Shown(i) \cap K
                                /\ Once(seq) => Once(some[i])}
<1>9. 0 \in T
  <2>1. Shown(0) = {}
        OBVIOUS
  <2>   HIDE DEF Shown
  <2>2. some[0] \in Seq(S) /\ Elements(some[0]) = Shown(0) \cap K /\ Once(some[0])
        BY <1>1, <1>8, <2>1, NoElements
  <2>   QED
        BY <1>1, <2>2
<1>10. ASSUME NEW i \in 1 .. n, i - 1 \in T PROVE i \in T
  <2>1. /\ some[i - 1] \in Seq(S) /\ Elements(some[i - 1]) = Shown(i - 1) \cap K
        /\ Once(seq) => Once(some[i - 1])
        BY <1>10
  <2>2. Shown(i) = Shown(i - 1) \cup {seq[i]}
    <3>1. 1 .. i = 1 .. i - 1 \cup {i}
          BY <1>1
    <3>   QED
          BY <3>1
  <2>3. Once(seq) => seq[i] \notin Shown(i - 1)
        BY <1>1 DEF Once
  <2>4. CASE seq[i] \in K
    <3>1. some[i] = Append(some[i - 1], seq[i])
          BY <1>1, <1>8, <2>4
    <3>2. some[i] \in Seq(S) /\ Extends(some[i], some[i - 1], seq[i])
          BY <1>1, <2>1, <3>1, OneMore
    <3>   HIDE DEF Shown
    <3>3. Elements(some[i]) = Shown(i) \cap K
          BY <2>1, <2>2, <2>4, <3>2 DEF Extends
    <3>4. Once(seq) => Once(some[i])
          BY <2>1, <2>3, <3>2 DEF Extends
    <3>   QED
          BY <1>1, <3>2, <3>3, <3>4
  <2>5. CASE seq[i] \notin K
    <3>1. some[i] = some[i - 1]
          BY <1>1, <1>8, <2>5
    <3>   HIDE DEF Shown
    <3>2. Elements(some[i]) = Shown(i) \cap K
          BY <2>1, <2>2, <2>5, <3>1
    <3>   QED
          BY <1>1, <2>1, <3>1, <3>2
  <2>   QED
        BY <2>4, <2>5
<1>11. n \in T
  <2>   HIDE DEF T, n
  <2>   QED
        BY <1>1, <1>9, <1>10, CountUp
<1>12. Shown(n) = Elements(seq)
      BY <1>1 DEF Elements
<1> QED
    BY <1>7, <1>11, <1>12 DEF Selected

\* The last place in a sequence at which something is.
LEMMA MaxIn ==
  ASSUME NEW n \in Nat, NEW I \in SUBSET (1 .. n), I # {}
  PROVE  Max(I) \in I
<1> DEFINE Below == {n - i : i \in I}
<1>1. Below \subseteq Nat /\ Below # {}
      OBVIOUS
<1>2. PICK m \in Below : \A y \in Below : ~ (<<y, m>> \in OpToRel(<, Nat))
      BY <1>1, WFMin, NatLessThanWellFounded
<1>3. \A y \in Below : ~ (y < m)
      BY <1>1, <1>2 DEF OpToRel
<1>4. PICK i \in I : m = n - i
      OBVIOUS
<1>5. \A j \in I : i >= j
  <2>   SUFFICES ASSUME NEW j \in I PROVE i >= j
        OBVIOUS
  <2>1. n - j \in Below
        OBVIOUS
  <2>2. ~ (n - j < m)
        BY <1>3, <2>1
  <2>3. i \in Int /\ j \in Int
        OBVIOUS
  <2>   QED
        BY <1>4, <2>2, <2>3
<1>6. \E k \in I : \A j \in I : k >= j
      BY <1>5
<1> QED
    BY <1>6 DEF Max

\* A tail is put somewhere.
LEMMA InsertTailIs ==
  ASSUME NEW S, NEW seq \in Seq(S), NEW t \in S
  PROVE  InsertTail(seq, t) \in Seq(S) /\ Extends(InsertTail(seq, t), seq, t)
<1> DEFINE same == {i \in DOMAIN seq : seq[i].root = t.root}
           last == IF same = {} THEN Len(seq) ELSE Max(same)
<1>1. last \in 0 .. Len(seq)
  <2>1. Len(seq) \in Nat /\ same \in SUBSET (1 .. Len(seq))
        OBVIOUS
  <2>   HIDE DEF same
  <2>2. CASE same = {}
        BY <2>1, <2>2
  <2>3. CASE same # {}
    <3>1. Max(same) \in same
          BY <2>1, <2>3, MaxIn
    <3>2. Max(same) \in 1 .. Len(seq)
          BY <2>1, <3>1
    <3>   QED
          BY <2>1, <2>3, <3>2
  <2>   QED
        BY <2>2, <2>3
<1>2. InsertTail(seq, t) = SubSeq(seq, 1, last) \o <<t>> \o SubSeq(seq, last + 1, Len(seq))
      BY DEF InsertTail
<1> HIDE DEF last
<1> QED
    BY <1>1, <1>2, Inserted

\* What quiesce returns of the tails.
LEMMA GatherIs ==
  ASSUME NEW S, NEW seq \in Seq(S), NEW kept
  PROVE  /\ GatherTails(seq, kept) \in Seq(S)
         /\ Selected(GatherTails(seq, kept), seq, {t \in Elements(seq) : t.root \in kept})
<1> DEFINE n == Len(seq)
           K == {t \in Elements(seq) : t.root \in kept}
           Def(f, i) == IF i = 0 THEN <<>>
                        ELSE IF seq[i].root \in kept THEN InsertTail(f[i - 1], seq[i])
                        ELSE f[i - 1]
           some == CHOOSE f : f = [i \in 0 .. n |-> Def(f, i)]
           step == [p \in Seq(S) \X (1 .. n) |->
                      IF seq[p[2]].root \in kept THEN InsertTail(p[1], seq[p[2]]) ELSE p[1]]
<1>1. /\ n \in Nat /\ DOMAIN seq = 1 .. n /\ \A i \in 1 .. n : seq[i] \in S
      /\ <<>> \in Seq(S)
      OBVIOUS
<1>2. step \in [Seq(S) \X (1 .. n) -> Seq(S)]
      BY <1>1, InsertTailIs
<1>3. PICK f \in [0 .. n -> Seq(S)] :
        f[0] = <<>> /\ \A i \in 1 .. n : f[i] = step[<<f[i - 1], i>>]
  <2>   HIDE DEF step, n
  <2>1. \E g : Follows(g, Seq(S), <<>>, n, step)
        BY <1>1, <1>2, Recursion, Zenon
  <2>   QED
        BY <2>1 DEF Follows
<1>4. \A i \in 1 .. n : f[i - 1] \in Seq(S) /\ f[i] = Def(f, i)
  <2>   SUFFICES ASSUME NEW i \in 1 .. n PROVE f[i - 1] \in Seq(S) /\ f[i] = Def(f, i)
        OBVIOUS
  <2>1. f[i - 1] \in Seq(S) /\ i # 0
        BY <1>1, <1>3
  <2>2. <<f[i - 1], i>> \in Seq(S) \X (1 .. n)
        BY <2>1
  <2>3. f[i] = step[<<f[i - 1], i>>]
        BY <1>3
  <2>   QED
        BY <2>1, <2>2, <2>3
<1>5. f = [i \in 0 .. n |-> Def(f, i)]
  <2>1. ASSUME NEW i \in 0 .. n PROVE f[i] = Def(f, i)
    <3>1. CASE i = 0
          BY <1>3, <3>1
    <3>2. CASE i # 0
      <4>1. i \in 1 .. n
            BY <1>1, <3>2
      <4>   HIDE DEF Def
      <4>   QED
            BY <1>4, <4>1
    <3>   QED
          BY <3>1, <3>2
  <2>   HIDE DEF Def
  <2>   QED
        BY <2>1
<1>6. some = [i \in 0 .. n |-> Def(some, i)]
      BY <1>5
<1>7. GatherTails(seq, kept) = some[n]
      BY DEF GatherTails
<1> HIDE DEF some
<1>8. /\ some[0] = <<>>
      /\ \A i \in 1 .. n :
           some[i] = IF seq[i].root \in kept THEN InsertTail(some[i - 1], seq[i])
                     ELSE some[i - 1]
  <2>1. \A i \in 0 .. n : some[i] = Def(some, i)
    <3>   HIDE DEF Def
    <3>   QED
          BY <1>6
  <2>   QED
        BY <1>1, <2>1
<1> DEFINE Shown(i) == {seq[j] : j \in 1 .. i}
           T == {i \in 0 .. n : /\ some[i] \in Seq(S)
                                /\ Elements(some[i]) = Shown(i) \cap K
                                /\ Once(seq) => Once(some[i])}
<1>9. 0 \in T
  <2>1. Shown(0) = {}
        OBVIOUS
  <2>   HIDE DEF Shown
  <2>2. some[0] \in Seq(S) /\ Elements(some[0]) = Shown(0) \cap K /\ Once(some[0])
        BY <1>1, <1>8, <2>1, NoElements
  <2>   QED
        BY <1>1, <2>2
<1>10. ASSUME NEW i \in 1 .. n, i - 1 \in T PROVE i \in T
  <2>1. /\ some[i - 1] \in Seq(S) /\ Elements(some[i - 1]) = Shown(i - 1) \cap K
        /\ Once(seq) => Once(some[i - 1])
        BY <1>10
  <2>2. Shown(i) = Shown(i - 1) \cup {seq[i]}
    <3>1. 1 .. i = 1 .. i - 1 \cup {i}
          BY <1>1
    <3>   QED
          BY <3>1
  <2>3. Once(seq) => seq[i] \notin Shown(i - 1)
        BY <1>1 DEF Once
  <2>4. seq[i] \in K <=> seq[i].root \in kept
        BY <1>1 DEF Elements
  <2>5. CASE seq[i].root \in kept
    <3>1. some[i] = InsertTail(some[i - 1], seq[i])
          BY <1>1, <1>8, <2>5
    <3>2. some[i] \in Seq(S) /\ Extends(some[i], some[i - 1], seq[i])
          BY <1>1, <2>1, <3>1, InsertTailIs
    <3>   HIDE DEF Shown, K
    <3>3. Elements(some[i]) = Shown(i) \cap K
          BY <2>1, <2>2, <2>4, <2>5, <3>2 DEF Extends
    <3>4. Once(seq) => Once(some[i])
          BY <2>1, <2>3, <3>2 DEF Extends
    <3>   QED
          BY <1>1, <3>2, <3>3, <3>4
  <2>6. CASE seq[i].root \notin kept
    <3>1. some[i] = some[i - 1]
          BY <1>1, <1>8, <2>6
    <3>   HIDE DEF Shown, K
    <3>2. Elements(some[i]) = Shown(i) \cap K
          BY <2>1, <2>2, <2>4, <2>6, <3>1
    <3>   QED
          BY <1>1, <2>1, <3>1, <3>2
  <2>   QED
        BY <2>5, <2>6
<1>11. n \in T
  <2>   HIDE DEF T, n
  <2>   QED
        BY <1>1, <1>9, <1>10, CountUp
<1>12. Shown(n) = Elements(seq)
      BY <1>1 DEF Elements
<1> QED
    BY <1>7, <1>11, <1>12 DEF Selected

-----------------------------------------------------------------------------
(***************************************************************************)
(* Routing: the buffers are filled one finished sibling at a time.         *)
(***************************************************************************)
Buffers == [pending : [Root -> Seq(Task)], complete : Seq(Seq(Task))]

\* PendingGroups.add keeps the buffers what they are.
LEMMA JoinTyped ==
  ASSUME NEW b \in Buffers, NEW t \in Task
  PROVE  Join(b, t) \in Buffers
<1>1. t.root \in Root /\ b.pending[t.root] \in Seq(Task)
      BY DEF Buffers, Task
<1>2. Append(b.pending[t.root], t) \in Seq(Task) /\ <<>> \in Seq(Task)
      BY <1>1
<1>3. Append(b.complete, Append(b.pending[t.root], t)) \in Seq(Seq(Task))
      BY <1>2 DEF Buffers
<1> QED
    BY <1>1, <1>2, <1>3 DEF Join, Buffers

RoutedBy(f, results) ==
  /\ f \in [0 .. Len(results) -> Buffers]
  /\ f[0] = [pending |-> pending, complete |-> complete]
  /\ \A i \in 1 .. Len(results) :
       f[i] = IF results[i].status = "terminal" THEN Join(f[i - 1], results[i]) ELSE f[i - 1]
  /\ Routed(results) = f[Len(results)]

\* The recursion of Routed, unfolded.
LEMMA RoutedSteps ==
  ASSUME TypeInv, NEW results \in Seq(Task)
  PROVE  \E f : RoutedBy(f, results)
<1> DEFINE n == Len(results)
           b == [pending |-> pending, complete |-> complete]
           Def(f, i) == IF i = 0 THEN b
                        ELSE IF results[i].status = "terminal" THEN Join(f[i - 1], results[i])
                        ELSE f[i - 1]
           some == CHOOSE f : f = [i \in 0 .. n |-> Def(f, i)]
           step == [p \in Buffers \X (1 .. n) |->
                      IF results[p[2]].status = "terminal" THEN Join(p[1], results[p[2]])
                      ELSE p[1]]
<1>1. n \in Nat /\ \A i \in 1 .. n : results[i] \in Task
      OBVIOUS
<1>2. b \in Buffers
      BY DEF TypeInv, Buffers
<1>3. step \in [Buffers \X (1 .. n) -> Buffers]
  <2>   HIDE DEF n
  <2>   QED
        BY <1>1, JoinTyped
<1>4. PICK f \in [0 .. n -> Buffers] :
        f[0] = b /\ \A i \in 1 .. n : f[i] = step[<<f[i - 1], i>>]
  <2>   HIDE DEF step, n, b
  <2>1. \E g : Follows(g, Buffers, b, n, step)
        BY <1>1, <1>2, <1>3, Recursion, Zenon
  <2>   QED
        BY <2>1 DEF Follows
<1> HIDE DEF b
<1>5. \A i \in 1 .. n : f[i - 1] \in Buffers /\ f[i] = Def(f, i)
  <2>   SUFFICES ASSUME NEW i \in 1 .. n PROVE f[i - 1] \in Buffers /\ f[i] = Def(f, i)
        OBVIOUS
  <2>1. f[i - 1] \in Buffers /\ i # 0
        BY <1>1, <1>4
  <2>2. <<f[i - 1], i>> \in Buffers \X (1 .. n)
        BY <2>1
  <2>3. f[i] = step[<<f[i - 1], i>>]
        BY <1>4
  <2>   QED
        BY <2>1, <2>2, <2>3
<1>6. f = [i \in 0 .. n |-> Def(f, i)]
  <2>1. ASSUME NEW i \in 0 .. n PROVE f[i] = Def(f, i)
    <3>1. CASE i = 0
          BY <1>4, <3>1
    <3>2. CASE i # 0
      <4>1. i \in 1 .. n
            BY <1>1, <3>2
      <4>   HIDE DEF Def
      <4>   QED
            BY <1>5, <4>1
    <3>   QED
          BY <3>1, <3>2
  <2>   HIDE DEF Def
  <2>   QED
        BY <2>1
<1>7. some = [i \in 0 .. n |-> Def(some, i)]
      BY <1>6
<1>8. Routed(results) = some[n]
      BY DEF Routed, b
<1> HIDE DEF some
<1>9. /\ some[0] = b
      /\ \A i \in 1 .. n :
           some[i] = IF results[i].status = "terminal" THEN Join(some[i - 1], results[i])
                     ELSE some[i - 1]
  <2>1. \A i \in 0 .. n : some[i] = Def(some, i)
    <3>   HIDE DEF Def
    <3>   QED
          BY <1>7
  <2>   QED
        BY <1>1, <2>1
<1> DEFINE T == {i \in 0 .. n : some[i] \in Buffers}
<1>10. 0 \in T
      BY <1>1, <1>2, <1>9
<1>11. ASSUME NEW i \in 1 .. n, i - 1 \in T PROVE i \in T
  <2>1. some[i - 1] \in Buffers
        BY <1>11
  <2>2. some[i] = Join(some[i - 1], results[i]) \/ some[i] = some[i - 1]
        BY <1>9
  <2>3. some[i] \in Buffers
        BY <1>1, <2>1, <2>2, JoinTyped
  <2>   QED
        BY <1>1, <2>3
<1>12. ASSUME NEW i \in 0 .. n PROVE some[i] \in Buffers
  <2>1. i \in Nat /\ 0 \in T /\ \A j \in 1 .. i : j - 1 \in T => j \in T
        BY <1>1, <1>10, <1>11
  <2>2. i \in T
    <3>   HIDE DEF T
    <3>   QED
          BY <2>1, CountUp
  <2>   QED
        BY <2>2
<1>13. some \in [0 .. n -> Buffers]
  <2>1. DOMAIN some = 0 .. n /\ some = [i \in 0 .. n |-> some[i]]
        BY <1>7
  <2>   QED
        BY <1>12, <2>1
<1>14. RoutedBy(some, results)
      BY <1>8, <1>9, <1>13 DEF RoutedBy, b
<1> QED
    BY <1>14

-----------------------------------------------------------------------------
(***************************************************************************)
(* Accounting: whole roots are moved.                                      *)
(***************************************************************************)

\* One sibling for each copy.
LEMMA WholeGroup ==
  ASSUME NEW g \in Seq(Task), Len(g) = GroupSize, Once(g), Unique(Elements(g)),
         \A s, t \in Elements(g) : s.root = t.root
  PROVE  \A c \in 1 .. GroupSize : \E e \in Elements(g) : e.copy = c
<1> DEFINE I == 1 .. GroupSize
           f == [i \in I |-> g[i].copy]
           R == {f[i] : i \in I}
<1>1. GroupSize \in Nat /\ DOMAIN g = I /\ \A i \in I : g[i] \in Task /\ g[i] \in Elements(g)
      BY ManagerAssumption DEF Elements
<1>2. R \subseteq I
      BY <1>1 DEF Task
<1>3. \A i, j \in I : f[i] = f[j] => i = j
      BY <1>1 DEF Unique, Once
<1>4. f \in Bijection(I, R)
      BY <1>1, <1>3 DEF Bijection, Injection, Surjection, IsInjective
<1>5. IsFiniteSet(I) /\ Cardinality(I) = GroupSize
      BY <1>1, FS_Interval
<1>6. IsFiniteSet(R) /\ Cardinality(R) = GroupSize
      BY <1>4, <1>5, FS_Bijection DEF ExistsBijection
<1>7. R = I
      BY <1>2, <1>5, <1>6, FS_Subset
<1> QED
    BY <1>1, <1>7

\* A finished sibling goes into the buffer of its root.
LEMMA BufferOne ==
  ASSUME NEW F, NEW P, NEW G, NEW del, NEW dis, NEW ids, NEW t \in F,
         Accounted(F, P, G, del, dis, ids)
  PROVE  Accounted(F \ {t}, P \cup {t}, G, del, dis, ids)
<1>1. (F \ {t}) \cup (P \cup {t}) = F \cup P
      OBVIOUS
<1>2. (F \ {t}) \cup (P \cup {t}) \cup G = F \cup P \cup G
      OBVIOUS
<1> QED
    BY <1>1, <1>2 DEF Accounted

\* A root is complete.
LEMMA CompleteRoot ==
  ASSUME NEW F, NEW P, NEW G, NEW del, NEW dis, NEW ids, NEW r, NEW E, E \subseteq F \cup P,
         Accounted(F, P, G, del, dis, ids),
         \A t \in E : t.root = r,
         \A t \in (F \cup P) \ E : t.root # r
  PROVE  Accounted(F \ E, P \ E, G \cup E, del, dis, ids)
<1>1. (F \ E) \cup (P \ E) \cup (G \cup E) = F \cup P \cup G
      OBVIOUS
<1>2. (F \ E) \cap (P \ E) = {} /\ (F \ E) \cap (G \cup E) = {} /\ (P \ E) \cap (G \cup E) = {}
      BY DEF Accounted
<1>3. ASSUME NEW t \in (F \ E) \cup (P \ E)
      PROVE  (\A s \in G \cup E : s.root # t.root) /\ (\A x \in del \cup dis : x[1] # t.root)
      BY <1>3 DEF Accounted
<1> QED
    BY <1>1, <1>2, <1>3 DEF Accounted

\* F and P without what is of the roots X.
Without(F, P, X, F1, P1, L) ==
  /\ F1 = {t \in F : t.root \notin X}
  /\ P1 = {t \in P : t.root \notin X}
  /\ L = {t \in F \cup P : t.root \in X}

\* Roots are dropped before they are complete.
LEMMA DropRoots ==
  ASSUME NEW F, NEW P, NEW G, NEW del, NEW dis, NEW ids, NEW X,
         NEW F1, NEW P1, NEW L, Accounted(F, P, G, del, dis, ids),
         Without(F, P, X, F1, P1, L)
  PROVE  Accounted(F1, P1, G, del, dis \cup Ids(L), ids)
<1>1. F1 \cup P1 \cup L = F \cup P /\ F1 \subseteq F /\ P1 \subseteq P
      BY DEF Without
<1>2. /\ \A t \in F1 \cup P1 : t.root \notin X
      /\ \A t \in L : t.root \in X /\ t \in F \cup P
      BY DEF Without
<1>3. \A x \in Ids(L) : x[1] \in X /\ x \in Ids(F \cup P \cup G)
      BY <1>2 DEF Ids
<1>4. Ids(F1 \cup P1 \cup G) \cap Ids(L) = {}
  <2>   SUFFICES ASSUME NEW t \in F1 \cup P1 \cup G, NEW s \in L,
                        <<t.root, t.copy>> = <<s.root, s.copy>>
                 PROVE  FALSE
        BY DEF Ids
  <2>1. t.root = s.root
        OBVIOUS
  <2>   QED
        BY <1>2, <2>1 DEF Accounted
<1>5. Ids(F1 \cup P1 \cup G) \cup Ids(L) = Ids(F \cup P \cup G)
  <2>1. F1 \cup P1 \cup G \cup L = F \cup P \cup G
        BY <1>1
  <2>   QED
        BY <2>1 DEF Ids
<1>6. Unique(F1 \cup P1 \cup G)
      BY <1>1 DEF Unique, Accounted
<1>7. /\ F1 \cap P1 = {} /\ F1 \cap G = {} /\ P1 \cap G = {} /\ del \cap (dis \cup Ids(L)) = {}
      BY <1>1, <1>3 DEF Accounted
<1>8. Ids(F1 \cup P1 \cup G) \cap (del \cup (dis \cup Ids(L))) = {}
      BY <1>4, <1>5 DEF Accounted
<1>9. Ids(F1 \cup P1 \cup G) \cup del \cup (dis \cup Ids(L)) = ids
      BY <1>5 DEF Accounted
<1>10. ASSUME NEW t \in F1 \cup P1
       PROVE  /\ \A s \in G : s.root # t.root
              /\ \A x \in del \cup (dis \cup Ids(L)) : x[1] # t.root
       BY <1>1, <1>2, <1>3 DEF Accounted
<1> QED
    BY <1>6, <1>7, <1>8, <1>9, <1>10 DEF Accounted

\* What of the groups is dropped, or handed over, is so once.
LEMMA LeaveGroups ==
  ASSUME NEW F, NEW P, NEW G, NEW del, NEW dis, NEW ids, NEW G1 \in SUBSET G,
         Accounted(F, P, G, del, dis, ids)
  PROVE  /\ Accounted(F, P, G1, del, dis \cup Ids(G \ G1), ids)
         /\ Accounted(F, P, G1, del \cup Ids(G \ G1), dis, ids)
<1> DEFINE L == G \ G1
<1>1. \A x \in Ids(L) : x \in Ids(F \cup P \cup G) /\ \E s \in G : x[1] = s.root
      BY DEF Ids
<1>2. Ids(F \cup P \cup G1) \cap Ids(L) = {}
  <2>   SUFFICES ASSUME NEW t \in F \cup P \cup G1, NEW s \in L,
                        <<t.root, t.copy>> = <<s.root, s.copy>>
                 PROVE  FALSE
        BY DEF Ids
  <2>1. t.root = s.root /\ t.copy = s.copy /\ t \in F \cup P \cup G /\ s \in F \cup P \cup G
        OBVIOUS
  <2>2. t = s
        BY <2>1 DEF Accounted, Unique
  <2>   QED
        BY <2>2 DEF Accounted
<1>3. Ids(F \cup P \cup G1) \cup Ids(L) = Ids(F \cup P \cup G)
  <2>1. F \cup P \cup G1 \cup L = F \cup P \cup G
        OBVIOUS
  <2>   QED
        BY <2>1 DEF Ids
<1>4. Unique(F \cup P \cup G1)
      BY DEF Unique, Accounted
<1>5. F \cap P = {} /\ F \cap G1 = {} /\ P \cap G1 = {}
      BY DEF Accounted
<1> HIDE DEF L
<1>6. ASSUME NEW t \in F \cup P
      PROVE  /\ \A s \in G1 : s.root # t.root
             /\ \A x \in del \cup dis \cup Ids(L) : x[1] # t.root
      BY <1>1 DEF Accounted
<1>7. Accounted(F, P, G1, del, dis \cup Ids(L), ids)
  <2>1. /\ del \cap (dis \cup Ids(L)) = {}
        /\ Ids(F \cup P \cup G1) \cap (del \cup (dis \cup Ids(L))) = {}
        /\ Ids(F \cup P \cup G1) \cup del \cup (dis \cup Ids(L))
             = ids
        BY <1>1, <1>2, <1>3 DEF Accounted
  <2>   QED
        BY <1>4, <1>5, <1>6, <2>1 DEF Accounted
<1>8. Accounted(F, P, G1, del \cup Ids(L), dis, ids)
  <2>1. /\ (del \cup Ids(L)) \cap dis = {}
        /\ Ids(F \cup P \cup G1) \cap ((del \cup Ids(L)) \cup dis) = {}
        /\ Ids(F \cup P \cup G1) \cup (del \cup Ids(L)) \cup dis
             = ids
        BY <1>1, <1>2, <1>3 DEF Accounted
  <2>   QED
        BY <1>4, <1>5, <1>6, <2>1 DEF Accounted
<1> QED
    BY <1>7, <1>8 DEF L

\* A sibling is run: it is the same one, with other versions or another status.
LEMMA ReplaceOne ==
  ASSUME NEW F, NEW P, NEW G, NEW del, NEW dis, NEW ids, NEW t \in F, NEW u,
         Accounted(F, P, G, del, dis, ids), u.root = t.root, u.copy = t.copy
  PROVE  /\ u \notin (F \ {t}) \cup P \cup G
         /\ Accounted((F \ {t}) \cup {u}, P, G, del, dis, ids)
<1> DEFINE F1 == (F \ {t}) \cup {u}
<1>1. u \notin (F \ {t}) \cup P \cup G
  <2>   SUFFICES ASSUME u \in (F \ {t}) \cup P \cup G PROVE FALSE
        OBVIOUS
  <2>1. u = t
        BY DEF Accounted, Unique
  <2>   QED
        BY <2>1 DEF Accounted
<1>2. \A s \in F1 \cup P \cup G : (s \in F \cup P \cup G /\ s # t) \/ s = u
      BY DEF Accounted
<1>3. Unique(F1 \cup P \cup G)
  <2>   HIDE DEF F1
  <2>1. \A s \in F \cup P \cup G : s.root = t.root /\ s.copy = t.copy => s = t
        BY DEF Accounted, Unique
  <2>   QED
        BY <1>2, <2>1 DEF Accounted, Unique
<1>4. Ids(F1 \cup P \cup G) = Ids(F \cup P \cup G)
  <2>   DEFINE A == F1 \cup P \cup G
               B == F \cup P \cup G
  <2>1. \A s \in A : \E q \in B : <<s.root, s.copy>> = <<q.root, q.copy>>
        BY <1>2
  <2>2. \A q \in B : \E s \in A : <<s.root, s.copy>> = <<q.root, q.copy>>
    <3>1. \A q \in B : q \in A \/ q = t
          OBVIOUS
    <3>2. u \in A /\ <<u.root, u.copy>> = <<t.root, t.copy>>
          OBVIOUS
    <3>   HIDE DEF A, B
    <3>   QED
          BY <3>1, <3>2
  <2>   HIDE DEF A, B
  <2>3. Ids(A) = Ids(B)
        BY <2>1, <2>2 DEF Ids
  <2>   QED
        BY <2>3 DEF A, B
<1>5. F1 \cap P = {} /\ F1 \cap G = {} /\ P \cap G = {} /\ del \cap dis = {}
      BY <1>1 DEF Accounted
<1>6. ASSUME NEW s \in F1 \cup P
      PROVE  (\A q \in G : q.root # s.root) /\ (\A x \in del \cup dis : x[1] # s.root)
  <2>1. s \in F \cup P \/ s.root = t.root
        BY <1>2
  <2>   QED
        BY <2>1 DEF Accounted
<1> HIDE DEF F1
<1>7. Accounted(F1, P, G, del, dis, ids)
  <2>1. /\ Ids(F1 \cup P \cup G) \cap (del \cup dis) = {}
        /\ Ids(F1 \cup P \cup G) \cup del \cup dis = ids
        BY <1>4 DEF Accounted
  <2>   QED
        BY <1>3, <1>5, <1>6, <2>1 DEF Accounted
<1> QED
    BY <1>1, <1>7 DEF F1

\* A new root is submitted.
LEMMA SubmitRoot ==
  ASSUME NEW F, NEW P, NEW G, NEW del, NEW dis, NEW ids, NEW r, NEW N,
         Accounted(F, P, G, del, dis, ids), Unique(N),
         \A t \in N : t.root = r, \A x \in ids : x[1] # r
  PROVE  /\ N \cap (F \cup P \cup G) = {}
         /\ Accounted(F \cup N, P, G, del, dis, ids \cup Ids(N))
<1>1. \A t \in F \cup P \cup G : t.root # r
  <2>1. \A t \in F \cup P \cup G : <<t.root, t.copy>> \in ids
        BY DEF Ids, Accounted
  <2>   QED
        BY <2>1
<1>2. \A x \in del \cup dis : x[1] # r
      BY DEF Accounted
<1>3. \A x \in Ids(N) : x[1] = r
      BY DEF Ids
<1>4. N \cap (F \cup P \cup G) = {}
      BY <1>1
<1>5. Unique((F \cup N) \cup P \cup G)
      BY <1>1 DEF Unique, Accounted
<1>6. Ids((F \cup N) \cup P \cup G) = Ids(F \cup P \cup G) \cup Ids(N)
  <2>1. (F \cup N) \cup P \cup G = (F \cup P \cup G) \cup N
        OBVIOUS
  <2>2. Ids((F \cup P \cup G) \cup N) = Ids(F \cup P \cup G) \cup Ids(N)
        BY DEF Ids
  <2>   QED
        BY <2>1, <2>2
<1>7. /\ Ids((F \cup N) \cup P \cup G) \cap (del \cup dis) = {}
      /\ Ids((F \cup N) \cup P \cup G) \cup del \cup dis = ids \cup Ids(N)
      BY <1>2, <1>3, <1>6 DEF Accounted
<1>8. ASSUME NEW t \in (F \cup N) \cup P
      PROVE  (\A s \in G : s.root # t.root) /\ (\A x \in del \cup dis : x[1] # t.root)
      BY <1>1, <1>2 DEF Accounted
<1>9. /\ (F \cup N) \cap P = {} /\ (F \cup N) \cap G = {} /\ P \cap G = {}
      /\ del \cap dis = {}
      BY <1>4 DEF Accounted
<1> QED
    BY <1>4, <1>5, <1>7, <1>8, <1>9 DEF Accounted

\* A sibling is buffered with those of its root.
LEMMA BufferOf ==
  ASSUME NEW buffer \in [Root -> Seq(Task)], PendingKept(buffer)
  PROVE  /\ \A t \in InBuffer(buffer) : t \in Task /\ t \in Elements(buffer[t.root])
         /\ \A r \in Root : Elements(buffer[r]) \subseteq InBuffer(buffer)
<1>1. ASSUME NEW t \in InBuffer(buffer) PROVE t \in Task /\ t \in Elements(buffer[t.root])
  <2>1. PICK r \in Root : t \in Elements(buffer[r])
        BY <1>1 DEF InBuffer
  <2>2. t.root = r
        BY <2>1 DEF PendingKept
  <2>3. buffer[r] \in Seq(Task)
        OBVIOUS
  <2>4. t \in Task
        BY <2>1, <2>3, InSequence
  <2>   QED
        BY <2>1, <2>2, <2>4
<1> QED
    BY <1>1 DEF InBuffer

Replaces(put, buffer, r, seq) ==
  /\ PendingKept(put)
  /\ InBuffer(put) = (InBuffer(buffer) \ Elements(buffer[r])) \cup Elements(seq)

\* The siblings of one root are put in place of others.
LEMMA BufferPut ==
  ASSUME NEW buffer \in [Root -> Seq(Task)], PendingKept(buffer),
         NEW r \in Root, NEW seq \in Seq(Task), \A t \in Elements(seq) : t.root = r,
         Len(seq) < GroupSize, Once(seq)
  PROVE  Replaces([buffer EXCEPT ![r] = seq], buffer, r, seq)
<1> DEFINE put == [buffer EXCEPT ![r] = seq]
<1>1. put \in [Root -> Seq(Task)] /\ put[r] = seq /\ \A q \in Root \ {r} : put[q] = buffer[q]
      OBVIOUS
<1> HIDE DEF put
<1>2. PendingKept(put)
      BY <1>1 DEF PendingKept
<1>3. \A t \in InBuffer(put) : t \in (InBuffer(buffer) \ Elements(buffer[r])) \cup Elements(seq)
  <2>   SUFFICES ASSUME NEW t \in InBuffer(put), t \notin Elements(seq)
                 PROVE  t \in InBuffer(buffer) /\ t \notin Elements(buffer[r])
        OBVIOUS
  <2>1. PICK q \in Root : t \in Elements(put[q])
        BY DEF InBuffer
  <2>2. q # r /\ t \in Elements(buffer[q])
        BY <1>1, <2>1
  <2>3. t.root = q
        BY <2>2 DEF PendingKept
  <2>4. t \notin Elements(buffer[r])
        BY <2>2, <2>3 DEF PendingKept
  <2>   QED
        BY <2>2, <2>4 DEF InBuffer
<1>4. ASSUME NEW t \in (InBuffer(buffer) \ Elements(buffer[r])) \cup Elements(seq)
      PROVE  t \in InBuffer(put)
  <2>1. CASE t \in Elements(seq)
        BY <1>1, <2>1 DEF InBuffer
  <2>2. CASE t \in InBuffer(buffer) \ Elements(buffer[r])
    <3>1. PICK q \in Root : t \in Elements(buffer[q])
          BY <2>2 DEF InBuffer
    <3>2. q # r
          BY <2>2, <3>1
    <3>   QED
          BY <1>1, <3>1, <3>2 DEF InBuffer
  <2>   QED
        BY <1>4, <2>1, <2>2
<1>5. InBuffer(put) = (InBuffer(buffer) \ Elements(buffer[r])) \cup Elements(seq)
      BY <1>3, <1>4
<1> QED
    BY <1>2, <1>5 DEF put, Replaces

\* One more group at the end.
LEMMA GroupsMore ==
  ASSUME NEW groups \in Seq(Seq(Task)), GroupsKept(groups), NEW g \in Seq(Task),
         Len(g) = GroupSize, Once(g), \A s, t \in Elements(g) : s.root = t.root,
         \A s \in Samples(groups), t \in Elements(g) : s.root # t.root
  PROVE  /\ GroupsKept(Append(groups, g))
         /\ Samples(Append(groups, g)) = Samples(groups) \cup Elements(g)
<1> DEFINE more == Append(groups, g)
           n == Len(groups)
<1>1. /\ n \in Nat /\ DOMAIN groups = 1 .. n /\ DOMAIN more = 1 .. n + 1
      /\ more[n + 1] = g /\ \A i \in 1 .. n : more[i] = groups[i]
      OBVIOUS
<1>2. Extends(more, groups, g)
      BY OneMore
<1> HIDE DEF more, n
<1>3. Samples(more) = Samples(groups) \cup Elements(g)
      BY <1>2 DEF Extends, Samples
<1>4. \A i \in 1 .. n : Elements(groups[i]) \subseteq Samples(groups)
  <2>1. \A i \in 1 .. n : groups[i] \in Elements(groups)
        BY <1>1 DEF Elements
  <2>   QED
        BY <2>1 DEF Samples
<1>5. \A i \in 1 .. n + 1 : (i \in 1 .. n /\ more[i] = groups[i]) \/ (i = n + 1 /\ more[i] = g)
      BY <1>1
<1>6. ASSUME NEW i \in 1 .. n + 1
      PROVE  /\ Len(more[i]) = GroupSize /\ Once(more[i])
             /\ \A s, t \in Elements(more[i]) : s.root = t.root
  <2>1. CASE i \in 1 .. n /\ more[i] = groups[i]
    <3>1. /\ Len(groups[i]) = GroupSize /\ Once(groups[i])
          /\ \A s, t \in Elements(groups[i]) : s.root = t.root
          BY <1>1, <2>1 DEF GroupsKept
    <3>   QED
          BY <2>1, <3>1
  <2>2. CASE more[i] = g
        BY <2>2
  <2>   QED
        BY <1>5, <2>1, <2>2
<1>7. ASSUME NEW i \in 1 .. n + 1, NEW j \in 1 .. n + 1,
             NEW s \in Elements(more[i]), NEW t \in Elements(more[j]), s.root = t.root
      PROVE  i = j
  <2>1. CASE i \in 1 .. n /\ j \in 1 .. n
    <3>1. s \in Elements(groups[i]) /\ t \in Elements(groups[j])
          BY <1>1, <2>1
    <3>   QED
          BY <1>1, <1>7, <2>1, <3>1 DEF GroupsKept
  <2>2. CASE i \in 1 .. n /\ j = n + 1
    <3>1. s \in Samples(groups) /\ t \in Elements(g)
          BY <1>1, <1>4, <2>2
    <3>   QED
          BY <1>7, <3>1
  <2>3. CASE i = n + 1 /\ j \in 1 .. n
    <3>1. t \in Samples(groups) /\ s \in Elements(g)
          BY <1>1, <1>4, <2>3
    <3>   QED
          BY <1>7, <3>1
  <2>   QED
        BY <1>5, <2>1, <2>2, <2>3
<1>8. GroupsKept(more)
      BY <1>1, <1>6, <1>7 DEF GroupsKept
<1> QED
    BY <1>3, <1>8 DEF more

\* The buffers and what is still to come, F, hold all that there is.
Filled(b, F, del, dis, ids, all) ==
  /\ PendingKept(b.pending) /\ GroupsKept(b.complete)
  /\ Accounted(F, InBuffer(b.pending), Samples(b.complete), del, dis, ids)
  /\ F \cup InBuffer(b.pending) \cup Samples(b.complete) = all

\* PendingGroups.add for one sibling moves it, or its whole root.
LEMMA JoinKeeps ==
  ASSUME NEW b \in Buffers, NEW F \in SUBSET Task, NEW t \in F,
         NEW del, NEW dis, NEW ids, NEW all, Filled(b, F, del, dis, ids, all)
  PROVE  Filled(Join(b, t), F \ {t}, del, dis, ids, all)
<1> DEFINE r == t.root
           P == InBuffer(b.pending)
           G == Samples(b.complete)
           siblings == Append(b.pending[r], t)
<1>1. /\ t \in Task /\ r \in Root /\ b.pending \in [Root -> Seq(Task)]
      /\ b.complete \in Seq(Seq(Task)) /\ b.pending[r] \in Seq(Task)
      /\ GroupSize \in Nat \ {0}
      BY ManagerAssumption DEF Buffers, Task
<1>2. PendingKept(b.pending) /\ GroupsKept(b.complete) /\ Accounted(F, P, G, del, dis, ids)
      BY DEF Filled
<1>3. /\ \A s \in P : s \in Task /\ s \in Elements(b.pending[s.root])
      /\ Elements(b.pending[r]) \subseteq P
      BY <1>1, <1>2, BufferOf
<1>4. /\ siblings \in Seq(Task) /\ Len(siblings) = Len(b.pending[r]) + 1
      /\ Extends(siblings, b.pending[r], t)
      BY <1>1, OneMore
<1> HIDE DEF siblings
<1>5. Elements(siblings) = Elements(b.pending[r]) \cup {t} /\ Once(siblings)
  <2>1. t \notin P
        BY <1>2 DEF Accounted
  <2>   QED
        BY <1>1, <1>2, <1>3, <1>4, <2>1 DEF Extends, PendingKept
<1>6. \A s \in Elements(siblings) : s.root = r
      BY <1>1, <1>2, <1>5 DEF PendingKept
<1>7. CASE Len(siblings) # GroupSize
  <2>1. Join(b, t) = [b EXCEPT !.pending[r] = siblings]
        BY <1>7 DEF Join, siblings
  <2>2. /\ Join(b, t).pending = [b.pending EXCEPT ![r] = siblings]
        /\ Join(b, t).complete = b.complete
        BY <1>1, <2>1 DEF Buffers
  <2>3. Len(siblings) < GroupSize
    <3>1. Len(b.pending[r]) < GroupSize /\ Len(b.pending[r]) \in Nat
          BY <1>1, <1>2 DEF PendingKept
    <3>   QED
          BY <1>1, <1>4, <1>7, <3>1
  <2>4. /\ PendingKept(Join(b, t).pending)
        /\ InBuffer(Join(b, t).pending) = (P \ Elements(b.pending[r])) \cup Elements(siblings)
    <3>1. Replaces([b.pending EXCEPT ![r] = siblings], b.pending, r, siblings)
          BY <1>1, <1>2, <1>4, <1>5, <1>6, <2>3, BufferPut
    <3>   QED
          BY <2>2, <3>1 DEF Replaces
  <2>5. InBuffer(Join(b, t).pending) = P \cup {t}
        BY <1>3, <1>5, <2>4
  <2>6. Accounted(F \ {t}, P \cup {t}, G, del, dis, ids)
        BY <1>2, BufferOne
  <2>7. (F \ {t}) \cup (P \cup {t}) \cup G = F \cup P \cup G
        OBVIOUS
  <2>   QED
        BY <1>2, <2>2, <2>4, <2>5, <2>6, <2>7 DEF Filled
<1>8. CASE Len(siblings) = GroupSize
  <2>   DEFINE E == Elements(siblings)
  <2>1. Join(b, t) = [pending |-> [b.pending EXCEPT ![r] = <<>>],
                      complete |-> Append(b.complete, siblings)]
        BY <1>8 DEF Join, siblings
  <2>2. /\ Join(b, t).pending = [b.pending EXCEPT ![r] = <<>>]
        /\ Join(b, t).complete = Append(b.complete, siblings)
        BY <2>1
  <2>3. /\ <<>> \in Seq(Task) /\ Len(<<>>) < GroupSize
        /\ Once(<<>>) /\ Elements(<<>>) = {}
        BY <1>1, NoElements
  <2>4. /\ PendingKept(Join(b, t).pending)
        /\ InBuffer(Join(b, t).pending) = (P \ Elements(b.pending[r])) \cup {}
    <3>1. Replaces([b.pending EXCEPT ![r] = <<>>], b.pending, r, <<>>)
          BY <1>1, <1>2, <2>3, BufferPut
    <3>   QED
          BY <2>2, <2>3, <3>1 DEF Replaces
  <2>5. E \subseteq F \cup P /\ \A s \in E : s.root = r
        BY <1>3, <1>5, <1>6
  <2>6. \A c \in 1 .. GroupSize : \E e \in E : e.copy = c
    <3>1. Unique(E)
          BY <1>2, <2>5 DEF Accounted, Unique
    <3>   QED
          BY <1>4, <1>5, <1>6, <1>8, <3>1, WholeGroup
  <2>7. \A s \in (F \cup P) \ E : s.root # r
    <3>   SUFFICES ASSUME NEW s \in F \cup P, s.root = r PROVE s \in E
          OBVIOUS
    <3>1. s.copy \in 1 .. GroupSize
          BY <1>3 DEF Task
    <3>2. PICK e \in E : e.copy = s.copy
          BY <2>6, <3>1
    <3>3. e.root = s.root /\ e \in F \cup P
          BY <2>5
    <3>4. e = s
          BY <1>2, <3>2, <3>3 DEF Accounted, Unique
    <3>   QED
          BY <3>4
  <2>8. Accounted(F \ E, P \ E, G \cup E, del, dis, ids)
        BY <1>2, <2>5, <2>7, CompleteRoot
  <2>9. F \ E = F \ {t} /\ P \ E = P \ Elements(b.pending[r])
    <3>1. t \notin P /\ F \cap P = {}
          BY <1>2 DEF Accounted
    <3>   QED
          BY <1>3, <1>5, <3>1
  <2>10. /\ GroupsKept(Append(b.complete, siblings))
         /\ Samples(Append(b.complete, siblings)) = G \cup E
    <3>1. \A s \in G, e \in E : s.root # e.root
          BY <1>2, <2>5 DEF Accounted
    <3>   QED
          BY <1>1, <1>2, <1>4, <1>5, <1>6, <1>8, <3>1, GroupsMore
  <2>11. InBuffer(Join(b, t).pending) = P \ E /\ Samples(Join(b, t).complete) = G \cup E
         BY <2>2, <2>4, <2>9, <2>10
  <2>12. (F \ {t}) \cup (P \ E) \cup (G \cup E) = F \cup P \cup G
         BY <1>5, <2>5
  <2>13. Accounted(F \ {t}, P \ E, G \cup E, del, dis, ids)
         BY <2>8, <2>9
  <2>   QED
        BY <2>2, <2>4, <2>10, <2>11, <2>12, <2>13 DEF Filled
<1> QED
    BY <1>7, <1>8

Finished(results) == {t \in Elements(results) : t.status = "terminal"}

\* _route: the finished siblings, and they alone, go to the buffers.
LEMMA RouteKeeps ==
  ASSUME TypeInv, NEW F \in SUBSET Task, NEW results \in Seq(Task), Once(results),
         Elements(results) \subseteq F, NEW del, NEW dis, NEW ids, NEW all,
         Filled([pending |-> pending, complete |-> complete], F, del, dis, ids, all)
  PROVE  /\ Routed(results) \in Buffers
         /\ Filled(Routed(results), F \ Finished(results), del, dis, ids, all)
<1> DEFINE m == Len(results)
<1>1. PICK f : RoutedBy(f, results)
      BY RoutedSteps
<1>2. /\ m \in Nat /\ DOMAIN results = 1 .. m
      /\ \A i \in 1 .. m : results[i] \in Task /\ results[i] \in F
      BY DEF Elements
<1>3. /\ f \in [0 .. m -> Buffers] /\ f[0] = [pending |-> pending, complete |-> complete]
      /\ \A i \in 1 .. m :
           f[i] = IF results[i].status = "terminal" THEN Join(f[i - 1], results[i])
                  ELSE f[i - 1]
      /\ Routed(results) = f[m]
      BY <1>1 DEF RoutedBy
<1> DEFINE Gone(i) == {results[j] : j \in {k \in 1 .. i : results[k].status = "terminal"}}
           T == {i \in 0 .. m : Filled(f[i], F \ Gone(i), del, dis, ids, all)}
<1>4. 0 \in T
  <2>1. F \ Gone(0) = F
        OBVIOUS
  <2>   HIDE DEF Gone
  <2>2. Filled(f[0], F \ Gone(0), del, dis, ids, all)
        BY <1>3, <2>1
  <2>   QED
        BY <1>2, <2>2
<1>5. ASSUME NEW i \in 1 .. m, i - 1 \in T PROVE i \in T
  <2>1. Filled(f[i - 1], F \ Gone(i - 1), del, dis, ids, all) /\ f[i - 1] \in Buffers
        BY <1>2, <1>3, <1>5
  <2>2. CASE results[i].status = "terminal"
    <3>1. Gone(i) = Gone(i - 1) \cup {results[i]}
      <4>1. {k \in 1 .. i : results[k].status = "terminal"}
              = {k \in 1 .. i - 1 : results[k].status = "terminal"} \cup {i}
            BY <1>2, <2>2
      <4>   QED
            BY <4>1
    <3>2. results[i] \in F \ Gone(i - 1)
          BY <1>2 DEF Once
    <3>3. F \ Gone(i) = (F \ Gone(i - 1)) \ {results[i]} /\ F \ Gone(i - 1) \in SUBSET Task
      <4>   HIDE DEF Gone
      <4>   QED
            BY <3>1
    <3>   HIDE DEF Gone
    <3>4. Filled(Join(f[i - 1], results[i]), (F \ Gone(i - 1)) \ {results[i]},
                 del, dis, ids, all)
          BY <2>1, <3>2, <3>3, JoinKeeps
    <3>5. f[i] = Join(f[i - 1], results[i])
          BY <1>3, <2>2
    <3>6. Filled(f[i], F \ Gone(i), del, dis, ids, all)
          BY <3>3, <3>4, <3>5
    <3>   QED
          BY <1>2, <3>6
  <2>3. CASE results[i].status # "terminal"
    <3>1. {k \in 1 .. i : results[k].status = "terminal"}
            = {k \in 1 .. i - 1 : results[k].status = "terminal"}
          BY <1>2, <2>3
    <3>2. Gone(i) = Gone(i - 1)
          BY <3>1
    <3>3. f[i] = f[i - 1]
          BY <1>3, <2>3
    <3>   HIDE DEF Gone
    <3>   QED
          BY <1>2, <2>1, <3>2, <3>3
  <2>   QED
        BY <2>2, <2>3
<1>6. m \in T
  <2>   HIDE DEF T, m
  <2>   QED
        BY <1>2, <1>4, <1>5, CountUp
<1>7. Gone(m) = Finished(results)
      BY <1>2 DEF Finished, Elements
<1>8. Routed(results) \in Buffers
      BY <1>2, <1>3
<1> QED
    BY <1>3, <1>6, <1>7, <1>8

-----------------------------------------------------------------------------
(***************************************************************************)
(* What holds in a state with the invariant.                               *)
(***************************************************************************)
Submitted  == (0 .. nextRoot - 1) \X (1 .. GroupSize)

\* What is in the sequences and buffers are siblings.
LEMMA InTask ==
  /\ \A seq \in Seq(Task) : Elements(seq) \subseteq Task
  /\ \A buffer \in [Root -> Seq(Task)] : InBuffer(buffer) \subseteq Task
  /\ \A groups \in Seq(Seq(Task)) : Samples(groups) \subseteq Task
  /\ \A tasks \in SUBSET Task : Ids(tasks) \in SUBSET Id
<1>1. ASSUME NEW seq \in Seq(Task) PROVE Elements(seq) \subseteq Task
      BY InSequence
<1>2. ASSUME NEW buffer \in [Root -> Seq(Task)] PROVE InBuffer(buffer) \subseteq Task
      BY <1>1 DEF InBuffer
<1>3. ASSUME NEW groups \in Seq(Seq(Task)) PROVE Samples(groups) \subseteq Task
  <2>1. \A g \in Elements(groups) : g \in Seq(Task)
        BY InSequence
  <2>   QED
        BY <1>1, <2>1 DEF Samples
<1>4. ASSUME NEW tasks \in SUBSET Task PROVE Ids(tasks) \in SUBSET Id
      BY DEF Ids, Task, Id
<1> QED
    BY <1>1, <1>2, <1>3, <1>4

\* Everything the manager and the pool hold are siblings.
LEMMA AllTasks ==
  ASSUME TypeInv
  PROVE  /\ Unfinished \subseteq Task /\ Buffered = InBuffer(pending)
         /\ Buffered \subseteq Task /\ Samples(complete) \subseteq Task
<1>1. /\ waiting \in Seq(Task) /\ done \in Seq(Task) /\ undispatched \in Seq(Task)
      /\ carried \in Seq(Task) /\ out \subseteq Task
      /\ pending \in [Root -> Seq(Task)] /\ complete \in Seq(Seq(Task))
      BY DEF TypeInv
<1>2. Buffered = InBuffer(pending)
      BY DEF Buffered, InBuffer
<1>3. Unfinished \subseteq Task
  <2>1. /\ Elements(waiting) \subseteq Task /\ Elements(done) \subseteq Task
        /\ Elements(undispatched) \subseteq Task /\ Elements(carried) \subseteq Task
        BY <1>1, InTask
  <2>   QED
        BY <1>1, <2>1 DEF Unfinished
<1> QED
    BY <1>1, <1>2, <1>3, InTask

\* Groups, as a set of them.
LEMMA GroupsByElement ==
  ASSUME NEW groups \in Seq(Seq(Task))
  PROVE  GroupsKept(groups) <=>
           /\ Once(groups)
           /\ \A g \in Elements(groups) :
                /\ Len(g) = GroupSize /\ Once(g)
                /\ \A s, t \in Elements(g) : s.root = t.root
           /\ \A g, h \in Elements(groups) :
                \A s \in Elements(g), t \in Elements(h) : s.root = t.root => g = h
<1>1. /\ DOMAIN groups = 1 .. Len(groups)
      /\ \A i \in DOMAIN groups : groups[i] \in Seq(Task) /\ groups[i] \in Elements(groups)
      /\ \A g \in Elements(groups) : \E i \in DOMAIN groups : g = groups[i]
  <2>1. DOMAIN groups = 1 .. Len(groups) /\ \A i \in DOMAIN groups : groups[i] \in Seq(Task)
        OBVIOUS
  <2>   QED
        BY <2>1 DEF Elements
<1>2. ASSUME GroupsKept(groups), NEW i \in DOMAIN groups
      PROVE  Elements(groups[i]) # {}
  <2>1. groups[i] \in Seq(Task) /\ Len(groups[i]) = GroupSize /\ GroupSize \in Nat \ {0}
        BY <1>1, <1>2, ManagerAssumption DEF GroupsKept
  <2>2. groups[i][1] \in Elements(groups[i])
        BY <2>1, InSequence
  <2>   QED
        BY <2>2
<1>3. ASSUME GroupsKept(groups) PROVE Once(groups)
      BY <1>2, <1>3 DEF GroupsKept, Once
<1>4. ASSUME GroupsKept(groups), NEW g \in Elements(groups)
      PROVE  /\ Len(g) = GroupSize /\ Once(g)
             /\ \A s, t \in Elements(g) : s.root = t.root
  <2>1. PICK i \in DOMAIN groups : g = groups[i]
        BY <1>1
  <2>   QED
        BY <1>4, <2>1 DEF GroupsKept
<1>5. ASSUME GroupsKept(groups), NEW g \in Elements(groups), NEW h \in Elements(groups),
             NEW s \in Elements(g), NEW t \in Elements(h), s.root = t.root
      PROVE  g = h
  <2>1. PICK i \in DOMAIN groups : g = groups[i]
        BY <1>1
  <2>2. PICK j \in DOMAIN groups : h = groups[j]
        BY <1>1
  <2>3. i = j
        BY <1>5, <2>1, <2>2 DEF GroupsKept
  <2>   QED
        BY <2>1, <2>2, <2>3
<1>6. ASSUME Once(groups),
             \A g \in Elements(groups) :
               /\ Len(g) = GroupSize /\ Once(g)
               /\ \A s, t \in Elements(g) : s.root = t.root,
             \A g, h \in Elements(groups) :
               \A s \in Elements(g), t \in Elements(h) : s.root = t.root => g = h
      PROVE  GroupsKept(groups)
  <2>1. ASSUME NEW i \in DOMAIN groups, NEW j \in DOMAIN groups,
               NEW s \in Elements(groups[i]), NEW t \in Elements(groups[j]), s.root = t.root
        PROVE  i = j
    <3>1. groups[i] = groups[j]
          BY <1>1, <1>6, <2>1
    <3>   QED
          BY <1>6, <3>1 DEF Once
  <2>   QED
        BY <1>1, <1>6, <2>1 DEF GroupsKept
<1> QED
    BY <1>3, <1>4, <1>5, <1>6

\* Some of the groups, in order, are groups.
LEMMA SomeGroups ==
  ASSUME NEW groups \in Seq(Seq(Task)), GroupsKept(groups), NEW some \in Seq(Seq(Task)),
         Once(some), Elements(some) \subseteq Elements(groups)
  PROVE  GroupsKept(some) /\ Samples(some) \subseteq Samples(groups)
<1>1. /\ \A g \in Elements(groups) :
           /\ Len(g) = GroupSize /\ Once(g)
           /\ \A s, t \in Elements(g) : s.root = t.root
      /\ \A g, h \in Elements(groups) :
           \A s \in Elements(g), t \in Elements(h) : s.root = t.root => g = h
      BY GroupsByElement
<1>2. /\ \A g \in Elements(some) :
           /\ Len(g) = GroupSize /\ Once(g)
           /\ \A s, t \in Elements(g) : s.root = t.root
      /\ \A g, h \in Elements(some) :
           \A s \in Elements(g), t \in Elements(h) : s.root = t.root => g = h
      BY <1>1
<1>3. GroupsKept(some)
      BY <1>2, GroupsByElement
<1> QED
    BY <1>3 DEF Samples

\* The filter leaves groups.
LEMMA FilterKeeps ==
  ASSUME NEW groups \in Seq(Seq(Task)), GroupsKept(groups), NEW v
  PROVE  /\ Filtered(groups, v) \in Seq(Seq(Task)) /\ GroupsKept(Filtered(groups, v))
         /\ Samples(Filtered(groups, v)) \subseteq Samples(groups)
<1> DEFINE K == {g \in Elements(groups) : KeepGroup(g, v)}
<1>1. Once(groups)
      BY GroupsByElement
<1>2. Select(groups, K) \in Seq(Seq(Task)) /\ Selected(Select(groups, K), groups, K)
      BY SelectIs
<1>3. Filtered(groups, v) = Select(groups, K)
      BY DEF Filtered
<1> HIDE DEF K
<1>4. Once(Select(groups, K)) /\ Elements(Select(groups, K)) \subseteq Elements(groups)
      BY <1>1, <1>2 DEF Selected
<1> QED
    BY <1>2, <1>3, <1>4, SomeGroups

\* Groups are handed over from the front.
LEMMA TakeKeeps ==
  ASSUME NEW groups \in Seq(Seq(Task)), GroupsKept(groups), NEW n \in 0 .. Len(groups)
  PROVE  /\ SubSeq(groups, n + 1, Len(groups)) \in Seq(Seq(Task))
         /\ GroupsKept(SubSeq(groups, n + 1, Len(groups)))
         /\ Samples(SubSeq(groups, n + 1, Len(groups))) \subseteq Samples(groups)
         /\ \A t : t \in Samples(SubSeq(groups, 1, n)) <=>
                     /\ t \in Samples(groups)
                     /\ t \notin Samples(SubSeq(groups, n + 1, Len(groups)))
<1> DEFINE front == SubSeq(groups, 1, n)
           rest  == SubSeq(groups, n + 1, Len(groups))
<1>1. front \in Seq(Seq(Task)) /\ rest \in Seq(Seq(Task)) /\ Splits(groups, front, rest)
      BY Cut
<1> HIDE DEF front, rest
<1>2. /\ Once(groups)
      /\ \A g, h \in Elements(groups) :
           \A s \in Elements(g), t \in Elements(h) : s.root = t.root => g = h
      BY GroupsByElement
<1>3. /\ Elements(groups) = Elements(front) \cup Elements(rest)
      /\ Once(rest) /\ Elements(front) \cap Elements(rest) = {}
      BY <1>1, <1>2 DEF Splits
<1>4. GroupsKept(rest) /\ Samples(rest) \subseteq Samples(groups)
      BY <1>1, <1>3, SomeGroups
<1>5. ASSUME NEW t
      PROVE  t \in Samples(front) <=> t \in Samples(groups) /\ t \notin Samples(rest)
  <2>1. ASSUME t \in Samples(front) PROVE t \in Samples(groups) /\ t \notin Samples(rest)
    <3>1. PICK g \in Elements(front) : t \in Elements(g)
          BY <2>1 DEF Samples
    <3>2. ASSUME NEW h \in Elements(rest), t \in Elements(h) PROVE FALSE
          BY <1>2, <1>3, <3>1, <3>2
    <3>   QED
          BY <1>3, <3>1, <3>2 DEF Samples
  <2>2. ASSUME t \in Samples(groups), t \notin Samples(rest) PROVE t \in Samples(front)
        BY <1>3, <2>2 DEF Samples
  <2>   QED
        BY <2>1, <2>2
<1> QED
    BY <1>1, <1>4, <1>5 DEF front, rest

\* What routing makes of what there is.
LEMMA AfterRouting ==
  ASSUME IInv, Sound
  PROVE  /\ Routed(done) \in Buffers
         /\ Filled(Routed(done), Unfinished \ Finished(done), delivered, discarded,
                   Submitted, Everything)
<1>1. /\ TypeInv /\ Unfinished \in SUBSET Task /\ done \in Seq(Task)
      /\ Buffered = InBuffer(pending)
      BY AllTasks DEF IInv, TypeInv
<1>2. Once(done) /\ Elements(done) \subseteq Unfinished
      BY DEF IInv, Placed, Unfinished
<1> DEFINE b == [pending |-> pending, complete |-> complete]
<1>3. Filled(b, Unfinished, delivered, discarded, Submitted, Everything)
      BY <1>1 DEF Filled, IInv, Placed, Everything, Submitted
<1> QED
    BY <1>1, <1>2, <1>3, RouteKeeps

\* Nothing is of a version that is not published yet.
LEMMA NothingFuture ==
  ASSUME IInv, Sound, NEW v \in Nat, publishedVersion <= v
  PROVE  /\ ~Future(Samples(Routed(done).complete), v)
         /\ ~Future(Samples(Routed(done).complete) \cup Elements(undispatched \o done), v)
<1>1. \A t \in Everything : \A w \in t.versions : ~ (w > v)
  <2>   SUFFICES ASSUME NEW t \in Everything, NEW w \in t.versions PROVE ~ (w > v)
        OBVIOUS
  <2>1. w \in 0 .. publishedVersion /\ publishedVersion \in Nat
        BY DEF IInv, Stamped, Everything, TypeInv
  <2>   QED
        BY <2>1
<1>2. Samples(Routed(done).complete) \subseteq Everything
      BY AfterRouting DEF Filled
<1>3. Elements(undispatched \o done) \subseteq Everything
  <2>1. undispatched \in Seq(Task) /\ done \in Seq(Task)
        BY DEF IInv, TypeInv
  <2>2. Elements(undispatched \o done) = Elements(undispatched) \cup Elements(done)
        BY <2>1, Joined DEF Splits
  <2>   QED
        BY <2>2 DEF Everything, Unfinished
<1> QED
    BY <1>1, <1>2, <1>3 DEF Future

-----------------------------------------------------------------------------
(***************************************************************************)
(* The invariant holds at the start, and every step keeps it.              *)
(***************************************************************************)

\* The bounds are numbers.
LEMMA Bounds == MaxRoots \in Nat /\ MaxVersion \in Nat /\ GroupSize \in Nat \ {0}
  BY ManagerAssumption

\* At the start nothing is held.
LEMMA InitHolds == Init => IInv
<1> SUFFICES ASSUME Init PROVE IInv
    OBVIOUS
<1>1. /\ waiting = <<>> /\ out = {} /\ done = <<>> /\ undispatched = <<>> /\ carried = <<>>
      /\ pending = [r \in Root |-> <<>>] /\ complete = <<>>
      /\ publishedVersion = 0 /\ trainVersion = 0 /\ nextRoot = 0 /\ want = 0
      /\ delivered = {} /\ discarded = {} /\ failure = "none" /\ dpc = "idle"
      /\ paused = TRUE /\ broken = FALSE /\ stopping = FALSE
      BY DEF Init
<1>2. Elements(<<>>) = {} /\ Once(<<>>)
      BY NoElements
<1>3. Unfinished = {} /\ Buffered = {} /\ Samples(complete) = {}
  <2>1. Unfinished = {}
        BY <1>1, <1>2 DEF Unfinished
  <2>2. \A r \in Root : Elements(pending[r]) = {}
        BY <1>1, <1>2
  <2>3. Buffered = {}
        BY <2>2 DEF Buffered
  <2>   QED
        BY <1>1, <1>2, <2>1, <2>3 DEF Samples
<1>4. TypeInv
  <2>1. 0 \in 0 .. MaxRoots /\ 0 \in 0 .. MaxVersion
        BY Bounds
  <2>2. /\ pending \in [Root -> Seq(Task)] /\ complete \in Seq(Seq(Task))
        /\ <<>> \in Seq(Task) /\ {} \in SUBSET Task /\ {} \in SUBSET Id
        BY <1>1
  <2>   QED
        BY <1>1, <2>1, <2>2, 0 <= 0 DEF TypeInv
<1>5. Stamped
      BY <1>3 DEF Stamped
<1>6. AtCall
      BY <1>1, <1>2 DEF AtCall, Settling
<1>7. Accounted({}, {}, {}, {}, {}, (0 .. nextRoot - 1) \X (1 .. GroupSize))
  <2>1. (0 .. nextRoot - 1) \X (1 .. GroupSize) = {}
        BY <1>1
  <2>2. Ids({} \cup {} \cup {}) = {} /\ Unique({} \cup {} \cup {})
        BY DEF Ids, Unique
  <2>   QED
        BY <2>1, <2>2 DEF Accounted
<1>8. PendingKept(pending) /\ GroupsKept(complete)
  <2>1. GroupSize \in Nat \ {0}
        BY ManagerAssumption
  <2>2. \A r \in Root : pending[r] = <<>> /\ Len(pending[r]) < GroupSize
        BY <1>1, <2>1
  <2>3. PendingKept(pending)
        BY <1>2, <2>2 DEF PendingKept
  <2>   QED
        BY <1>1, <2>3 DEF GroupsKept
<1>9. Placed
      BY <1>1, <1>2, <1>3, <1>7, <1>8 DEF Placed, Apart
<1> QED
    BY <1>1, <1>4, <1>5, <1>6, <1>9 DEF IInv, ChecksHold

\* What is held does not get older versions by being moved.
LEMMA StampedStays ==
  ASSUME TypeInv, Stamped, publishedVersion' \in Nat, publishedVersion <= publishedVersion',
         (Unfinished \cup Buffered \cup Samples(complete))' \subseteq Everything
  PROVE  Stamped'
<1>1. publishedVersion \in Nat
      BY DEF TypeInv
<1>2. \A t \in Everything : t.versions \subseteq 0 .. publishedVersion'
      BY <1>1 DEF Stamped, Everything
<1> QED
    BY <1>2 DEF Stamped

\* Steps that leave all siblings where they are: a collect begins, the trainer trains, an
\* engine fails.
LEMMA IdleSteps ==
  ASSUME IInv, (\E n \in 1 .. MaxRoots : Collect(n)) \/ Train \/ EngineFails
  PROVE  IInv'
<1>1. /\ UNCHANGED <<waiting, out, done, stopping, pending, complete, publishedVersion,
                     failure, undispatched, carried, nextRoot, delivered, discarded>>
      /\ dpc' = dpc \/ (dpc' = "collect" /\ dpc = "idle" /\ failure = "none")
      BY DEF Collect, Train, EngineFails, poolVars, managerVars, driverVars
<1>2. TypeInv'
  <2>1. want' \in 0 .. MaxRoots /\ paused' \in BOOLEAN /\ broken' \in BOOLEAN
    <3>1. /\ want' = want \/ want' \in 1 .. MaxRoots
          /\ paused' = paused \/ paused' = TRUE
          /\ broken' = broken \/ broken' = TRUE
          BY DEF Collect, Train, EngineFails, poolVars, driverVars
    <3>2. want \in 0 .. MaxRoots /\ paused \in BOOLEAN /\ broken \in BOOLEAN
          BY DEF IInv, TypeInv
    <3>3. want' \in 0 .. MaxRoots
          BY <3>1, <3>2, Bounds
    <3>4. paused' \in BOOLEAN /\ broken' \in BOOLEAN
          BY <3>1, <3>2, Zenon
    <3>   QED
          BY <3>3, <3>4
  <2>2. trainVersion' \in 0 .. MaxVersion /\ publishedVersion <= trainVersion'
    <3>1. trainVersion' = trainVersion \/ (trainVersion < MaxVersion /\ trainVersion' = trainVersion + 1)
          BY DEF Collect, Train, EngineFails, driverVars
    <3>   QED
          BY <3>1, ManagerAssumption DEF IInv, TypeInv
  <2>   QED
        BY <1>1, <2>1, <2>2 DEF IInv, TypeInv
<1>3. Unfinished' = Unfinished /\ Buffered' = Buffered /\ Samples(complete)' = Samples(complete)
      BY <1>1 DEF Unfinished, Buffered
<1>4. Stamped'
      BY <1>1, <1>3 DEF IInv, Stamped
<1>5. AtCall'
      BY <1>1 DEF IInv, AtCall, Sound, Settling
<1>6. Placed'
  <2>1. Sound' => Sound
        BY <1>1 DEF Sound
  <2>   QED
        BY <1>1, <1>3, <2>1 DEF IInv, Placed
<1> QED
    BY <1>1, <1>2, <1>4, <1>5, <1>6 DEF IInv, ChecksHold

\* A new prompt is as many new siblings.
LEMMA NewSiblings ==
  ASSUME IInv, nextRoot < MaxRoots
  PROVE  LET new == [c \in 1 .. GroupSize |-> NewTask(nextRoot, c)]
         IN  /\ new \in Seq(Task) /\ Once(new) /\ Unique(Elements(new))
             /\ \A t \in Elements(new) : t.root = nextRoot /\ t.versions = {}
             /\ Ids(Elements(new)) = {nextRoot} \X (1 .. GroupSize)
<1> DEFINE new == [c \in 1 .. GroupSize |-> NewTask(nextRoot, c)]
<1>1. GroupSize \in Nat /\ nextRoot \in Root
      BY ManagerAssumption DEF IInv, TypeInv, Root
<1>2. \A c \in 1 .. GroupSize : NewTask(nextRoot, c) \in Task
      BY <1>1 DEF NewTask, Task
<1>3. new \in Seq(Task) /\ DOMAIN new = 1 .. GroupSize
      BY <1>1, <1>2
<1>4. \A c \in 1 .. GroupSize :
        new[c].root = nextRoot /\ new[c].copy = c /\ new[c].versions = {}
      BY DEF NewTask
<1>5. \A t \in Elements(new) : \E c \in 1 .. GroupSize : t = new[c]
      BY <1>3 DEF Elements
<1>6. \A c \in 1 .. GroupSize : new[c] \in Elements(new)
      BY <1>3 DEF Elements
<1> HIDE DEF new
<1>7. Once(new) /\ Unique(Elements(new))
      BY <1>3, <1>4, <1>5 DEF Once, Unique
<1>8. Ids(Elements(new)) = {nextRoot} \X (1 .. GroupSize)
  <2>1. \A t \in Elements(new) : <<t.root, t.copy>> \in {nextRoot} \X (1 .. GroupSize)
        BY <1>4, <1>5
  <2>2. \A c \in 1 .. GroupSize : <<nextRoot, c>> \in Ids(Elements(new))
        BY <1>4, <1>6 DEF Ids
  <2>3. \A x \in {nextRoot} \X (1 .. GroupSize) : \E c \in 1 .. GroupSize : x = <<nextRoot, c>>
        OBVIOUS
  <2>4. \A x \in {nextRoot} \X (1 .. GroupSize) : x \in Ids(Elements(new))
        BY <2>2, <2>3
  <2>5. \A x \in Ids(Elements(new)) : x \in {nextRoot} \X (1 .. GroupSize)
        BY <2>1 DEF Ids
  <2>   QED
        BY <2>4, <2>5
<1>9. \A t \in Elements(new) : t.root = nextRoot /\ t.versions = {}
      BY <1>4, <1>5
<1> QED
    BY <1>3, <1>7, <1>8, <1>9 DEF new

\* submit, of a new prompt.
LEMMA SubmitKeeps ==
  ASSUME IInv, Submit
  PROVE  IInv'
<1> DEFINE new == [c \in 1 .. GroupSize |-> NewTask(nextRoot, c)]
           N   == Elements(new)
<1>1. /\ dpc = "idle" /\ failure = "none" /\ nextRoot < MaxRoots
      /\ waiting' = waiting \o new /\ paused' = FALSE /\ nextRoot' = nextRoot + 1
      /\ UNCHANGED <<out, done, broken, stopping, pending, complete, publishedVersion, failure,
                     dpc, want, undispatched, carried, trainVersion, delivered, discarded>>
      BY DEF Submit, Usable, managerVars
<1>2. /\ new \in Seq(Task) /\ Once(new) /\ Unique(N)
      /\ \A t \in N : t.root = nextRoot /\ t.versions = {}
      /\ Ids(N) = {nextRoot} \X (1 .. GroupSize)
      BY <1>1, NewSiblings
<1> HIDE DEF new
<1>3. waiting \in Seq(Task) /\ nextRoot \in Nat /\ Sound
      BY <1>1 DEF IInv, TypeInv, Sound
<1>4. /\ waiting' \in Seq(Task) /\ Elements(waiting') = Elements(waiting) \cup N
      /\ Once(waiting) /\ Elements(waiting) \cap N = {} => Once(waiting')
      BY <1>1, <1>2, <1>3, Joined DEF Splits
<1>5. /\ Unfinished' = Unfinished \cup N /\ Buffered' = Buffered
      /\ Samples(complete)' = Samples(complete)
      BY <1>1, <1>4 DEF Unfinished, Buffered
<1>6. TypeInv'
  <2>1. nextRoot' \in 0 .. MaxRoots
        BY <1>1, Bounds DEF IInv, TypeInv
  <2>2. paused' \in BOOLEAN
        BY <1>1
  <2>   QED
        BY <1>1, <1>4, <2>1, <2>2 DEF IInv, TypeInv
<1>7. Stamped'
      BY <1>1, <1>2, <1>5 DEF IInv, Stamped
<1>8. AtCall'
      BY <1>1 DEF IInv, AtCall, Sound, Settling
<1>9. Accounted(Unfinished, Buffered, Samples(complete), delivered, discarded, Submitted)
      BY <1>3 DEF IInv, Placed, Submitted
<1>10. /\ N \cap (Unfinished \cup Buffered \cup Samples(complete)) = {}
       /\ Accounted(Unfinished \cup N, Buffered, Samples(complete), delivered, discarded,
                    Submitted \cup Ids(N))
  <2>1. \A x \in Submitted : x[1] # nextRoot
    <3>1. \A x \in Submitted : x[1] \in 0 .. nextRoot - 1
          BY DEF Submitted
    <3>   QED
          BY <1>3, <3>1
  <2>2. Unique(N) /\ \A t \in N : t.root = nextRoot
        BY <1>2
  <2>   HIDE DEF N
  <2>   QED
        BY <1>9, <2>1, <2>2, SubmitRoot, Zenon
<1>11. Submitted \cup Ids(N) = (0 .. nextRoot' - 1) \X (1 .. GroupSize)
  <2>1. 0 .. nextRoot' - 1 = 0 .. nextRoot - 1 \cup {nextRoot}
        BY <1>1, <1>3
  <2>   QED
        BY <1>2, <2>1 DEF Submitted
<1>12. Placed'
  <2>1. Once(waiting')
        BY <1>3, <1>4, <1>10 DEF IInv, Placed, Unfinished
  <2>2. Apart(Elements(waiting'), out', Elements(done'), Elements(undispatched'),
              Elements(carried'))
    <3>1. /\ N \cap out = {} /\ N \cap Elements(done) = {} /\ N \cap Elements(undispatched) = {}
          /\ N \cap Elements(carried) = {}
          BY <1>10 DEF Unfinished
    <3>2. Apart(Elements(waiting), out, Elements(done), Elements(undispatched),
                Elements(carried))
          BY <1>3 DEF IInv, Placed
    <3>   HIDE DEF N
    <3>   QED
          BY <1>1, <1>4, <3>1, <3>2 DEF Apart
  <2>3. Accounted(Unfinished', Buffered', Samples(complete)', delivered', discarded',
                  (0 .. nextRoot' - 1) \X (1 .. GroupSize))
        BY <1>1, <1>5, <1>10, <1>11
  <2>4. /\ Once(done') /\ Once(undispatched') /\ Once(carried')
        /\ PendingKept(pending') /\ GroupsKept(complete')
        BY <1>1, <1>3 DEF IInv, Placed
  <2>   QED
        BY <2>1, <2>2, <2>3, <2>4 DEF Placed
<1> QED
    BY <1>1, <1>6, <1>7, <1>8, <1>12 DEF IInv, ChecksHold

\* The step moves siblings which are still to come: these stay the same ones.
Moves ==
  /\ Unfinished' = Unfinished
  /\ UNCHANGED <<pending, complete, delivered, discarded, nextRoot, failure, publishedVersion>>

\* Such a step keeps the invariant if it keeps apart what it moves.
LEMMA MovesKeep ==
  ASSUME IInv, Moves, TypeInv', AtCall', Sound' => Sound,
         Sound' =>
           /\ Once(waiting') /\ Once(done') /\ Once(undispatched') /\ Once(carried')
           /\ Apart(Elements(waiting'), out', Elements(done'), Elements(undispatched'),
                    Elements(carried'))
  PROVE  IInv'
<1>1. Buffered' = Buffered /\ Samples(complete)' = Samples(complete)
      BY DEF Buffered, Moves
<1>2. Stamped'
      BY <1>1 DEF IInv, Stamped, Moves
<1>3. Placed'
  <2>1. Sound => /\ PendingKept(pending) /\ GroupsKept(complete)
                 /\ Accounted(Unfinished, Buffered, Samples(complete), delivered, discarded,
                              (0 .. nextRoot - 1) \X (1 .. GroupSize))
        BY DEF IInv, Placed
  <2>   QED
        BY <1>1, <2>1 DEF Placed, Moves
<1>4. ChecksHold'
      BY DEF IInv, ChecksHold, Moves
<1> QED
    BY <1>2, <1>3, <1>4 DEF IInv

\* The places of what is to come, in a sound manager.
LEMMA SoundPlaces ==
  ASSUME IInv, Sound
  PROVE  /\ Once(waiting) /\ Once(done) /\ Once(undispatched) /\ Once(carried)
         /\ Apart(Elements(waiting), out, Elements(done), Elements(undispatched),
                  Elements(carried))
         /\ waiting \in Seq(Task) /\ done \in Seq(Task) /\ undispatched \in Seq(Task)
         /\ carried \in Seq(Task)
  BY DEF IInv, Placed, TypeInv

\* submit, of what quiesce returned.
LEMMA ResubmitKeeps ==
  ASSUME IInv, Resubmit
  PROVE  IInv'
<1>1. /\ dpc = "idle" /\ failure = "none"
      /\ waiting' = waiting \o carried /\ carried' = <<>> /\ paused' = FALSE
      /\ UNCHANGED <<out, done, broken, stopping, pending, complete, publishedVersion, failure,
                     dpc, want, undispatched, trainVersion, nextRoot, delivered, discarded>>
      BY DEF Resubmit, Usable, managerVars
<1>2. Sound
      BY <1>1 DEF Sound
<1>3. /\ Once(waiting) /\ Once(done) /\ Once(undispatched) /\ Once(carried)
      /\ Apart(Elements(waiting), out, Elements(done), Elements(undispatched),
               Elements(carried))
      /\ waiting \in Seq(Task) /\ carried \in Seq(Task)
      BY <1>2, SoundPlaces
<1>4. waiting' \in Seq(Task) /\ Splits(waiting', waiting, carried)
      BY <1>1, <1>3, Joined
<1>5. Elements(waiting') = Elements(waiting) \cup Elements(carried) /\ Once(waiting')
      BY <1>3, <1>4 DEF Splits, Apart
<1>6. Elements(carried') = {} /\ Once(carried') /\ carried' \in Seq(Task)
      BY <1>1, NoElements
<1>7. Moves
      BY <1>1, <1>5, <1>6 DEF Moves, Unfinished
<1>8. TypeInv'
      BY <1>1, <1>4, <1>6 DEF IInv, TypeInv
<1>9. AtCall'
      BY <1>1 DEF IInv, AtCall, Sound, Settling
<1>10. Apart(Elements(waiting'), out', Elements(done'), Elements(undispatched'),
             Elements(carried'))
       BY <1>1, <1>3, <1>5, <1>6 DEF Apart
<1> QED
    BY <1>1, <1>2, <1>3, <1>5, <1>6, <1>7, <1>8, <1>9, <1>10, MovesKeep

\* quiesce and close pause the pool and tell the engines.
LEMMA PauseKeeps ==
  ASSUME IInv, dpc = "idle", failure = "none", NEW call \in Settling, PauseAndStop(call),
         call = "quiesce" => carried = <<>>
  PROVE  IInv'
<1>1. /\ waiting' = <<>> /\ undispatched' = waiting /\ paused' = TRUE /\ stopping' = TRUE
      /\ dpc' = call
      /\ UNCHANGED <<out, done, broken, pending, complete, publishedVersion, failure, want,
                     carried, trainVersion, nextRoot, delivered, discarded>>
      BY DEF PauseAndStop, managerVars
<1>2. Sound /\ undispatched = <<>>
      BY DEF Sound, IInv, AtCall, Settling
<1>3. /\ Once(waiting) /\ Once(done) /\ Once(carried)
      /\ Apart(Elements(waiting), out, Elements(done), Elements(undispatched),
               Elements(carried))
      /\ waiting \in Seq(Task)
      BY <1>2, SoundPlaces
<1>4. Elements(<<>>) = {} /\ Once(<<>>) /\ <<>> \in Seq(Task)
      BY NoElements
<1>5. Moves
      BY <1>1, <1>2, <1>4 DEF Moves, Unfinished
<1>6. TypeInv'
      BY <1>1, <1>3, <1>4 DEF IInv, TypeInv, Settling
<1>7. AtCall'
      BY <1>1 DEF IInv, AtCall, Sound, Settling
<1>8. Apart(Elements(waiting'), out', Elements(done'), Elements(undispatched'),
            Elements(carried'))
      BY <1>1, <1>2, <1>3, <1>4 DEF Apart
<1> QED
    BY <1>1, <1>2, <1>3, <1>4, <1>5, <1>6, <1>7, <1>8, MovesKeep

\* finish runs a prefix of the carry.
LEMMA FinishKeeps ==
  ASSUME IInv, NEW k \in 1 .. Len(carried), Finish(k)
  PROVE  IInv'
<1> DEFINE front == SubSeq(carried, 1, k)
           rest  == SubSeq(carried, k + 1, Len(carried))
<1>1. /\ dpc = "idle" /\ failure = "none" /\ waiting = <<>>
      /\ waiting' = front /\ carried' = rest /\ paused' = FALSE /\ dpc' = "finish"
      /\ UNCHANGED <<out, done, broken, stopping, pending, complete, publishedVersion, failure,
                     want, undispatched, trainVersion, nextRoot, delivered, discarded>>
      BY DEF Finish, Usable, Live, managerVars
<1>2. Sound
      BY <1>1 DEF Sound
<1>3. /\ Once(waiting) /\ Once(done) /\ Once(undispatched) /\ Once(carried)
      /\ Apart(Elements(waiting), out, Elements(done), Elements(undispatched),
               Elements(carried))
      /\ carried \in Seq(Task)
      BY <1>2, SoundPlaces
<1>4. front \in Seq(Task) /\ rest \in Seq(Task) /\ Splits(carried, front, rest)
  <2>1. k \in 0 .. Len(carried)
        BY <1>3
  <2>   QED
        BY <1>3, <2>1, Cut
<1> HIDE DEF front, rest
<1>5. /\ Elements(carried) = Elements(waiting') \cup Elements(carried')
      /\ Once(waiting') /\ Once(carried') /\ Elements(waiting') \cap Elements(carried') = {}
      BY <1>1, <1>3, <1>4 DEF Splits
<1>6. Elements(waiting) = {}
      BY <1>1, NoElements
<1>7. Moves
      BY <1>1, <1>5, <1>6 DEF Moves, Unfinished
<1>8. TypeInv'
      BY <1>1, <1>4 DEF IInv, TypeInv
<1>9. AtCall'
      BY <1>1 DEF IInv, AtCall, Sound, Settling
<1>10. Apart(Elements(waiting'), out', Elements(done'), Elements(undispatched'),
             Elements(carried'))
       BY <1>1, <1>3, <1>5 DEF Apart
<1> QED
    BY <1>1, <1>2, <1>3, <1>5, <1>7, <1>8, <1>9, <1>10, MovesKeep

\* A task is launched.
LEMMA StartKeeps ==
  ASSUME IInv, Start
  PROVE  IInv'
<1> DEFINE h == Head(waiting)
<1>1. /\ waiting # <<>> /\ out' = out \cup {h} /\ waiting' = Tail(waiting)
      /\ UNCHANGED <<done, paused, broken, stopping, pending, complete, publishedVersion,
                     failure, dpc, want, undispatched, carried, trainVersion, nextRoot,
                     delivered, discarded>>
      BY DEF Start, managerVars, driverVars
<1>2. waiting \in Seq(Task)
      BY DEF IInv, TypeInv
<1>3. /\ h \in Task /\ waiting' \in Seq(Task)
      /\ Elements(waiting) = Elements(waiting') \cup {h}
      /\ Once(waiting) => Once(waiting') /\ h \notin Elements(waiting')
      BY <1>1, <1>2, HeadAndTail
<1> HIDE DEF h
<1>4. Moves
      BY <1>1, <1>3 DEF Moves, Unfinished
<1>5. TypeInv'
      BY <1>1, <1>3 DEF IInv, TypeInv
<1>6. AtCall'
      BY <1>1 DEF IInv, AtCall, Sound, Settling
<1>7. Sound' => Sound
      BY <1>1 DEF Sound
<1>8. ASSUME Sound
      PROVE  /\ Once(waiting') /\ Once(done') /\ Once(undispatched') /\ Once(carried')
             /\ Apart(Elements(waiting'), out', Elements(done'), Elements(undispatched'),
                      Elements(carried'))
  <2>1. /\ Once(waiting) /\ Once(done) /\ Once(undispatched) /\ Once(carried)
        /\ Apart(Elements(waiting), out, Elements(done), Elements(undispatched),
                 Elements(carried))
        BY <1>8, SoundPlaces
  <2>   QED
        BY <1>1, <1>3, <2>1 DEF Apart
<1> QED
    BY <1>4, <1>5, <1>6, <1>7, <1>8, MovesKeep

\* A sibling t that runs is taken out, and put back, or among the results, as u.
Runs(t, u) ==
  /\ t \in out /\ u \in Task /\ u.root = t.root /\ u.copy = t.copy
  /\ u.versions \subseteq t.versions \cup {publishedVersion}
  /\ \/ out' = (out \ {t}) \cup {u} /\ done' = done
     \/ out' = out \ {t} /\ done' = Append(done, u)
  /\ UNCHANGED <<waiting, undispatched, carried, pending, complete, delivered, discarded,
                 nextRoot, failure, publishedVersion, dpc>>

\* Such a step keeps the invariant.
LEMMA RunsKeep ==
  ASSUME IInv, NEW t, NEW u, Runs(t, u), TypeInv', AtCall'
  PROVE  IInv'
<1>1. done \in Seq(Task) /\ out \subseteq Task /\ publishedVersion \in Nat
      BY Bounds DEF IInv, TypeInv
<1>2. /\ done' = Append(done, u) => /\ Elements(done') = Elements(done) \cup {u}
                                    /\ Once(done) /\ u \notin Elements(done) => Once(done')
  <2>1. Extends(Append(done, u), done, u)
        BY <1>1, OneMore DEF Runs
  <2>   QED
        BY <2>1 DEF Extends
<1>3. Buffered' = Buffered /\ Samples(complete)' = Samples(complete) /\ Sound' = Sound
      BY DEF Buffered, Runs, Sound
<1>4. Unfinished' \subseteq Unfinished \cup {u}
      BY <1>2 DEF Unfinished, Runs
<1>5. Stamped'
  <2>1. \A s \in Unfinished \cup Buffered \cup Samples(complete) :
          s.versions \subseteq 0 .. publishedVersion
        BY DEF IInv, Stamped
  <2>2. t.versions \subseteq 0 .. publishedVersion /\ publishedVersion \in 0 .. publishedVersion
        BY <1>1, <2>1 DEF Runs, Unfinished
  <2>3. u.versions \subseteq 0 .. publishedVersion
        BY <2>2 DEF Runs
  <2>4. publishedVersion' = publishedVersion
        BY DEF Runs
  <2>   QED
        BY <1>3, <1>4, <2>1, <2>3, <2>4 DEF Stamped
<1>6. Placed'
  <2>   SUFFICES ASSUME Sound PROVE Placed'
        BY <1>3 DEF Placed
  <2>1. /\ Once(waiting) /\ Once(done) /\ Once(undispatched) /\ Once(carried)
        /\ Apart(Elements(waiting), out, Elements(done), Elements(undispatched),
                 Elements(carried))
        BY SoundPlaces
  <2>2. Accounted(Unfinished, Buffered, Samples(complete), delivered, discarded, Submitted)
        BY DEF IInv, Placed, Submitted
  <2>3. t \in Unfinished /\ u.root = t.root /\ u.copy = t.copy
        BY DEF Unfinished, Runs
  <2>4. /\ u \notin (Unfinished \ {t}) \cup Buffered \cup Samples(complete)
        /\ Accounted((Unfinished \ {t}) \cup {u}, Buffered, Samples(complete), delivered,
                     discarded, Submitted)
        BY <2>2, <2>3, ReplaceOne, Zenon
  <2>5. /\ t \notin Elements(waiting) /\ t \notin Elements(done)
        /\ t \notin Elements(undispatched) /\ t \notin Elements(carried)
        BY <2>1 DEF Apart, Runs
  <2>6. /\ u \notin Elements(waiting) /\ u \notin Elements(done)
        /\ u \notin Elements(undispatched) /\ u \notin Elements(carried)
        BY <2>4, <2>5 DEF Unfinished
  <2>7. Unfinished' = (Unfinished \ {t}) \cup {u}
        BY <1>2, <2>5 DEF Unfinished, Runs
  <2>8. Apart(Elements(waiting'), out', Elements(done'), Elements(undispatched'),
              Elements(carried'))
    <3>1. CASE out' = (out \ {t}) \cup {u} /\ done' = done
          BY <2>1, <2>6, <3>1 DEF Apart, Runs
    <3>2. CASE out' = out \ {t} /\ done' = Append(done, u)
      <4>1. Elements(done') = Elements(done) \cup {u}
            BY <1>2, <3>2
      <4>2. u \notin out'
            BY <2>4, <3>2 DEF Unfinished
      <4>   QED
            BY <2>1, <2>6, <3>2, <4>1, <4>2 DEF Apart, Runs
    <3>   QED
          BY <3>1, <3>2 DEF Runs
  <2>9. Accounted(Unfinished', Buffered', Samples(complete)', delivered', discarded',
                  (0 .. nextRoot' - 1) \X (1 .. GroupSize))
    <3>1. delivered' = delivered /\ discarded' = discarded /\ nextRoot' = nextRoot
          BY DEF Runs
    <3>2. Submitted = (0 .. nextRoot' - 1) \X (1 .. GroupSize)
          BY <3>1 DEF Submitted
    <3>   QED
          BY <1>3, <2>4, <2>7, <3>1, <3>2
  <2>10. /\ Once(waiting') /\ Once(undispatched') /\ Once(carried') /\ Once(done')
         /\ PendingKept(pending') /\ GroupsKept(complete')
    <3>1. PendingKept(pending) /\ GroupsKept(complete)
          BY DEF IInv, Placed
    <3>2. Once(done')
          BY <1>2, <2>1, <2>6 DEF Runs
    <3>   QED
          BY <2>1, <3>1, <3>2 DEF Runs
  <2>   QED
        BY <2>8, <2>9, <2>10 DEF Placed
<1>7. ChecksHold'
      BY DEF IInv, ChecksHold, Runs
<1> QED
    BY <1>5, <1>6, <1>7 DEF IInv

\* A turn of a trajectory.
LEMMA TurnKeeps ==
  ASSUME IInv, NEW t \in out, Turn(t)
  PROVE  IInv'
<1> DEFINE u == [t EXCEPT !.versions = @ \cup {publishedVersion}]
<1>1. /\ out' = (out \ {t}) \cup {u}
      /\ UNCHANGED <<waiting, done, paused, broken, stopping, pending, complete,
                     publishedVersion, failure, dpc, want, undispatched, carried,
                     trainVersion, nextRoot, delivered, discarded>>
      BY DEF Turn, managerVars, driverVars
<1>2. t \in Task /\ publishedVersion \in 0 .. MaxVersion
      BY DEF IInv, TypeInv
<1>3. /\ u \in Task /\ u.root = t.root /\ u.copy = t.copy
      /\ u.versions = t.versions \cup {publishedVersion}
      BY <1>2 DEF Task
<1> HIDE DEF u
<1>4. TypeInv'
      BY <1>1, <1>3 DEF IInv, TypeInv
<1>5. AtCall'
      BY <1>1 DEF IInv, AtCall, Sound, Settling
<1>6. Runs(t, u)
      BY <1>1, <1>3 DEF Runs
<1> QED
    BY <1>4, <1>5, <1>6, RunsKeep

\* A trajectory ends, or is suspended.
LEMMA ReturnKeeps ==
  ASSUME IInv, NEW t \in out, Return(t)
  PROVE  IInv'
<1>1. PICK status \in {"terminal", "suspended", "malformed"} :
        /\ status = "suspended" => stopping
        /\ done' = Append(done, [t EXCEPT !.status = status])
      BY DEF Return
<1> DEFINE u == [t EXCEPT !.status = status]
<1>2. /\ out' = out \ {t} /\ done' = Append(done, u)
      /\ UNCHANGED <<waiting, paused, broken, stopping, pending, complete,
                     publishedVersion, failure, dpc, want, undispatched, carried,
                     trainVersion, nextRoot, delivered, discarded>>
      BY <1>1 DEF Return, managerVars, driverVars
<1>3. t \in Task /\ done \in Seq(Task)
      BY DEF IInv, TypeInv
<1>4. /\ u \in Task /\ u.root = t.root /\ u.copy = t.copy /\ u.versions = t.versions
      /\ u.status = status
      BY <1>3 DEF Task
<1> HIDE DEF u
<1>5. done' \in Seq(Task) /\ Elements(done') = Elements(done) \cup {u}
      BY <1>2, <1>3, <1>4, OneMore DEF Extends
<1>6. TypeInv'
      BY <1>2, <1>5 DEF IInv, TypeInv
<1>7. AtCall'
  <2>1. Sound /\ stopping => dpc \in Settling
        BY DEF IInv, AtCall
  <2>2. \A s \in Elements(done') :
          /\ s.status # "new"
          /\ Sound /\ s.status = "suspended" => dpc \in Settling
        BY <1>1, <1>4, <1>5, <2>1 DEF IInv, AtCall
  <2>3. Sound' = Sound
        BY <1>2 DEF Sound
  <2>   QED
        BY <1>2, <2>2, <2>3 DEF IInv, AtCall, Settling
<1>8. Runs(t, u)
      BY <1>2, <1>4 DEF Runs
<1> QED
    BY <1>6, <1>7, <1>8, RunsKeep


\* What a call takes from the pool is sound but for what an engine has not stamped.
LEMMA ChecksPass ==
  ASSUME IInv, Sound
  PROVE  /\ dpc \notin Settling => ~Untimely
         /\ dpc \notin Settling /\ RaisesAt(trainVersion) => Unstamped
         /\ SettleRaises(trainVersion) => Unstamped
         /\ SettleRaises(publishedVersion) => Unstamped
<1>1. dpc \notin Settling => ~Untimely
      BY DEF IInv, AtCall, Untimely
<1>2. /\ trainVersion \in Nat /\ publishedVersion \in Nat
      /\ publishedVersion <= trainVersion /\ publishedVersion <= publishedVersion
      BY Bounds DEF IInv, TypeInv
<1>3. /\ ~Future(Samples(Routed(done).complete), trainVersion)
      /\ ~Future(Samples(Routed(done).complete) \cup Elements(undispatched \o done),
                 trainVersion)
      BY <1>2, NothingFuture
<1>4. ~Future(Samples(Routed(done).complete) \cup Elements(undispatched \o done),
              publishedVersion)
      BY <1>2, NothingFuture
<1> QED
    BY <1>1, <1>3, <1>4 DEF RaisesAt, SettleRaises

\* Steps after which nothing is promised any more, the pool being lost or closed.
LEMMA LossKeeps ==
  ASSUME IInv, done' = <<>>, dpc' \in {"idle", "closed"}, ~Sound',
         failure' \in {failure, "engine"},
         waiting' \in {waiting, <<>>}, out' \in {out, {}}, paused' \in {paused, TRUE},
         UNCHANGED <<broken, stopping, pending, complete, publishedVersion, want,
                     undispatched, carried, trainVersion, nextRoot, delivered, discarded>>
  PROVE  IInv'
<1>1. Elements(<<>>) = {} /\ <<>> \in Seq(Task)
      BY NoElements
<1>2. TypeInv'
  <2>1. waiting' \in Seq(Task) /\ done' \in Seq(Task) /\ out' \in SUBSET Task
        BY <1>1 DEF IInv, TypeInv
  <2>2. paused' \in BOOLEAN
        BY Zenon DEF IInv, TypeInv
  <2>3. /\ failure' \in {"none", "engine", "starved", "check"}
        /\ dpc' \in {"idle", "collect", "quiesce", "finish", "close", "closed"}
        BY DEF IInv, TypeInv
  <2>   QED
        BY <2>1, <2>2, <2>3 DEF IInv, TypeInv
<1>3. Stamped'
  <2>1. Elements(waiting') \subseteq Elements(waiting) /\ out' \subseteq out /\ Elements(done') = {}
        BY <1>1
  <2>2. Unfinished' \subseteq Unfinished
        BY <2>1 DEF Unfinished
  <2>   QED
        BY <2>2 DEF IInv, Stamped, Buffered
<1>4. AtCall'
  <2>1. dpc' \notin Settling /\ dpc' \notin {"collect", "quiesce", "finish", "close"}
        BY DEF Settling
  <2>2. Elements(done') = {}
        BY <1>1
  <2>   QED
        BY <2>1, <2>2 DEF AtCall, Settling
<1>5. Placed' /\ ChecksHold'
      BY DEF Placed, ChecksHold, IInv
<1> QED
    BY <1>2, <1>3, <1>4, <1>5 DEF IInv

\* A call raises.
LEMMA RaiseKeeps ==
  ASSUME IInv, NEW why, Raise(why), Unstamped \/ why = "engine"
  PROVE  IInv'
<1>1. failure' = "engine"
      BY DEF Raise, Poison
<1>2. ~Sound'
      BY <1>1 DEF Sound
<1> QED
    BY <1>1, <1>2, LossKeeps DEF Raise

\* close, and what is left to it when the manager or the pool is not in order.
LEMMA ClosePoolKeeps ==
  ASSUME IInv, ClosePool, failure' \in {failure, "engine"}
  PROVE  IInv'
<1>1. ~Sound'
      BY DEF ClosePool, Sound
<1> QED
    BY <1>1, LossKeeps DEF ClosePool

\* Steps that route all results to the buffers, and drop or hand over groups.
LEMMA RoutingKeeps ==
  ASSUME IInv, Sound, TypeInv', AtCall', ChecksHold',
         publishedVersion <= publishedVersion',
         UNCHANGED <<waiting, out, undispatched, carried, nextRoot>>, done' = <<>>,
         PendingKept(pending'), GroupsKept(complete'),
         InBuffer(pending') \cup Samples(complete') \subseteq Everything,
         Accounted(Unfinished \ Elements(done), InBuffer(pending'), Samples(complete'),
                   delivered', discarded', Submitted)
  PROVE  IInv'
<1>1. Elements(done') = {} /\ Once(done')
      BY NoElements
<1>2. /\ Once(waiting) /\ Once(undispatched) /\ Once(carried)
      /\ Apart(Elements(waiting), out, Elements(done), Elements(undispatched),
               Elements(carried))
      BY SoundPlaces
<1>3. Unfinished' = Unfinished \ Elements(done)
      BY <1>1, <1>2 DEF Unfinished, Apart
<1>4. Buffered' = InBuffer(pending')
      BY DEF Buffered, InBuffer
<1>5. Stamped'
  <2>1. publishedVersion' \in Nat
        BY Bounds DEF TypeInv
  <2>2. (Unfinished \cup Buffered \cup Samples(complete))' \subseteq Everything
        BY <1>3, <1>4 DEF Everything
  <2>   QED
        BY <2>1, <2>2, StampedStays DEF IInv
<1>6. Apart(Elements(waiting'), out', Elements(done'), Elements(undispatched'),
            Elements(carried'))
      BY <1>1, <1>2 DEF Apart
<1>7. Accounted(Unfinished', Buffered', Samples(complete'), delivered', discarded',
                (0 .. nextRoot' - 1) \X (1 .. GroupSize))
      BY <1>3, <1>4 DEF Submitted
<1>8. Placed'
      BY <1>1, <1>2, <1>6, <1>7 DEF Placed
<1> QED
    BY <1>5, <1>8 DEF IInv

\* Outside quiesce and close every stamped result is of a finished sibling.
LEMMA AllFinished ==
  ASSUME IInv, Sound, ~Unstamped, ~Untimely
  PROVE  Finished(done) = Elements(done)
<1>1. done \in Seq(Task)
      BY DEF IInv, TypeInv
<1>2. \A t \in Elements(done) : t \in Task
      BY <1>1, InSequence
<1>3. \A t \in Elements(done) : t.status = "terminal"
      BY <1>2 DEF Unstamped, Untimely, Task, IInv, AtCall
<1> QED
    BY <1>3 DEF Finished

\* What routing and the filter make of what there is.
LEMMA AfterFilter ==
  ASSUME IInv, Sound, ~Unstamped, ~Untimely, NEW v
  PROVE  LET buffers == Routed(done)
             kept    == Filtered(buffers.complete, v)
             dropped == Samples(buffers.complete) \ Samples(kept)
         IN  /\ buffers.pending \in [Root -> Seq(Task)] /\ PendingKept(buffers.pending)
             /\ kept \in Seq(Seq(Task)) /\ GroupsKept(kept)
             /\ InBuffer(buffers.pending) \cup Samples(kept) \subseteq Everything
             /\ Accounted(Unfinished \ Elements(done), InBuffer(buffers.pending),
                          Samples(kept), delivered, discarded \cup Ids(dropped), Submitted)
             /\ Ids(dropped) \subseteq Id
<1> DEFINE buffers == Routed(done)
           kept    == Filtered(buffers.complete, v)
           dropped == Samples(buffers.complete) \ Samples(kept)
<1>1. /\ buffers \in Buffers
      /\ Filled(buffers, Unfinished \ Elements(done), delivered, discarded, Submitted,
                Everything)
      BY AfterRouting, AllFinished
<1> HIDE DEF buffers
<1>2. /\ buffers.pending \in [Root -> Seq(Task)] /\ buffers.complete \in Seq(Seq(Task))
      /\ PendingKept(buffers.pending) /\ GroupsKept(buffers.complete)
      /\ Accounted(Unfinished \ Elements(done), InBuffer(buffers.pending),
                   Samples(buffers.complete), delivered, discarded, Submitted)
      /\ InBuffer(buffers.pending) \cup Samples(buffers.complete) \subseteq Everything
      BY <1>1 DEF Filled, Buffers
<1>3. /\ kept \in Seq(Seq(Task)) /\ GroupsKept(kept)
      /\ Samples(kept) \subseteq Samples(buffers.complete)
      BY <1>2, FilterKeeps
<1> HIDE DEF kept
<1>4. Accounted(Unfinished \ Elements(done), InBuffer(buffers.pending), Samples(kept),
                delivered, discarded \cup Ids(dropped), Submitted)
      BY <1>2, <1>3, LeaveGroups
<1>5. Ids(dropped) \subseteq Id
      BY <1>2, InTask
<1> QED
    BY <1>2, <1>3, <1>4, <1>5 DEF buffers, kept

\* A turn of collect.
LEMMA CollectTurnKeeps ==
  ASSUME IInv, CollectTurn
  PROVE  IInv'
<1> DEFINE buffers == Routed(done)
           kept    == Filtered(buffers.complete, trainVersion)
           dropped == Samples(buffers.complete) \ Samples(kept)
           front   == SubSeq(kept, 1, want)
           rest    == SubSeq(kept, want + 1, Len(kept))
<1>1. dpc = "collect" /\ Sound /\ dpc \notin Settling
      BY DEF CollectTurn, IInv, AtCall, Sound, Settling
<1>2. CASE RaisesAt(trainVersion)
  <2>1. Raise("check") /\ Unstamped
        BY <1>1, <1>2, ChecksPass DEF CollectTurn
  <2>   QED
        BY <2>1, RaiseKeeps
<1>3. CASE ~RaisesAt(trainVersion)
  <2>1. ~Unstamped /\ ~Untimely
        BY <1>3 DEF RaisesAt
  <2>2. /\ pending' = buffers.pending /\ done' = <<>>
        /\ discarded' = discarded \cup Ids(dropped)
        /\ UNCHANGED <<waiting, out, paused, broken, stopping, publishedVersion, want,
                       undispatched, carried, trainVersion, nextRoot>>
        BY <1>3 DEF CollectTurn
  <2>3. \/ /\ Len(kept) >= want /\ delivered' = delivered \cup Ids(Samples(front))
           /\ complete' = rest /\ dpc' = "idle" /\ UNCHANGED failure
        \/ /\ complete' = kept /\ UNCHANGED delivered
           /\ \/ failure' = "starved" /\ dpc' = "idle"
              \/ UNCHANGED <<failure, dpc>>
        BY <1>3 DEF CollectTurn, Poison
  <2>4. /\ buffers.pending \in [Root -> Seq(Task)] /\ PendingKept(buffers.pending)
        /\ kept \in Seq(Seq(Task)) /\ GroupsKept(kept)
        /\ InBuffer(buffers.pending) \cup Samples(kept) \subseteq Everything
        /\ Accounted(Unfinished \ Elements(done), InBuffer(buffers.pending),
                     Samples(kept), delivered, discarded \cup Ids(dropped), Submitted)
        /\ Ids(dropped) \subseteq Id
        BY <1>1, <2>1, AfterFilter
  <2>   HIDE DEF dropped, kept, buffers
  <2>5. /\ complete' \in Seq(Seq(Task)) /\ GroupsKept(complete')
        /\ Samples(complete') \subseteq Samples(kept)
        /\ Accounted(Unfinished \ Elements(done), InBuffer(pending'), Samples(complete'),
                     delivered', discarded', Submitted)
        /\ delivered' \subseteq Id
    <3>1. CASE complete' = kept /\ UNCHANGED delivered
          BY <2>2, <2>4, <3>1 DEF IInv, TypeInv
    <3>2. CASE /\ Len(kept) >= want /\ delivered' = delivered \cup Ids(Samples(front))
               /\ complete' = rest
      <4>1. want \in 0 .. Len(kept)
            BY <2>4, <3>2, Bounds DEF IInv, TypeInv
      <4>2. /\ rest \in Seq(Seq(Task)) /\ GroupsKept(rest)
            /\ Samples(rest) \subseteq Samples(kept)
            /\ \A t : t \in Samples(front) <=> t \in Samples(kept) /\ t \notin Samples(rest)
            BY <2>4, <4>1, TakeKeeps
      <4>   HIDE DEF front, rest
      <4>3. Samples(front) = Samples(kept) \ Samples(rest)
            BY <4>2
      <4>4. Accounted(Unfinished \ Elements(done), InBuffer(buffers.pending), Samples(rest),
                      delivered \cup Ids(Samples(kept) \ Samples(rest)),
                      discarded \cup Ids(dropped), Submitted)
            BY <2>4, <4>2, LeaveGroups
      <4>5. Ids(Samples(front)) \subseteq Id
        <5>1. Samples(front) \in SUBSET Task
              BY <2>4, <4>3, InTask
        <5>   QED
              BY <5>1, InTask
      <4>6. delivered' \subseteq Id
            BY <3>2, <4>5 DEF IInv, TypeInv
      <4>   QED
            BY <2>2, <3>2, <4>2, <4>3, <4>4, <4>6
    <3>   QED
          BY <2>3, <3>1, <3>2
  <2>6. TypeInv'
    <3>1. done' \in Seq(Task)
          BY <2>2
    <3>2. discarded' \in SUBSET Id
          BY <2>2, <2>4 DEF IInv, TypeInv
    <3>3. /\ failure' \in {"none", "engine", "starved", "check"}
          /\ dpc' \in {"idle", "collect", "quiesce", "finish", "close", "closed"}
          BY <2>3 DEF IInv, TypeInv
    <3>   QED
          BY <2>2, <2>4, <2>5, <3>1, <3>2, <3>3 DEF IInv, TypeInv
  <2>7. AtCall'
    <3>1. Elements(done') = {}
          BY <2>2, NoElements
    <3>2. dpc' = "idle" \/ (dpc' = "collect" /\ failure' = failure)
          BY <1>1, <2>3
    <3>3. failure = "none" /\ undispatched = <<>> /\ ~stopping
          BY <1>1 DEF IInv, AtCall, Sound
    <3>   QED
          BY <2>2, <3>1, <3>2, <3>3 DEF AtCall, Settling
  <2>8. ChecksHold'
        BY <2>3 DEF IInv, ChecksHold
  <2>9. publishedVersion <= publishedVersion'
        BY <2>2, Bounds DEF IInv, TypeInv
  <2>10. /\ PendingKept(pending')
         /\ InBuffer(pending') \cup Samples(complete') \subseteq Everything
         BY <2>2, <2>4, <2>5
  <2>   QED
        BY <1>1, <2>2, <2>5, <2>6, <2>7, <2>8, <2>9, <2>10, RoutingKeeps
<1> QED
    BY <1>2, <1>3

\* finish returns.
LEMMA FinishReturnsKeeps ==
  ASSUME IInv, FinishReturns
  PROVE  IInv'
<1> DEFINE buffers == Routed(done)
           kept    == Filtered(buffers.complete, trainVersion)
           dropped == Samples(buffers.complete) \ Samples(kept)
<1>1. dpc = "finish" /\ Sound /\ dpc \notin Settling
      BY DEF FinishReturns, IInv, AtCall, Sound, Settling
<1>2. CASE RaisesAt(trainVersion)
  <2>1. Raise("check") /\ Unstamped
        BY <1>1, <1>2, ChecksPass DEF FinishReturns
  <2>   QED
        BY <2>1, RaiseKeeps
<1>3. CASE ~RaisesAt(trainVersion)
  <2>1. ~Unstamped /\ ~Untimely
        BY <1>3 DEF RaisesAt
  <2>2. /\ pending' = buffers.pending /\ complete' = kept /\ done' = <<>>
        /\ discarded' = discarded \cup Ids(dropped) /\ paused' = TRUE /\ dpc' = "idle"
        /\ UNCHANGED <<waiting, out, broken, stopping, publishedVersion, failure, want,
                       undispatched, carried, trainVersion, nextRoot, delivered>>
        BY <1>3 DEF FinishReturns
  <2>3. /\ buffers.pending \in [Root -> Seq(Task)] /\ PendingKept(buffers.pending)
        /\ kept \in Seq(Seq(Task)) /\ GroupsKept(kept)
        /\ InBuffer(buffers.pending) \cup Samples(kept) \subseteq Everything
        /\ Accounted(Unfinished \ Elements(done), InBuffer(buffers.pending),
                     Samples(kept), delivered, discarded \cup Ids(dropped), Submitted)
        /\ Ids(dropped) \subseteq Id
        BY <1>1, <2>1, AfterFilter
  <2>   HIDE DEF dropped, kept, buffers
  <2>4. TypeInv'
    <3>1. done' \in Seq(Task)
          BY <2>2
    <3>2. discarded' \in SUBSET Id
          BY <2>2, <2>3 DEF IInv, TypeInv
    <3>   QED
          BY <2>2, <2>3, <3>1, <3>2 DEF IInv, TypeInv
  <2>5. AtCall'
    <3>1. Elements(done') = {}
          BY <2>2, NoElements
    <3>2. failure = "none" /\ undispatched = <<>> /\ ~stopping
          BY <1>1 DEF IInv, AtCall, Sound
    <3>   QED
          BY <2>2, <3>1, <3>2 DEF AtCall, Settling
  <2>6. ChecksHold' /\ publishedVersion <= publishedVersion'
        BY <2>2, Bounds DEF IInv, ChecksHold, TypeInv
  <2>   QED
        BY <1>1, <2>2, <2>3, <2>4, <2>5, <2>6, RoutingKeeps
<1> QED
    BY <1>2, <1>3

\* sync_weights routes what has come back, and publishes.
LEMMA SyncWeightsKeeps ==
  ASSUME IInv, SyncWeights
  PROVE  IInv'
<1> DEFINE buffers == Routed(done)
<1>1. dpc = "idle" /\ Sound /\ dpc \notin Settling
      BY DEF SyncWeights, Usable, Sound, Settling
<1>2. ~Untimely
      BY <1>1, ChecksPass
<1>3. CASE Unstamped
  <2>1. Raise("check")
        BY <1>3 DEF SyncWeights
  <2>   QED
        BY <1>3, <2>1, RaiseKeeps
<1>4. CASE ~Unstamped
  <2>1. /\ pending' = buffers.pending /\ complete' = buffers.complete /\ done' = <<>>
        /\ publishedVersion' = trainVersion
        /\ UNCHANGED <<waiting, out, paused, broken, stopping, failure, dpc, want, undispatched,
                       carried, trainVersion, nextRoot, delivered, discarded>>
        BY <1>2, <1>4 DEF SyncWeights, OutputVersion, driverVars
  <2>2. /\ buffers \in Buffers
        /\ Filled(buffers, Unfinished \ Elements(done), delivered, discarded, Submitted,
                  Everything)
        BY <1>1, <1>2, <1>4, AfterRouting, AllFinished
  <2>   HIDE DEF buffers
  <2>3. /\ buffers.pending \in [Root -> Seq(Task)] /\ buffers.complete \in Seq(Seq(Task))
        /\ PendingKept(buffers.pending) /\ GroupsKept(buffers.complete)
        /\ Accounted(Unfinished \ Elements(done), InBuffer(buffers.pending),
                     Samples(buffers.complete), delivered, discarded, Submitted)
        /\ InBuffer(buffers.pending) \cup Samples(buffers.complete) \subseteq Everything
        BY <2>2 DEF Filled, Buffers
  <2>4. TypeInv'
    <3>1. done' \in Seq(Task)
          BY <2>1
    <3>2. publishedVersion' \in 0 .. MaxVersion /\ publishedVersion' <= trainVersion'
          BY <2>1, Bounds DEF IInv, TypeInv
    <3>   QED
          BY <2>1, <2>3, <3>1, <3>2 DEF IInv, TypeInv
  <2>5. AtCall'
    <3>1. Elements(done') = {}
          BY <2>1, NoElements
    <3>2. undispatched = <<>> /\ ~stopping
          BY <1>1 DEF IInv, AtCall
    <3>   QED
          BY <1>1, <2>1, <3>1, <3>2 DEF AtCall, Settling
  <2>6. ChecksHold' /\ publishedVersion <= publishedVersion'
        BY <2>1 DEF IInv, ChecksHold, TypeInv
  <2>   QED
        BY <1>1, <2>1, <2>3, <2>4, <2>5, <2>6, RoutingKeeps
<1> QED
    BY <1>3, <1>4

\* PendingGroups.discard empties whole buffers.
LEMMA DiscardKeeps ==
  ASSUME NEW buffer \in [Root -> Seq(Task)], PendingKept(buffer), NEW X \in SUBSET Root
  PROVE  /\ Discard(buffer, X) \in [Root -> Seq(Task)] /\ PendingKept(Discard(buffer, X))
         /\ InBuffer(Discard(buffer, X)) = {t \in InBuffer(buffer) : t.root \notin X}
         /\ UNION {Elements(buffer[r]) : r \in X} = {t \in InBuffer(buffer) : t.root \in X}
<1> DEFINE left == Discard(buffer, X)
<1>1. /\ left \in [Root -> Seq(Task)]
      /\ \A r \in Root : left[r] = IF r \in X THEN <<>> ELSE buffer[r]
      BY DEF Discard
<1> HIDE DEF left
<1>2. /\ Elements(<<>>) = {} /\ Once(<<>>) /\ Len(<<>>) < GroupSize
      BY NoElements, Bounds
<1>3. PendingKept(left)
      BY <1>1, <1>2 DEF PendingKept
<1>4. \A t : t \in InBuffer(left) <=> \E r \in Root \ X : t \in Elements(buffer[r])
      BY <1>1, <1>2 DEF InBuffer
<1>5. \A t : t \in InBuffer(buffer) <=> \E r \in Root : t \in Elements(buffer[r])
      BY DEF InBuffer
<1>6. \A r \in Root : \A t \in Elements(buffer[r]) : t.root = r
      BY DEF PendingKept
<1>7. InBuffer(left) = {t \in InBuffer(buffer) : t.root \notin X}
      BY <1>4, <1>5, <1>6
<1>8. UNION {Elements(buffer[r]) : r \in X} = {t \in InBuffer(buffer) : t.root \in X}
      BY <1>5, <1>6
<1> QED
    BY <1>1, <1>3, <1>7, <1>8 DEF left

\* The siblings that settling drops, and the tails it keeps.
SettleTails == undispatched \o Suspended(done)
SettleKept(v) ==
  {r \in {t.root : t \in Elements(SettleTails)} :
     KeepRoot(r, Routed(done).pending, SettleTails, v)}
SettleLost(v) == {t.root : t \in Elements(SettleTails)} \ SettleKept(v)
SettleDropped(v) ==
  (UNION {Elements(Routed(done).pending[r]) : r \in SettleLost(v)})
    \cup (Elements(SettleTails) \ Elements(GatherTails(SettleTails, SettleKept(v))))
    \cup (Samples(Routed(done).complete) \ Samples(Filtered(Routed(done).complete, v)))

\* The tails are what pause returned and the suspended results, each once.
LEMMA TailsAre ==
  ASSUME IInv, Sound
  PROVE  /\ SettleTails \in Seq(Task) /\ Once(SettleTails)
         /\ Elements(SettleTails) =
              Elements(undispatched) \cup {t \in Elements(done) : t.status = "suspended"}
<1> DEFINE S == {t \in Elements(done) : t.status = "suspended"}
           halted == Suspended(done)
<1>1. /\ Once(done) /\ Once(undispatched) /\ Elements(done) \cap Elements(undispatched) = {}
      /\ done \in Seq(Task) /\ undispatched \in Seq(Task)
      BY SoundPlaces DEF Apart
<1>2. halted \in Seq(Task) /\ Selected(halted, done, S)
      BY <1>1, SelectIs DEF Suspended
<1> HIDE DEF halted
<1>3. Elements(halted) = S /\ Once(halted)
      BY <1>1, <1>2 DEF Selected
<1>4. undispatched \o halted \in Seq(Task) /\ Splits(undispatched \o halted, undispatched, halted)
      BY <1>1, <1>2, Joined
<1>5. /\ Elements(undispatched \o halted) = Elements(undispatched) \cup S
      /\ Once(undispatched \o halted)
      BY <1>1, <1>3, <1>4 DEF Splits
<1> QED
    BY <1>4, <1>5 DEF SettleTails, halted

\* What settling leaves, by kind and type.
LEMMA SettleTyped ==
  ASSUME IInv, Sound, NEW v
  PROVE  LET buffers  == Routed(done)
             groups   == Filtered(buffers.complete, v)
             returned == GatherTails(SettleTails, SettleKept(v))
             left     == Discard(buffers.pending, SettleLost(v))
         IN  /\ left \in [Root -> Seq(Task)] /\ PendingKept(left)
             /\ groups \in Seq(Seq(Task)) /\ GroupsKept(groups)
             /\ returned \in Seq(Task) /\ Once(returned)
             /\ Elements(returned) = {t \in Elements(SettleTails) : t.root \in SettleKept(v)}
             /\ InBuffer(left) = {t \in InBuffer(buffers.pending) : t.root \notin SettleLost(v)}
             /\ UNION {Elements(buffers.pending[r]) : r \in SettleLost(v)}
                  = {t \in InBuffer(buffers.pending) : t.root \in SettleLost(v)}
             /\ Samples(groups) \subseteq Samples(buffers.complete)
             /\ InBuffer(buffers.pending) \cup Samples(buffers.complete)
                  \cup Elements(SettleTails) \subseteq Everything
             /\ SettleDropped(v) \subseteq Everything
<1> DEFINE buffers  == Routed(done)
           groups   == Filtered(buffers.complete, v)
           kept     == SettleKept(v)
           lost     == SettleLost(v)
           returned == GatherTails(SettleTails, kept)
           left     == Discard(buffers.pending, lost)
<1>1. /\ buffers \in Buffers
      /\ PendingKept(buffers.pending) /\ GroupsKept(buffers.complete)
      /\ InBuffer(buffers.pending) \cup Samples(buffers.complete) \subseteq Everything
      BY AfterRouting DEF Filled
<1>2. buffers.pending \in [Root -> Seq(Task)] /\ buffers.complete \in Seq(Seq(Task))
      BY <1>1 DEF Buffers
<1>3. /\ SettleTails \in Seq(Task) /\ Once(SettleTails)
      /\ Elements(SettleTails) \subseteq Everything
      BY TailsAre DEF Everything, Unfinished
<1>4. lost \in SUBSET Root
  <2>1. \A t \in Elements(SettleTails) : t.root \in Root
    <3>1. \A t \in Elements(SettleTails) : t \in Task
          BY <1>3, InTask
    <3>   QED
          BY <3>1 DEF Task
  <2>   QED
        BY <2>1 DEF SettleLost
<1> DEFINE K == {t \in Elements(SettleTails) : t.root \in kept}
<1> HIDE DEF buffers, kept, lost
<1>5. returned \in Seq(Task) /\ Selected(returned, SettleTails, K)
      BY <1>3, GatherIs
<1>6. Elements(returned) = K /\ Once(returned)
      BY <1>3, <1>5 DEF Selected
<1>7. /\ groups \in Seq(Seq(Task)) /\ GroupsKept(groups)
      /\ Samples(groups) \subseteq Samples(buffers.complete)
      BY <1>1, <1>2, FilterKeeps
<1>8. /\ left \in [Root -> Seq(Task)] /\ PendingKept(left)
      /\ InBuffer(left) = {t \in InBuffer(buffers.pending) : t.root \notin lost}
      /\ UNION {Elements(buffers.pending[r]) : r \in lost}
           = {t \in InBuffer(buffers.pending) : t.root \in lost}
      BY <1>1, <1>2, <1>4, DiscardKeeps
<1> DEFINE D == UNION {Elements(buffers.pending[r]) : r \in lost}
<1>9. D \subseteq Everything
      BY <1>1, <1>8
<1>10. SettleDropped(v) = D \cup (Elements(SettleTails) \ Elements(returned))
                            \cup (Samples(buffers.complete) \ Samples(groups))
      BY DEF SettleDropped, buffers, kept, lost
<1> HIDE DEF D, groups, returned, left
<1>11. SettleDropped(v) \subseteq Everything
      BY <1>1, <1>3, <1>9, <1>10
<1> QED
    BY <1>1, <1>3, <1>5, <1>6, <1>7, <1>8, <1>11 DEF groups, returned, left, buffers, kept, lost

\* In a quiesce, everything is accounted for after it is settled.
LEMMA SettleAccounts ==
  ASSUME IInv, Sound, ~Unstamped, waiting = <<>>, out = {}, carried = <<>>, NEW v
  PROVE  LET buffers  == Routed(done)
             groups   == Filtered(buffers.complete, v)
             returned == GatherTails(SettleTails, SettleKept(v))
             left     == Discard(buffers.pending, SettleLost(v))
         IN  Accounted(Elements(returned), InBuffer(left), Samples(groups), delivered,
                       discarded \cup Ids(SettleDropped(v)), Submitted)
<1> DEFINE buffers  == Routed(done)
           groups   == Filtered(buffers.complete, v)
           kept     == SettleKept(v)
           lost     == SettleLost(v)
           returned == GatherTails(SettleTails, kept)
           left     == Discard(buffers.pending, lost)
           F == Elements(SettleTails)
           P == InBuffer(buffers.pending)
           G == Samples(buffers.complete)
           D == UNION {Elements(buffers.pending[r]) : r \in lost}
<1>1. Accounted(Unfinished \ Finished(done), P, G, delivered, discarded, Submitted)
      BY AfterRouting DEF Filled
<1>2. Unfinished \ Finished(done) = F
  <2>1. Elements(waiting) = {} /\ Elements(carried) = {}
        BY NoElements
  <2>2. Unfinished = Elements(done) \cup Elements(undispatched)
        BY <2>1 DEF Unfinished
  <2>3. \A t \in Elements(done) : t.status \in {"terminal", "suspended"}
    <3>1. \A t \in Elements(done) : t \in Task
          BY InTask DEF IInv, TypeInv
    <3>   QED
          BY <3>1 DEF Unstamped, Task, IInv, AtCall
  <2>4. F = Elements(undispatched) \cup {t \in Elements(done) : t.status = "suspended"}
        BY TailsAre
  <2>5. Elements(done) \cap Elements(undispatched) = {}
        BY SoundPlaces DEF Apart
  <2>   HIDE DEF F
  <2>   QED
        BY <2>2, <2>3, <2>4, <2>5 DEF Finished
<1>3. /\ Elements(returned) = {t \in F : t.root \in kept}
      /\ InBuffer(left) = {t \in P : t.root \notin lost}
      /\ D = {t \in P : t.root \in lost}
      /\ Samples(groups) \in SUBSET G
      BY SettleTyped
<1>4. \A t \in F : t.root \in kept <=> t.root \notin lost
      BY DEF SettleKept, SettleLost
<1>5. SettleDropped(v) = D \cup (F \ Elements(returned)) \cup (G \ Samples(groups))
      BY DEF SettleDropped
<1> HIDE DEF F, P, G, D, buffers, groups, kept, lost, returned, left
<1>6. Accounted(F, P, G, delivered, discarded, Submitted)
      BY <1>1, <1>2
<1> DEFINE L == {t \in F \cup P : t.root \in lost}
           F1 == {t \in F : t.root \notin lost}
           P1 == {t \in P : t.root \notin lost}
<1>7. Accounted(F1, P1, G, delivered, discarded \cup Ids(L), Submitted)
  <2>1. Without(F, P, lost, F1, P1, L)
        BY DEF Without
  <2>   HIDE DEF F1, P1, L
  <2>   QED
        BY <1>6, <2>1, DropRoots
<1>8. F1 = Elements(returned) /\ P1 = InBuffer(left) /\ L = D \cup (F \ Elements(returned))
      BY <1>3, <1>4
<1> HIDE DEF L, F1, P1
<1>9. Accounted(F1, P1, Samples(groups), delivered,
                (discarded \cup Ids(L)) \cup Ids(G \ Samples(groups)), Submitted)
      BY <1>3, <1>7, LeaveGroups
<1>10. Ids(SettleDropped(v)) = Ids(L) \cup Ids(G \ Samples(groups))
      BY <1>5, <1>8 DEF Ids
<1>11. (discarded \cup Ids(L)) \cup Ids(G \ Samples(groups))
         = discarded \cup Ids(SettleDropped(v))
      BY <1>10
<1>12. Accounted(Elements(returned), InBuffer(left), Samples(groups), delivered,
                 discarded \cup Ids(SettleDropped(v)), Submitted)
      BY <1>8, <1>9, <1>11
<1> QED
    BY <1>12 DEF buffers, groups, kept, lost, returned, left

\* quiesce and close settle what has come back.
LEMMA SettleKeeps ==
  ASSUME IInv, dpc \in Settling, ~Unstamped, out = {}, NEW v, NEW next \in {"idle", "closed"},
         Settle(v, next), next = "idle" => dpc = "quiesce"
  PROVE  IInv'
<1> DEFINE buffers  == Routed(done)
           groups   == Filtered(buffers.complete, v)
           returned == GatherTails(SettleTails, SettleKept(v))
           left     == Discard(buffers.pending, SettleLost(v))
<1>1. /\ pending' = left /\ complete' = groups
      /\ carried' = IF next = "closed" THEN <<>> ELSE returned
      /\ discarded' = discarded \cup Ids(SettleDropped(v))
      /\ undispatched' = <<>> /\ done' = <<>> /\ dpc' = next /\ stopping' = FALSE
      /\ UNCHANGED <<waiting, out, paused, broken, publishedVersion, failure, want,
                     trainVersion, nextRoot, delivered>>
      BY DEF Settle, EnginesGoOn, SettleTails, SettleKept, SettleLost, SettleDropped
<1>2. Sound /\ waiting = <<>>
      BY DEF IInv, AtCall, Sound, Settling
<1>3. /\ left \in [Root -> Seq(Task)] /\ PendingKept(left)
      /\ groups \in Seq(Seq(Task)) /\ GroupsKept(groups)
      /\ returned \in Seq(Task) /\ Once(returned)
      /\ Elements(returned) \cup InBuffer(left) \cup Samples(groups) \subseteq Everything
      /\ SettleDropped(v) \subseteq Everything
  <2>1. /\ left \in [Root -> Seq(Task)] /\ PendingKept(left)
        /\ groups \in Seq(Seq(Task)) /\ GroupsKept(groups)
        /\ returned \in Seq(Task) /\ Once(returned)
        /\ Elements(returned) \subseteq Elements(SettleTails)
        /\ InBuffer(left) \subseteq InBuffer(buffers.pending)
        /\ Samples(groups) \subseteq Samples(buffers.complete)
        /\ InBuffer(buffers.pending) \cup Samples(buffers.complete)
             \cup Elements(SettleTails) \subseteq Everything
        /\ SettleDropped(v) \subseteq Everything
        BY <1>2, SettleTyped
  <2>   HIDE DEF left, groups, returned, buffers
  <2>   QED
        BY <2>1
<1>4. next = "idle" =>
        Accounted(Elements(returned), InBuffer(left), Samples(groups), delivered,
                  discarded \cup Ids(SettleDropped(v)), Submitted)
  <2>   SUFFICES ASSUME next = "idle"
                 PROVE  Accounted(Elements(returned), InBuffer(left), Samples(groups), delivered,
                                  discarded \cup Ids(SettleDropped(v)), Submitted)
        OBVIOUS
  <2>1. carried = <<>>
        BY DEF IInv, AtCall
  <2>   QED
        BY <1>2, <2>1, SettleAccounts
<1> HIDE DEF left, groups, returned, buffers
<1>5. Elements(<<>>) = {} /\ Once(<<>>) /\ <<>> \in Seq(Task)
      BY NoElements
<1>6. carried' \in Seq(Task) /\ Once(carried') /\ Elements(carried') \subseteq Everything
      BY <1>1, <1>3, <1>5
<1>7. TypeInv'
  <2>1. discarded' \in SUBSET Id
    <3>1. SettleDropped(v) \in SUBSET Task
          BY <1>3, AllTasks DEF Everything, IInv
    <3>2. Ids(SettleDropped(v)) \subseteq Id
          BY <3>1, InTask
    <3>   QED
          BY <1>1, <3>2 DEF IInv, TypeInv
  <2>2. dpc' \in {"idle", "collect", "quiesce", "finish", "close", "closed"}
        BY <1>1
  <2>3. stopping' \in BOOLEAN
        BY <1>1
  <2>   QED
        BY <1>1, <1>3, <1>5, <1>6, <2>1, <2>2, <2>3 DEF IInv, TypeInv
<1>8. /\ Unfinished' = Elements(carried') /\ Buffered' = InBuffer(left)
      /\ Samples(complete)' = Samples(groups)
  <2>1. /\ Elements(waiting') = {} /\ out' = {} /\ Elements(done') = {}
        /\ Elements(undispatched') = {}
        BY <1>1, <1>2, <1>5
  <2>   QED
        BY <1>1, <2>1 DEF Unfinished, Buffered, InBuffer
<1>9. Stamped'
  <2>1. publishedVersion' \in Nat /\ publishedVersion <= publishedVersion'
        BY <1>1, Bounds DEF IInv, TypeInv
  <2>2. (Unfinished \cup Buffered \cup Samples(complete))' \subseteq Everything
        BY <1>3, <1>6, <1>8
  <2>   QED
        BY <2>1, <2>2, StampedStays DEF IInv
<1>10. AtCall'
  <2>1. Elements(done') = {}
        BY <1>1, <1>5
  <2>2. dpc' = "idle" \/ dpc' = "closed"
        BY <1>1
  <2>   QED
        BY <1>1, <2>1, <2>2 DEF AtCall, Settling, Sound
<1>11. Placed'
  <2>   SUFFICES ASSUME Sound' PROVE Placed'
        BY DEF Placed
  <2>1. next = "idle" /\ carried' = returned
        BY <1>1 DEF Sound
  <2>2. /\ Once(waiting') /\ Once(done') /\ Once(undispatched') /\ Once(carried')
        BY <1>1, <1>2, <1>5, <1>6
  <2>3. Apart(Elements(waiting'), out', Elements(done'), Elements(undispatched'),
              Elements(carried'))
        BY <1>1, <1>2, <1>5 DEF Apart
  <2>4. Accounted(Unfinished', Buffered', Samples(complete'), delivered', discarded',
                  (0 .. nextRoot' - 1) \X (1 .. GroupSize))
        BY <1>1, <1>4, <1>8, <2>1 DEF Submitted
  <2>5. PendingKept(pending') /\ GroupsKept(complete')
        BY <1>1, <1>3
  <2>   QED
        BY <2>2, <2>3, <2>4, <2>5 DEF Placed
<1>12. ChecksHold'
       BY <1>1 DEF IInv, ChecksHold
<1> QED
    BY <1>7, <1>9, <1>10, <1>11, <1>12 DEF IInv

\* quiesce returns.
LEMMA QuiesceReturnsKeeps ==
  ASSUME IInv, QuiesceReturns
  PROVE  IInv'
<1>1. dpc = "quiesce" /\ out = {} /\ dpc \in Settling /\ Sound
      BY DEF QuiesceReturns, Settling, IInv, AtCall, Sound
<1>2. CASE SettleRaises(trainVersion)
  <2>1. Raise("check") /\ Unstamped
        BY <1>1, <1>2, ChecksPass DEF QuiesceReturns
  <2>   QED
        BY <2>1, RaiseKeeps
<1>3. CASE ~SettleRaises(trainVersion)
  <2>1. Settle(trainVersion, "idle") /\ ~Unstamped
        BY <1>3 DEF QuiesceReturns, SettleRaises
  <2>   QED
        BY <1>1, <2>1, SettleKeeps
<1> QED
    BY <1>2, <1>3

\* close begins.
LEMMA CloseKeeps ==
  ASSUME IInv, Close
  PROVE  IInv'
<1>1. CASE Usable /\ Live
  <2>1. dpc = "idle" /\ failure = "none" /\ PauseAndStop("close") /\ "close" \in Settling
        BY <1>1 DEF Close, Usable, Settling
  <2>   QED
        BY <2>1, PauseKeeps
<1>2. CASE ~(Usable /\ Live)
      BY <1>2, ClosePoolKeeps DEF Close
<1> QED
    BY <1>1, <1>2

\* close returns.
LEMMA CloseReturnsKeeps ==
  ASSUME IInv, CloseReturns
  PROVE  IInv'
<1>1. dpc = "close" /\ dpc \in Settling /\ Sound
      BY DEF CloseReturns, Settling, IInv, AtCall, Sound
<1>2. CASE broken
      BY <1>2, ClosePoolKeeps DEF CloseReturns, Poison
<1>3. CASE ~broken /\ SettleRaises(publishedVersion)
  <2>1. Unstamped
        BY <1>1, <1>3, ChecksPass
  <2>2. ClosePool /\ failure' = "engine"
        BY <1>3, <2>1 DEF CloseReturns, Poison
  <2>   QED
        BY <2>2, ClosePoolKeeps
<1>4. CASE ~broken /\ ~SettleRaises(publishedVersion)
  <2>1. out = {} /\ Settle(publishedVersion, "closed") /\ ~Unstamped
        BY <1>4 DEF CloseReturns, SettleRaises
  <2>   QED
        BY <1>1, <2>1, SettleKeeps
<1> QED
    BY <1>2, <1>3, <1>4

\* Every step keeps the invariant.
LEMMA NextKeeps == IInv /\ [Next]_vars => IInv'
<1> SUFFICES ASSUME IInv, [Next]_vars PROVE IInv'
    OBVIOUS
<1>1. CASE Submit
      BY <1>1, SubmitKeeps
<1>2. CASE Resubmit
      BY <1>2, ResubmitKeeps
<1>3. CASE Quiesce
  <2>1. dpc = "idle" /\ failure = "none" /\ carried = <<>> /\ PauseAndStop("quiesce")
        BY <1>3 DEF Quiesce, Usable
  <2>   QED
        BY <2>1, PauseKeeps DEF Settling
<1>4. CASE SyncWeights
      BY <1>4, SyncWeightsKeeps
<1>5. CASE SyncRaises
      BY <1>5, RaiseKeeps DEF SyncRaises
<1>6. CASE Train \/ EngineFails \/ \E n \in 1 .. MaxRoots : Collect(n)
      BY <1>6, IdleSteps
<1>7. CASE Close
      BY <1>7, CloseKeeps
<1>8. ASSUME NEW k \in 1 .. Len(carried), Finish(k) PROVE IInv'
      BY <1>8, FinishKeeps
<1>9. CASE CollectTurn
      BY <1>9, CollectTurnKeeps
<1>10. CASE QuiesceReturns
       BY <1>10, QuiesceReturnsKeeps
<1>11. CASE FinishReturns
       BY <1>11, FinishReturnsKeeps
<1>12. CASE CallRaises
       BY <1>12, RaiseKeeps DEF CallRaises
<1>13. CASE CloseReturns
       BY <1>13, CloseReturnsKeeps
<1>14. CASE Start
       BY <1>14, StartKeeps
<1>15. ASSUME NEW t \in out, Return(t) PROVE IInv'
       BY <1>15, ReturnKeeps
<1>16. ASSUME NEW t \in out, Turn(t) PROVE IInv'
       BY <1>16, TurnKeeps
<1>17. CASE UNCHANGED vars
  <2>1. UNCHANGED <<waiting, out, done, paused, broken, stopping, pending, complete,
                    publishedVersion, failure, dpc, want, undispatched, carried,
                    trainVersion, nextRoot, delivered, discarded>>
        BY <1>17 DEF vars, poolVars, managerVars, driverVars
  <2>2. Unfinished' = Unfinished /\ Buffered' = Buffered /\ Samples(complete)' = Samples(complete)
        BY <2>1 DEF Unfinished, Buffered
  <2>3. Sound' = Sound
        BY <2>1 DEF Sound
  <2>4. TypeInv'
        BY <2>1 DEF IInv, TypeInv
  <2>5. Stamped'
        BY <2>1, <2>2 DEF IInv, Stamped
  <2>6. AtCall'
        BY <2>1, <2>3 DEF IInv, AtCall, Settling
  <2>7. Placed'
        BY <2>1, <2>2, <2>3 DEF IInv, Placed
  <2>8. ChecksHold'
        BY <2>1 DEF IInv, ChecksHold
  <2>   QED
        BY <2>4, <2>5, <2>6, <2>7, <2>8 DEF IInv
<1> QED
    BY <1>1, <1>2, <1>3, <1>4, <1>5, <1>6, <1>7, <1>8, <1>9, <1>10, <1>11, <1>12, <1>13,
       <1>14, <1>15, <1>16, <1>17 DEF Next, Calls, Returns, Engines

\* In every state of every run the siblings are where the invariant says.
THEOREM Inductive == Spec => []IInv
  BY InitHolds, NextKeeps, PTL DEF Spec

-----------------------------------------------------------------------------
(***************************************************************************)
(* The properties.                                                         *)
(***************************************************************************)

\* The invariant's types are the module's.
LEMMA InvTypes == IInv => TypeOK
<1> SUFFICES ASSUME IInv PROVE TypeOK
    OBVIOUS
<1>1. /\ Unfinished \cup Buffered \cup Samples(complete) \subseteq Task
      /\ DOMAIN pending = Root /\ publishedVersion <= trainVersion
      BY AllTasks DEF IInv, TypeInv
<1>2. {paused, broken, stopping} \subseteq BOOLEAN
      BY Zenon DEF IInv, TypeInv
<1>3. {publishedVersion, trainVersion} \subseteq 0 .. MaxVersion
      BY DEF IInv, TypeInv
<1>4. /\ failure \in {"none", "engine", "starved", "check"}
      /\ dpc \in {"idle", "collect", "quiesce", "finish", "close", "closed"}
      /\ {want, nextRoot} \subseteq 0 .. MaxRoots
      /\ delivered \cup discarded \subseteq Id
      BY DEF IInv, TypeInv
<1> QED
    BY <1>1, <1>2, <1>3, <1>4 DEF TypeOK, Task, Id

\* What the pool, the buffers and the driver hold are siblings of submitted prompts.
THEOREM TypeCorrect == Spec => []TypeOK
  BY InvTypes, Inductive, PTL

\* No call ever meets a result suspended outside quiesce, or of a version it does not know.
THEOREM ChecksNeverFire == Spec => []ChecksHold
<1>1. IInv => ChecksHold
      BY DEF IInv
<1> QED
    BY <1>1, Inductive, PTL

\* Siblings of two places that share none are not the same.
LEMMA ApartIds ==
  ASSUME NEW A, NEW B, NEW all, Unique(all), A \subseteq all, B \subseteq all, A \cap B = {}
  PROVE  Ids(A) \cap Ids(B) = {}
<1> SUFFICES ASSUME NEW s \in A, NEW t \in B, <<s.root, s.copy>> = <<t.root, t.copy>>
             PROVE  FALSE
    BY DEF Ids
<1>1. s.root = t.root /\ s.copy = t.copy
      OBVIOUS
<1> QED
    BY <1>1 DEF Unique

\* The places of the invariant are those SiblingsAccounted names.
LEMMA InvSiblings == IInv => SiblingsAccounted
<1> SUFFICES ASSUME IInv, failure = "none", dpc # "closed" PROVE SiblingsAccounted
    BY DEF SiblingsAccounted
<1> DEFINE W == Elements(waiting)
           D == Elements(done)
           U == Elements(undispatched)
           C == Elements(carried)
           G == Samples(complete)
           places == <<Ids(W), Ids(out), Ids(D), Ids(U), Ids(C), Ids(Buffered), Ids(G),
                       delivered, discarded>>
<1>1. /\ Apart(W, out, D, U, C)
      /\ Accounted(Unfinished, Buffered, G, delivered, discarded, Submitted)
      BY DEF IInv, Placed, Sound, Submitted
<1>2. Unfinished = W \cup out \cup D \cup U \cup C
      BY DEF Unfinished
<1> DEFINE all == Unfinished \cup Buffered \cup G
<1> HIDE DEF W, D, U, C, G
<1>3. /\ Unique(all) /\ Ids(all) \cap (delivered \cup discarded) = {}
      /\ delivered \cap discarded = {} /\ Ids(all) \cup delivered \cup discarded = Submitted
      /\ Unfinished \cap Buffered = {} /\ Unfinished \cap G = {} /\ Buffered \cap G = {}
      BY <1>1 DEF Accounted
<1>4. /\ W \subseteq all /\ out \subseteq all /\ D \subseteq all /\ U \subseteq all
      /\ C \subseteq all /\ Buffered \subseteq all /\ G \subseteq all
      /\ all = W \cup out \cup D \cup U \cup C \cup Buffered \cup G
      BY <1>2
<1>5. Ids(all) = Ids(W) \cup Ids(out) \cup Ids(D) \cup Ids(U) \cup Ids(C) \cup Ids(Buffered)
                   \cup Ids(G)
      BY <1>4 DEF Ids
<1> HIDE DEF all
<1>6. /\ Ids(W) \cap Ids(out) = {} /\ Ids(W) \cap Ids(D) = {} /\ Ids(W) \cap Ids(U) = {}
      /\ Ids(W) \cap Ids(C) = {} /\ Ids(out) \cap Ids(D) = {} /\ Ids(out) \cap Ids(U) = {}
      /\ Ids(out) \cap Ids(C) = {} /\ Ids(D) \cap Ids(U) = {} /\ Ids(D) \cap Ids(C) = {}
      /\ Ids(U) \cap Ids(C) = {}
      BY <1>1, <1>3, <1>4, ApartIds DEF Apart
<1>7. /\ Ids(W) \cap Ids(Buffered) = {} /\ Ids(out) \cap Ids(Buffered) = {}
      /\ Ids(D) \cap Ids(Buffered) = {} /\ Ids(U) \cap Ids(Buffered) = {}
      /\ Ids(C) \cap Ids(Buffered) = {}
  <2>1. /\ W \cap Buffered = {} /\ out \cap Buffered = {} /\ D \cap Buffered = {}
        /\ U \cap Buffered = {} /\ C \cap Buffered = {}
        BY <1>2, <1>3
  <2>   QED
        BY <1>3, <1>4, <2>1, ApartIds
<1>8. /\ Ids(W) \cap Ids(G) = {} /\ Ids(out) \cap Ids(G) = {}
      /\ Ids(D) \cap Ids(G) = {} /\ Ids(U) \cap Ids(G) = {}
      /\ Ids(C) \cap Ids(G) = {} /\ Ids(Buffered) \cap Ids(G) = {}
  <2>1. /\ W \cap G = {} /\ out \cap G = {} /\ D \cap G = {}
        /\ U \cap G = {} /\ C \cap G = {} /\ Buffered \cap G = {}
        BY <1>2, <1>3
  <2>   QED
        BY <1>3, <1>4, <2>1, ApartIds
<1> DEFINE PW == Ids(W)
           PO == Ids(out)
           PD == Ids(D)
           PU == Ids(U)
           PC == Ids(C)
           PB == Ids(Buffered)
           PG == Ids(G)
<1>9. /\ PW \cup PO \cup PD \cup PU \cup PC \cup PB \cup PG \cup delivered \cup discarded
           = Submitted
      /\ (PW \cup PO \cup PD \cup PU \cup PC \cup PB \cup PG) \cap (delivered \cup discarded) = {}
      /\ delivered \cap discarded = {}
      BY <1>3, <1>5
<1>10. /\ PW \cap PO = {} /\ PW \cap PD = {} /\ PW \cap PU = {} /\ PW \cap PC = {}
       /\ PO \cap PD = {} /\ PO \cap PU = {} /\ PO \cap PC = {} /\ PD \cap PU = {}
       /\ PD \cap PC = {} /\ PU \cap PC = {}
       /\ PW \cap PB = {} /\ PO \cap PB = {} /\ PD \cap PB = {} /\ PU \cap PB = {}
       /\ PC \cap PB = {} /\ PW \cap PG = {} /\ PO \cap PG = {} /\ PD \cap PG = {}
       /\ PU \cap PG = {} /\ PC \cap PG = {} /\ PB \cap PG = {}
       BY <1>6, <1>7, <1>8
<1>11. places = <<PW, PO, PD, PU, PC, PB, PG, delivered, discarded>>
       OBVIOUS
<1> HIDE DEF PW, PO, PD, PU, PC, PB, PG
<1>12. DOMAIN places = 1 .. 9
       BY <1>11
<1>13. UNION Elements(places) = Submitted
  <2>1. Elements(places) = {PW, PO, PD, PU, PC, PB, PG, delivered, discarded}
        BY <1>11, <1>12 DEF Elements
  <2>   QED
        BY <1>9, <2>1
<1>14. \A i, j \in DOMAIN places : i # j => places[i] \cap places[j] = {}
  <2>1. /\ places[1] = PW /\ places[2] = PO /\ places[3] = PD /\ places[4] = PU
        /\ places[5] = PC /\ places[6] = PB /\ places[7] = PG
        /\ places[8] = delivered /\ places[9] = discarded
        BY <1>11
  <2>2. \A i \in 1 .. 9 : i = 1 \/ i = 2 \/ i = 3 \/ i = 4 \/ i = 5 \/ i = 6 \/ i = 7 \/ i = 8 \/ i = 9
        OBVIOUS
  <2>3. /\ PW \cap delivered = {} /\ PO \cap delivered = {} /\ PD \cap delivered = {}
        /\ PU \cap delivered = {} /\ PC \cap delivered = {} /\ PB \cap delivered = {}
        /\ PG \cap delivered = {} /\ PW \cap discarded = {} /\ PO \cap discarded = {}
        /\ PD \cap discarded = {} /\ PU \cap discarded = {} /\ PC \cap discarded = {}
        /\ PB \cap discarded = {} /\ PG \cap discarded = {} /\ delivered \cap discarded = {}
        BY <1>9
  <2>4. \A A, B : A \cap B = {} => B \cap A = {}
        OBVIOUS
  <2>   HIDE DEF places
  <2>   QED
        BY <1>10, <1>12, <2>1, <2>2, <2>3, <2>4
<1> HIDE DEF places
<1>15. /\ UNION Elements(places) = (0 .. nextRoot - 1) \X (1 .. GroupSize)
       /\ \A i, j \in DOMAIN places : i # j => places[i] \cap places[j] = {}
       BY <1>13, <1>14 DEF Submitted
<1> QED
    BY <1>15, Zenon DEF SiblingsAccounted, places, W, D, U, C, G

\* No sibling of a submitted prompt is lost or in two places, while the manager is sound.
THEOREM SiblingsInOnePlace == Spec => []SiblingsAccounted
  BY InvSiblings, Inductive, PTL

\* The siblings of one root are as many as a group.
LEMMA RootSize ==
  ASSUME NEW r
  PROVE  Cardinality({r} \X (1 .. GroupSize)) = GroupSize
<1> DEFINE I == 1 .. GroupSize
           R == {r} \X I
           f == [c \in I |-> <<r, c>>]
<1>1. f \in Bijection(I, R)
      BY DEF Bijection, Injection, Surjection, IsInjective
<1>2. IsFiniteSet(I) /\ Cardinality(I) = GroupSize
      BY FS_Interval, Bounds
<1> QED
    BY <1>1, <1>2, FS_Bijection DEF ExistsBijection

\* A sequence has no more siblings than its length.
LEMMA FewSiblings ==
  ASSUME NEW seq \in Seq(Task)
  PROVE  Cardinality(Ids(Elements(seq))) <= Len(seq)
<1> DEFINE n == Len(seq)
           I == 1 .. n
           R == Ids(Elements(seq))
           f == [i \in I |-> <<seq[i].root, seq[i].copy>>]
<1>1. /\ n \in Nat /\ \A i \in I : seq[i] \in Elements(seq)
      /\ \A t \in Elements(seq) : \E i \in I : t = seq[i]
      BY InSequence
<1> HIDE DEF n
<1>2. IsFiniteSet(I) /\ Cardinality(I) = n
      BY <1>1, FS_Interval
<1>3. /\ \A i \in I : f[i] \in R
      /\ \A x \in R : \E i \in I : f[i] = x
      BY <1>1 DEF Ids
<1> HIDE DEF R
<1>4. f \in Surjection(I, R)
      BY <1>3 DEF Surjection
<1>5. Cardinality(R) <= Cardinality(I)
      BY <1>2, <1>4, FS_Surjection
<1> QED
    BY <1>2, <1>5 DEF n, R

\* A root with a sibling still to come, or waiting for its others, has all of them.
LEMMA WholeRoot ==
  ASSUME IInv, Sound, NEW r \in Root, OfRoot(r, Unfinished \cup Buffered) # {}
  PROVE  Ids(OfRoot(r, Unfinished \cup Buffered)) = {r} \X (1 .. GroupSize)
<1> DEFINE T == OfRoot(r, Unfinished \cup Buffered)
           all == Unfinished \cup Buffered \cup Samples(complete)
<1>1. Accounted(Unfinished, Buffered, Samples(complete), delivered, discarded, Submitted)
      BY DEF IInv, Placed, Submitted
<1>2. all \subseteq Task
      BY AllTasks DEF IInv
<1>3. \A t \in T : t.root = r /\ t \in Unfinished \cup Buffered /\ t \in Task
      BY <1>2 DEF OfRoot
<1>4. PICK t \in T : TRUE
      OBVIOUS
<1>5. /\ \A s \in Samples(complete) : s.root # r
      /\ \A x \in delivered \cup discarded : x[1] # r
      BY <1>1, <1>3, <1>4 DEF Accounted
<1>6. r \in 0 .. nextRoot - 1
  <2>1. <<t.root, t.copy>> \in Submitted
        BY <1>1, <1>3, <1>4 DEF Accounted, Ids
  <2>   QED
        BY <1>3, <1>4, <2>1 DEF Submitted
<1>7. ASSUME NEW c \in 1 .. GroupSize PROVE <<r, c>> \in Ids(T)
  <2>1. <<r, c>> \in Submitted
        BY <1>6 DEF Submitted
  <2>2. <<r, c>> \notin delivered \cup discarded
        BY <1>5
  <2>3. <<r, c>> \in Ids(all)
        BY <1>1, <2>1, <2>2 DEF Accounted
  <2>4. PICK s \in all : <<r, c>> = <<s.root, s.copy>>
        BY <2>3 DEF Ids
  <2>5. s.root = r /\ s \in Unfinished \cup Buffered
        BY <1>5, <2>4
  <2>   QED
        BY <2>4, <2>5 DEF Ids, OfRoot
<1>8. \A x \in Ids(T) : x \in {r} \X (1 .. GroupSize)
  <2>1. \A s \in T : s.root = r /\ s.copy \in 1 .. GroupSize
        BY <1>3 DEF Task
  <2>   HIDE DEF T
  <2>   QED
        BY <2>1 DEF Ids
<1> HIDE DEF T
<1>9. \A x \in {r} \X (1 .. GroupSize) : \E c \in 1 .. GroupSize : x = <<r, c>>
      OBVIOUS
<1>10. Ids(T) = {r} \X (1 .. GroupSize)
      BY <1>7, <1>8, <1>9
<1> QED
    BY <1>10 DEF T

\* The invariant keeps roots whole.
LEMMA InvRoots == IInv => RootsWhole
<1> SUFFICES ASSUME IInv, Sound PROVE RootsWhole
    BY DEF RootsWhole, Sound
<1>1. /\ PendingKept(pending) /\ GroupsKept(complete)
      /\ Accounted(Unfinished, Buffered, Samples(complete), delivered, discarded, Submitted)
      /\ pending \in [Root -> Seq(Task)] /\ complete \in Seq(Seq(Task))
      /\ Buffered = InBuffer(pending)
      BY AllTasks DEF IInv, Placed, TypeInv, Submitted
<1>2. ASSUME NEW r \in Root, OfRoot(r, Unfinished \cup Buffered) # {}
      PROVE  Cardinality(Ids(OfRoot(r, Unfinished \cup Buffered))) = GroupSize
      BY <1>2, WholeRoot, RootSize
<1>3. ASSUME NEW r \in Root, pending[r] # <<>>, OfRoot(r, Unfinished) = {}
      PROVE  FALSE
  <2>1. pending[r] \in Seq(Task) /\ Len(pending[r]) < GroupSize /\ Len(pending[r]) \in Nat
        BY <1>1 DEF PendingKept
  <2>2. OfRoot(r, Unfinished \cup Buffered) = Elements(pending[r])
    <3>1. \A t \in Buffered : t \in Elements(pending[t.root])
          BY <1>1, BufferOf
    <3>2. \A t \in Elements(pending[r]) : t \in Buffered /\ t.root = r
          BY <1>1 DEF InBuffer, PendingKept
    <3>   QED
          BY <1>3, <3>1, <3>2 DEF OfRoot
  <2>3. Elements(pending[r]) # {}
    <3>1. Len(pending[r]) # 0
          BY <1>3, <2>1, InSequence
    <3>2. 1 \in 1 .. Len(pending[r])
          BY <2>1, <3>1
    <3>   QED
          BY <2>1, <3>2, InSequence
  <2>4. Cardinality(Ids(Elements(pending[r]))) = GroupSize
        BY <1>2, <2>2, <2>3
  <2>5. Cardinality(Ids(Elements(pending[r]))) <= Len(pending[r])
        BY <2>1, FewSiblings
  <2>   QED
        BY <2>1, <2>4, <2>5, Bounds
<1>4. ASSUME NEW g \in Elements(complete)
      PROVE  Len(g) = GroupSize /\ \E r \in Root : Ids(Elements(g)) = {r} \X (1 .. GroupSize)
  <2>1. /\ g \in Seq(Task) /\ Len(g) = GroupSize /\ Once(g)
        /\ \A s, t \in Elements(g) : s.root = t.root
        BY <1>1, GroupsByElement, InSequence
  <2>2. Unique(Elements(g))
    <3>1. Elements(g) \subseteq Samples(complete)
          BY DEF Samples
    <3>   QED
          BY <1>1, <3>1 DEF Accounted, Unique
  <2>3. \A c \in 1 .. GroupSize : \E e \in Elements(g) : e.copy = c
        BY <2>1, <2>2, WholeGroup
  <2>4. \A e \in Elements(g) : e.root \in Root /\ e.copy \in 1 .. GroupSize
    <3>1. \A e \in Elements(g) : e \in Task
          BY <2>1, InSequence
    <3>   QED
          BY <3>1 DEF Task
  <2>5. PICK e \in Elements(g) : TRUE
    <3>1. 1 \in 1 .. GroupSize
          BY Bounds
    <3>   QED
          BY <2>3, <3>1
  <2>6. \A x \in Ids(Elements(g)) : x \in {e.root} \X (1 .. GroupSize)
        BY <2>1, <2>4 DEF Ids
  <2>7. ASSUME NEW c \in 1 .. GroupSize PROVE <<e.root, c>> \in Ids(Elements(g))
    <3>1. PICK s \in Elements(g) : s.copy = c
          BY <2>3
    <3>   QED
          BY <2>1, <3>1 DEF Ids
  <2>8. \A x \in {e.root} \X (1 .. GroupSize) : \E c \in 1 .. GroupSize : x = <<e.root, c>>
        OBVIOUS
  <2>9. Ids(Elements(g)) = {e.root} \X (1 .. GroupSize)
        BY <2>6, <2>7, <2>8
  <2>   QED
        BY <2>1, <2>4, <2>9
<1> QED
    BY <1>2, <1>3, <1>4 DEF RootsWhole

\* A prompt is finished, handed back and dropped as a whole.
THEOREM RootsKeptWhole == Spec => []RootsWhole
  BY InvRoots, Inductive, PTL

-----------------------------------------------------------------------------
(***************************************************************************)
(* The refinement of RootStore.                                            *)
(***************************************************************************)
Copies == 1 .. GroupSize
Roots(tasks) == {t.root : t \in tasks}

\* A root the manager has anything of is one it has all of.
LEMMA RootIsHere ==
  ASSUME IInv, Sound, NEW r \in OpenRoots
  PROVE  /\ r \in Root
         /\ \A c \in Copies :
              /\ <<r, c>> \in Submitted /\ <<r, c>> \notin delivered \cup discarded
              /\ \E t \in Everything : t.root = r /\ t.copy = c
<1>1. /\ Accounted(Unfinished, Buffered, Samples(complete), delivered, discarded, Submitted)
      /\ Everything \subseteq Task
      BY AllTasks DEF IInv, Placed, Submitted, Everything
<1>2. /\ Ids(Everything) \cap (delivered \cup discarded) = {}
      /\ Ids(Everything) \cup delivered \cup discarded = Submitted
      BY <1>1 DEF Accounted, Everything
<1>3. PICK t \in Everything : t.root = r
      BY DEF OpenRoots
<1>4. r \in Root
      BY <1>1, <1>3 DEF Task
<1>5. \A c \in Copies : <<r, c>> \in Ids(Everything)
  <2>1. CASE t \in Unfinished \cup Buffered
    <3>1. OfRoot(r, Unfinished \cup Buffered) # {}
          BY <1>3, <2>1 DEF OfRoot
    <3>2. Ids(OfRoot(r, Unfinished \cup Buffered)) = {r} \X Copies
          BY <1>4, <3>1, WholeRoot DEF Copies
    <3>3. ASSUME NEW c \in Copies PROVE <<r, c>> \in Ids(Everything)
      <4>1. <<r, c>> \in Ids(OfRoot(r, Unfinished \cup Buffered))
            BY <3>2
      <4>   QED
            BY <4>1 DEF Ids, OfRoot, Everything
    <3>   QED
          BY <3>3
  <2>2. CASE t \in Samples(complete)
    <3>1. PICK g \in Elements(complete) : t \in Elements(g)
          BY <2>2 DEF Samples
    <3>2. PICK q \in Root : Ids(Elements(g)) = {q} \X Copies
          BY InvRoots DEF RootsWhole, Sound, Copies
    <3>3. <<r, t.copy>> \in Ids(Elements(g))
          BY <1>3, <3>1 DEF Ids
    <3>4. q = r
          BY <3>2, <3>3
    <3>5. Elements(g) \subseteq Everything
          BY DEF Samples, Everything
    <3>6. Ids(Elements(g)) \subseteq Ids(Everything)
          BY <3>5 DEF Ids
    <3>   QED
          BY <3>2, <3>4, <3>6
  <2>   QED
        BY <1>3, <2>1, <2>2 DEF Everything
<1>6. ASSUME NEW c \in Copies
      PROVE  \E s \in Everything : s.root = r /\ s.copy = c
  <2>1. PICK s \in Everything : <<r, c>> = <<s.root, s.copy>>
        BY <1>5 DEF Ids
  <2>   QED
        BY <2>1
<1> QED
    BY <1>2, <1>4, <1>5, <1>6

\* The siblings in a group are those of one root.
LEMMA GroupIsRoot ==
  ASSUME NEW groups \in Seq(Seq(Task)), GroupsKept(groups), Unique(Samples(groups)),
         NEW g \in Elements(groups), NEW s \in Elements(g)
  PROVE  \A c \in Copies : \E e \in Elements(g) : e.root = s.root /\ e.copy = c
<1>1. /\ g \in Seq(Task) /\ Len(g) = GroupSize /\ Once(g)
      /\ \A e, t \in Elements(g) : e.root = t.root
      BY GroupsByElement, InSequence
<1>2. Unique(Elements(g))
  <2>1. Elements(g) \subseteq Samples(groups)
        BY DEF Samples
  <2>   QED
        BY <2>1 DEF Unique
<1>3. \A c \in 1 .. GroupSize : \E e \in Elements(g) : e.copy = c
      BY <1>1, <1>2, WholeGroup
<1> QED
    BY <1>1, <1>3 DEF Copies

\* What an operation leaves of the roots, and what it has taken of them.
Leaves(F1, P1, groups, E1, left, del1, dis1) ==
  /\ E1 = F1 \cup P1 \cup Samples(groups) /\ left = Roots(E1)
  /\ E1 \subseteq Everything
  /\ groups \in Seq(Seq(Task)) /\ GroupsKept(groups)
  /\ Accounted(F1, P1, Samples(groups), del1, dis1, Submitted)

\* A root stays with all its siblings, or leaves with all of them.
Wholly(E1, left, del1, dis1) ==
  /\ left \subseteq OpenRoots
  /\ \A r \in left : \A c \in Copies : <<r, c>> \notin del1 \cup dis1
  /\ \A r \in OpenRoots \ left : \A c \in Copies : <<r, c>> \in del1 \cup dis1
  /\ \A t \in Everything : t.root \in left => t \in E1

LEMMA RootsLeave ==
  ASSUME IInv, Sound, NEW F1, NEW P1, NEW groups, NEW del1, NEW dis1, NEW E1, NEW left,
         Leaves(F1, P1, groups, E1, left, del1, dis1)
  PROVE  Wholly(E1, left, del1, dis1)
<1>1. /\ E1 = F1 \cup P1 \cup Samples(groups) /\ left = Roots(E1)
      /\ E1 \subseteq Everything /\ groups \in Seq(Seq(Task)) /\ GroupsKept(groups)
      /\ Accounted(F1, P1, Samples(groups), del1, dis1, Submitted)
      BY DEF Leaves
<1>2. /\ Unique(E1) /\ Ids(E1) \cap (del1 \cup dis1) = {}
      /\ Ids(E1) \cup del1 \cup dis1 = Submitted
      BY <1>1 DEF Accounted
<1>3. /\ Everything \subseteq Task /\ Unique(Everything)
      /\ Ids(Everything) \subseteq Submitted
  <2>1. Everything \subseteq Task
        BY AllTasks DEF IInv, Everything
  <2>2. Accounted(Unfinished, Buffered, Samples(complete), delivered, discarded, Submitted)
        BY DEF IInv, Placed, Submitted
  <2>   QED
        BY <2>1, <2>2 DEF Accounted, Everything
<1>4. left \subseteq OpenRoots
      BY <1>1 DEF OpenRoots, Roots
<1>5. ASSUME NEW r \in left, NEW c \in Copies PROVE <<r, c>> \notin del1 \cup dis1
  <2>1. PICK t \in E1 : t.root = r
        BY <1>1 DEF Roots
  <2>2. CASE t \in F1 \cup P1
    <3>1. \A x \in del1 \cup dis1 : x[1] # t.root
          BY <1>1, <2>2 DEF Accounted
    <3>   QED
          BY <2>1, <3>1
  <2>3. CASE t \in Samples(groups)
    <3>1. PICK g \in Elements(groups) : t \in Elements(g)
          BY <2>3 DEF Samples
    <3>2. Unique(Samples(groups))
          BY <1>1, <1>2 DEF Unique
    <3>3. PICK e \in Elements(g) : e.root = r /\ e.copy = c
          BY <1>1, <2>1, <3>1, <3>2, GroupIsRoot
    <3>4. e \in E1
          BY <1>1, <3>3 DEF Samples
    <3>5. <<r, c>> \in Ids(E1)
          BY <3>3, <3>4 DEF Ids
    <3>   QED
          BY <1>2, <3>5
  <2>   QED
        BY <1>1, <2>1, <2>2, <2>3
<1>6. ASSUME NEW r \in OpenRoots \ left, NEW c \in Copies PROVE <<r, c>> \in del1 \cup dis1
  <2>1. <<r, c>> \in Submitted
        BY RootIsHere
  <2>2. <<r, c>> \notin Ids(E1)
        BY <1>1 DEF Ids, Roots
  <2>   QED
        BY <1>2, <2>1, <2>2
<1>7. ASSUME NEW t \in Everything, t.root \in left PROVE t \in E1
  <2>1. t.copy \in Copies
        BY <1>3 DEF Task, Copies
  <2>2. <<t.root, t.copy>> \notin del1 \cup dis1
        BY <1>5, <1>7, <2>1
  <2>3. <<t.root, t.copy>> \in Ids(E1)
    <3>1. <<t.root, t.copy>> \in Ids(Everything)
          BY DEF Ids
    <3>   QED
          BY <1>2, <1>3, <2>2, <3>1
  <2>4. PICK s \in E1 : <<t.root, t.copy>> = <<s.root, s.copy>>
        BY <2>3 DEF Ids
  <2>5. s \in Everything /\ s.root = t.root /\ s.copy = t.copy
        BY <1>1, <2>4
  <2>6. s = t
        BY <1>3, <2>5 DEF Unique
  <2>   QED
        BY <2>6
<1> QED
    BY <1>4, <1>5, <1>6, <1>7 DEF Wholly

\* Of the roots that are not left, some are taken and the others gone.
Takes(taken, gone, left, del1, dis1) ==
  /\ taken \subseteq OpenRoots \ left /\ gone = (OpenRoots \ left) \ taken
  /\ discarded \subseteq dis1
  /\ \A r \in Root : \A c \in Copies :
       <<r, c>> \in del1 <=> <<r, c>> \in delivered \/ r \in taken

\* What has left as a whole: the roots taken, and as discarded all others that left.
LEMMA WholesLeft ==
  ASSUME IInv, Sound, NEW F1, NEW P1, NEW groups, NEW del1, NEW dis1, NEW E1, NEW left,
         Leaves(F1, P1, groups, E1, left, del1, dis1),
         NEW taken, NEW gone, Takes(taken, gone, left, del1, dis1)
  PROVE  /\ Whole(del1) = Whole(delivered) \cup taken
         /\ Whole(dis1) = Whole(discarded) \cup gone
<1>0. /\ taken \subseteq OpenRoots \ left /\ gone = (OpenRoots \ left) \ taken
      /\ discarded \subseteq dis1
      /\ \A r \in Root : \A c \in Copies :
           <<r, c>> \in del1 <=> <<r, c>> \in delivered \/ r \in taken
      BY DEF Takes
<1>1. \A ids : \A r : r \in Whole(ids) <=> r \in Root /\ \A c \in Copies : <<r, c>> \in ids
      BY DEF Whole, Copies
<1>2. /\ \A r \in left : \A c \in Copies : <<r, c>> \notin del1 \cup dis1
      /\ \A r \in OpenRoots \ left : \A c \in Copies : <<r, c>> \in del1 \cup dis1
  <2>1. Wholly(E1, left, del1, dis1)
        BY RootsLeave
  <2>   QED
        BY <2>1 DEF Wholly
<1>3. 1 \in Copies
      BY Bounds DEF Copies
<1>4. \A r \in OpenRoots : /\ r \in Root
                           /\ \A c \in Copies : <<r, c>> \notin delivered \cup discarded
      BY RootIsHere
<1>5. ASSUME NEW r PROVE r \in Whole(del1) <=> r \in Whole(delivered) \/ r \in taken
      BY <1>0, <1>1, <1>4
<1>6. ASSUME NEW r \in Whole(dis1), r \notin Whole(discarded)
      PROVE  r \in gone
  <2>1. r \in Root /\ \A c \in Copies : <<r, c>> \in dis1
        BY <1>1, <1>6
  <2>2. PICK c \in Copies : <<r, c>> \notin discarded
        BY <1>1, <1>6
  <2>3. /\ dis1 \subseteq Submitted /\ del1 \cap dis1 = {}
        BY DEF Leaves, Accounted
  <2>4. <<r, c>> \notin delivered /\ r \notin taken /\ <<r, c>> \in Submitted
        BY <1>0, <2>1, <2>3
  <2>5. <<r, c>> \in Ids(Everything)
    <3>1. Accounted(Unfinished, Buffered, Samples(complete), delivered, discarded, Submitted)
          BY DEF IInv, Placed, Submitted
    <3>   QED
          BY <2>2, <2>4, <3>1 DEF Accounted, Everything
  <2>6. PICK t \in Everything : <<r, c>> = <<t.root, t.copy>>
        BY <2>5 DEF Ids
  <2>7. r \in OpenRoots
        BY <2>6 DEF OpenRoots
  <2>   QED
        BY <1>0, <1>2, <2>1, <2>4, <2>7
<1>7. ASSUME NEW r \in gone PROVE r \in Whole(dis1)
      BY <1>0, <1>1, <1>2, <1>4
<1>8. Whole(discarded) \subseteq Whole(dis1)
      BY <1>0, <1>1
<1> QED
    BY <1>5, <1>6, <1>7, <1>8

\* The filter takes a task for stale that is stale by the trainer's version, or was
\* by the published one already.
LEMMA StaleIs ==
  ASSUME TypeInv
  PROVE  /\ \A t \in Task : Stale(t) <=> ~WithinLag(t, trainVersion)
         /\ \A t \in Task : ~WithinLag(t, publishedVersion) => Stale(t)
<1>1. /\ MaxLag \in Nat /\ trainVersion \in Nat /\ publishedVersion \in Nat
      /\ publishedVersion <= trainVersion
      BY ManagerAssumption DEF TypeInv
<1> SUFFICES ASSUME NEW t \in Task
             PROVE  /\ Stale(t) <=> ~WithinLag(t, trainVersion)
                    /\ ~WithinLag(t, publishedVersion) => Stale(t)
    OBVIOUS
<1>2. \A w \in t.versions : w \in Nat
      BY ManagerAssumption DEF Task
<1> QED
    BY <1>1, <1>2 DEF Stale, WithinLag

\* Of what the filter drops, each root is stale, and of what it keeps nothing is.
LEMMA FilterJudges ==
  ASSUME IInv, Sound, NEW v \in {publishedVersion, trainVersion}
  PROVE  LET groups == Routed(done).complete
         IN  /\ \A s \in Samples(groups) \ Samples(Filtered(groups, v)) : s.root \in StaleRoots
             /\ \A s \in Samples(Filtered(groups, v)) : WithinLag(s, v)
<1> DEFINE groups == Routed(done).complete
           K == {g \in Elements(groups) : KeepGroup(g, v)}
<1>1. /\ groups \in Seq(Seq(Task)) /\ GroupsKept(groups)
      /\ Samples(groups) \subseteq Everything
      BY AfterRouting DEF Filled, Buffers
<1>2. Elements(Filtered(groups, v)) = Elements(groups) \cap K
      BY <1>1, SelectIs DEF Selected, Filtered
<1> HIDE DEF groups
<1>3. TypeInv /\ Everything \subseteq Task
      BY AllTasks DEF IInv, Everything
<1>4. ASSUME NEW s \in Samples(groups), s \notin Samples(Filtered(groups, v))
      PROVE  s.root \in StaleRoots
  <2>1. PICK g \in Elements(groups) : s \in Elements(g)
        BY DEF Samples
  <2>2. g \notin Elements(Filtered(groups, v))
        BY <1>4, <2>1 DEF Samples
  <2>3. PICK t \in Elements(g) : ~WithinLag(t, v)
        BY <1>2, <2>2 DEF KeepGroup
  <2>4. t.root = s.root
        BY <1>1, <2>1, GroupsByElement
  <2>5. t \in Everything /\ t \in Task
        BY <1>1, <1>3 DEF Samples
  <2>6. Stale(t)
        BY <1>3, <2>3, <2>5, StaleIs
  <2>   QED
        BY <2>4, <2>5, <2>6 DEF StaleRoots
<1>5. ASSUME NEW s \in Samples(Filtered(groups, v)) PROVE WithinLag(s, v)
  <2>1. PICK g \in Elements(Filtered(groups, v)) : s \in Elements(g)
        BY DEF Samples
  <2>2. KeepGroup(g, v)
        BY <1>2, <2>1
  <2>   QED
        BY <2>1, <2>2 DEF KeepGroup
<1> QED
    BY <1>4, <1>5 DEF groups

\* Of what settling drops, each root is stale.
LEMMA SettleJudges ==
  ASSUME IInv, Sound, NEW v \in {publishedVersion, trainVersion}, NEW s \in SettleDropped(v)
  PROVE  s.root \in StaleRoots
<1> DEFINE buffers == Routed(done)
<1>1. /\ UNION {Elements(buffers.pending[r]) : r \in SettleLost(v)}
           = {t \in InBuffer(buffers.pending) : t.root \in SettleLost(v)}
      /\ Elements(GatherTails(SettleTails, SettleKept(v)))
           = {t \in Elements(SettleTails) : t.root \in SettleKept(v)}
      /\ InBuffer(buffers.pending) \cup Elements(SettleTails) \subseteq Everything
      BY SettleTyped
<1>2. PendingKept(buffers.pending)
      BY AfterRouting DEF Filled
<1>3. TypeInv /\ Everything \subseteq Task
      BY AllTasks DEF IInv, Everything
<1>4. ASSUME NEW r \in SettleLost(v) PROVE r \in StaleRoots
  <2>1. /\ \E t \in Elements(SettleTails) : t.root = r
        /\ ~KeepRoot(r, buffers.pending, SettleTails, v)
        BY DEF SettleLost, SettleKept
  <2>2. PICK t \in Elements(buffers.pending[r]) \cup {u \in Elements(SettleTails) : u.root = r} :
          ~WithinLag(t, v)
        BY <2>1 DEF KeepRoot
  <2>3. r \in Root
        BY <1>1, <1>3, <2>1 DEF Task
  <2>4. t \in Everything /\ t.root = r
    <3>1. CASE t \in Elements(buffers.pending[r])
      <4>1. t.root = r
            BY <1>2, <2>3, <3>1 DEF PendingKept
      <4>2. t \in InBuffer(buffers.pending)
            BY <2>3, <3>1 DEF InBuffer
      <4>   HIDE DEF buffers
      <4>   QED
            BY <1>1, <4>1, <4>2
    <3>2. CASE t \in {u \in Elements(SettleTails) : u.root = r}
          BY <1>1, <3>2
    <3>   QED
          BY <2>2, <3>1, <3>2
  <2>5. Stale(t)
        BY <1>3, <2>2, <2>4, StaleIs
  <2>   QED
        BY <2>4, <2>5 DEF StaleRoots
<1>5. CASE s \in UNION {Elements(buffers.pending[r]) : r \in SettleLost(v)}
      BY <1>1, <1>4, <1>5
<1>6. CASE s \in Elements(SettleTails) \ Elements(GatherTails(SettleTails, SettleKept(v)))
  <2>1. s \in Elements(SettleTails) /\ s.root \notin SettleKept(v)
        BY <1>1, <1>6
  <2>2. s.root \in SettleLost(v)
        BY <2>1 DEF SettleLost
  <2>   QED
        BY <1>4, <2>2
<1>7. CASE s \in Samples(Routed(done).complete)
                   \ Samples(Filtered(Routed(done).complete, v))
      BY <1>7, FilterJudges
<1> QED
    BY <1>5, <1>6, <1>7 DEF SettleDropped

\* What the trainer sees of it.
Seen(left, taken, gone) ==
  /\ left \subseteq OpenRoots /\ OpenRoots' = left
  /\ StaleRoots' = StaleRoots \cap left
  /\ Whole(delivered)' = Whole(delivered) \cup taken
  /\ Whole(discarded)' = Whole(discarded) \cup gone

\* An operation of a sound manager, as the trainer sees it.
LEMMA StoreAfter ==
  ASSUME IInv, Sound, NEW F1, NEW P1, NEW groups, NEW E1, NEW left,
         Leaves(F1, P1, groups, E1, left, delivered', discarded'),
         Everything' = E1, trainVersion' = trainVersion,
         NEW taken, NEW gone, Takes(taken, gone, left, delivered', discarded')
  PROVE  Seen(left, taken, gone)
<1>1. OpenRoots' = left
      BY DEF OpenRoots, Roots, Leaves
<1>2. /\ left \subseteq OpenRoots
      /\ \A t \in Everything : t.root \in left => t \in E1
  <2>1. PICK del1, dis1 : del1 = delivered' /\ dis1 = discarded'
        OBVIOUS
  <2>2. Leaves(F1, P1, groups, E1, left, del1, dis1)
        BY <2>1
  <2>3. Wholly(E1, left, del1, dis1)
        BY <2>2, RootsLeave
  <2>   QED
        BY <2>3 DEF Wholly
<1>3. E1 \subseteq Everything /\ \A t \in E1 : t.root \in left
      BY DEF Leaves, Roots
<1>4. \A t : Stale(t)' <=> Stale(t)
      BY DEF Stale
<1>5. \A r : r \in StaleRoots <=> \E t \in Everything : t.root = r /\ Stale(t)
      BY DEF StaleRoots
<1>6. \A r : r \in StaleRoots' <=> \E t \in E1 : t.root = r /\ Stale(t)
      BY <1>4 DEF StaleRoots
<1>7. StaleRoots' = StaleRoots \cap left
  <2>1. ASSUME NEW r \in StaleRoots' PROVE r \in StaleRoots /\ r \in left
    <3>1. PICK t \in E1 : t.root = r /\ Stale(t)
          BY <1>6
    <3>2. t \in Everything /\ t.root \in left
          BY <1>3
    <3>   QED
          BY <1>5, <3>1, <3>2
  <2>2. ASSUME NEW r \in StaleRoots, r \in left PROVE r \in StaleRoots'
    <3>1. PICK t \in Everything : t.root = r /\ Stale(t)
          BY <1>5
    <3>2. t \in E1
          BY <1>2, <2>2, <3>1
    <3>   QED
          BY <1>6, <3>1, <3>2
  <2>   QED
        BY <2>1, <2>2
<1>8. /\ Whole(delivered') = Whole(delivered) \cup taken
      /\ Whole(discarded') = Whole(discarded) \cup gone
  <2>1. PICK del1, dis1 : del1 = delivered' /\ dis1 = discarded'
        OBVIOUS
  <2>2. Leaves(F1, P1, groups, E1, left, del1, dis1) /\ Takes(taken, gone, left, del1, dis1)
        BY <2>1
  <2>3. Whole(del1) = Whole(delivered) \cup taken
        BY <2>2, WholesLeft
  <2>4. Whole(dis1) = Whole(discarded) \cup gone
        BY <2>2, WholesLeft
  <2>   QED
        BY <2>1, <2>3, <2>4
<1>9. Whole(delivered)' = Whole(delivered') /\ Whole(discarded)' = Whole(discarded')
      BY DEF Whole
<1> QED
    BY <1>1, <1>2, <1>7, <1>8, <1>9 DEF Seen

\* A step that takes nothing from the manager but what it discards for being stale.
Drops(some) ==
  /\ some \subseteq StaleRoots
  /\ OpenRoots' = OpenRoots \ some /\ StaleRoots' = StaleRoots \ some
  /\ Whole(delivered)' = Whole(delivered)
  /\ Whole(discarded)' = Whole(discarded) \cup some

\* The first copy of a root tells whether it has left.
LEMMA FirstCopy == 1 \in Copies /\ StaleRoots \subseteq OpenRoots
  BY Bounds DEF Copies, StaleRoots, OpenRoots

\* What has left and was not handed over was dropped for being stale.
LEMMA GoneIsStale ==
  ASSUME IInv, Sound, NEW F1, NEW P1, NEW groups, NEW E1, NEW left, NEW del1, NEW dis1,
         Leaves(F1, P1, groups, E1, left, del1, dis1), NEW taken, NEW dropped,
         \A s \in dropped : s.root \in StaleRoots,
         \A r : \A c \in Copies : <<r, c>> \in del1 \cup dis1 =>
           <<r, c>> \in delivered \cup discarded \/ r \in taken \/ <<r, c>> \in Ids(dropped)
  PROVE  (OpenRoots \ left) \ taken \subseteq StaleRoots
<1> SUFFICES ASSUME NEW r \in (OpenRoots \ left) \ taken PROVE r \in StaleRoots
    OBVIOUS
<1>1. Wholly(E1, left, del1, dis1)
      BY RootsLeave
<1>2. 1 \in Copies
      BY FirstCopy
<1>3. <<r, 1>> \in del1 \cup dis1
      BY <1>1, <1>2 DEF Wholly
<1>4. <<r, 1>> \notin delivered \cup discarded
      BY <1>2, RootIsHere
<1>5. <<r, 1>> \in Ids(dropped)
      BY <1>2, <1>3, <1>4
<1>6. PICK s \in dropped : <<r, 1>> = <<s.root, s.copy>>
      BY <1>5 DEF Ids
<1> QED
    BY <1>6

\* What is dropped without a root being handed over.
LEMMA DropsWhole ==
  ASSUME IInv, Sound, NEW F1, NEW P1, NEW groups, NEW E1, NEW left, NEW dropped, NEW dis1,
         Leaves(F1, P1, groups, E1, left, delivered, dis1),
         dis1 = discarded \cup Ids(dropped), \A s \in dropped : s.root \in StaleRoots,
         NEW gone, gone = OpenRoots \ left
  PROVE  gone \subseteq StaleRoots /\ Whole(dis1) = Whole(discarded) \cup gone
<1>1. PICK taken : taken = {}
      OBVIOUS
<1>2. Takes(taken, gone, left, delivered, dis1)
      BY <1>1 DEF Takes
<1>3. Whole(dis1) = Whole(discarded) \cup gone
      BY <1>2, WholesLeft
<1>4. \A r : \A c \in Copies : <<r, c>> \in delivered \cup dis1 =>
        <<r, c>> \in delivered \cup discarded \/ r \in taken \/ <<r, c>> \in Ids(dropped)
      OBVIOUS
<1>5. (OpenRoots \ left) \ taken \subseteq StaleRoots
      BY <1>4, GoneIsStale
<1> QED
    BY <1>1, <1>3, <1>5

\* A step that drops such roots only.
LEMMA OnlyDrops ==
  ASSUME IInv, Sound, NEW F1, NEW P1, NEW groups, NEW E1, NEW left,
         Leaves(F1, P1, groups, E1, left, delivered', discarded'),
         Everything' = E1, trainVersion' = trainVersion,
         delivered' = delivered, NEW dropped, discarded' = discarded \cup Ids(dropped),
         \A s \in dropped : s.root \in StaleRoots
  PROVE  \E some : Drops(some)
<1>1. PICK gone, taken, dis1 : gone = OpenRoots \ left /\ taken = {} /\ dis1 = discarded'
      OBVIOUS
<1>2. Takes(taken, gone, left, delivered', discarded')
      BY <1>1 DEF Takes
<1>3. /\ left \subseteq OpenRoots /\ OpenRoots' = left
      /\ StaleRoots' = StaleRoots \cap left
      /\ Whole(delivered)' = Whole(delivered) \cup taken
      /\ Whole(discarded)' = Whole(discarded) \cup gone
  <2>1. Seen(left, taken, gone)
        BY <1>2, StoreAfter
  <2>   QED
        BY <2>1 DEF Seen
<1>4. gone \subseteq StaleRoots
  <2>1. Leaves(F1, P1, groups, E1, left, delivered, dis1) /\ dis1 = discarded \cup Ids(dropped)
        BY <1>1
  <2>   QED
        BY <1>1, <2>1, DropsWhole
<1>5. /\ OpenRoots' = OpenRoots \ gone /\ StaleRoots' = StaleRoots \ gone
      /\ Whole(delivered)' = Whole(delivered)
      BY <1>1, <1>3, FirstCopy
<1> QED
    BY <1>3, <1>4, <1>5 DEF Drops

\* Routing empties the pool of results.
LEMMA Routing ==
  ASSUME IInv, Sound, UNCHANGED <<waiting, out, undispatched, carried>>, done' = <<>>
  PROVE  Everything' = (Unfinished \ Elements(done)) \cup InBuffer(pending') \cup Samples(complete')
<1>1. Elements(done') = {}
      BY NoElements
<1>2. Apart(Elements(waiting), out, Elements(done), Elements(undispatched), Elements(carried))
      BY SoundPlaces
<1>3. Unfinished' = Unfinished \ Elements(done)
      BY <1>1, <1>2 DEF Unfinished, Apart
<1>4. Buffered' = InBuffer(pending')
      BY DEF Buffered, InBuffer
<1> QED
    BY <1>3, <1>4 DEF Everything

\* What routing and the filter leave, and whom they drop.
LEMMA FilterLeaves ==
  ASSUME IInv, Sound, ~Unstamped, ~Untimely
  PROVE  LET buffers == Routed(done)
             kept    == Filtered(buffers.complete, trainVersion)
             dropped == Samples(buffers.complete) \ Samples(kept)
             E1      == (Unfinished \ Elements(done)) \cup InBuffer(buffers.pending)
                          \cup Samples(kept)
         IN  /\ Leaves(Unfinished \ Elements(done), InBuffer(buffers.pending), kept,
                       E1, Roots(E1), delivered, discarded \cup Ids(dropped))
             /\ \A s \in dropped : s.root \in StaleRoots
             /\ \A s \in Samples(kept) : WithinLag(s, trainVersion)
<1> DEFINE buffers == Routed(done)
           kept    == Filtered(buffers.complete, trainVersion)
           dropped == Samples(buffers.complete) \ Samples(kept)
           E1      == (Unfinished \ Elements(done)) \cup InBuffer(buffers.pending)
                        \cup Samples(kept)
<1>1. /\ kept \in Seq(Seq(Task)) /\ GroupsKept(kept)
      /\ InBuffer(buffers.pending) \cup Samples(kept) \subseteq Everything
      /\ Accounted(Unfinished \ Elements(done), InBuffer(buffers.pending),
                   Samples(kept), delivered, discarded \cup Ids(dropped), Submitted)
      BY AfterFilter
<1>2. /\ \A s \in dropped : s.root \in StaleRoots
      /\ \A s \in Samples(kept) : WithinLag(s, trainVersion)
      BY FilterJudges
<1> HIDE DEF buffers, kept, dropped
<1>3. (Unfinished \ Elements(done)) \cup InBuffer(buffers.pending) \cup Samples(kept)
        \subseteq Everything
      BY <1>1 DEF Everything
<1>4. Leaves(Unfinished \ Elements(done), InBuffer(buffers.pending), kept, E1, Roots(E1),
             delivered, discarded \cup Ids(dropped))
      BY <1>1, <1>3 DEF Leaves
<1> QED
    BY <1>2, <1>4 DEF buffers, kept, dropped

\* As many roots are handed over as groups.
LEMMA TakenCount ==
  ASSUME NEW groups \in Seq(Seq(Task)), GroupsKept(groups), NEW n \in 0 .. Len(groups)
  PROVE  Cardinality(Roots(Samples(SubSeq(groups, 1, n)))) = n
<1> DEFINE front == SubSeq(groups, 1, n)
           I == 1 .. n
           R == Roots(Samples(front))
           f == [i \in I |-> groups[i][1].root]
<1>1. n \in Nat /\ DOMAIN groups = 1 .. Len(groups) /\ I \subseteq DOMAIN groups
      OBVIOUS
<1>2. front \in Seq(Seq(Task)) /\ Len(front) = n /\ \A i \in I : front[i] = groups[i]
      OBVIOUS
<1>3. ASSUME NEW i \in I
      PROVE  /\ groups[i][1] \in Elements(groups[i])
             /\ \A s, t \in Elements(groups[i]) : s.root = t.root
  <2>1. /\ groups[i] \in Seq(Task) /\ Len(groups[i]) = GroupSize
        /\ \A s, t \in Elements(groups[i]) : s.root = t.root
    <3>1. i \in DOMAIN groups
          BY <1>1
    <3>2. groups[i] \in Seq(Task)
          BY <3>1
    <3>   QED
          BY <3>1, <3>2 DEF GroupsKept
  <2>2. 1 \in 1 .. Len(groups[i])
        BY <2>1, Bounds
  <2>   QED
        BY <2>1, <2>2, InSequence
<1>4. \A i \in I : Elements(groups[i]) \subseteq Samples(front)
  <2>1. \A i \in I : groups[i] \in Elements(front)
        BY <1>2 DEF Elements
  <2>   QED
        BY <2>1 DEF Samples
<1>5. \A t \in Samples(front) : \E i \in I : t \in Elements(groups[i])
  <2>   SUFFICES ASSUME NEW t \in Samples(front)
                 PROVE  \E i \in I : t \in Elements(groups[i])
        OBVIOUS
  <2>1. PICK g \in Elements(front) : t \in Elements(g)
        BY DEF Samples
  <2>2. PICK i \in I : g = front[i]
        BY <1>2 DEF Elements
  <2>   QED
        BY <1>2, <2>1, <2>2
<1> HIDE DEF front
<1>6. \A i \in I : f[i] \in R
      BY <1>3, <1>4 DEF Roots
<1>7. ASSUME NEW r \in R PROVE \E i \in I : f[i] = r
  <2>1. PICK t \in Samples(front) : t.root = r
        BY DEF Roots
  <2>2. PICK i \in I : t \in Elements(groups[i])
        BY <1>5
  <2>3. f[i] = r
        BY <1>3, <2>1, <2>2
  <2>   QED
        BY <2>3
<1>8. ASSUME NEW i \in I, NEW j \in I, f[i] = f[j] PROVE i = j
  <2>1. groups[i][1].root = groups[j][1].root
        BY <1>8
  <2>2. i \in DOMAIN groups /\ j \in DOMAIN groups
        BY <1>1
  <2>3. PICK s \in Elements(groups[i]), t \in Elements(groups[j]) : s.root = t.root
        BY <1>3, <2>1
  <2>   QED
        BY <2>2, <2>3 DEF GroupsKept
<1> HIDE DEF R
<1>9. f \in Bijection(I, R)
      BY <1>6, <1>7, <1>8 DEF Bijection, Injection, Surjection, IsInjective
<1>10. IsFiniteSet(I) /\ Cardinality(I) = n
      BY <1>1, FS_Interval
<1>11. Cardinality(R) = n
      BY <1>9, <1>10, FS_Bijection DEF ExistsBijection
<1> QED
    BY <1>11 DEF R, front

\* What settling at a call needs: a collect asks for something, and what quiesce
\* returned is run or handed back before anything else is.
Tidy ==
  /\ dpc = "collect" => want > 0
  /\ Sound /\ carried # <<>> => dpc \in {"idle", "finish"} /\ (dpc = "idle" => ~Live)

\* Every step keeps it.
LEMMA TidyKeeps == IInv /\ Tidy /\ [Next]_vars => Tidy'
<1> SUFFICES ASSUME IInv, Tidy, [Next]_vars PROVE Tidy'
    OBVIOUS
<1> USE DEF Tidy, Sound
<1>1. CASE Submit
      BY <1>1 DEF Submit, managerVars
<1>2. CASE Resubmit
      BY <1>2 DEF Resubmit, managerVars
<1>3. CASE Quiesce
      BY <1>3 DEF Quiesce, PauseAndStop, managerVars
<1>4. ASSUME NEW why, why # "none", Raise(why) PROVE Tidy'
      BY <1>4 DEF Raise, Poison
<1>5. CASE SyncWeights
  <2>1. CASE Unstamped \/ Untimely
        BY <1>4, <1>5, <2>1 DEF SyncWeights
  <2>2. CASE ~(Unstamped \/ Untimely)
        BY <1>5, <2>2 DEF SyncWeights, driverVars, Live
  <2>   QED
        BY <2>1, <2>2
<1>6. CASE SyncRaises
      BY <1>4, <1>6 DEF SyncRaises
<1>7. CASE Train
      BY <1>7 DEF Train, poolVars, managerVars, Live
<1>8. CASE Close
      BY <1>8 DEF Close, ClosePool, PauseAndStop, managerVars
<1>9. ASSUME NEW n \in 1 .. MaxRoots, Collect(n) PROVE Tidy'
      BY <1>9, Bounds DEF Collect, poolVars, managerVars
<1>10. ASSUME NEW k \in 1 .. Len(carried), Finish(k) PROVE Tidy'
       BY <1>10 DEF Finish, managerVars
<1>11. CASE CollectTurn
  <2>1. CASE RaisesAt(trainVersion)
        BY <1>4, <1>11, <2>1 DEF CollectTurn
  <2>2. CASE ~RaisesAt(trainVersion)
    <3>1. /\ dpc = "collect" /\ UNCHANGED <<want, carried>>
          /\ dpc' \in {"idle", "collect"} /\ (failure' = failure \/ failure' = "starved")
          BY <1>11, <2>2 DEF CollectTurn, Poison
    <3>   QED
          BY <3>1
  <2>   QED
        BY <2>1, <2>2
<1>12. CASE QuiesceReturns
  <2>1. CASE SettleRaises(trainVersion)
        BY <1>4, <1>12, <2>1 DEF QuiesceReturns
  <2>2. CASE ~SettleRaises(trainVersion)
    <3>1. /\ dpc' = "idle" /\ done' = <<>> /\ waiting' = waiting /\ out' = out /\ out = {}
          /\ dpc = "quiesce"
          BY <1>12, <2>2 DEF QuiesceReturns, Settle
    <3>2. waiting = <<>>
          BY <3>1 DEF IInv, AtCall, Settling
    <3>   QED
          BY <3>1, <3>2 DEF Live
  <2>   QED
        BY <2>1, <2>2
<1>13. CASE FinishReturns
  <2>1. CASE RaisesAt(trainVersion)
        BY <1>4, <1>13, <2>1 DEF FinishReturns
  <2>2. CASE ~RaisesAt(trainVersion)
        BY <1>13, <2>2 DEF FinishReturns, Live
  <2>   QED
        BY <2>1, <2>2
<1>14. CASE CallRaises
       BY <1>4, <1>14 DEF CallRaises
<1>15. CASE CloseReturns
  <2>1. dpc' = "closed"
        BY <1>15 DEF CloseReturns, ClosePool, Settle
  <2>   QED
        BY <2>1
<1>16. CASE Start
       BY <1>16 DEF Start, managerVars, driverVars, Live
<1>17. ASSUME NEW t \in out, Return(t) PROVE Tidy'
       BY <1>17 DEF Return, managerVars, driverVars, Live
<1>18. ASSUME NEW t \in out, Turn(t) PROVE Tidy'
       BY <1>18 DEF Turn, managerVars, driverVars, Live
<1>19. CASE EngineFails
       BY <1>19 DEF EngineFails, managerVars, driverVars, Live
<1>20. CASE UNCHANGED vars
       BY <1>20 DEF vars, poolVars, managerVars, driverVars, Live
<1> QED
    BY <1>1, <1>2, <1>3, <1>5, <1>6, <1>7, <1>8, <1>9, <1>10, <1>11, <1>12, <1>13, <1>14,
       <1>15, <1>16, <1>17, <1>18, <1>19, <1>20 DEF Next, Calls, Returns, Engines

\* The operators of the instance that are the library's.
LEMMA StoreCardinality == ASSUME NEW T PROVE Store!Cardinality(T) = Cardinality(T)
  BY DEF Store!Cardinality, Cardinality

\* The abstract variables that only a call of the driver changes.
Asked == IF dpc = "collect" THEN want ELSE 0
Failed == failure # "none"
Closed == dpc = "closed"
callVars == <<delivered, discarded, Asked, Failed, Closed>>

\* A step that the trainer sees nothing of.
LEMMA Unseen ==
  ASSUME Everything' = Everything, UNCHANGED <<trainVersion, callVars>>
  PROVE  UNCHANGED Store!vars
<1>1. OpenRoots' = OpenRoots
      BY DEF OpenRoots
<1>2. \A t : Stale(t)' <=> Stale(t)
      BY DEF Stale
<1>3. StaleRoots' = StaleRoots
      BY <1>2 DEF StaleRoots
<1>4. UNCHANGED <<Whole(delivered), Whole(discarded)>>
      BY DEF callVars, Whole
<1> QED
    BY <1>1, <1>3, <1>4 DEF Store!vars, callVars, Asked, Failed, Closed

\* Calls that only begin, and the engines' steps that move no version.
LEMMA QuietSteps ==
  ASSUME IInv,
         \/ Resubmit \/ Start \/ EngineFails \/ (\E k \in 1 .. Len(carried) : Finish(k))
         \/ (dpc = "idle" /\ failure = "none" /\ \E call \in Settling : PauseAndStop(call))
         \/ UNCHANGED vars
  PROVE  UNCHANGED Store!vars
<1>1. /\ waiting \in Seq(Task) /\ carried \in Seq(Task) /\ undispatched \in Seq(Task)
      BY DEF IInv, TypeInv
<1>2. Elements(<<>>) = {}
      BY NoElements
<1>3. CASE Resubmit
  <2>1. /\ waiting' = waiting \o carried /\ carried' = <<>>
        /\ UNCHANGED <<out, done, undispatched, pending, complete, trainVersion>>
        /\ UNCHANGED callVars
        BY <1>3 DEF Resubmit, managerVars, callVars, Asked, Failed, Closed
  <2>2. Splits(waiting \o carried, waiting, carried)
        BY <1>1, Joined
  <2>3. Elements(waiting') = Elements(waiting) \cup Elements(carried)
        BY <2>1, <2>2 DEF Splits
  <2>4. Everything' = Everything
        BY <1>2, <2>1, <2>3 DEF Everything, Unfinished, Buffered
  <2>   QED
        BY <2>1, <2>4, Unseen
<1>4. CASE Start
  <2>1. /\ waiting # <<>> /\ out' = out \cup {Head(waiting)} /\ waiting' = Tail(waiting)
        /\ UNCHANGED <<done, undispatched, carried, pending, complete, trainVersion>>
        /\ UNCHANGED callVars
        BY <1>4 DEF Start, managerVars, driverVars, callVars, Asked, Failed, Closed
  <2>2. Elements(waiting) = {Head(waiting)} \cup Elements(Tail(waiting))
        BY <1>1, <2>1, HeadAndTail
  <2>3. Everything' = Everything
        BY <2>1, <2>2 DEF Everything, Unfinished, Buffered
  <2>   QED
        BY <2>1, <2>3, Unseen
<1>5. ASSUME NEW k \in 1 .. Len(carried), Finish(k) PROVE UNCHANGED Store!vars
  <2>1. /\ waiting = <<>>
        /\ waiting' = SubSeq(carried, 1, k) /\ carried' = SubSeq(carried, k + 1, Len(carried))
        /\ UNCHANGED <<out, done, undispatched, pending, complete, trainVersion>>
        /\ UNCHANGED callVars
        BY <1>5 DEF Finish, Live, managerVars, callVars, Asked, Failed, Closed
  <2>2. Splits(carried, SubSeq(carried, 1, k), SubSeq(carried, k + 1, Len(carried)))
    <3>1. k \in 0 .. Len(carried)
          BY <1>1
    <3>   QED
          BY <1>1, <3>1, Cut
  <2>3. Elements(carried) = Elements(waiting') \cup Elements(carried')
        BY <2>1, <2>2 DEF Splits
  <2>4. Everything' = Everything
        BY <1>2, <2>1, <2>3 DEF Everything, Unfinished, Buffered
  <2>   QED
        BY <2>1, <2>4, Unseen
<1>6. ASSUME NEW call \in Settling, PauseAndStop(call), dpc = "idle", failure = "none"
      PROVE  UNCHANGED Store!vars
  <2>1. /\ undispatched' = waiting /\ waiting' = <<>>
        /\ UNCHANGED <<out, done, carried, pending, complete, trainVersion>>
        /\ UNCHANGED callVars
        BY <1>6 DEF PauseAndStop, managerVars, callVars, Asked, Failed, Closed, Settling
  <2>2. undispatched = <<>>
        BY <1>6 DEF IInv, AtCall, Sound, Settling
  <2>3. Everything' = Everything
        BY <1>2, <2>1, <2>2 DEF Everything, Unfinished, Buffered
  <2>   QED
        BY <2>1, <2>3, Unseen
<1>7. CASE EngineFails \/ UNCHANGED vars
  <2>1. /\ UNCHANGED <<waiting, out, done, undispatched, carried, pending, complete, trainVersion>>
        /\ UNCHANGED callVars
        BY <1>7 DEF EngineFails, vars, poolVars, managerVars, driverVars, callVars, Asked,
                    Failed, Closed
  <2>2. Everything' = Everything
        BY <2>1 DEF Everything, Unfinished, Buffered
  <2>   QED
        BY <2>1, <2>2, Unseen
<1> QED
    BY <1>3, <1>4, <1>5, <1>6, <1>7

\* A step after which some of the roots are stale that were not.
Ages == \E some \in SUBSET OpenRoots : Store!Age(some)

LEMMA Aging ==
  ASSUME OpenRoots' = OpenRoots, UNCHANGED callVars, StaleRoots \subseteq StaleRoots'
  PROVE  Ages
<1>1. StaleRoots' \subseteq OpenRoots'
      BY DEF StaleRoots, OpenRoots
<1>2. PICK some : some = StaleRoots'
      OBVIOUS
<1>3. some \in SUBSET OpenRoots /\ StaleRoots' = StaleRoots \cup some
      BY <1>1, <1>2
<1>4. UNCHANGED <<Whole(delivered), Whole(discarded)>>
      BY DEF callVars, Whole
<1>5. Store!Age(some)
      BY <1>3, <1>4 DEF Store!Age, callVars, Asked, Failed, Closed
<1> QED
    BY <1>3, <1>5 DEF Ages

\* One task goes on with the versions it had, and maybe more.
LEMMA AgingOne ==
  ASSUME NEW t \in Everything, NEW u, u.root = t.root, t.versions \subseteq u.versions,
         \A x : x \in Everything' => x \in Everything \/ x = u,
         \A x : x \in Everything => x \in Everything' \/ x = t,
         u \in Everything', UNCHANGED <<trainVersion, callVars>>
  PROVE  Ages
<1>1. \A r : r \in OpenRoots <=> \E x \in Everything : x.root = r
      BY DEF OpenRoots
<1>2. \A r : r \in OpenRoots' <=> \E x \in Everything' : x.root = r
      BY DEF OpenRoots
<1>3. OpenRoots' = OpenRoots
      BY <1>1, <1>2
<1>4. /\ \A x : Stale(x)' <=> Stale(x)
      /\ Stale(t) => Stale(u)
      BY DEF Stale
<1>5. \A r : r \in StaleRoots <=> \E x \in Everything : x.root = r /\ Stale(x)
      BY DEF StaleRoots
<1>6. \A r : r \in StaleRoots' <=> \E x \in Everything' : x.root = r /\ Stale(x)
      BY <1>4 DEF StaleRoots
<1>7. StaleRoots \subseteq StaleRoots'
      BY <1>4, <1>5, <1>6
<1> QED
    BY <1>3, <1>7, Aging

\* Training, and a turn of an engine, may let some roots become stale.
LEMMA AgingSteps ==
  ASSUME IInv, Train \/ \E t \in out : Turn(t) \/ Return(t)
  PROVE  Ages
<1>1. CASE Train
  <2>1. /\ UNCHANGED <<waiting, out, done, undispatched, carried, pending, complete>>
        /\ UNCHANGED callVars /\ trainVersion' = trainVersion + 1
        BY <1>1 DEF Train, poolVars, managerVars, callVars, Asked, Failed, Closed
  <2>2. Everything' = Everything
        BY <2>1 DEF Everything, Unfinished, Buffered
  <2>3. OpenRoots' = OpenRoots
        BY <2>2 DEF OpenRoots
  <2>4. ASSUME NEW t \in Everything, Stale(t) PROVE Stale(t)'
    <3>1. PICK w \in t.versions : trainVersion - w > MaxLag
          BY <2>4 DEF Stale
    <3>2. t \in Task
          BY AllTasks DEF IInv, Everything
    <3>3. w \in Nat /\ trainVersion \in Nat /\ MaxLag \in Nat
          BY <3>1, <3>2, ManagerAssumption DEF Task, IInv, TypeInv
    <3>   QED
          BY <2>1, <3>1, <3>3 DEF Stale
  <2>5. StaleRoots \subseteq StaleRoots'
        BY <2>2, <2>4 DEF StaleRoots
  <2>   QED
        BY <2>1, <2>3, <2>5, Aging
<1>2. ASSUME NEW t \in out, Turn(t) PROVE Ages
  <2>1. PICK u : u = [t EXCEPT !.versions = @ \cup {publishedVersion}]
        OBVIOUS
  <2>2. /\ out' = (out \ {t}) \cup {u}
        /\ UNCHANGED <<waiting, done, undispatched, carried, pending, complete, trainVersion>>
        /\ UNCHANGED callVars
        BY <1>2, <2>1 DEF Turn, managerVars, driverVars, callVars, Asked, Failed, Closed
  <2>3. t \in Task /\ t \in Everything
        BY DEF IInv, TypeInv, Everything, Unfinished
  <2>4. u.root = t.root /\ t.versions \subseteq u.versions
        BY <2>1, <2>3 DEF Task
  <2>5. /\ u \in Everything'
        /\ \A x : x \in Everything' => x \in Everything \/ x = u
        /\ \A x : x \in Everything => x \in Everything' \/ x = t
        BY <2>2 DEF Everything, Unfinished, Buffered
  <2>   QED
        BY <2>2, <2>3, <2>4, <2>5, AgingOne
<1>3. ASSUME NEW t \in out, Return(t) PROVE Ages
  <2>1. PICK status : done' = Append(done, [t EXCEPT !.status = status])
        BY <1>3 DEF Return
  <2>2. PICK u : u = [t EXCEPT !.status = status]
        OBVIOUS
  <2>3. /\ out' = out \ {t} /\ done' = Append(done, u)
        /\ UNCHANGED <<waiting, undispatched, carried, pending, complete, trainVersion>>
        /\ UNCHANGED callVars
        BY <1>3, <2>1, <2>2 DEF Return, managerVars, driverVars, callVars, Asked, Failed, Closed
  <2>4. t \in Task /\ t \in Everything /\ done \in Seq(Task)
        BY DEF IInv, TypeInv, Everything, Unfinished
  <2>5. u.root = t.root /\ t.versions \subseteq u.versions
        BY <2>2, <2>4 DEF Task
  <2>6. Elements(done') = Elements(done) \cup {u}
    <3>1. /\ DOMAIN done = 1 .. Len(done) /\ DOMAIN done' = 1 .. Len(done) + 1
          /\ Len(done) \in Nat
          /\ done'[Len(done) + 1] = u /\ \A i \in 1 .. Len(done) : done'[i] = done[i]
          BY <2>3, <2>4
    <3>   QED
          BY <3>1 DEF Elements
  <2>7. /\ u \in Everything'
        /\ \A x : x \in Everything' => x \in Everything \/ x = u
        /\ \A x : x \in Everything => x \in Everything' \/ x = t
        BY <2>3, <2>6 DEF Everything, Unfinished, Buffered
  <2>   QED
        BY <2>3, <2>4, <2>5, <2>7, AgingOne
<1> QED
    BY <1>1, <1>2, <1>3

\* A new root is one the manager has never had.
LEMMA SubmitMaps ==
  ASSUME IInv, Submit
  PROVE  Store!Submit(nextRoot) /\ nextRoot \in Root
<1>1. /\ dpc = "idle" /\ failure = "none" /\ nextRoot < MaxRoots
      /\ waiting' = waiting \o [c \in 1 .. GroupSize |-> NewTask(nextRoot, c)]
      /\ UNCHANGED <<out, done, undispatched, carried, pending, complete, trainVersion>>
      /\ UNCHANGED callVars
      BY DEF Submit, Usable, managerVars, callVars, Asked, Failed, Closed
<1>2. Sound /\ nextRoot \in Root
  <2>1. nextRoot \in 0 .. MaxRoots
        BY DEF IInv, TypeInv
  <2>   QED
        BY <1>1, <2>1, Bounds DEF Sound, Root
<1> DEFINE new == [c \in 1 .. GroupSize |-> NewTask(nextRoot, c)]
<1>3. new \in Seq(Task) /\ waiting \in Seq(Task)
  <2>1. \A c \in 1 .. GroupSize : NewTask(nextRoot, c) \in Task
        BY <1>2 DEF NewTask, Task
  <2>   QED
        BY <2>1, Bounds DEF IInv, TypeInv
<1>4. Elements(new) = {NewTask(nextRoot, c) : c \in 1 .. GroupSize}
      BY DEF Elements
<1> HIDE DEF new
<1>5. Elements(waiting') = Elements(waiting) \cup Elements(new)
  <2>1. Splits(waiting \o new, waiting, new)
        BY <1>3, Joined
  <2>   QED
        BY <1>1, <2>1 DEF Splits, new
<1>6. Everything' = Everything \cup Elements(new)
      BY <1>1, <1>5 DEF Everything, Unfinished, Buffered
<1>7. \A t \in Elements(new) : t.root = nextRoot /\ ~Stale(t)
      BY <1>4 DEF NewTask, Stale
<1>8. \E t \in Elements(new) : TRUE
      BY <1>4, Bounds
<1>9. OpenRoots' = OpenRoots \cup {nextRoot}
      BY <1>6, <1>7, <1>8 DEF OpenRoots
<1>10. \A t : Stale(t)' <=> Stale(t)
      BY <1>1 DEF Stale
<1>11. StaleRoots' = StaleRoots
      BY <1>6, <1>7, <1>10 DEF StaleRoots
<1>12. nextRoot \notin OpenRoots /\ nextRoot \notin Whole(delivered) \cup Whole(discarded)
  <2>1. \A c \in Copies : <<nextRoot, c>> \notin Submitted
        BY Bounds DEF Submitted, IInv, TypeInv
  <2>2. 1 \in Copies
        BY Bounds DEF Copies
  <2>3. nextRoot \notin OpenRoots
        BY <1>2, <2>1, <2>2, RootIsHere
  <2>4. delivered \cup discarded \subseteq Submitted
        BY <1>2 DEF IInv, Placed, Accounted, Submitted
  <2>5. \A ids : nextRoot \in Whole(ids) => <<nextRoot, 1>> \in ids
        BY <2>2 DEF Whole, Copies
  <2>   QED
        BY <2>1, <2>2, <2>3, <2>4, <2>5
<1>13. UNCHANGED <<Whole(delivered), Whole(discarded)>>
      BY <1>1 DEF callVars, Whole
<1>14. Store!Submit(nextRoot)
      BY <1>1, <1>2, <1>9, <1>11, <1>12, <1>13
         DEF Store!Submit, Store!Usable, Store!Known, callVars, Asked, Failed, Closed, Sound
<1> QED
    BY <1>2, <1>14

\* A collect is asked for as many groups as the driver wants.
LEMMA CollectMaps ==
  ASSUME IInv, NEW n \in 1 .. MaxRoots, Collect(n)
  PROVE  Store!Ask
<1>1. /\ dpc = "idle" /\ failure = "none" /\ dpc' = "collect" /\ want' = n
      /\ UNCHANGED <<failure, delivered, discarded>> /\ n \in Nat \ {0}
      BY Bounds DEF Collect, managerVars
<1>2. Everything' = Everything /\ trainVersion' = trainVersion
      BY DEF Collect, poolVars, managerVars, Everything, Unfinished, Buffered
<1>3. OpenRoots' = OpenRoots
      BY <1>2 DEF OpenRoots
<1>4. \A t : Stale(t)' <=> Stale(t)
      BY <1>2 DEF Stale
<1>5. StaleRoots' = StaleRoots
      BY <1>2, <1>4 DEF StaleRoots
<1>6. UNCHANGED <<Whole(delivered), Whole(discarded)>>
      BY <1>1 DEF Whole
<1> QED
    BY <1>1, <1>3, <1>5, <1>6 DEF Store!Ask, Store!Usable

\* What is lost leaves nothing new behind.
LEMMA Shrinks ==
  ASSUME Everything' \subseteq Everything, trainVersion' = trainVersion
  PROVE  OpenRoots' \subseteq OpenRoots /\ StaleRoots' \subseteq StaleRoots \cap OpenRoots'
<1>1. \A t : Stale(t)' <=> Stale(t)
      BY DEF Stale
<1>2. \A r : r \in StaleRoots <=> \E t \in Everything : t.root = r /\ Stale(t)
      BY DEF StaleRoots
<1>3. \A r : r \in StaleRoots' <=> \E t \in Everything' : t.root = r /\ Stale(t)
      BY <1>1 DEF StaleRoots
<1>4. /\ \A r : r \in OpenRoots <=> \E t \in Everything : t.root = r
      /\ \A r : r \in OpenRoots' <=> \E t \in Everything' : t.root = r
      BY DEF OpenRoots
<1> QED
    BY <1>2, <1>3, <1>4

\* A step with which the manager fails.
Fails ==
  \E some \in SUBSET StaleRoots : \E left \in SUBSET (OpenRoots \ some) :
    Store!Fail(some, left)

\* A step with which it is closed.
Closes ==
  \E some \in SUBSET StaleRoots : \E left \in SUBSET (OpenRoots \ some) :
    Store!Close(some, left)

\* A call that raises.
LEMMA RaiseMaps ==
  ASSUME Sound, NEW why, why # "none", Raise(why)
  PROVE  Fails
<1>1. /\ failure' # "none" /\ dpc' = "idle" /\ done' = <<>>
      /\ UNCHANGED <<waiting, out, undispatched, carried, pending, complete, trainVersion,
                     delivered, discarded>>
      BY DEF Raise, Poison
<1>2. Elements(done') = {}
      BY <1>1, NoElements
<1>3. Everything' \subseteq Everything
      BY <1>1, <1>2 DEF Everything, Unfinished, Buffered
<1>4. OpenRoots' \subseteq OpenRoots /\ StaleRoots' \subseteq StaleRoots \cap OpenRoots'
      BY <1>1, <1>3, Shrinks
<1>5. UNCHANGED <<Whole(delivered), Whole(discarded)>>
      BY <1>1 DEF Whole
<1>6. PICK some, left : some = {} /\ left = OpenRoots'
      OBVIOUS
<1>7. some \in SUBSET StaleRoots /\ left \in SUBSET (OpenRoots \ some)
      BY <1>4, <1>6
<1>8. Store!Fail(some, left)
      BY <1>1, <1>4, <1>5, <1>6 DEF Store!Fail, Store!Usable, Sound
<1> QED
    BY <1>7, <1>8 DEF Fails

\* A pool closed with all it holds.
LEMMA ClosePoolMaps ==
  ASSUME dpc \in {"idle", "close"}, ClosePool, failure # "none" => failure' # "none"
  PROVE  Closes
<1>1. /\ dpc' = "closed" /\ waiting' = <<>> /\ out' = {} /\ done' = <<>>
      /\ UNCHANGED <<undispatched, carried, pending, complete, trainVersion, delivered,
                     discarded>>
      BY DEF ClosePool
<1>2. Elements(<<>>) = {}
      BY NoElements
<1>3. Everything' \subseteq Everything
      BY <1>1, <1>2 DEF Everything, Unfinished, Buffered
<1>4. OpenRoots' \subseteq OpenRoots /\ StaleRoots' \subseteq StaleRoots \cap OpenRoots'
      BY <1>1, <1>3, Shrinks
<1>5. UNCHANGED <<Whole(delivered), Whole(discarded)>>
      BY <1>1 DEF Whole
<1>6. PICK some, left : some = {} /\ left = OpenRoots'
      OBVIOUS
<1>7. some \in SUBSET StaleRoots /\ left \in SUBSET (OpenRoots \ some)
      BY <1>4, <1>6
<1>8. Store!Close(some, left)
      BY <1>1, <1>4, <1>5, <1>6 DEF Store!Close
<1> QED
    BY <1>7, <1>8 DEF Closes

\* A step with which stale roots are discarded, or nothing is seen to happen.
Discards == \E some \in SUBSET StaleRoots : Store!Discard(some)

LEMMA DiscardMaps ==
  ASSUME Sound, \E some : Drops(some), UNCHANGED <<Asked, Failed, Closed>>
  PROVE  Discards
<1>1. PICK some : Drops(some)
      OBVIOUS
<1>2. /\ some \in SUBSET StaleRoots
      /\ OpenRoots' = OpenRoots \ some /\ StaleRoots' = StaleRoots \ some
      /\ Whole(delivered)' = Whole(delivered)
      /\ Whole(discarded)' = Whole(discarded) \cup some
      BY <1>1 DEF Drops
<1>3. Store!Discard(some)
      BY <1>2 DEF Store!Discard, Store!Usable, Asked, Failed, Closed, Sound
<1> QED
    BY <1>2, <1>3 DEF Discards

\* finish returns: it routes and filters.
LEMMA FinishReturnsMaps ==
  ASSUME IInv, FinishReturns
  PROVE  Fails \/ Discards
<1> DEFINE buffers == Routed(done)
           kept    == Filtered(buffers.complete, trainVersion)
           dropped == Samples(buffers.complete) \ Samples(kept)
           F1 == Unfinished \ Elements(done)
           P1 == InBuffer(buffers.pending)
           E1 == F1 \cup P1 \cup Samples(kept)
<1>1. dpc = "finish" /\ Sound
      BY DEF FinishReturns, IInv, AtCall, Sound
<1>2. CASE RaisesAt(trainVersion)
      BY <1>1, <1>2, RaiseMaps DEF FinishReturns
<1>3. CASE ~RaisesAt(trainVersion)
  <2>1. /\ pending' = buffers.pending /\ complete' = kept /\ done' = <<>>
        /\ discarded' = discarded \cup Ids(dropped) /\ delivered' = delivered
        /\ dpc' = "idle"
        /\ UNCHANGED <<waiting, out, failure, undispatched, carried, trainVersion>>
        BY <1>3 DEF FinishReturns
  <2>2. ~Unstamped /\ ~Untimely
        BY <1>3 DEF RaisesAt
  <2>3. /\ Leaves(F1, P1, kept, E1, Roots(E1), delivered, discarded \cup Ids(dropped))
        /\ \A s \in dropped : s.root \in StaleRoots
        BY <1>1, <2>2, FilterLeaves
  <2>4. Everything' = F1 \cup InBuffer(pending') \cup Samples(complete')
        BY <1>1, <2>1, Routing
  <2>5. Everything' = E1
        BY <2>1, <2>4
  <2>   HIDE DEF dropped, kept, F1, P1, E1
  <2>6. PICK left : left = Roots(E1)
        OBVIOUS
  <2>7. Leaves(F1, P1, kept, E1, left, delivered', discarded')
        BY <2>1, <2>3, <2>6
  <2>8. \E some : Drops(some)
        BY <1>1, <2>1, <2>3, <2>5, <2>7, OnlyDrops
  <2>9. UNCHANGED <<Asked, Failed, Closed>>
        BY <1>1, <2>1 DEF Asked, Failed, Closed
  <2>   QED
        BY <1>1, <2>8, <2>9, DiscardMaps
<1> QED
    BY <1>2, <1>3

\* sync_weights: it routes, and filters nothing.
LEMMA SyncWeightsMaps ==
  ASSUME IInv, SyncWeights
  PROVE  Fails \/ Discards
<1> DEFINE buffers == Routed(done)
           groups == buffers.complete
           F1 == Unfinished \ Elements(done)
           P1 == InBuffer(buffers.pending)
           E1 == F1 \cup P1 \cup Samples(groups)
<1>1. dpc = "idle" /\ Sound
      BY DEF SyncWeights, Usable, Sound
<1>2. CASE Unstamped \/ Untimely
      BY <1>1, <1>2, RaiseMaps DEF SyncWeights
<1>3. CASE ~(Unstamped \/ Untimely)
  <2>1. /\ pending' = buffers.pending /\ complete' = groups /\ done' = <<>>
        /\ UNCHANGED <<waiting, out, failure, undispatched, carried, trainVersion, dpc, want,
                       delivered, discarded>>
        BY <1>3 DEF SyncWeights, driverVars
  <2>2. /\ buffers \in Buffers
        /\ Filled(buffers, F1, delivered, discarded, Submitted, Everything)
        BY <1>1, <1>3, AfterRouting, AllFinished
  <2>3. F1 \subseteq Everything
        BY DEF Everything
  <2>   HIDE DEF buffers, F1
  <2>4. Leaves(F1, P1, groups, E1, Roots(E1), delivered, discarded)
    <3>1. /\ groups \in Seq(Seq(Task)) /\ GroupsKept(groups)
          /\ P1 \cup Samples(groups) \subseteq Everything
          /\ Accounted(F1, P1, Samples(groups), delivered, discarded, Submitted)
          BY <2>2 DEF Filled, Buffers
    <3>   HIDE DEF P1, groups
    <3>   QED
          BY <2>3, <3>1 DEF Leaves
  <2>5. Everything' = F1 \cup InBuffer(pending') \cup Samples(complete')
        BY <1>1, <2>1, Routing DEF F1
  <2>6. Everything' = E1
        BY <2>1, <2>5
  <2>   HIDE DEF groups, P1, E1
  <2>7. PICK left, dropped : left = Roots(E1) /\ dropped = {}
        OBVIOUS
  <2>8. Leaves(F1, P1, groups, E1, left, delivered', discarded')
        BY <2>1, <2>4, <2>7
  <2>9. discarded' = discarded \cup Ids(dropped) /\ \A s \in dropped : s.root \in StaleRoots
        BY <2>1, <2>7 DEF Ids
  <2>10. \E some : Drops(some)
         BY <1>1, <2>1, <2>6, <2>8, <2>9, OnlyDrops
  <2>11. UNCHANGED <<Asked, Failed, Closed>>
         BY <2>1 DEF Asked, Failed, Closed
  <2>    QED
         BY <1>1, <2>10, <2>11, DiscardMaps
<1> QED
    BY <1>2, <1>3

\* What settling leaves, and whom it drops.
LEMMA SettleLeaves ==
  ASSUME IInv, Sound, ~Unstamped, waiting = <<>>, out = {}, carried = <<>>,
         NEW v \in {publishedVersion, trainVersion}
  PROVE  LET groups   == Filtered(Routed(done).complete, v)
             returned == Elements(GatherTails(SettleTails, SettleKept(v)))
             buffer   == InBuffer(Discard(Routed(done).pending, SettleLost(v)))
             E1       == returned \cup buffer \cup Samples(groups)
         IN  Leaves(returned, buffer, groups, E1, Roots(E1), delivered,
                    discarded \cup Ids(SettleDropped(v)))
<1> DEFINE pend     == Routed(done).pending
           comp     == Routed(done).complete
           groups   == Filtered(comp, v)
           returned == Elements(GatherTails(SettleTails, SettleKept(v)))
           buffer   == InBuffer(Discard(pend, SettleLost(v)))
           E1       == returned \cup buffer \cup Samples(groups)
<1>1. /\ groups \in Seq(Seq(Task)) /\ GroupsKept(groups)
      /\ returned = {t \in Elements(SettleTails) : t.root \in SettleKept(v)}
      /\ buffer = {t \in InBuffer(pend) : t.root \notin SettleLost(v)}
      /\ Samples(groups) \subseteq Samples(comp)
      /\ InBuffer(pend) \cup Samples(comp) \cup Elements(SettleTails) \subseteq Everything
      BY SettleTyped
<1>2. Accounted(returned, buffer, Samples(groups), delivered,
                discarded \cup Ids(SettleDropped(v)), Submitted)
      BY SettleAccounts
<1> HIDE DEF pend, comp, groups, returned, buffer
<1>3. E1 \subseteq Everything
      BY <1>1
<1>4. Leaves(returned, buffer, groups, E1, Roots(E1), delivered,
             discarded \cup Ids(SettleDropped(v)))
      BY <1>1, <1>2, <1>3 DEF Leaves
<1> QED
    BY <1>4 DEF pend, comp, groups, returned, buffer

\* quiesce returns: it settles what has come back.
LEMMA QuiesceReturnsMaps ==
  ASSUME IInv, QuiesceReturns
  PROVE  Fails \/ Discards
<1> DEFINE v == trainVersion
           groups   == Filtered(Routed(done).complete, v)
           tails    == GatherTails(SettleTails, SettleKept(v))
           left     == Discard(Routed(done).pending, SettleLost(v))
           E1       == Elements(tails) \cup InBuffer(left) \cup Samples(groups)
<1>1. dpc = "quiesce" /\ Sound /\ out = {} /\ waiting = <<>> /\ carried = <<>>
      BY DEF QuiesceReturns, IInv, AtCall, Sound, Settling
<1>2. CASE SettleRaises(v)
      BY <1>1, <1>2, RaiseMaps DEF QuiesceReturns
<1>3. CASE ~SettleRaises(v)
  <2>1. Settle(v, "idle") /\ ~Unstamped
        BY <1>3 DEF QuiesceReturns, SettleRaises
  <2>2. /\ pending' = left /\ complete' = groups /\ carried' = tails
        /\ discarded' = discarded \cup Ids(SettleDropped(v))
        /\ undispatched' = <<>> /\ done' = <<>> /\ dpc' = "idle"
        /\ UNCHANGED <<waiting, out, failure, trainVersion, delivered>>
        BY <2>1 DEF Settle, SettleTails, SettleKept, SettleLost, SettleDropped
  <2>3. Leaves(Elements(tails), InBuffer(left), groups, E1, Roots(E1), delivered,
               discarded \cup Ids(SettleDropped(v)))
        BY <1>1, <2>1, SettleLeaves
  <2>4. \A s \in SettleDropped(v) : s.root \in StaleRoots
        BY <1>1, SettleJudges
  <2>   HIDE DEF groups, tails, left
  <2>5. Everything' = E1
    <3>1. Elements(<<>>) = {}
          BY NoElements
    <3>   QED
          BY <1>1, <2>2, <3>1 DEF Everything, Unfinished, Buffered, InBuffer
  <2>   HIDE DEF E1
  <2>6. PICK rest, F1, P1, dropped :
          /\ rest = Roots(E1) /\ F1 = Elements(tails) /\ P1 = InBuffer(left)
          /\ dropped = SettleDropped(v)
        OBVIOUS
  <2>7. Leaves(F1, P1, groups, E1, rest, delivered', discarded')
        BY <2>2, <2>3, <2>6
  <2>8. /\ discarded' = discarded \cup Ids(dropped) /\ delivered' = delivered
        /\ \A s \in dropped : s.root \in StaleRoots
        BY <2>2, <2>4, <2>6
  <2>9. \E some : Drops(some)
        BY <1>1, <2>2, <2>5, <2>7, <2>8, OnlyDrops
  <2>10. UNCHANGED <<Asked, Failed, Closed>>
         BY <1>1, <2>2 DEF Asked, Failed, Closed
  <2>    QED
         BY <1>1, <2>9, <2>10, DiscardMaps
<1> QED
    BY <1>2, <1>3

\* close returns: it settles by the published version, and keeps no tails.
LEMMA CloseReturnsMaps ==
  ASSUME IInv, Tidy, CloseReturns
  PROVE  Closes
<1> DEFINE v == publishedVersion
           groups   == Filtered(Routed(done).complete, v)
           tails    == GatherTails(SettleTails, SettleKept(v))
           left     == Discard(Routed(done).pending, SettleLost(v))
           E1       == Elements(tails) \cup InBuffer(left) \cup Samples(groups)
<1>1. dpc = "close" /\ Sound /\ waiting = <<>> /\ carried = <<>>
      BY DEF CloseReturns, IInv, AtCall, Sound, Settling, Tidy
<1>2. CASE broken \/ SettleRaises(v)
  <2>1. ClosePool /\ failure' # "none"
        BY <1>2 DEF CloseReturns, Poison
  <2>   QED
        BY <1>1, <2>1, ClosePoolMaps
<1>3. CASE ~broken /\ ~SettleRaises(v)
  <2>1. Settle(v, "closed") /\ out = {} /\ ~Unstamped
        BY <1>3 DEF CloseReturns, SettleRaises
  <2>2. /\ pending' = left /\ complete' = groups /\ carried' = <<>>
        /\ discarded' = discarded \cup Ids(SettleDropped(v))
        /\ undispatched' = <<>> /\ done' = <<>> /\ dpc' = "closed"
        /\ UNCHANGED <<waiting, out, failure, trainVersion, delivered>>
        BY <2>1 DEF Settle, SettleTails, SettleKept, SettleLost, SettleDropped
  <2>3. Leaves(Elements(tails), InBuffer(left), groups, E1, Roots(E1), delivered,
               discarded \cup Ids(SettleDropped(v)))
        BY <1>1, <2>1, SettleLeaves
  <2>4. \A s \in SettleDropped(v) : s.root \in StaleRoots
        BY <1>1, SettleJudges
  <2>   HIDE DEF groups, tails, left
  <2>5. Everything' \subseteq E1
    <3>1. Elements(<<>>) = {}
          BY NoElements
    <3>   QED
          BY <1>1, <2>1, <2>2, <3>1 DEF Everything, Unfinished, Buffered, InBuffer
  <2>6. E1 \subseteq Everything
        BY <2>3 DEF Leaves
  <2>   HIDE DEF E1
  <2>7. PICK rest, F1, P1, dropped, dis1, gone :
          /\ rest = Roots(E1) /\ F1 = Elements(tails) /\ P1 = InBuffer(left)
          /\ dropped = SettleDropped(v) /\ dis1 = discarded \cup Ids(dropped)
          /\ gone = OpenRoots \ Roots(E1)
        OBVIOUS
  <2>8. /\ Leaves(F1, P1, groups, E1, rest, delivered, dis1)
        /\ \A s \in dropped : s.root \in StaleRoots
        /\ dis1 = discarded \cup Ids(dropped) /\ gone = OpenRoots \ rest
        BY <2>3, <2>4, <2>7
  <2>9. gone \subseteq StaleRoots /\ Whole(dis1) = Whole(discarded) \cup gone
        BY <1>1, <2>8, DropsWhole
  <2>10. /\ Whole(discarded)' = Whole(discarded) \cup gone
         /\ Whole(delivered)' = Whole(delivered)
         BY <2>2, <2>7, <2>9 DEF Whole
  <2>11. /\ OpenRoots' \subseteq OpenRoots /\ StaleRoots' \subseteq StaleRoots \cap OpenRoots'
         BY <2>2, <2>5, <2>6, Shrinks
  <2>12. OpenRoots' \cap gone = {}
    <3>1. \A r \in OpenRoots' : r \in Roots(E1)
          BY <2>5 DEF OpenRoots, Roots
    <3>   QED
          BY <2>7, <3>1
  <2>13. PICK rem : rem = OpenRoots'
         OBVIOUS
  <2>14. gone \in SUBSET StaleRoots /\ rem \in SUBSET (OpenRoots \ gone)
         BY <2>9, <2>11, <2>12, <2>13
  <2>15. Store!Close(gone, rem)
         BY <1>1, <2>2, <2>10, <2>11, <2>13 DEF Store!Close, Sound
  <2>    QED
         BY <2>14, <2>15 DEF Closes
<1> QED
    BY <1>2, <1>3

\* A collect hands over taken, and leaves E1 of the roots left.
Hands(F1, P1, rest, E1, left, del1, dis1, taken, gone, n) ==
  /\ Leaves(F1, P1, rest, E1, left, del1, dis1)
  /\ Takes(taken, gone, left, del1, dis1)
  /\ taken \cap StaleRoots = {} /\ Cardinality(taken) = n

\* The groups a collect takes are of roots that leave with them, none of which is stale.
LEMMA FrontTaken ==
  ASSUME IInv, Sound, NEW F1, NEW P1, NEW kept \in Seq(Seq(Task)), NEW E0, NEW dis1,
         Leaves(F1, P1, kept, E0, Roots(E0), delivered, dis1), discarded \subseteq dis1,
         \A s \in Samples(kept) : WithinLag(s, trainVersion),
         NEW n \in 0 .. Len(kept), NEW front, front = SubSeq(kept, 1, n),
         NEW rest, rest = SubSeq(kept, n + 1, Len(kept)),
         NEW taken, taken = Roots(Samples(front)),
         NEW E1, E1 = F1 \cup P1 \cup Samples(rest), NEW left, left = Roots(E1),
         NEW del1, del1 = delivered \cup Ids(Samples(front)),
         NEW gone, gone = (OpenRoots \ left) \ taken
  PROVE  Hands(F1, P1, rest, E1, left, del1, dis1, taken, gone, n)
<1>1. /\ E0 = F1 \cup P1 \cup Samples(kept) /\ E0 \subseteq Everything /\ GroupsKept(kept)
      /\ Accounted(F1, P1, Samples(kept), delivered, dis1, Submitted)
      BY DEF Leaves
<1>2. /\ rest \in Seq(Seq(Task)) /\ GroupsKept(rest) /\ Samples(rest) \subseteq Samples(kept)
      /\ \A t : t \in Samples(front) <=> t \in Samples(kept) /\ t \notin Samples(rest)
      BY <1>1, TakeKeeps
<1>3. Cardinality(taken) = n
      BY <1>1, TakenCount
<1>4. Samples(front) = Samples(kept) \ Samples(rest)
      BY <1>2
<1>5. Accounted(F1, P1, Samples(rest), del1, dis1, Submitted)
      BY <1>1, <1>2, <1>4, LeaveGroups
<1>6. Leaves(F1, P1, rest, E1, left, del1, dis1)
      BY <1>1, <1>2, <1>5 DEF Leaves
<1>7. Wholly(E1, left, del1, dis1)
      BY <1>6, RootsLeave
<1>8. \A r : r \in taken <=> \E s \in Samples(front) : s.root = r
      BY DEF Roots
<1>9. ASSUME NEW r \in taken
      PROVE  r \in OpenRoots \ left /\ r \notin StaleRoots
  <2>1. PICK s \in Samples(front) : s.root = r
        BY <1>8
  <2>2. s \in Samples(kept) /\ s \in E0 /\ s \in Everything /\ s \in Task
    <3>1. s \in Samples(kept) /\ s \in E0 /\ s \in Everything
          BY <1>1, <1>4
    <3>   QED
          BY <3>1, AllTasks DEF IInv, Everything
  <2>3. r \in OpenRoots
        BY <2>1, <2>2 DEF OpenRoots
  <2>4. r \notin left
    <3>1. <<r, s.copy>> \in del1
          BY <2>1 DEF Ids
    <3>2. s.copy \in Copies
          BY <2>2 DEF Task, Copies
    <3>   QED
          BY <1>7, <3>1, <3>2 DEF Wholly
  <2>5. ASSUME r \in StaleRoots PROVE FALSE
    <3>1. PICK t \in Everything : t.root = r /\ Stale(t)
          BY <2>5 DEF StaleRoots
    <3>2. r \in Roots(E0)
          BY <2>1, <2>2 DEF Roots
    <3>3. PICK left0 : left0 = Roots(E0)
          OBVIOUS
    <3>4. Wholly(E0, left0, delivered, dis1)
          BY <3>3, RootsLeave
    <3>5. t \in E0
          BY <3>1, <3>2, <3>3, <3>4 DEF Wholly
    <3>6. t \in Samples(kept)
      <4>1. ASSUME t \in F1 \cup P1 PROVE FALSE
        <5>1. \A q \in Samples(kept) : q.root # t.root
              BY <1>1, <4>1 DEF Accounted
        <5>   QED
              BY <2>1, <2>2, <3>1, <5>1
      <4>   QED
            BY <1>1, <3>5, <4>1
    <3>7. TypeInv /\ t \in Task
          BY AllTasks DEF IInv, Everything
    <3>   QED
          BY <3>1, <3>6, <3>7, StaleIs
  <2>   QED
        BY <2>3, <2>4, <2>5
<1>10. ASSUME NEW r \in Root, NEW c \in Copies
       PROVE  <<r, c>> \in del1 <=> <<r, c>> \in delivered \/ r \in taken
  <2>1. ASSUME <<r, c>> \in Ids(Samples(front)) PROVE r \in taken
    <3>1. PICK s \in Samples(front) : <<r, c>> = <<s.root, s.copy>>
          BY <2>1 DEF Ids
    <3>   QED
          BY <1>8, <3>1
  <2>2. ASSUME r \in taken PROVE <<r, c>> \in Ids(Samples(front))
    <3>1. PICK s \in Samples(front) : s.root = r
          BY <1>8, <2>2
    <3>2. PICK g \in Elements(front) : s \in Elements(g)
          BY <3>1 DEF Samples
    <3>3. g \in Elements(kept)
      <4>1. Splits(kept, front, rest)
            BY Cut
      <4>   QED
            BY <3>2, <4>1 DEF Splits
    <3>4. Unique(Samples(kept))
          BY <1>1 DEF Accounted, Unique
    <3>5. PICK e \in Elements(g) : e.root = s.root /\ e.copy = c
          BY <1>1, <3>2, <3>3, <3>4, GroupIsRoot
    <3>6. e \in Samples(front)
          BY <3>2, <3>5 DEF Samples
    <3>   QED
          BY <3>1, <3>5, <3>6 DEF Ids
  <2>   QED
        BY <2>1, <2>2
<1>11. Takes(taken, gone, left, del1, dis1)
       BY <1>9, <1>10 DEF Takes
<1> QED
    BY <1>3, <1>6, <1>9, <1>11 DEF Hands

\* A step with which a collect is answered.
Delivers ==
  \E some \in SUBSET StaleRoots : \E taken \in SUBSET (OpenRoots \ StaleRoots) :
    Store!Deliver(taken, some)

\* A turn of collect: it hands over the groups, gives up, or waits on.
LEMMA CollectTurnMaps ==
  ASSUME IInv, Tidy, CollectTurn
  PROVE  Fails \/ Discards \/ Delivers
<1> DEFINE buffers == Routed(done)
           kept    == Filtered(buffers.complete, trainVersion)
           dropped == Samples(buffers.complete) \ Samples(kept)
           F1 == Unfinished \ Elements(done)
           P1 == InBuffer(buffers.pending)
           E0 == F1 \cup P1 \cup Samples(kept)
           front == SubSeq(kept, 1, want)
           rest  == SubSeq(kept, want + 1, Len(kept))
<1>1. dpc = "collect" /\ Sound
      BY DEF CollectTurn, IInv, AtCall, Sound
<1>2. CASE RaisesAt(trainVersion)
      BY <1>1, <1>2, RaiseMaps DEF CollectTurn
<1>3. CASE ~RaisesAt(trainVersion)
  <2>1. /\ pending' = buffers.pending /\ done' = <<>>
        /\ discarded' = discarded \cup Ids(dropped)
        /\ UNCHANGED <<waiting, out, want, undispatched, carried, trainVersion>>
        BY <1>3 DEF CollectTurn
  <2>2. \/ /\ Len(kept) >= want /\ delivered' = delivered \cup Ids(Samples(front))
           /\ complete' = rest /\ dpc' = "idle" /\ failure' = failure
        \/ /\ complete' = kept /\ delivered' = delivered
           /\ \/ failure' = "starved" /\ dpc' = "idle"
              \/ failure' = failure /\ dpc' = dpc
        BY <1>3 DEF CollectTurn, Poison
  <2>3. ~Unstamped /\ ~Untimely
        BY <1>3 DEF RaisesAt
  <2>4. /\ Leaves(F1, P1, kept, E0, Roots(E0), delivered, discarded \cup Ids(dropped))
        /\ \A s \in dropped : s.root \in StaleRoots
        /\ \A s \in Samples(kept) : WithinLag(s, trainVersion)
        BY <1>1, <2>3, FilterLeaves
  <2>5. Everything' = F1 \cup InBuffer(pending') \cup Samples(complete')
        BY <1>1, <2>1, Routing
  <2>   HIDE DEF buffers, kept, dropped, F1
  <2>6. Everything' = F1 \cup P1 \cup Samples(complete')
        BY <2>1, <2>5
  <2>   HIDE DEF P1
  <2>7. CASE /\ complete' = kept /\ delivered' = delivered
             /\ \/ failure' = "starved" /\ dpc' = "idle"
                \/ failure' = failure /\ dpc' = dpc
    <3>1. Everything' = E0
          BY <2>6, <2>7
    <3>   HIDE DEF E0
    <3>2. PICK left : left = Roots(E0)
          OBVIOUS
    <3>3. Leaves(F1, P1, kept, E0, left, delivered', discarded')
          BY <2>1, <2>4, <2>7, <3>2
    <3>4. \E some : Drops(some)
          BY <1>1, <2>1, <2>4, <2>7, <3>1, <3>3, OnlyDrops
    <3>5. CASE failure' = failure /\ dpc' = dpc
      <4>1. UNCHANGED <<Asked, Failed, Closed>>
            BY <2>1, <3>5 DEF Asked, Failed, Closed
      <4>   QED
            BY <1>1, <3>4, <4>1, DiscardMaps
    <3>6. CASE failure' = "starved" /\ dpc' = "idle"
      <4>1. PICK some : Drops(some)
            BY <3>4
      <4>2. PICK rem : rem = OpenRoots \ some
            OBVIOUS
      <4>3. /\ some \subseteq StaleRoots /\ OpenRoots' = rem
            /\ StaleRoots' \subseteq StaleRoots \cap rem
            /\ Whole(delivered)' = Whole(delivered)
            /\ Whole(discarded)' = Whole(discarded) \cup some
            BY <4>1, <4>2, FirstCopy DEF Drops
      <4>4. Store!Fail(some, rem)
            BY <1>1, <3>6, <4>3 DEF Store!Fail, Store!Usable, Sound
      <4>   QED
            BY <4>2, <4>3, <4>4 DEF Fails
    <3>   QED
          BY <2>7, <3>5, <3>6
  <2>8. CASE /\ Len(kept) >= want /\ delivered' = delivered \cup Ids(Samples(front))
             /\ complete' = rest /\ dpc' = "idle" /\ failure' = failure
    <3>1. kept \in Seq(Seq(Task)) /\ want \in 0 .. Len(kept) /\ want > 0
          BY <1>1, <2>4, <2>8, Bounds DEF Leaves, IInv, TypeInv, Tidy
    <3>2. PICK taken, E1, left, gone, del1, dis1 :
            /\ taken = Roots(Samples(front)) /\ E1 = F1 \cup P1 \cup Samples(rest)
            /\ left = Roots(F1 \cup P1 \cup Samples(rest))
            /\ gone = (OpenRoots \ Roots(F1 \cup P1 \cup Samples(rest)))
                        \ Roots(Samples(front))
            /\ del1 = delivered \cup Ids(Samples(front))
            /\ dis1 = discarded \cup Ids(dropped)
          OBVIOUS
    <3>3. PICK some, tail : some = front /\ tail = rest
          OBVIOUS
    <3>4. /\ Leaves(F1, P1, tail, E1, left, del1, dis1)
          /\ Takes(taken, gone, left, del1, dis1)
          /\ taken \cap StaleRoots = {} /\ Cardinality(taken) = want
      <4>1. Leaves(F1, P1, kept, E0, Roots(E0), delivered, dis1)
            BY <2>4, <3>2
      <4>2. discarded \subseteq dis1
            BY <3>2
      <4>3. /\ taken = Roots(Samples(some)) /\ E1 = F1 \cup P1 \cup Samples(tail)
            /\ left = Roots(E1) /\ gone = (OpenRoots \ left) \ taken
            /\ del1 = delivered \cup Ids(Samples(some))
            /\ some = SubSeq(kept, 1, want) /\ tail = SubSeq(kept, want + 1, Len(kept))
            BY <3>2, <3>3
      <4>   HIDE DEF E0, front, rest
      <4>4. Hands(F1, P1, tail, E1, left, del1, dis1, taken, gone, want)
            BY <1>1, <2>4, <3>1, <4>1, <4>2, <4>3, FrontTaken
      <4>   QED
            BY <4>4 DEF Hands
    <3>5. Everything' = E1
          BY <2>6, <2>8, <3>2
    <3>6. /\ Leaves(F1, P1, tail, E1, left, delivered', discarded')
          /\ Takes(taken, gone, left, delivered', discarded')
          BY <2>1, <2>8, <3>2, <3>4
    <3>7. Seen(left, taken, gone)
          BY <1>1, <2>1, <3>5, <3>6, StoreAfter
    <3>8. gone \subseteq StaleRoots /\ gone = (OpenRoots \ left) \ taken
      <4>1. \A r : \A c \in Copies : <<r, c>> \in del1 \cup dis1 =>
              <<r, c>> \in delivered \cup discarded \/ r \in taken \/ <<r, c>> \in Ids(dropped)
        <5>   SUFFICES ASSUME NEW r, NEW c \in Copies, <<r, c>> \in Ids(Samples(front))
                       PROVE  r \in taken
              BY <3>2
        <5>1. PICK s \in Samples(front) : <<r, c>> = <<s.root, s.copy>>
              BY DEF Ids
        <5>   QED
              BY <3>2, <5>1 DEF Roots
      <4>2. (OpenRoots \ left) \ taken \subseteq StaleRoots
            BY <1>1, <2>4, <3>4, <4>1, GoneIsStale
      <4>   QED
            BY <3>4, <4>2 DEF Takes
    <3>9. taken \subseteq OpenRoots \ left
          BY <3>4 DEF Takes
    <3>10. /\ OpenRoots' = OpenRoots \ (taken \cup gone) /\ StaleRoots' = StaleRoots \ gone
           /\ Whole(delivered)' = Whole(delivered) \cup taken
           /\ Whole(discarded)' = Whole(discarded) \cup gone
      <4>1. /\ left \subseteq OpenRoots /\ OpenRoots' = left
            /\ StaleRoots' = StaleRoots \cap left
            /\ Whole(delivered)' = Whole(delivered) \cup taken
            /\ Whole(discarded)' = Whole(discarded) \cup gone
            BY <3>7 DEF Seen
      <4>2. left = OpenRoots \ (taken \cup gone)
            BY <3>8, <3>9, <4>1
      <4>3. StaleRoots \cap left = StaleRoots \ gone
            BY <3>4, <4>2, FirstCopy
      <4>   QED
            BY <4>1, <4>2, <4>3
    <3>11. taken \in SUBSET (OpenRoots \ StaleRoots) /\ gone \in SUBSET StaleRoots
           BY <3>4, <3>8, <3>9
    <3>12. Store!Cardinality(taken) = want
           BY <3>4, StoreCardinality
    <3>13. Store!Deliver(taken, gone)
           BY <1>1, <2>8, <3>1, <3>10, <3>12 DEF Store!Deliver, Store!Usable, Sound
    <3>    QED
           BY <3>11, <3>13 DEF Delivers
  <2>   QED
        BY <2>2, <2>7, <2>8
<1> QED
    BY <1>2, <1>3

\* Initially there is nothing.
LEMMA InitMaps == Init => Store!Init
<1> SUFFICES ASSUME Init PROVE Store!Init
    OBVIOUS
<1>1. Elements(<<>>) = {}
      BY NoElements
<1>2. Unfinished = {} /\ Samples(complete) = {}
      BY <1>1 DEF Init, Unfinished, Samples
<1>3. Buffered = {}
  <2>1. \A r \in Root : Elements(pending[r]) = {}
        BY <1>1 DEF Init
  <2>   QED
        BY <2>1 DEF Buffered
<1>4. OpenRoots = {} /\ StaleRoots = {}
      BY <1>2, <1>3 DEF Everything, OpenRoots, StaleRoots
<1>5. Whole({}) = {}
  <2>   SUFFICES ASSUME NEW r \in Whole({}) PROVE FALSE
        OBVIOUS
  <2>1. 1 \in 1 .. GroupSize
        BY Bounds
  <2>2. <<r, 1>> \in {r} \X (1 .. GroupSize)
        BY <2>1
  <2>   QED
        BY <2>2 DEF Whole
<1> QED
    BY <1>4, <1>5 DEF Init, Store!Init

\* What each kind of step is a step of.
LEMMA StoreSteps ==
  ASSUME Ages \/ Fails \/ Closes \/ Discards \/ Delivers \/ Store!Ask
  PROVE  Store!Next
<1>1. CASE Ages
      BY <1>1 DEF Ages, Store!Next
<1>2. CASE Fails
      BY <1>2 DEF Fails, Store!Next
<1>3. CASE Closes
      BY <1>3 DEF Closes, Store!Next
<1>4. CASE Discards
      BY <1>4 DEF Discards, Store!Next
<1>5. CASE Delivers
      BY <1>5 DEF Delivers, Store!Next
<1>6. CASE Store!Ask
      BY <1>6 DEF Store!Next
<1> QED
    BY <1>1, <1>2, <1>3, <1>4, <1>5, <1>6

\* Every step is one of the store's, or not seen.
LEMMA StepMaps == IInv /\ Tidy /\ [Next]_vars => [Store!Next]_(Store!vars)
<1> SUFFICES ASSUME IInv, Tidy, [Next]_vars PROVE Store!Next \/ UNCHANGED Store!vars
    OBVIOUS
<1>1. CASE Submit
  <2>1. Store!Submit(nextRoot) /\ nextRoot \in Root
        BY <1>1, SubmitMaps
  <2>   QED
        BY <2>1 DEF Store!Next
<1>2. CASE Resubmit \/ Start \/ EngineFails \/ (\E k \in 1 .. Len(carried) : Finish(k))
             \/ UNCHANGED vars
      BY <1>2, QuietSteps
<1>3. CASE Quiesce
  <2>1. dpc = "idle" /\ failure = "none" /\ PauseAndStop("quiesce") /\ "quiesce" \in Settling
        BY <1>3 DEF Quiesce, Usable, Settling
  <2>   QED
        BY <2>1, QuietSteps
<1>4. CASE SyncWeights
      BY <1>4, SyncWeightsMaps, StoreSteps
<1>5. CASE SyncRaises
  <2>1. Sound /\ Raise("engine")
        BY <1>5 DEF SyncRaises, Usable, Sound
  <2>   QED
        BY <2>1, RaiseMaps, StoreSteps
<1>6. CASE Train \/ \E t \in out : Turn(t) \/ Return(t)
      BY <1>6, AgingSteps, StoreSteps
<1>7. CASE Close
  <2>1. CASE Usable /\ Live
    <3>1. dpc = "idle" /\ failure = "none" /\ PauseAndStop("close") /\ "close" \in Settling
          BY <1>7, <2>1 DEF Close, Usable, Settling
    <3>   QED
          BY <3>1, QuietSteps
  <2>2. CASE ~(Usable /\ Live)
    <3>1. dpc \in {"idle", "close"} /\ ClosePool /\ failure' = failure
          BY <1>7, <2>2 DEF Close
    <3>   QED
          BY <3>1, ClosePoolMaps, StoreSteps
  <2>   QED
        BY <2>1, <2>2
<1>8. ASSUME NEW n \in 1 .. MaxRoots, Collect(n) PROVE Store!Next
      BY <1>8, CollectMaps, StoreSteps
<1>9. CASE CollectTurn
      BY <1>9, CollectTurnMaps, StoreSteps
<1>10. CASE QuiesceReturns
       BY <1>10, QuiesceReturnsMaps, StoreSteps
<1>11. CASE FinishReturns
       BY <1>11, FinishReturnsMaps, StoreSteps
<1>12. CASE CallRaises
  <2>1. Sound /\ Raise("engine")
        BY <1>12 DEF CallRaises, IInv, AtCall, Sound
  <2>   QED
        BY <2>1, RaiseMaps, StoreSteps
<1>13. CASE CloseReturns
       BY <1>13, CloseReturnsMaps, StoreSteps
<1> QED
    BY <1>1, <1>2, <1>3, <1>4, <1>5, <1>6, <1>7, <1>8, <1>9, <1>10, <1>11, <1>12, <1>13
       DEF Next, Calls, Returns, Engines

\* The manager keeps the promises of RootStore: whatever the engines do and whatever
\* calls fail, a root stays until it is handed over or dropped as a whole; a collect
\* is answered by as many roots as it asked for, none stale; and only stale ones are
\* dropped (rollout.py, _collect, quiesce and _drain with keep_within_lag).
THEOREM Implements == Spec => ImplementsRootStore
<1>1. Init => Tidy
      BY DEF Init, Tidy
<1>2. Spec => [](IInv /\ Tidy)
      BY <1>1, TidyKeeps, InitHolds, NextKeeps, PTL DEF Spec
<1>3. IInv /\ Tidy /\ [Next]_vars => [Store!Next]_(Store!vars)
      BY StepMaps
<1> QED
    BY <1>2, <1>3, InitMaps, PTL DEF Spec, ImplementsRootStore, Store!Spec
=============================================================================
