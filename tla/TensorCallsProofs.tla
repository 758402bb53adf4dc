-------------------------- MODULE TensorCallsProofs --------------------------
(***************************************************************************)
(* Proofs about TensorCalls, for every number of devices, calls, copies    *)
(* and failures: no worker misses a tensor it was passed before a rank has *)
(* failed, and every count is exact.                                       *)
(*                                                                         *)
(* A count is a number, but what it counts are copies: copy 0, which the   *)
(* call or the move that made the tensor left there, and one for each      *)
(* handle copied.  The ledger says which copies are counted at a moment:   *)
(* those alive or still to be counted out, but for those still to be       *)
(* counted in.  A worker that finds a tensor gone has found none counted.  *)
(* None is found so while a handle is alive, as the increment of a copy is *)
(* in the mailbox ahead of the decrement of the handle it was made of: all *)
(* changes to a count go through one worker, the home of the key.          *)
(***************************************************************************)
EXTENDS TensorCalls, FiniteSetTheorems, SequenceTheorems, WellFoundedInduction, TLAPS

Key == Devices \X (Nat \ {0})
Handles == [key : Key, worker : Worker, copy : Nat, owners : SUBSET Int]

\* What a mailbox may hold.
Inc(k, c)  == [op |-> "incref", key |-> k, copy |-> c]
Dec(k, c)  == [op |-> "decref", key |-> k, copy |-> c]
Task(c, a) == [op |-> "call", call |-> c, arg |-> a]
Counts  == {Inc(k, c) : k \in Key, c \in Nat} \cup {Dec(k, c) : k \in Key, c \in Nat}
Tasks   == {Task(c, a) : c \in Nat \ {0}, a \in Key \cup {<<>>}}
Ends    == {Receive(g) : g \in Devices \X Devices} \cup {Send(g) : g \in Devices \X Devices}
Message == Counts \cup Tasks \cup Ends

In(s, x)    == \E i \in 1 .. Len(s) : s[i] = x
Lt(s, x, y) == \E i \in 1 .. Len(s) : \E j \in 1 .. Len(s) : i < j /\ s[i] = x /\ s[j] = y

-----------------------------------------------------------------------------
(***************************************************************************)
(* The ledger.                                                             *)
(***************************************************************************)
Alive(hs, k, c) == \E h \in hs : h.key = k /\ h.copy = c

\* A copy the store counts.
InStore(home, hs, mb, unb, k, c) ==
  /\ Alive(hs, k, c) \/ In(mb[home[k]], Dec(k, c)) \/ (c = 0 /\ k \in unb)
  /\ ~In(mb[home[k]], Inc(k, c))

Units(home, hs, mb, unb, k) == {c \in 0 .. MaxCopies : InStore(home, hs, mb, unb, k, c)}

MadeKey(put, k) == k[2] <= put[k[1]]

\* The handles are of tensors made, each copy once, and of their tensors' workers.
HandlesKept(home, hs, put, cps) ==
  /\ \A h \in hs : h.worker = home[h.key] /\ h.copy <= cps /\ MadeKey(put, h.key)
  /\ \A h, g \in hs : Same(h, g) => h = g

\* So are the changes to counts on their way, and each is made once.
CountsKept(home, mb, put, cps) ==
  \A w \in Worker : \A k \in Key : \A c \in Nat :
    /\ In(mb[w], Inc(k, c)) \/ In(mb[w], Dec(k, c)) =>
         w = home[k] /\ c <= cps /\ MadeKey(put, k)
    /\ ~Lt(mb[w], Inc(k, c), Inc(k, c)) /\ ~Lt(mb[w], Dec(k, c), Dec(k, c))

\* A copy is alive or to be counted out, never both; it is counted in before it
\* is counted out, and after another that is not counted out before.
CopiesKept(home, hs, mb) ==
  \A k \in Key : \A c \in Nat :
    LET box == mb[home[k]]
    IN  /\ In(box, Dec(k, c)) => ~Alive(hs, k, c)
        /\ In(box, Inc(k, c)) =>
             /\ Alive(hs, k, c) \/ Lt(box, Inc(k, c), Dec(k, c))
             /\ \E p \in Nat :
                  /\ p # c /\ ~Lt(box, Inc(k, c), Inc(k, p))
                  /\ Alive(hs, k, p) \/ Lt(box, Inc(k, c), Dec(k, p))

\* A tensor that nobody has bound has no handles.
UnboundKept(home, hs, mb, put, unb) ==
  \A k \in unb :
    /\ MadeKey(put, k)
    /\ \A c \in Nat :
         ~Alive(hs, k, c) /\ ~In(mb[home[k]], Inc(k, c)) /\ ~In(mb[home[k]], Dec(k, c))

\* The store counts the copies that have been counted in and not yet out.
StoreKept(home, hs, mb, cnt, unb) ==
  /\ DOMAIN cnt \subseteq Key
  /\ \A k \in Key :
       LET units == Units(home, hs, mb, unb, k)
       IN  /\ k \in DOMAIN cnt <=> units # {}
           /\ k \in DOMAIN cnt => cnt[k] = Cardinality(units)

Ledger(home, hs, mb, cnt, put, cps, unb) ==
  /\ HandlesKept(home, hs, put, cps)
  /\ CountsKept(home, mb, put, cps)
  /\ CopiesKept(home, hs, mb)
  /\ UnboundKept(home, hs, mb, put, unb)
  /\ StoreKept(home, hs, mb, cnt, unb)

-----------------------------------------------------------------------------
(***************************************************************************)
(* The calls and the launch under way.                                     *)
(***************************************************************************)
Outcome == {"waiting", "ok", "failed", "cancelled"}
Record == [slot : Slot, state : {"pending", "discarding", "collected", "failed"},
           ranks : [Devices -> Outcome], outs : [Devices -> Key \cup {<<>>}]]

Types ==
  /\ poisoned \in BOOLEAN /\ missed \in BOOLEAN
  /\ handles \in SUBSET Handles /\ IsFiniteSet(handles)
  /\ calls \in Seq(Record)
  /\ mailbox \in [Worker -> Seq(Message)]
  /\ running \in [Worker -> Nat]
  /\ puts \in [Devices -> Nat] /\ copies \in 0 .. MaxCopies
  /\ failures \in Nat

Unbound(cs) == {k \in Key : \E c \in DOMAIN cs : cs[c].state # "collected" /\ cs[c].outs[k[1]] = k}

\* A rank that has its part of a call before it has not answered.
Owes(cs, c, w) == c \in DOMAIN cs /\ cs[c].slot = w[2] /\ cs[c].ranks[w[1]] = "waiting"

PartsKept ==
  \A w \in Worker :
    /\ running[w] # 0 => Owes(calls, running[w], w)
    /\ \A c \in Nat \ {0} : \A a \in Key \cup {<<>>} : In(mailbox[w], Task(c, a)) =>
         /\ Owes(calls, c, w) /\ running[w] # c /\ ~Lt(mailbox[w], Task(c, a), Task(c, a))
         /\ \A b \in Key \cup {<<>>} : In(mailbox[w], Task(c, b)) => b = a

CallsKept(home) ==
  \A c \in DOMAIN calls :
    /\ calls[c].state = "failed" => poisoned
    /\ calls[c].state = "collected" => AllOk(c)
    /\ \A d \in Devices :
         LET k == calls[c].outs[d]
         IN  /\ k # <<>> <=> calls[c].ranks[d] = "ok"
             /\ k # <<>> =>
                  /\ k[1] = d /\ MadeKey(puts, k) /\ home[k] = <<d, calls[c].slot>>
                  /\ \A b \in DOMAIN calls : calls[b].outs[d] = k => b = c

\* The arguments of a call on its way are held.
LeasesKept ==
  ~poisoned => \A w \in Worker : \A c \in Nat \ {0} : \A k \in Key :
    In(mailbox[w], Task(c, k)) => \E h \in handles : h.key = k /\ c \in h.owners

Frames == [slot : Slot, shards : [Devices -> Handles \cup {None}],
           groups : SUBSET (Devices \X Devices), waiting : BOOLEAN]

FrameKept ==
  /\ frame = Idle \/ frame \in Frames
  /\ frame.waiting => frame.groups # {}
  /\ frame # Idle =>
       /\ \A d \in Devices : frame.shards[d] # None =>
            \E h \in handles : Same(h, frame.shards[d]) /\ Launching \in h.owners
       /\ \A g \in frame.groups : frame.shards[g[2]] # None /\ g[1] # g[2]

\* The ends of one transfer at most are in the mailboxes, each once, and both of them
\* as long as the driver waits.
EndsApart ==
  \A w, v \in Worker : \A g, f \in Devices \X Devices :
    /\ In(mailbox[w], Receive(g)) \/ In(mailbox[w], Send(g)) =>
         frame.waiting /\ g = First(frame.groups)
    /\ In(mailbox[w], Receive(g)) /\ In(mailbox[v], Receive(f)) => w = v
    /\ In(mailbox[w], Send(g)) /\ In(mailbox[v], Send(f)) => w = v
    /\ ~Lt(mailbox[w], Receive(g), Receive(g)) /\ ~Lt(mailbox[w], Send(g), Send(g))

EndsPosted ==
  frame.waiting =>
    \E src, dst \in Worker : \E g \in Devices \X Devices :
      /\ src = <<g[1], 0>> /\ In(mailbox[src], Send(g))
      /\ dst = <<g[2], 0>> /\ In(mailbox[dst], Receive(g))

EndsKept == EndsApart /\ EndsPosted

Inv(home) ==
  /\ Types /\ home \in [Key -> Worker]
  /\ Ledger(home, handles, mailbox, count, puts, copies, Unbound(calls))
  /\ PartsKept /\ CallsKept(home) /\ LeasesKept /\ FrameKept /\ EndsKept
  /\ TensorsThere

-----------------------------------------------------------------------------
(***************************************************************************)
(* What is in a mailbox, and in what order.                                *)
(***************************************************************************)
LEMMA InThen ==
  ASSUME NEW M, NEW s \in Seq(M), NEW t \in Seq(M)
  PROVE  /\ s \o t \in Seq(M)
         /\ \A x : In(s \o t, x) <=> In(s, x) \/ In(t, x)
         /\ \A x, y : Lt(s \o t, x, y) <=>
                        Lt(s, x, y) \/ Lt(t, x, y) \/ (In(s, x) /\ In(t, y))
<1> DEFINE r == s \o t
           m == Len(s)
           n == Len(t)
<1>1. /\ r \in Seq(M) /\ Len(r) = m + n /\ m \in Nat /\ n \in Nat
      /\ \A i \in 1 .. m : r[i] = s[i]
      /\ \A i \in 1 .. n : r[m + i] = t[i]
  OBVIOUS
<1> HIDE DEF r, m, n
<1>2. /\ \A i \in 1 .. m : i \in 1 .. Len(r)
      /\ \A i \in 1 .. n : m + i \in 1 .. Len(r)
      /\ \A i \in 1 .. Len(r) : i \in 1 .. m \/ (i - m \in 1 .. n /\ i = m + (i - m))
  BY <1>1
<1>3. ASSUME NEW x PROVE In(r, x) <=> In(s, x) \/ In(t, x)
  <2>1. ASSUME In(r, x) PROVE In(s, x) \/ In(t, x)
    <3>1. PICK i \in 1 .. Len(r) : r[i] = x
      BY <2>1 DEF In
    <3>2. CASE i \in 1 .. m
      BY <1>1, <3>1, <3>2 DEF In, m
    <3>3. CASE i - m \in 1 .. n /\ i = m + (i - m)
      <4>1. t[i - m] = x
        BY <1>1, <3>1, <3>3
      <4> QED BY <3>3, <4>1 DEF In, n
    <3> QED BY <1>2, <3>2, <3>3
  <2>2. ASSUME In(s, x) PROVE In(r, x)
    BY <1>1, <1>2, <2>2 DEF In, m
  <2>3. ASSUME In(t, x) PROVE In(r, x)
    BY <1>1, <1>2, <2>3 DEF In, n
  <2> QED BY <2>1, <2>2, <2>3
<1>4. ASSUME NEW x, NEW y
      PROVE  Lt(r, x, y) <=> Lt(s, x, y) \/ Lt(t, x, y) \/ (In(s, x) /\ In(t, y))
  <2>1. ASSUME Lt(r, x, y) PROVE Lt(s, x, y) \/ Lt(t, x, y) \/ (In(s, x) /\ In(t, y))
    <3>1. PICK i \in 1 .. Len(r), j \in 1 .. Len(r) : i < j /\ r[i] = x /\ r[j] = y
      BY <2>1 DEF Lt
    <3>2. CASE j \in 1 .. m
      <4>1. i \in 1 .. m
        BY <1>1, <3>1, <3>2
      <4> QED BY <1>1, <3>1, <3>2, <4>1 DEF Lt, m
    <3>3. CASE i \in 1 .. m /\ j - m \in 1 .. n /\ j = m + (j - m)
      <4>1. s[i] = x /\ t[j - m] = y
        BY <1>1, <3>1, <3>3
      <4> QED BY <3>3, <4>1 DEF In, m, n
    <3>4. CASE /\ i - m \in 1 .. n /\ i = m + (i - m)
               /\ j - m \in 1 .. n /\ j = m + (j - m)
      <4>1. t[i - m] = x /\ t[j - m] = y
        BY <1>1, <3>1, <3>4
      <4>2. i - m < j - m
        BY <1>1, <3>1
      <4> QED BY <3>4, <4>1, <4>2 DEF Lt, n
    <3> QED BY <1>2, <3>2, <3>3, <3>4
  <2>2. ASSUME Lt(s, x, y) PROVE Lt(r, x, y)
    BY <1>1, <1>2, <2>2 DEF Lt, m
  <2>3. ASSUME Lt(t, x, y) PROVE Lt(r, x, y)
    <3>1. PICK i \in 1 .. n, j \in 1 .. n : i < j /\ t[i] = x /\ t[j] = y
      BY <2>3 DEF Lt, n
    <3>2. m + i < m + j /\ r[m + i] = x /\ r[m + j] = y
      BY <1>1, <3>1
    <3> QED BY <1>2, <3>2 DEF Lt
  <2>4. ASSUME In(s, x), In(t, y) PROVE Lt(r, x, y)
    <3>1. PICK i \in 1 .. m : s[i] = x
      BY <2>4 DEF In, m
    <3>2. PICK j \in 1 .. n : t[j] = y
      BY <2>4 DEF In, n
    <3>3. i < m + j
      BY <1>1
    <3>5. r[i] = x /\ r[m + j] = y
      BY <1>1, <3>1, <3>2
    <3>6. i \in 1 .. Len(r) /\ m + j \in 1 .. Len(r)
      BY <1>2
    <3> QED BY <3>3, <3>5, <3>6 DEF Lt
  <2> QED BY <2>1, <2>2, <2>3, <2>4
<1>5. \A x : In(r, x) <=> In(s, x) \/ In(t, x)
  BY <1>3
<1>6. \A x, y : Lt(r, x, y) <=> Lt(s, x, y) \/ Lt(t, x, y) \/ (In(s, x) /\ In(t, y))
  BY <1>4
<1> QED BY <1>1, <1>5, <1>6, Zenon DEF r

LEMMA InNothing == ASSUME NEW x, NEW y PROVE ~In(<<>>, x) /\ ~Lt(<<>>, x, y)
BY DEF In, Lt

LEMMA InOne ==
  ASSUME NEW z, NEW x, NEW y PROVE (In(<<z>>, x) <=> x = z) /\ ~Lt(<<z>>, x, y)
<1>1. Len(<<z>>) = 1 /\ <<z>>[1] = z
  OBVIOUS
<1> QED BY <1>1 DEF In, Lt

LEMMA InTail ==
  ASSUME NEW M, NEW s \in Seq(M), s # <<>>
  PROVE  /\ Head(s) \in M /\ Tail(s) \in Seq(M) /\ In(s, Head(s))
         /\ \A x : In(s, x) <=> x = Head(s) \/ In(Tail(s), x)
         /\ \A x, y : Lt(s, x, y) <=> Lt(Tail(s), x, y) \/ (x = Head(s) /\ In(Tail(s), y))
<1>1. Head(s) \in M /\ Tail(s) \in Seq(M) /\ <<Head(s)>> \in Seq(M) /\ s = <<Head(s)>> \o Tail(s)
  OBVIOUS
<1> DEFINE one == <<Head(s)>>
           rest == Tail(s)
<1>2. /\ \A x : In(s, x) <=> In(one, x) \/ In(rest, x)
      /\ \A x, y : Lt(s, x, y) <=> Lt(one, x, y) \/ Lt(rest, x, y) \/ (In(one, x) /\ In(rest, y))
  <2>1. one \in Seq(M) /\ rest \in Seq(M) /\ s = one \o rest
    BY <1>1
  <2> HIDE DEF one, rest
  <2> QED BY <2>1, InThen
<1>3. \A x, y : (In(one, x) <=> x = Head(s)) /\ ~Lt(one, x, y)
  BY InOne
<1> QED BY <1>1, <1>2, <1>3

\* Taking one out of a mailbox leaves the order of the others.
LEMMA InRemove ==
  ASSUME NEW M, NEW s \in Seq(M), NEW i \in 1 .. Len(s)
  PROVE  LET r == RemoveAt(s, i)
         IN  /\ r \in Seq(M)
             /\ \A x : In(s, x) <=> x = s[i] \/ In(r, x)
             /\ \A x, y : Lt(r, x, y) => Lt(s, x, y)
             /\ \A x, y : x # s[i] /\ y # s[i] /\ Lt(s, x, y) => Lt(r, x, y)
             /\ In(r, s[i]) => Lt(s, s[i], s[i])
<1> DEFINE a == SubSeq(s, 1, i - 1)
           b == SubSeq(s, i + 1, Len(s))
           r == a \o b
           n == Len(s)
<1>1. n \in Nat /\ i \in 1 .. n /\ i \in Int /\ \A k \in 1 .. n : s[k] \in M
  OBVIOUS
<1>2. a \in Seq(M) /\ Len(a) = i - 1 /\ \A k \in 1 .. i - 1 : a[k] = s[k]
  <2>1. 1 \in Int /\ i - 1 \in Int /\ \A k \in 1 .. i - 1 : s[k] \in M
    BY <1>1
  <2>2. /\ a \in Seq(M)
        /\ Len(a) = IF 1 <= i - 1 THEN (i - 1) - 1 + 1 ELSE 0
        /\ \A k \in 1 .. (i - 1) - 1 + 1 : a[k] = s[1 + k - 1]
    BY <2>1, SubSeqProperties
  <2> HIDE DEF a
  <2>3. Len(a) = i - 1
    BY <1>1, <2>2
  <2>4. \A k \in 1 .. i - 1 : k \in 1 .. (i - 1) - 1 + 1 /\ 1 + k - 1 = k
    BY <1>1
  <2> QED BY <2>2, <2>3, <2>4
<1>3. b \in Seq(M) /\ Len(b) = n - i /\ \A k \in 1 .. n - i : b[k] = s[i + k]
  <2>1. i + 1 \in Int /\ n \in Int /\ \A k \in i + 1 .. n : s[k] \in M
    BY <1>1
  <2>2. /\ b \in Seq(M)
        /\ Len(b) = IF i + 1 <= n THEN n - (i + 1) + 1 ELSE 0
        /\ \A k \in 1 .. n - (i + 1) + 1 : b[k] = s[(i + 1) + k - 1]
    BY <2>1, SubSeqProperties
  <2> HIDE DEF b
  <2>3. Len(b) = n - i
    BY <1>1, <2>2
  <2>4. \A k \in 1 .. n - i : k \in 1 .. n - (i + 1) + 1 /\ (i + 1) + k - 1 = i + k
    BY <1>1
  <2> QED BY <2>2, <2>3, <2>4
<1>4. r \in Seq(M) /\ RemoveAt(s, i) = r
  BY <1>2, <1>3 DEF RemoveAt
<1> HIDE DEF a, b
<1>5. /\ Len(r) = n - 1
      /\ \A k \in 1 .. n - 1 : r[k] = IF k < i THEN s[k] ELSE s[k + 1]
  <2>1. /\ Len(r) = Len(a) + Len(b)
        /\ \A k \in 1 .. Len(a) + Len(b) : r[k] = IF k <= Len(a) THEN a[k] ELSE b[k - Len(a)]
    BY <1>2, <1>3, ConcatProperties
  <2> HIDE DEF r
  <2>2. Len(r) = n - 1
    BY <1>1, <1>2, <1>3, <2>1
  <2>3. ASSUME NEW k \in 1 .. n - 1 PROVE r[k] = IF k < i THEN s[k] ELSE s[k + 1]
    <3>1. k \in 1 .. Len(a) + Len(b)
      BY <1>1, <1>2, <1>3
    <3>2. CASE k < i
      <4>1. k \in 1 .. i - 1 /\ k <= Len(a)
        BY <1>1, <1>2, <3>2
      <4> QED BY <1>2, <2>1, <3>1, <3>2, <4>1
    <3>3. CASE ~(k < i)
      <4>1. k - (i - 1) \in 1 .. n - i /\ ~(k <= Len(a)) /\ i + (k - (i - 1)) = k + 1
        BY <1>1, <1>2, <3>3
      <4>2. r[k] = b[k - (i - 1)]
        BY <1>2, <2>1, <3>1, <4>1
      <4> QED BY <1>3, <3>3, <4>1, <4>2
    <3> QED BY <3>2, <3>3
  <2> QED BY <2>2, <2>3
<1> HIDE DEF r, n
<1>6. ASSUME NEW x PROVE In(s, x) <=> x = s[i] \/ In(r, x)
  <2>1. ASSUME In(s, x), x # s[i] PROVE In(r, x)
    <3>1. PICK k \in 1 .. n : s[k] = x
      BY <2>1 DEF In, n
    <3>2. k < i \/ k > i
      BY <1>1, <2>1, <3>1
    <3>3. CASE k < i
      <4>1. k \in 1 .. n - 1
        BY <1>1, <3>1, <3>3
      <4> QED BY <1>5, <3>1, <3>3, <4>1 DEF In
    <3>4. CASE k > i
      <4>1. k - 1 \in 1 .. n - 1 /\ ~(k - 1 < i) /\ (k - 1) + 1 = k
        BY <1>1, <3>1, <3>4
      <4>2. r[k - 1] = x
        BY <1>5, <3>1, <4>1
      <4> QED BY <1>5, <4>1, <4>2 DEF In
    <3> QED BY <3>2, <3>3, <3>4
  <2>2. ASSUME In(r, x) PROVE In(s, x)
    <3>1. PICK k \in 1 .. n - 1 : r[k] = x
      BY <1>5, <2>2 DEF In
    <3> DEFINE l == IF k < i THEN k ELSE k + 1
    <3>2. l \in 1 .. n /\ s[l] = x
      BY <1>1, <1>5, <3>1
    <3> QED BY <3>2 DEF In, n
  <2>3. In(s, s[i])
    BY DEF In
  <2> QED BY <2>1, <2>2, <2>3
<1>7. ASSUME NEW x, NEW y, Lt(r, x, y) PROVE Lt(s, x, y)
  <2>1. PICK k \in 1 .. n - 1, l \in 1 .. n - 1 : k < l /\ r[k] = x /\ r[l] = y
    BY <1>5, <1>7 DEF Lt
  <2> DEFINE k2 == IF k < i THEN k ELSE k + 1
             l2 == IF l < i THEN l ELSE l + 1
  <2>2. k2 \in 1 .. n /\ l2 \in 1 .. n /\ k2 < l2 /\ s[k2] = x /\ s[l2] = y
    BY <1>1, <1>5, <2>1
  <2> HIDE DEF k2, l2
  <2> QED BY <2>2 DEF Lt, n
<1>8. ASSUME NEW x, NEW y, x # s[i], y # s[i], Lt(s, x, y) PROVE Lt(r, x, y)
  <2>1. PICK k \in 1 .. n, l \in 1 .. n : k < l /\ s[k] = x /\ s[l] = y
    BY <1>8 DEF Lt, n
  <2>2. k # i /\ l # i /\ k \in Int /\ l \in Int /\ 1 <= k /\ l <= n
    BY <1>1, <1>8, <2>1
  <2>3. CASE l < i
    <3>1. k \in 1 .. n - 1 /\ l \in 1 .. n - 1 /\ k < i
      BY <1>1, <2>1, <2>2, <2>3
    <3>2. r[k] = x /\ r[l] = y
      BY <1>5, <2>1, <2>3, <3>1
    <3> QED BY <1>5, <2>1, <3>1, <3>2 DEF Lt
  <2>4. CASE k < i /\ i < l
    <3>1. /\ k \in 1 .. n - 1 /\ l - 1 \in 1 .. n - 1 /\ k < l - 1
          /\ ~(l - 1 < i) /\ (l - 1) + 1 = l
      BY <1>1, <2>1, <2>2, <2>4
    <3>2. r[k] = x
      BY <1>5, <2>1, <2>4, <3>1
    <3>3. r[l - 1] = y
      BY <1>5, <2>1, <3>1
    <3> QED BY <1>5, <3>1, <3>2, <3>3 DEF Lt
  <2>5. CASE i < k
    <3>1. /\ k - 1 \in 1 .. n - 1 /\ l - 1 \in 1 .. n - 1 /\ k - 1 < l - 1
          /\ ~(l - 1 < i) /\ (l - 1) + 1 = l /\ ~(k - 1 < i) /\ (k - 1) + 1 = k
      BY <1>1, <2>1, <2>2, <2>5
    <3>2. r[k - 1] = x /\ r[l - 1] = y
      BY <1>5, <2>1, <3>1
    <3> QED BY <1>5, <3>1, <3>2 DEF Lt
  <2>6. l < i \/ (k < i /\ i < l) \/ i < k
    BY <1>1, <2>1, <2>2
  <2> QED BY <2>3, <2>4, <2>5, <2>6
<1>9. \A x : In(s, x) <=> x = s[i] \/ In(r, x)
  BY <1>6
<1>10. /\ \A x, y : Lt(r, x, y) => Lt(s, x, y)
       /\ \A x, y : x # s[i] /\ y # s[i] /\ Lt(s, x, y) => Lt(r, x, y)
  BY <1>7, <1>8
<1>11. ASSUME In(r, s[i]) PROVE Lt(s, s[i], s[i])
  <2>1. PICK k \in 1 .. n - 1 : r[k] = s[i]
    BY <1>5, <1>11 DEF In
  <2>2. CASE k < i
    <3>1. k \in 1 .. n /\ s[k] = s[i]
      BY <1>1, <1>5, <2>1, <2>2
    <3> QED BY <1>1, <2>2, <3>1 DEF Lt, n
  <2>3. CASE ~(k < i)
    <3>1. k + 1 \in 1 .. n /\ i < k + 1
      BY <1>1, <2>3
    <3>2. s[k + 1] = s[i]
      BY <1>5, <2>1, <2>3
    <3> QED BY <1>1, <3>1, <3>2 DEF Lt, n
  <2> QED BY <2>2, <2>3
<1> QED BY <1>4, <1>9, <1>10, <1>11, Zenon

\* A finite set put into a sequence.
LEMMA InSetToSeq ==
  ASSUME NEW M, NEW S \in SUBSET M, IsFiniteSet(S)
  PROVE  /\ SetToSeq(S) \in Seq(M)
         /\ \A x : In(SetToSeq(S), x) <=> x \in S
         /\ \A x : ~Lt(SetToSeq(S), x, x)
<1> DEFINE n == Cardinality(S)
           f == SetToSeq(S)
<1>1. n \in Nat /\ ExistsBijection(1 .. n, S)
  BY FS_CardinalityType
<1>2. \E g \in [1 .. n -> S] : IsInjective(g)
  BY <1>1 DEF ExistsBijection, Bijection, Injection, IsInjective
<1>3. f \in [1 .. n -> S] /\ IsInjective(f)
  BY <1>2 DEF SetToSeq
<1> HIDE DEF f
<1>4. f \in Injection(1 .. n, S)
  BY <1>3 DEF Injection, IsInjective
<1>5. f \in Surjection(1 .. n, S)
  <2>1. Cardinality(1 .. n) = n
    <3>1. 1 \in Int /\ n \in Int
      BY <1>1
    <3>2. Cardinality(1 .. n) = IF 1 > n THEN 0 ELSE n - 1 + 1
      BY <3>1, FS_Interval
    <3> QED BY <1>1, <3>2
  <2> QED BY <1>4, <2>1, FS_Injection
<1>6. /\ f \in Seq(M) /\ Len(f) = n
      /\ \A x \in S : \E i \in 1 .. n : f[i] = x
      /\ \A i \in 1 .. n : f[i] \in S
      /\ \A i, j \in 1 .. n : f[i] = f[j] => i = j
  <2>1. \A x \in S : \E i \in 1 .. n : f[i] = x
    BY <1>5 DEF Surjection
  <2>2. \A i, j \in 1 .. n : f[i] = f[j] => i = j
    BY <1>3 DEF IsInjective
  <2>3. f \in Seq(M) /\ Len(f) = n
    BY <1>1, <1>3
  <2> QED BY <1>3, <2>1, <2>2, <2>3
<1>7. ASSUME NEW x PROVE (In(f, x) <=> x \in S) /\ ~Lt(f, x, x)
  BY <1>6 DEF In, Lt
<1> QED BY <1>6, <1>7 DEF f

-----------------------------------------------------------------------------
(***************************************************************************)
(* Steps of the ledger.                                                    *)
(***************************************************************************)
LEMMA Messages ==
  /\ \A k \in Key, c \in Nat : Inc(k, c) \in Counts /\ Dec(k, c) \in Counts
  /\ \A k, c, l, b :
       /\ Inc(k, c) = Inc(l, b) => k = l /\ c = b
       /\ Dec(k, c) = Dec(l, b) => k = l /\ c = b
       /\ Task(k, c) = Task(l, b) => k = l /\ c = b
       /\ Inc(k, c) # Dec(l, b) /\ Inc(k, c) # Task(l, b) /\ Dec(k, c) # Task(l, b)
<1>1. \A k \in Key, c \in Nat : Inc(k, c) \in Counts /\ Dec(k, c) \in Counts
  BY DEF Counts
<1>2. \A k, c, l, b :
       /\ Inc(k, c) = Inc(l, b) => k = l /\ c = b
       /\ Dec(k, c) = Dec(l, b) => k = l /\ c = b
       /\ Task(k, c) = Task(l, b) => k = l /\ c = b
  BY DEF Inc, Dec, Task
<1>3. \A k, c : Inc(k, c).op = "incref" /\ Dec(k, c).op = "decref" /\ Task(k, c).op = "call"
  BY DEF Inc, Dec, Task
<1>4. \A k, c, l, b : Inc(k, c) # Dec(l, b) /\ Inc(k, c) # Task(l, b) /\ Dec(k, c) # Task(l, b)
  BY <1>3
<1> QED BY <1>1, <1>2, <1>4

LEMMA Kinds ==
  \A k, c, l, b : Inc(k, c) # Dec(l, b) /\ Inc(k, c) # Task(l, b) /\ Dec(k, c) # Task(l, b)
BY Messages

LEMMA EndMessages ==
  /\ \A k, c, g :
       /\ Inc(k, c) # Receive(g) /\ Dec(k, c) # Receive(g) /\ Task(k, c) # Receive(g)
       /\ Inc(k, c) # Send(g) /\ Dec(k, c) # Send(g) /\ Task(k, c) # Send(g)
  /\ \A g, f : Receive(g) # Send(f)
  /\ \A g, f \in Devices \X Devices :
       /\ Receive(g) = Receive(f) => g = f
       /\ Send(g) = Send(f) => g = f
<1>1. /\ \A k, c : Inc(k, c).op = "incref" /\ Dec(k, c).op = "decref" /\ Task(k, c).op = "call"
      /\ \A g : Receive(g).op = "recv" /\ Send(g).op = "send"
  BY DEF Inc, Dec, Task, Receive, Send
<1>2. /\ \A k, c, g :
           /\ Inc(k, c) # Receive(g) /\ Dec(k, c) # Receive(g) /\ Task(k, c) # Receive(g)
           /\ Inc(k, c) # Send(g) /\ Dec(k, c) # Send(g) /\ Task(k, c) # Send(g)
      /\ \A g, f : Receive(g) # Send(f)
  BY <1>1
<1>3. \A g, f \in Devices \X Devices :
       /\ Receive(g) = Receive(f) => g = f
       /\ Send(g) = Send(f) => g = f
  BY DEF Receive, Send
<1> QED BY <1>2, <1>3

\* The ledger reads of the mailboxes only the changes to counts, and of the handles
\* not who owns them.
Agree(mb, mb2) ==
  \A w \in Worker : \A x, y \in Counts :
    (In(mb[w], x) <=> In(mb2[w], x)) /\ (Lt(mb[w], x, y) <=> Lt(mb2[w], x, y))

Alike(hs, hs2) ==
  /\ \A h \in hs2 : \E g \in hs : Same(h, g) /\ h.worker = g.worker
  /\ \A g \in hs : \E h \in hs2 : Same(h, g)
  /\ \A h, g \in hs2 : Same(h, g) => h = g

LEMMA LedgerAgrees ==
  ASSUME NEW home \in [Key -> Worker], NEW hs, NEW hs2, NEW mb, NEW mb2, NEW cnt, NEW put,
         NEW cps, NEW unb \in SUBSET Key,
         Ledger(home, hs, mb, cnt, put, cps, unb), Agree(mb, mb2), Alike(hs, hs2)
  PROVE  Ledger(home, hs2, mb2, cnt, put, cps, unb)
<1>1. \A k, c : Alive(hs, k, c) <=> Alive(hs2, k, c)
  BY DEF Alike, Alive, Same
<1>2. \A k \in Key : \A c, b \in Nat : \A w \in Worker :
        /\ In(mb[w], Inc(k, c)) <=> In(mb2[w], Inc(k, c))
        /\ In(mb[w], Dec(k, c)) <=> In(mb2[w], Dec(k, c))
        /\ Lt(mb[w], Inc(k, c), Inc(k, b)) <=> Lt(mb2[w], Inc(k, c), Inc(k, b))
        /\ Lt(mb[w], Inc(k, c), Dec(k, b)) <=> Lt(mb2[w], Inc(k, c), Dec(k, b))
        /\ Lt(mb[w], Dec(k, c), Dec(k, b)) <=> Lt(mb2[w], Dec(k, c), Dec(k, b))
  BY Messages DEF Agree
<1>3. \A k \in Key : home[k] \in Worker
  OBVIOUS
<1>4. HandlesKept(home, hs2, put, cps)
  <2>1. \A h \in hs2 : h.worker = home[h.key] /\ h.copy <= cps /\ MadeKey(put, h.key)
    BY DEF Ledger, HandlesKept, Alike, Same
  <2> QED BY <2>1 DEF HandlesKept, Alike
<1>5. CountsKept(home, mb2, put, cps)
  BY <1>2 DEF Ledger, CountsKept
<1>6. CopiesKept(home, hs2, mb2)
  BY <1>1, <1>2, <1>3 DEF Ledger, CopiesKept
<1>7. UnboundKept(home, hs2, mb2, put, unb)
  BY <1>1, <1>2, <1>3 DEF Ledger, UnboundKept
<1>8. StoreKept(home, hs2, mb2, cnt, unb)
  <2>1. ASSUME NEW k \in Key PROVE Units(home, hs, mb, unb, k) = Units(home, hs2, mb2, unb, k)
    <3>1. \A c \in 0 .. MaxCopies :
            InStore(home, hs, mb, unb, k, c) <=> InStore(home, hs2, mb2, unb, k, c)
      BY <1>1, <1>2, <1>3 DEF InStore
    <3> QED BY <3>1 DEF Units
  <2> QED BY <2>1 DEF Ledger, StoreKept
<1> QED BY <1>4, <1>5, <1>6, <1>7, <1>8 DEF Ledger

HomeOf(home, home2, k, w) == home2 = [home EXCEPT ![k] = w]

Placed(home, home2, put, put2, k, w) ==
  /\ home2 \in [Key -> Worker] /\ home2[k] = w /\ \A l \in Key : l # k => home2[l] = home[l]
  /\ k \in Key /\ ~MadeKey(put, k) /\ MadeKey(put2, k)
  /\ \A l \in Key : MadeKey(put, l) => MadeKey(put2, l)

PutIn(d, k, put, put2, cnt, cnt2) ==
  /\ k = <<d, put[d] + 1>> /\ put2 = [put EXCEPT ![d] = @ + 1]
  /\ cnt2 = [l \in DOMAIN cnt \cup {k} |-> IF l = k THEN 1 ELSE cnt[l]]

\* A tensor is put: nobody has bound it yet.
LEMMA LedgerPut ==
  ASSUME NEW home \in [Key -> Worker], NEW hs \in SUBSET Handles, NEW mb, NEW cnt,
         NEW put \in [Devices -> Nat], NEW cps, NEW unb \in SUBSET Key,
         Ledger(home, hs, mb, cnt, put, cps, unb),
         NEW d \in Devices, NEW w \in Worker,
         NEW nk, NEW put2, NEW cnt2, PutIn(d, nk, put, put2, cnt, cnt2),
         NEW home2, HomeOf(home, home2, nk, w)
  PROVE  /\ Placed(home, home2, put, put2, nk, w)
         /\ Ledger(home2, hs, mb, cnt2, put2, cps, unb \cup {nk})
<1> USE DEF PutIn, HomeOf
<1> DEFINE unb2 == unb \cup {nk}
<1>1. nk \in Key /\ nk[1] = d /\ nk[2] = put[d] + 1 /\ put[d] \in Nat
  BY DEF Key
<1>2. home2 \in [Key -> Worker] /\ home2[nk] = w /\ \A k \in Key : k # nk => home2[k] = home[k]
  BY <1>1
<1>3. ~MadeKey(put, nk) /\ MadeKey(put2, nk)
  BY <1>1 DEF MadeKey
<1>4. \A k \in Key : MadeKey(put, k) => MadeKey(put2, k)
  BY DEF MadeKey, Key
<1>5. \A h \in hs : h.key \in Key /\ h.key # nk
  BY <1>3 DEF Ledger, HandlesKept, Handles
<1>6. \A c : ~Alive(hs, nk, c)
  BY <1>5 DEF Alive
<1>7. \A v \in Worker : \A c \in Nat : ~In(mb[v], Inc(nk, c)) /\ ~In(mb[v], Dec(nk, c))
  BY <1>1, <1>3 DEF Ledger, CountsKept
<1>8. nk \notin unb
  BY <1>3 DEF Ledger, UnboundKept
<1> HIDE DEF unb2
<1>9. HandlesKept(home2, hs, put2, cps)
  BY <1>2, <1>4, <1>5 DEF Ledger, HandlesKept
<1>10. CountsKept(home2, mb, put2, cps)
  <2>1. ASSUME NEW v \in Worker, NEW k \in Key, NEW c \in Nat,
               In(mb[v], Inc(k, c)) \/ In(mb[v], Dec(k, c))
        PROVE  v = home2[k] /\ c <= cps /\ MadeKey(put2, k)
    BY <1>2, <1>4, <1>7, <2>1 DEF Ledger, CountsKept
  <2> QED BY <2>1 DEF Ledger, CountsKept
<1>11. CopiesKept(home2, hs, mb)
  <2>1. SUFFICES ASSUME NEW k \in Key, NEW c \in Nat
                 PROVE  LET box == mb[home2[k]]
                        IN  /\ In(box, Dec(k, c)) => ~Alive(hs, k, c)
                            /\ In(box, Inc(k, c)) =>
                                 /\ Alive(hs, k, c) \/ Lt(box, Inc(k, c), Dec(k, c))
                                 /\ \E p \in Nat :
                                      /\ p # c /\ ~Lt(box, Inc(k, c), Inc(k, p))
                                      /\ Alive(hs, k, p) \/ Lt(box, Inc(k, c), Dec(k, p))
    BY DEF CopiesKept
  <2>2. CASE k = nk
    BY <1>2, <1>6, <1>7, <2>2
  <2>3. CASE k # nk
    BY <1>2, <2>3 DEF Ledger, CopiesKept
  <2> QED BY <2>2, <2>3
<1>12. UnboundKept(home2, hs, mb, put2, unb2)
  <2>1. SUFFICES ASSUME NEW k \in unb2
                 PROVE  /\ MadeKey(put2, k)
                        /\ \A c \in Nat : /\ ~Alive(hs, k, c)
                                          /\ ~In(mb[home2[k]], Inc(k, c))
                                          /\ ~In(mb[home2[k]], Dec(k, c))
    BY DEF UnboundKept
  <2>2. CASE k = nk
    BY <1>2, <1>3, <1>6, <1>7, <2>2
  <2>3. CASE k # nk /\ k \in unb
    BY <1>2, <1>4, <2>3 DEF Ledger, UnboundKept
  <2> QED BY <2>1, <2>2, <2>3 DEF unb2
<1>13. StoreKept(home2, hs, mb, cnt2, unb2)
  <2>1. DOMAIN cnt2 = DOMAIN cnt \cup {nk} /\ DOMAIN cnt2 \subseteq Key
    BY <1>1 DEF Ledger, StoreKept
  <2>2. ASSUME NEW k \in Key
        PROVE  LET units == Units(home2, hs, mb, unb2, k)
               IN  /\ k \in DOMAIN cnt2 <=> units # {}
                   /\ k \in DOMAIN cnt2 => cnt2[k] = Cardinality(units)
    <3>1. CASE k = nk
      <4>1. \A c \in 0 .. MaxCopies : InStore(home2, hs, mb, unb2, k, c) <=> c = 0
        BY <1>2, <1>6, <1>7, <3>1 DEF InStore, unb2
      <4>2. Units(home2, hs, mb, unb2, k) = {0}
        <5>1. 0 \in 0 .. MaxCopies
          BY CallsAssumption
        <5>2. \A c : c \in Units(home2, hs, mb, unb2, k) <=> c = 0
          BY <4>1, <5>1 DEF Units
        <5> QED BY <5>2
      <4>3. Cardinality({0}) = 1
        BY FS_Singleton
      <4> QED BY <2>1, <3>1, <4>2, <4>3
    <3>2. CASE k # nk
      <4>1. \A c \in 0 .. MaxCopies :
              InStore(home2, hs, mb, unb2, k, c) <=> InStore(home, hs, mb, unb, k, c)
        BY <1>2, <3>2 DEF InStore, unb2
      <4>2. Units(home2, hs, mb, unb2, k) = Units(home, hs, mb, unb, k)
        BY <4>1 DEF Units
      <4>3. (k \in DOMAIN cnt2 <=> k \in DOMAIN cnt) /\ (k \in DOMAIN cnt => cnt2[k] = cnt[k])
        BY <2>1, <3>2
      <4> QED BY <4>2, <4>3 DEF Ledger, StoreKept
    <3> QED BY <3>1, <3>2
  <2> QED BY <2>1, <2>2 DEF StoreKept
<1>14. Ledger(home2, hs, mb, cnt2, put2, cps, unb2)
  BY <1>9, <1>10, <1>11, <1>12, <1>13 DEF Ledger
<1> QED BY <1>1, <1>2, <1>3, <1>4, <1>14 DEF Placed, unb2

\* Tensors nobody had bound are bound, each by one handle.
LEMMA LedgerBind ==
  ASSUME NEW home \in [Key -> Worker], NEW hs, NEW mb, NEW cnt, NEW put, NEW cps \in Nat,
         NEW unb \in SUBSET Key, Ledger(home, hs, mb, cnt, put, cps, unb),
         NEW new, NEW unb2, unb2 = unb \ {h.key : h \in new},
         \A h \in new : h.key \in unb /\ h.copy = 0 /\ h.worker = home[h.key],
         \A h, g \in new : h.key = g.key => h = g
  PROVE  Ledger(home, hs \cup new, mb, cnt, put, cps, unb2)
<1> DEFINE hs2 == hs \cup new
           bound == {h.key : h \in new}
<1>1. \A k \in Key : \A c : Alive(hs2, k, c) <=> Alive(hs, k, c) \/ (c = 0 /\ k \in bound)
  BY DEF Alive
<1>2. bound \subseteq unb /\ bound \subseteq Key
  OBVIOUS
<1>3. \A k \in bound : MadeKey(put, k) /\ \A c \in Nat :
        ~Alive(hs, k, c) /\ ~In(mb[home[k]], Inc(k, c)) /\ ~In(mb[home[k]], Dec(k, c))
  BY <1>2 DEF Ledger, UnboundKept
<1>4. HandlesKept(home, hs2, put, cps)
  <2>1. \A h \in hs2 : h.worker = home[h.key] /\ h.copy <= cps /\ MadeKey(put, h.key)
    BY <1>3 DEF Ledger, HandlesKept
  <2>2. ASSUME NEW h \in hs2, NEW g \in hs2, Same(h, g) PROVE h = g
    <3>1. CASE h \in hs /\ g \in hs
      BY <2>2, <3>1 DEF Ledger, HandlesKept
    <3>2. CASE h \in new /\ g \in new
      BY <2>2, <3>2 DEF Same
    <3>3. CASE h \in hs /\ g \in new
      <4>1. Alive(hs, g.key, 0) /\ g.key \in bound
        BY <2>2, <3>3 DEF Same, Alive
      <4> QED BY <1>3, <4>1
    <3>4. CASE h \in new /\ g \in hs
      <4>1. Alive(hs, h.key, 0) /\ h.key \in bound
        BY <2>2, <3>4 DEF Same, Alive
      <4> QED BY <1>3, <4>1
    <3> QED BY <3>1, <3>2, <3>3, <3>4
  <2> QED BY <2>1, <2>2 DEF HandlesKept
<1> HIDE DEF hs2, bound
<1>5. CopiesKept(home, hs2, mb)
  BY <1>1, <1>3 DEF Ledger, CopiesKept
<1>6. UnboundKept(home, hs2, mb, put, unb2)
  <2>1. \A k \in unb2 : k \in unb /\ k \notin bound
    BY DEF bound
  <2> QED BY <1>1, <2>1 DEF Ledger, UnboundKept
<1>7. StoreKept(home, hs2, mb, cnt, unb2)
  <2>1. ASSUME NEW k \in Key PROVE Units(home, hs, mb, unb, k) = Units(home, hs2, mb, unb2, k)
    <3>1. k \in unb <=> k \in unb2 \/ k \in bound
      BY <1>2 DEF bound
    <3>2. \A c \in 0 .. MaxCopies :
            InStore(home, hs, mb, unb, k, c) <=> InStore(home, hs2, mb, unb2, k, c)
      BY <1>1, <3>1 DEF InStore
    <3> QED BY <3>2 DEF Units
  <2> QED BY <2>1 DEF Ledger, StoreKept
<1> QED BY <1>4, <1>5, <1>6, <1>7 DEF Ledger, hs2

\* One more message at the end of a mailbox.
Posted(mb, mb2, at, m) ==
  \A w \in Worker : \A x, y :
    /\ In(mb2[w], x) <=> In(mb[w], x) \/ (w = at /\ x = m)
    /\ Lt(mb2[w], x, y) <=> Lt(mb[w], x, y) \/ (w = at /\ In(mb[w], x) /\ y = m)

\* A handle is copied: the copy is counted when its increment is.
LEMMA LedgerCopy ==
  ASSUME NEW home \in [Key -> Worker], NEW hs \in SUBSET Handles, NEW mb, NEW cnt, NEW put,
         NEW cps \in Nat, NEW unb \in SUBSET Key, Ledger(home, hs, mb, cnt, put, cps, unb),
         NEW h \in hs, NEW h2, h2.key = h.key, h2.worker = h.worker, h2.copy = cps + 1,
         NEW mb2, Posted(mb, mb2, h.worker, Inc(h.key, cps + 1))
  PROVE  Ledger(home, hs \cup {h2}, mb2, cnt, put, cps + 1, unb)
<1> DEFINE hs2 == hs \cup {h2}
           n == cps + 1
<1>1. /\ h.key \in Key /\ h.copy \in Nat /\ h.worker = home[h.key] /\ h.copy <= cps
      /\ MadeKey(put, h.key)
  BY DEF Handles, Ledger, HandlesKept
<1>2. n \in Nat /\ ~(n <= cps) /\ n # h.copy /\ \A c \in Nat : c <= cps => c <= n
  BY <1>1
<1>3. \A g \in hs : g.copy <= cps /\ g.copy # n /\ g.copy \in Nat
  BY <1>2 DEF Ledger, HandlesKept, Handles
<1>4. /\ \A k \in Key : \A w \in Worker : ~In(mb[w], Inc(k, n)) /\ ~In(mb[w], Dec(k, n))
      /\ \A k : ~Alive(hs, k, n)
  BY <1>2, <1>3 DEF Ledger, CountsKept, Alive
<1>5. \A k, c : Alive(hs2, k, c) <=> Alive(hs, k, c) \/ (k = h.key /\ c = n)
  BY DEF Alive
<1>6. \A k \in Key : \A w \in Worker : \A c, b \in Nat :
        /\ In(mb2[w], Inc(k, c)) <=> In(mb[w], Inc(k, c)) \/ (w = h.worker /\ k = h.key /\ c = n)
        /\ In(mb2[w], Dec(k, c)) <=> In(mb[w], Dec(k, c))
        /\ Lt(mb2[w], Inc(k, c), Inc(k, b)) <=>
             \/ Lt(mb[w], Inc(k, c), Inc(k, b))
             \/ w = h.worker /\ In(mb[w], Inc(k, c)) /\ k = h.key /\ b = n
        /\ Lt(mb2[w], Inc(k, c), Dec(k, b)) <=> Lt(mb[w], Inc(k, c), Dec(k, b))
        /\ Lt(mb2[w], Dec(k, c), Dec(k, b)) <=> Lt(mb[w], Dec(k, c), Dec(k, b))
  BY Messages DEF Posted
<1> HIDE DEF hs2, n
<1>7. HandlesKept(home, hs2, put, n)
  <2>1. \A g \in hs2 : g.worker = home[g.key] /\ g.copy <= n /\ MadeKey(put, g.key)
    BY <1>1, <1>2, <1>3 DEF Ledger, HandlesKept, hs2, n
  <2>2. \A f, g \in hs2 : Same(f, g) => f = g
    BY <1>3 DEF Ledger, HandlesKept, hs2, n, Same
  <2> QED BY <2>1, <2>2 DEF HandlesKept
<1>8. CountsKept(home, mb2, put, n)
  <2>1. ASSUME NEW w \in Worker, NEW k \in Key, NEW c \in Nat,
               In(mb2[w], Inc(k, c)) \/ In(mb2[w], Dec(k, c))
        PROVE  w = home[k] /\ c <= n /\ MadeKey(put, k)
    BY <1>1, <1>2, <1>6, <2>1 DEF Ledger, CountsKept
  <2>2. ASSUME NEW w \in Worker, NEW k \in Key, NEW c \in Nat
        PROVE  ~Lt(mb2[w], Inc(k, c), Inc(k, c)) /\ ~Lt(mb2[w], Dec(k, c), Dec(k, c))
    BY <1>4, <1>6 DEF Ledger, CountsKept
  <2> QED BY <2>1, <2>2 DEF CountsKept
<1>9. CopiesKept(home, hs2, mb2)
  <2> SUFFICES ASSUME NEW k \in Key, NEW c \in Nat
               PROVE  LET box == mb2[home[k]]
                      IN  /\ In(box, Dec(k, c)) => ~Alive(hs2, k, c)
                          /\ In(box, Inc(k, c)) =>
                               /\ Alive(hs2, k, c) \/ Lt(box, Inc(k, c), Dec(k, c))
                               /\ \E p \in Nat :
                                    /\ p # c /\ ~Lt(box, Inc(k, c), Inc(k, p))
                                    /\ Alive(hs2, k, p) \/ Lt(box, Inc(k, c), Dec(k, p))
    BY DEF CopiesKept
  <2> DEFINE box == mb[home[k]]
             box2 == mb2[home[k]]
  <2>1. home[k] \in Worker
    OBVIOUS
  <2>2. ASSUME In(box2, Dec(k, c)) PROVE ~Alive(hs2, k, c)
    BY <1>4, <1>5, <1>6, <2>1, <2>2 DEF Ledger, CopiesKept
  <2>3. ASSUME In(box2, Inc(k, c)), c # n
        PROVE  /\ Alive(hs2, k, c) \/ Lt(box2, Inc(k, c), Dec(k, c))
               /\ \E p \in Nat :
                    /\ p # c /\ ~Lt(box2, Inc(k, c), Inc(k, p))
                    /\ Alive(hs2, k, p) \/ Lt(box2, Inc(k, c), Dec(k, p))
    <3>1. In(box, Inc(k, c))
      BY <1>6, <2>1, <2>3
    <3>2. Alive(hs2, k, c) \/ Lt(box2, Inc(k, c), Dec(k, c))
      BY <1>5, <1>6, <2>1, <3>1 DEF Ledger, CopiesKept
    <3>3. PICK p \in Nat : /\ p # c /\ ~Lt(box, Inc(k, c), Inc(k, p))
                           /\ Alive(hs, k, p) \/ Lt(box, Inc(k, c), Dec(k, p))
      BY <3>1 DEF Ledger, CopiesKept
    <3>4. Lt(box, Inc(k, c), Dec(k, p)) => In(box, Dec(k, p))
      BY DEF Lt, In
    <3>5. p # n
      BY <1>4, <2>1, <3>3, <3>4
    <3> QED BY <1>5, <1>6, <2>1, <3>2, <3>3, <3>5
  <2>4. ASSUME In(box2, Inc(k, c)), c = n
        PROVE  /\ Alive(hs2, k, c) \/ Lt(box2, Inc(k, c), Dec(k, c))
               /\ \E p \in Nat :
                    /\ p # c /\ ~Lt(box2, Inc(k, c), Inc(k, p))
                    /\ Alive(hs2, k, p) \/ Lt(box2, Inc(k, c), Dec(k, p))
    <3>1. k = h.key /\ ~In(box, Inc(k, c))
      BY <1>4, <1>6, <2>1, <2>4
    <3>2. ~Lt(box, Inc(k, c), Inc(k, h.copy))
      BY <3>1 DEF Lt, In
    <3>3. ~Lt(box2, Inc(k, c), Inc(k, h.copy))
      BY <1>1, <1>6, <2>1, <3>1, <3>2
    <3>4. Alive(hs, k, h.copy)
      BY <3>1 DEF Alive
    <3>5. Alive(hs2, k, h.copy) /\ Alive(hs2, k, c)
      BY <1>5, <2>4, <3>1, <3>4
    <3>6. h.copy # c /\ h.copy \in Nat
      BY <1>1, <1>2, <2>4
    <3> QED BY <3>3, <3>5, <3>6
  <2> HIDE DEF box2
  <2> QED BY <2>2, <2>3, <2>4 DEF box2
<1>10. UnboundKept(home, hs2, mb2, put, unb)
  <2>1. h.key \notin unb
    BY <1>1 DEF Ledger, UnboundKept, Alive
  <2>2. \A k \in Key : home[k] \in Worker
    OBVIOUS
  <2> QED BY <1>5, <1>6, <2>1, <2>2 DEF Ledger, UnboundKept
<1>11. StoreKept(home, hs2, mb2, cnt, unb)
  <2>1. ASSUME NEW k \in Key PROVE Units(home, hs, mb, unb, k) = Units(home, hs2, mb2, unb, k)
    <3>1. home[k] \in Worker
      OBVIOUS
    <3>2. \A c \in 0 .. MaxCopies :
            InStore(home, hs, mb, unb, k, c) <=> InStore(home, hs2, mb2, unb, k, c)
      <4> SUFFICES ASSUME NEW c \in 0 .. MaxCopies
                   PROVE  InStore(home, hs, mb, unb, k, c) <=> InStore(home, hs2, mb2, unb, k, c)
        OBVIOUS
      <4>1. c \in Nat
        OBVIOUS
      <4>2. CASE c # n \/ k # h.key
        BY <1>5, <1>6, <3>1, <4>1, <4>2 DEF InStore
      <4>3. CASE c = n /\ k = h.key
        <5>1. In(mb2[home[k]], Inc(k, c))
          BY <1>1, <1>6, <3>1, <4>1, <4>3
        <5>2. c # 0
          BY <4>3 DEF n
        <5> QED BY <1>4, <3>1, <4>3, <5>1, <5>2 DEF InStore
      <4> QED BY <4>2, <4>3
    <3> QED BY <3>2 DEF Units
  <2> QED BY <2>1 DEF Ledger, StoreKept
<1> QED BY <1>7, <1>8, <1>9, <1>10, <1>11 DEF Ledger, hs2, n

Living(hs) == {h \in hs : h.owners # {}}
Decs(hs, w) == {Dec(h.key, h.copy) : h \in {g \in hs : g.owners = {} /\ g.worker = w}}

DecsOf(hs, ext) ==
  \A w \in Worker : \A x : (In(ext[w], x) <=> x \in Decs(hs, w)) /\ ~Lt(ext[w], x, x)

Extended(mb, ext, mb2) ==
  \A w \in Worker : \A x, y :
    /\ In(mb2[w], x) <=> In(mb[w], x) \/ In(ext[w], x)
    /\ Lt(mb2[w], x, y) <=>
         Lt(mb[w], x, y) \/ Lt(ext[w], x, y) \/ (In(mb[w], x) /\ In(ext[w], y))

\* The handles nobody refers to any more are collected: their decrements are posted.
LEMMA LedgerCollect ==
  ASSUME NEW home \in [Key -> Worker], NEW hs \in SUBSET Handles, NEW mb, NEW cnt, NEW put,
         NEW cps, NEW unb \in SUBSET Key, Ledger(home, hs, mb, cnt, put, cps, unb),
         NEW mb2, NEW ext,
         DecsOf(hs, ext), Extended(mb, ext, mb2)
  PROVE  Ledger(home, Living(hs), mb2, cnt, put, cps, unb)
<1> USE DEF DecsOf, Extended
<1> DEFINE hs2 == Living(hs)
           Gone(k, c) == \E h \in hs : h.owners = {} /\ h.key = k /\ h.copy = c
<1>1. \A h \in hs : /\ h.key \in Key /\ h.copy \in Nat /\ h.worker = home[h.key] /\ h.copy <= cps
                    /\ MadeKey(put, h.key)
  BY DEF Handles, Ledger, HandlesKept
<1>2. /\ \A k, c : Alive(hs, k, c) <=> Alive(hs2, k, c) \/ Gone(k, c)
      /\ \A k, c : ~(Alive(hs2, k, c) /\ Gone(k, c))
  <2>1. \A k, c : Alive(hs, k, c) <=> Alive(hs2, k, c) \/ Gone(k, c)
    BY DEF Alive, Living
  <2>2. \A k, c : ~(Alive(hs2, k, c) /\ Gone(k, c))
    BY DEF Alive, Ledger, HandlesKept, Same, Living
  <2> QED BY <2>1, <2>2
<1>3. \A w \in Worker : \A k \in Key : \A c \in Nat :
        /\ ~In(ext[w], Inc(k, c))
        /\ In(ext[w], Dec(k, c)) <=> w = home[k] /\ Gone(k, c)
  <2> SUFFICES ASSUME NEW w \in Worker, NEW k \in Key, NEW c \in Nat
               PROVE  /\ ~In(ext[w], Inc(k, c))
                      /\ In(ext[w], Dec(k, c)) <=> w = home[k] /\ Gone(k, c)
    OBVIOUS
  <2>1. ASSUME In(ext[w], Inc(k, c)) PROVE FALSE
    <3>1. PICK h \in hs : Inc(k, c) = Dec(h.key, h.copy)
      BY <2>1 DEF Decs
    <3>2. Inc(k, c) # Dec(h.key, h.copy)
      BY Messages
    <3> QED BY <3>1, <3>2
  <2>2. ASSUME In(ext[w], Dec(k, c)) PROVE w = home[k] /\ Gone(k, c)
    <3>0. Dec(k, c) \in Decs(hs, w)
      BY <2>2
    <3>1. PICK h \in hs : h.owners = {} /\ h.worker = w /\ Dec(k, c) = Dec(h.key, h.copy)
      BY <3>0 DEF Decs
    <3>2. k = h.key /\ c = h.copy
      BY <3>1, Messages
    <3> QED BY <1>1, <3>1, <3>2
  <2>3. w = home[k] /\ Gone(k, c) => In(ext[w], Dec(k, c))
    BY <1>1 DEF Decs
  <2> QED BY <2>1, <2>2, <2>3
<1>4. \A w \in Worker : \A x, y : Lt(ext[w], x, y) => In(ext[w], x) /\ In(ext[w], y)
  BY DEF Lt, In
<1>5. \A k \in Key : home[k] \in Worker
  OBVIOUS
<1> HIDE DEF hs2, Gone
<1>6. \A k \in Key : \A c, b \in Nat : \A w \in Worker :
        /\ In(mb2[w], Inc(k, c)) <=> In(mb[w], Inc(k, c))
        /\ In(mb2[w], Dec(k, c)) <=> In(mb[w], Dec(k, c)) \/ (w = home[k] /\ Gone(k, c))
        /\ Lt(mb2[w], Inc(k, c), Inc(k, b)) <=> Lt(mb[w], Inc(k, c), Inc(k, b))
        /\ Lt(mb2[w], Inc(k, c), Dec(k, b)) <=>
             \/ Lt(mb[w], Inc(k, c), Dec(k, b))
             \/ w = home[k] /\ In(mb[w], Inc(k, c)) /\ Gone(k, b)
        /\ Lt(mb2[w], Dec(k, c), Dec(k, c)) <=>
             \/ Lt(mb[w], Dec(k, c), Dec(k, c))
             \/ w = home[k] /\ In(mb[w], Dec(k, c)) /\ Gone(k, c)
  <2> SUFFICES ASSUME NEW k \in Key, NEW c \in Nat, NEW b \in Nat, NEW w \in Worker
               PROVE  /\ In(mb2[w], Inc(k, c)) <=> In(mb[w], Inc(k, c))
                      /\ In(mb2[w], Dec(k, c)) <=>
                           In(mb[w], Dec(k, c)) \/ (w = home[k] /\ Gone(k, c))
                      /\ Lt(mb2[w], Inc(k, c), Inc(k, b)) <=> Lt(mb[w], Inc(k, c), Inc(k, b))
                      /\ Lt(mb2[w], Inc(k, c), Dec(k, b)) <=>
                           \/ Lt(mb[w], Inc(k, c), Dec(k, b))
                           \/ w = home[k] /\ In(mb[w], Inc(k, c)) /\ Gone(k, b)
                      /\ Lt(mb2[w], Dec(k, c), Dec(k, c)) <=>
                           \/ Lt(mb[w], Dec(k, c), Dec(k, c))
                           \/ w = home[k] /\ In(mb[w], Dec(k, c)) /\ Gone(k, c)
    OBVIOUS
  <2>1. /\ ~In(ext[w], Inc(k, c)) /\ ~In(ext[w], Inc(k, b))
        /\ In(ext[w], Dec(k, c)) <=> w = home[k] /\ Gone(k, c)
        /\ In(ext[w], Dec(k, b)) <=> w = home[k] /\ Gone(k, b)
    BY <1>3
  <2>2. /\ ~Lt(ext[w], Inc(k, c), Inc(k, b)) /\ ~Lt(ext[w], Inc(k, c), Dec(k, b))
        /\ ~Lt(ext[w], Dec(k, c), Dec(k, c))
    BY <1>4, <2>1
  <2>3. /\ In(mb2[w], Inc(k, c)) <=> In(mb[w], Inc(k, c))
        /\ In(mb2[w], Dec(k, c)) <=> In(mb[w], Dec(k, c)) \/ (w = home[k] /\ Gone(k, c))
    BY <2>1
  <2>4. Lt(mb2[w], Inc(k, c), Inc(k, b)) <=> Lt(mb[w], Inc(k, c), Inc(k, b))
    BY <2>1, <2>2
  <2>5. Lt(mb2[w], Inc(k, c), Dec(k, b)) <=>
          \/ Lt(mb[w], Inc(k, c), Dec(k, b))
          \/ w = home[k] /\ In(mb[w], Inc(k, c)) /\ Gone(k, b)
    BY <2>1, <2>2
  <2>6. Lt(mb2[w], Dec(k, c), Dec(k, c)) <=>
          \/ Lt(mb[w], Dec(k, c), Dec(k, c))
          \/ w = home[k] /\ In(mb[w], Dec(k, c)) /\ Gone(k, c)
    BY <2>1, <2>2
  <2> QED BY <2>3, <2>4, <2>5, <2>6
<1>7. HandlesKept(home, hs2, put, cps)
  BY DEF Ledger, HandlesKept, hs2, Living
<1>8. CountsKept(home, mb2, put, cps)
  <2>1. \A k, c : Gone(k, c) => c <= cps /\ MadeKey(put, k)
    BY <1>1 DEF Gone
  <2>2. ASSUME NEW w \in Worker, NEW k \in Key, NEW c \in Nat,
               In(mb2[w], Inc(k, c)) \/ In(mb2[w], Dec(k, c))
        PROVE  w = home[k] /\ c <= cps /\ MadeKey(put, k)
    BY <1>6, <2>1, <2>2 DEF Ledger, CountsKept
  <2>3. ASSUME NEW w \in Worker, NEW k \in Key, NEW c \in Nat
        PROVE  ~Lt(mb2[w], Inc(k, c), Inc(k, c)) /\ ~Lt(mb2[w], Dec(k, c), Dec(k, c))
    BY <1>2, <1>5, <1>6 DEF Ledger, CountsKept, CopiesKept
  <2> QED BY <2>2, <2>3 DEF CountsKept
<1>9. CopiesKept(home, hs2, mb2)
  <2> SUFFICES ASSUME NEW k \in Key, NEW c \in Nat
               PROVE  LET box == mb2[home[k]]
                      IN  /\ In(box, Dec(k, c)) => ~Alive(hs2, k, c)
                          /\ In(box, Inc(k, c)) =>
                               /\ Alive(hs2, k, c) \/ Lt(box, Inc(k, c), Dec(k, c))
                               /\ \E p \in Nat :
                                    /\ p # c /\ ~Lt(box, Inc(k, c), Inc(k, p))
                                    /\ Alive(hs2, k, p) \/ Lt(box, Inc(k, c), Dec(k, p))
    BY DEF CopiesKept
  <2> DEFINE box == mb[home[k]]
             box2 == mb2[home[k]]
  <2>1. In(box2, Dec(k, c)) => ~Alive(hs2, k, c)
    BY <1>2, <1>5, <1>6 DEF Ledger, CopiesKept
  <2>2. ASSUME In(box2, Inc(k, c))
        PROVE  /\ Alive(hs2, k, c) \/ Lt(box2, Inc(k, c), Dec(k, c))
               /\ \E p \in Nat :
                    /\ p # c /\ ~Lt(box2, Inc(k, c), Inc(k, p))
                    /\ Alive(hs2, k, p) \/ Lt(box2, Inc(k, c), Dec(k, p))
    <3>1. In(box, Inc(k, c))
      BY <1>5, <1>6, <2>2
    <3>2. Alive(hs2, k, c) \/ Lt(box2, Inc(k, c), Dec(k, c))
      BY <1>2, <1>5, <1>6, <3>1 DEF Ledger, CopiesKept
    <3>3. PICK p \in Nat : /\ p # c /\ ~Lt(box, Inc(k, c), Inc(k, p))
                           /\ Alive(hs, k, p) \/ Lt(box, Inc(k, c), Dec(k, p))
      BY <3>1 DEF Ledger, CopiesKept
    <3> QED BY <1>2, <1>5, <1>6, <3>1, <3>2, <3>3
  <2> HIDE DEF box2
  <2> QED BY <2>1, <2>2 DEF box2
<1>10. UnboundKept(home, hs2, mb2, put, unb)
  BY <1>2, <1>5, <1>6 DEF Ledger, UnboundKept
<1>11. StoreKept(home, hs2, mb2, cnt, unb)
  <2>1. ASSUME NEW k \in Key PROVE Units(home, hs, mb, unb, k) = Units(home, hs2, mb2, unb, k)
    <3>1. \A c \in 0 .. MaxCopies :
            InStore(home, hs, mb, unb, k, c) <=> InStore(home, hs2, mb2, unb, k, c)
      BY <1>2, <1>5, <1>6 DEF InStore
    <3> QED BY <3>1 DEF Units
  <2> QED BY <2>1 DEF Ledger, StoreKept
<1> QED BY <1>7, <1>8, <1>9, <1>10, <1>11 DEF Ledger, hs2

LEMMA Least ==
  ASSUME NEW T \in SUBSET Nat, T # {}
  PROVE  \E m \in T : \A y \in T : m <= y
<1>1. PICK m \in T : \A y \in T : ~ (<<y, m>> \in OpToRel(<, Nat))
  BY WFMin, NatLessThanWellFounded
<1>2. \A y \in T : ~ (y < m) /\ y \in Nat /\ m \in Nat
  BY <1>1 DEF OpToRel
<1>3. \A y \in T : m <= y
  BY <1>2
<1> QED BY <1>3

\* The first to be counted in, of what is in a mailbox.
LEMMA FirstIn ==
  ASSUME NEW s, NEW k, NEW c \in Nat, In(s, Inc(k, c)), Len(s) \in Nat
  PROVE  \E b \in Nat : In(s, Inc(k, b)) /\ \A a \in Nat : a # b /\ In(s, Inc(k, a)) =>
           Lt(s, Inc(k, b), Inc(k, a))
<1> DEFINE T == {i \in 1 .. Len(s) : \E b \in Nat : s[i] = Inc(k, b)}
<1>1. T \subseteq Nat /\ T # {}
  BY DEF In
<1>2. PICK m \in T : \A y \in T : m <= y
  BY <1>1, Least
<1>3. PICK b \in Nat : s[m] = Inc(k, b)
  BY <1>2
<1>4. In(s, Inc(k, b))
  BY <1>3 DEF In
<1>5. ASSUME NEW a \in Nat, a # b, In(s, Inc(k, a)) PROVE Lt(s, Inc(k, b), Inc(k, a))
  <2>1. PICK j \in 1 .. Len(s) : s[j] = Inc(k, a)
    BY <1>5 DEF In
  <2>2. Inc(k, a) # Inc(k, b)
    BY <1>5, Messages
  <2>3. j # m /\ m <= j /\ m \in 1 .. Len(s)
    BY <1>2, <1>3, <2>1, <2>2
  <2>4. m < j
    BY <2>3
  <2> QED BY <1>3, <2>1, <2>3, <2>4 DEF Lt
<1> QED BY <1>4, <1>5

\* While a handle is alive its tensor is in the store.
LEMMA LedgerUse ==
  ASSUME NEW home \in [Key -> Worker], NEW hs \in SUBSET Handles, NEW mb, NEW cnt, NEW put,
         NEW cps \in 0 .. MaxCopies, NEW unb \in SUBSET Key,
         Ledger(home, hs, mb, cnt, put, cps, unb),
         NEW h \in hs, Len(mb[home[h.key]]) \in Nat
  PROVE  h.key \in DOMAIN cnt
<1> DEFINE k == h.key
           c == h.copy
           box == mb[home[k]]
<1>1. /\ k \in Key /\ c \in Nat /\ Alive(hs, k, c) /\ home[k] \in Worker
      /\ \A p : Alive(hs, k, p) => p \in Nat /\ p <= cps
  BY DEF Handles, Alive, Ledger, HandlesKept
<1>2. \A p \in Nat : In(box, Dec(k, p)) => p <= cps
  BY <1>1 DEF Ledger, CountsKept
<1>3. MaxCopies \in Nat /\ \A p \in Nat : p <= cps => p \in 0 .. MaxCopies
  BY CallsAssumption
<1> HIDE DEF k, c, box
<1>4. \E p \in Nat : (Alive(hs, k, p) \/ In(box, Dec(k, p))) /\ ~In(box, Inc(k, p))
  <2>1. CASE ~In(box, Inc(k, c))
    BY <1>1, <2>1
  <2>2. CASE In(box, Inc(k, c))
    <3>1. PICK b \in Nat : In(box, Inc(k, b)) /\ \A a \in Nat : a # b /\ In(box, Inc(k, a)) =>
            Lt(box, Inc(k, b), Inc(k, a))
      BY <1>1, <2>2, FirstIn DEF box, k
    <3>2. PICK p \in Nat : /\ p # b /\ ~Lt(box, Inc(k, b), Inc(k, p))
                           /\ Alive(hs, k, p) \/ Lt(box, Inc(k, b), Dec(k, p))
      BY <1>1, <3>1 DEF Ledger, CopiesKept, box
    <3>3. Lt(box, Inc(k, b), Dec(k, p)) => In(box, Dec(k, p))
      BY DEF Lt, In
    <3> QED BY <3>1, <3>2, <3>3
  <2> QED BY <2>1, <2>2
<1>5. PICK p \in Nat : (Alive(hs, k, p) \/ In(box, Dec(k, p))) /\ ~In(box, Inc(k, p))
  BY <1>4
<1>6. p \in Units(home, hs, mb, unb, k)
  BY <1>1, <1>2, <1>3, <1>5 DEF Units, InStore, box
<1>7. k \in DOMAIN cnt
  BY <1>1, <1>6 DEF Ledger, StoreKept
<1> QED BY <1>7 DEF k

\* What taking the first thing from a mailbox leaves in it.
TakenFrom(mb, mb2, w, x) ==
  /\ In(mb[w], x)
  /\ \A v \in Worker : v # w => mb2[v] = mb[v]
  /\ \A y : In(mb[w], y) <=> y = x \/ In(mb2[w], y)
  /\ \A y, z : Lt(mb[w], y, z) <=> Lt(mb2[w], y, z) \/ (y = x /\ In(mb2[w], z))

Left(cnt, k) == IF cnt[k] > 1 THEN [cnt EXCEPT ![k] = @ - 1]
                ELSE [l \in DOMAIN cnt \ {k} |-> cnt[l]]

\* A copy is counted in: its tensor is still there.
LEMMA LedgerCountedIn ==
  ASSUME NEW home \in [Key -> Worker], NEW hs, NEW mb, NEW mb2, NEW cnt, NEW put,
         NEW cps \in 0 .. MaxCopies, NEW unb \in SUBSET Key,
         \A g \in hs : g.copy \in Nat,
         Ledger(home, hs, mb, cnt, put, cps, unb),
         NEW w \in Worker, NEW k \in Key, NEW n \in Nat, TakenFrom(mb, mb2, w, Inc(k, n))
  PROVE  /\ k \in DOMAIN cnt
         /\ Ledger(home, hs, mb2, [cnt EXCEPT ![k] = @ + 1], put, cps, unb)
<1>1. w = home[k] /\ n <= cps /\ MadeKey(put, k) /\ MaxCopies \in Nat
  BY CallsAssumption DEF Ledger, CountsKept, TakenFrom
<1>2. \A v \in Worker : \A l \in Key : \A c, b \in Nat :
        /\ In(mb[v], Inc(l, c)) <=> In(mb2[v], Inc(l, c)) \/ (v = w /\ l = k /\ c = n)
        /\ In(mb[v], Dec(l, c)) <=> In(mb2[v], Dec(l, c))
        /\ Lt(mb[v], Inc(l, c), Inc(l, b)) <=>
             \/ Lt(mb2[v], Inc(l, c), Inc(l, b))
             \/ v = w /\ l = k /\ c = n /\ In(mb2[w], Inc(l, b))
        /\ Lt(mb[v], Inc(l, c), Dec(l, b)) <=>
             \/ Lt(mb2[v], Inc(l, c), Dec(l, b))
             \/ v = w /\ l = k /\ c = n /\ In(mb2[w], Dec(l, b))
        /\ Lt(mb[v], Dec(l, c), Dec(l, b)) <=> Lt(mb2[v], Dec(l, c), Dec(l, b))
  <2> SUFFICES ASSUME NEW v \in Worker, NEW l \in Key, NEW c \in Nat, NEW b \in Nat
               PROVE  /\ In(mb[v], Inc(l, c)) <=> In(mb2[v], Inc(l, c)) \/ (v = w /\ l = k /\ c = n)
                      /\ In(mb[v], Dec(l, c)) <=> In(mb2[v], Dec(l, c))
                      /\ Lt(mb[v], Inc(l, c), Inc(l, b)) <=>
                           \/ Lt(mb2[v], Inc(l, c), Inc(l, b))
                           \/ v = w /\ l = k /\ c = n /\ In(mb2[w], Inc(l, b))
                      /\ Lt(mb[v], Inc(l, c), Dec(l, b)) <=>
                           \/ Lt(mb2[v], Inc(l, c), Dec(l, b))
                           \/ v = w /\ l = k /\ c = n /\ In(mb2[w], Dec(l, b))
                      /\ Lt(mb[v], Dec(l, c), Dec(l, b)) <=> Lt(mb2[v], Dec(l, c), Dec(l, b))
    OBVIOUS
  <2>1. /\ Inc(l, c) = Inc(k, n) <=> l = k /\ c = n
        /\ Dec(l, c) # Inc(k, n)
    BY Messages
  <2>2. CASE v = w
    BY <2>1, <2>2 DEF TakenFrom
  <2>3. CASE v # w
    BY <2>3 DEF TakenFrom
  <2> QED BY <2>2, <2>3
<1>3. ~In(mb2[w], Inc(k, n))
  <2>1. ~Lt(mb[w], Inc(k, n), Inc(k, n))
    BY DEF Ledger, CountsKept
  <2> QED BY <2>1 DEF TakenFrom
<1>4. In(mb[home[k]], Inc(k, n))
  BY <1>1 DEF TakenFrom
<1>5. PICK p \in Nat : /\ p # n /\ ~Lt(mb[w], Inc(k, n), Inc(k, p))
                       /\ Alive(hs, k, p) \/ Lt(mb[w], Inc(k, n), Dec(k, p))
  BY <1>1, <1>4 DEF Ledger, CopiesKept
<1>6. ~In(mb[w], Inc(k, p)) /\ (Alive(hs, k, p) \/ In(mb[w], Dec(k, p)))
  <2>1. Lt(mb[w], Inc(k, n), Dec(k, p)) => In(mb[w], Dec(k, p))
    BY DEF Lt, In
  <2>2. ~In(mb2[w], Inc(k, p))
    BY <1>2, <1>5
  <2> QED BY <1>2, <1>5, <2>1, <2>2
<1>7. p \in 0 .. MaxCopies
  <2>1. p <= cps
    BY <1>6 DEF Ledger, HandlesKept, CountsKept, Alive
  <2> QED BY <1>1, <2>1
<1> DEFINE units == Units(home, hs, mb, unb, k)
<1>8. p \in units
  BY <1>1, <1>6, <1>7 DEF Units, InStore
<1>9. k \in DOMAIN cnt
  BY <1>8 DEF Ledger, StoreKept
<1> DEFINE cnt2 == [cnt EXCEPT ![k] = @ + 1]
<1>10. CountsKept(home, mb2, put, cps)
  BY <1>2 DEF Ledger, CountsKept
<1>11. CopiesKept(home, hs, mb2)
  <2> SUFFICES ASSUME NEW l \in Key, NEW c \in Nat
               PROVE  LET box == mb2[home[l]]
                      IN  /\ In(box, Dec(l, c)) => ~Alive(hs, l, c)
                          /\ In(box, Inc(l, c)) =>
                               /\ Alive(hs, l, c) \/ Lt(box, Inc(l, c), Dec(l, c))
                               /\ \E q \in Nat :
                                    /\ q # c /\ ~Lt(box, Inc(l, c), Inc(l, q))
                                    /\ Alive(hs, l, q) \/ Lt(box, Inc(l, c), Dec(l, q))
    BY DEF CopiesKept
  <2> DEFINE box == mb[home[l]]
             box2 == mb2[home[l]]
  <2>1. home[l] \in Worker
    OBVIOUS
  <2>2. In(box2, Dec(l, c)) => ~Alive(hs, l, c)
    BY <1>2, <2>1 DEF Ledger, CopiesKept
  <2>3. ASSUME In(box2, Inc(l, c))
        PROVE  /\ Alive(hs, l, c) \/ Lt(box2, Inc(l, c), Dec(l, c))
               /\ \E q \in Nat :
                    /\ q # c /\ ~Lt(box2, Inc(l, c), Inc(l, q))
                    /\ Alive(hs, l, q) \/ Lt(box2, Inc(l, c), Dec(l, q))
    <3>1. In(box, Inc(l, c)) /\ ~(l = k /\ c = n)
      BY <1>1, <1>2, <1>3, <2>1, <2>3
    <3>2. Alive(hs, l, c) \/ Lt(box2, Inc(l, c), Dec(l, c))
      BY <1>2, <2>1, <3>1 DEF Ledger, CopiesKept
    <3>3. PICK q \in Nat : /\ q # c /\ ~Lt(box, Inc(l, c), Inc(l, q))
                           /\ Alive(hs, l, q) \/ Lt(box, Inc(l, c), Dec(l, q))
      BY <3>1 DEF Ledger, CopiesKept
    <3> QED BY <1>2, <2>1, <3>1, <3>2, <3>3
  <2> HIDE DEF box2
  <2> QED BY <2>2, <2>3 DEF box2
<1>12. UnboundKept(home, hs, mb2, put, unb)
  <2>1. \A l \in Key : home[l] \in Worker
    OBVIOUS
  <2> QED BY <1>2, <2>1 DEF Ledger, UnboundKept
<1>13. StoreKept(home, hs, mb2, cnt2, unb)
  <2>1. DOMAIN cnt2 = DOMAIN cnt /\ cnt2[k] = cnt[k] + 1 /\ \A l \in DOMAIN cnt : l # k => cnt2[l] = cnt[l]
    BY <1>9
  <2> HIDE DEF cnt2
  <2>2. ASSUME NEW l \in Key
        PROVE  LET us == Units(home, hs, mb2, unb, l)
               IN  /\ l \in DOMAIN cnt2 <=> us # {}
                   /\ l \in DOMAIN cnt2 => cnt2[l] = Cardinality(us)
    <3>1. home[l] \in Worker
      OBVIOUS
    <3>2. CASE l # k
      <4>1. \A c \in 0 .. MaxCopies :
              InStore(home, hs, mb, unb, l, c) <=> InStore(home, hs, mb2, unb, l, c)
        BY <1>2, <3>1, <3>2 DEF InStore
      <4>2. Units(home, hs, mb, unb, l) = Units(home, hs, mb2, unb, l)
        BY <4>1 DEF Units
      <4> QED BY <2>1, <3>2, <4>2 DEF Ledger, StoreKept
    <3>3. CASE l = k
      <4>1. \A c \in 0 .. MaxCopies : c # n =>
              (InStore(home, hs, mb, unb, k, c) <=> InStore(home, hs, mb2, unb, k, c))
        BY <1>1, <1>2 DEF InStore
      <4>2. n \in 0 .. MaxCopies
        BY <1>1
      <4>3. ~InStore(home, hs, mb, unb, k, n)
        BY <1>1, <1>4 DEF InStore
      <4>4. Alive(hs, k, n) \/ In(mb2[w], Dec(k, n))
        <5>1. Alive(hs, k, n) \/ Lt(mb[w], Inc(k, n), Dec(k, n))
          BY <1>1, <1>4 DEF Ledger, CopiesKept
        <5>2. Lt(mb[w], Inc(k, n), Dec(k, n)) => In(mb[w], Dec(k, n))
          BY DEF Lt, In
        <5> QED BY <1>2, <5>1, <5>2
      <4>5. InStore(home, hs, mb2, unb, k, n)
        BY <1>1, <1>3, <4>4 DEF InStore
      <4>6. Units(home, hs, mb2, unb, k) = units \cup {n} /\ n \notin units
        BY <4>1, <4>2, <4>3, <4>5 DEF Units
      <4>7. IsFiniteSet(units)
        <5>1. IsFiniteSet(0 .. MaxCopies)
          BY <1>1, FS_Interval
        <5> QED BY <5>1, FS_Subset DEF Units
      <4>8. Cardinality(units \cup {n}) = Cardinality(units) + 1
        BY <4>6, <4>7, FS_AddElement
      <4>9. cnt[k] = Cardinality(units)
        BY <1>9 DEF Ledger, StoreKept
      <4> HIDE DEF units
      <4> QED BY <1>9, <2>1, <3>3, <4>6, <4>8, <4>9
    <3> QED BY <3>2, <3>3
  <2>3. DOMAIN cnt2 \subseteq Key
    BY <2>1 DEF Ledger, StoreKept
  <2> QED BY <2>2, <2>3 DEF StoreKept
<1>14. Ledger(home, hs, mb2, cnt2, put, cps, unb)
  BY <1>10, <1>11, <1>12, <1>13 DEF Ledger
<1> QED BY <1>9, <1>14

\* A copy is counted out; with the last one the tensor leaves the store.
LEMMA LedgerCountedOut ==
  ASSUME NEW home \in [Key -> Worker], NEW hs, NEW mb, NEW mb2, NEW cnt, NEW put,
         NEW cps \in 0 .. MaxCopies, NEW unb \in SUBSET Key,
         Ledger(home, hs, mb, cnt, put, cps, unb),
         NEW w \in Worker, NEW k \in Key, NEW n \in Nat, TakenFrom(mb, mb2, w, Dec(k, n))
  PROVE  /\ k \in DOMAIN cnt
         /\ Ledger(home, hs, mb2, Left(cnt, k), put, cps, unb)
<1>1. w = home[k] /\ n <= cps /\ MadeKey(put, k) /\ MaxCopies \in Nat
  BY CallsAssumption DEF Ledger, CountsKept, TakenFrom
<1>2. \A v \in Worker : \A l \in Key : \A c, b \in Nat :
        /\ In(mb[v], Inc(l, c)) <=> In(mb2[v], Inc(l, c))
        /\ In(mb[v], Dec(l, c)) <=> In(mb2[v], Dec(l, c)) \/ (v = w /\ l = k /\ c = n)
        /\ Lt(mb[v], Inc(l, c), Inc(l, b)) <=> Lt(mb2[v], Inc(l, c), Inc(l, b))
        /\ Lt(mb[v], Inc(l, c), Dec(l, b)) <=> Lt(mb2[v], Inc(l, c), Dec(l, b))
        /\ Lt(mb[v], Dec(l, c), Dec(l, b)) <=>
             \/ Lt(mb2[v], Dec(l, c), Dec(l, b))
             \/ v = w /\ l = k /\ c = n /\ In(mb2[w], Dec(l, b))
  <2> SUFFICES ASSUME NEW v \in Worker, NEW l \in Key, NEW c \in Nat, NEW b \in Nat
               PROVE  /\ In(mb[v], Inc(l, c)) <=> In(mb2[v], Inc(l, c))
                      /\ In(mb[v], Dec(l, c)) <=> In(mb2[v], Dec(l, c)) \/ (v = w /\ l = k /\ c = n)
                      /\ Lt(mb[v], Inc(l, c), Inc(l, b)) <=> Lt(mb2[v], Inc(l, c), Inc(l, b))
                      /\ Lt(mb[v], Inc(l, c), Dec(l, b)) <=> Lt(mb2[v], Inc(l, c), Dec(l, b))
                      /\ Lt(mb[v], Dec(l, c), Dec(l, b)) <=>
                           \/ Lt(mb2[v], Dec(l, c), Dec(l, b))
                           \/ v = w /\ l = k /\ c = n /\ In(mb2[w], Dec(l, b))
    OBVIOUS
  <2>1. /\ Dec(l, c) = Dec(k, n) <=> l = k /\ c = n
        /\ Inc(l, c) # Dec(k, n)
    BY Messages
  <2>2. CASE v = w
    BY <2>1, <2>2 DEF TakenFrom
  <2>3. CASE v # w
    BY <2>3 DEF TakenFrom
  <2> QED BY <2>2, <2>3
<1>3. ~In(mb2[w], Dec(k, n))
  <2>1. ~Lt(mb[w], Dec(k, n), Dec(k, n))
    BY DEF Ledger, CountsKept
  <2> QED BY <2>1 DEF TakenFrom
<1>4. In(mb[w], Dec(k, n)) /\ ~Alive(hs, k, n)
  BY <1>1 DEF TakenFrom, Ledger, CopiesKept
<1>5. ~In(mb[w], Inc(k, n))
  <2> SUFFICES ASSUME In(mb[w], Inc(k, n)) PROVE FALSE
    OBVIOUS
  <2>1. Lt(mb[w], Inc(k, n), Dec(k, n))
    BY <1>1, <1>4 DEF Ledger, CopiesKept
  <2>2. Lt(mb2[w], Inc(k, n), Dec(k, n)) => In(mb2[w], Dec(k, n))
    BY DEF Lt, In
  <2> QED BY <1>2, <1>3, <2>1, <2>2
<1> DEFINE units == Units(home, hs, mb, unb, k)
           cnt2 == Left(cnt, k)
<1>6. n \in units
  BY <1>1, <1>4, <1>5 DEF Units, InStore
<1>7. IsFiniteSet(units) /\ Cardinality(units) \in Nat /\ Cardinality(units) # 0
  <2>1. IsFiniteSet(0 .. MaxCopies)
    BY <1>1, FS_Interval
  <2>2. IsFiniteSet(units)
    BY <2>1, FS_Subset DEF Units
  <2> HIDE DEF units
  <2> QED BY <1>6, <2>2, FS_CardinalityType, FS_EmptySet
<1>8. k \in DOMAIN cnt /\ cnt[k] = Cardinality(units)
  BY <1>6 DEF Ledger, StoreKept
<1>9. CountsKept(home, mb2, put, cps)
  BY <1>2 DEF Ledger, CountsKept
<1>10. CopiesKept(home, hs, mb2)
  <2> SUFFICES ASSUME NEW l \in Key, NEW c \in Nat
               PROVE  LET box == mb2[home[l]]
                      IN  /\ In(box, Dec(l, c)) => ~Alive(hs, l, c)
                          /\ In(box, Inc(l, c)) =>
                               /\ Alive(hs, l, c) \/ Lt(box, Inc(l, c), Dec(l, c))
                               /\ \E q \in Nat :
                                    /\ q # c /\ ~Lt(box, Inc(l, c), Inc(l, q))
                                    /\ Alive(hs, l, q) \/ Lt(box, Inc(l, c), Dec(l, q))
    BY DEF CopiesKept
  <2> DEFINE box == mb[home[l]]
             box2 == mb2[home[l]]
  <2>1. home[l] \in Worker
    OBVIOUS
  <2>2. In(box2, Dec(l, c)) => ~Alive(hs, l, c)
    BY <1>2, <2>1 DEF Ledger, CopiesKept
  <2>3. ASSUME In(box2, Inc(l, c))
        PROVE  /\ Alive(hs, l, c) \/ Lt(box2, Inc(l, c), Dec(l, c))
               /\ \E q \in Nat :
                    /\ q # c /\ ~Lt(box2, Inc(l, c), Inc(l, q))
                    /\ Alive(hs, l, q) \/ Lt(box2, Inc(l, c), Dec(l, q))
    <3>1. In(box, Inc(l, c))
      BY <1>2, <2>1, <2>3
    <3>2. Alive(hs, l, c) \/ Lt(box2, Inc(l, c), Dec(l, c))
      BY <1>2, <2>1, <3>1 DEF Ledger, CopiesKept
    <3>3. PICK q \in Nat : /\ q # c /\ ~Lt(box, Inc(l, c), Inc(l, q))
                           /\ Alive(hs, l, q) \/ Lt(box, Inc(l, c), Dec(l, q))
      BY <3>1 DEF Ledger, CopiesKept
    <3> QED BY <1>2, <2>1, <3>2, <3>3
  <2> HIDE DEF box2
  <2> QED BY <2>2, <2>3 DEF box2
<1>11. UnboundKept(home, hs, mb2, put, unb)
  <2>1. \A l \in Key : home[l] \in Worker
    OBVIOUS
  <2> QED BY <1>2, <2>1 DEF Ledger, UnboundKept
<1>12. StoreKept(home, hs, mb2, cnt2, unb)
  <2>1. \A l \in Key : home[l] \in Worker
    OBVIOUS
  <2>2. ASSUME NEW l \in Key, l # k
        PROVE  Units(home, hs, mb, unb, l) = Units(home, hs, mb2, unb, l)
    <3>1. \A c \in 0 .. MaxCopies :
            InStore(home, hs, mb, unb, l, c) <=> InStore(home, hs, mb2, unb, l, c)
      BY <1>2, <2>1, <2>2 DEF InStore
    <3> QED BY <3>1 DEF Units
  <2>3. Units(home, hs, mb2, unb, k) = units \ {n}
    <3>1. \A c \in 0 .. MaxCopies : c # n =>
            (InStore(home, hs, mb, unb, k, c) <=> InStore(home, hs, mb2, unb, k, c))
      BY <1>1, <1>2 DEF InStore
    <3>2. k \notin unb
      BY <1>1, <1>4 DEF Ledger, UnboundKept
    <3>3. ~InStore(home, hs, mb2, unb, k, n)
      BY <1>1, <1>3, <1>4, <3>2 DEF InStore
    <3> QED BY <3>1, <3>3 DEF Units
  <2> HIDE DEF units
  <2>4. Cardinality(units \ {n}) = Cardinality(units) - 1 /\ IsFiniteSet(units \ {n})
    BY <1>6, <1>7, FS_RemoveElement
  <2>5. CASE cnt[k] > 1
    <3>1. cnt2 = [cnt EXCEPT ![k] = @ - 1]
      BY <2>5 DEF Left
    <3>2. DOMAIN cnt2 = DOMAIN cnt /\ cnt2[k] = cnt[k] - 1 /\ \A l \in DOMAIN cnt : l # k => cnt2[l] = cnt[l]
      BY <1>8, <3>1
    <3>3. units \ {n} # {}
      BY <1>7, <1>8, <2>4, <2>5, FS_EmptySet
    <3> HIDE DEF cnt2
    <3>4. ASSUME NEW l \in Key
          PROVE  LET us == Units(home, hs, mb2, unb, l)
                 IN  /\ l \in DOMAIN cnt2 <=> us # {}
                     /\ l \in DOMAIN cnt2 => cnt2[l] = Cardinality(us)
      <4>1. CASE l = k
        BY <1>8, <2>3, <2>4, <3>2, <3>3, <4>1
      <4>2. CASE l # k
        BY <2>2, <3>2, <4>2 DEF Ledger, StoreKept
      <4> QED BY <4>1, <4>2
    <3>5. DOMAIN cnt2 \subseteq Key
      BY <3>2 DEF Ledger, StoreKept
    <3> QED BY <3>4, <3>5 DEF StoreKept
  <2>6. CASE ~(cnt[k] > 1)
    <3>1. cnt2 = [l \in DOMAIN cnt \ {k} |-> cnt[l]]
      BY <2>6 DEF Left
    <3>2. DOMAIN cnt2 = DOMAIN cnt \ {k} /\ \A l \in DOMAIN cnt : l # k => cnt2[l] = cnt[l]
      BY <3>1
    <3>3. Cardinality(units \ {n}) = 0
      BY <1>7, <1>8, <2>4, <2>6
    <3>4. units \ {n} = {}
      BY <2>4, <3>3, FS_EmptySet
    <3> HIDE DEF cnt2
    <3>5. ASSUME NEW l \in Key
          PROVE  LET us == Units(home, hs, mb2, unb, l)
                 IN  /\ l \in DOMAIN cnt2 <=> us # {}
                     /\ l \in DOMAIN cnt2 => cnt2[l] = Cardinality(us)
      <4>1. CASE l = k
        BY <2>3, <3>2, <3>4, <4>1
      <4>2. CASE l # k
        BY <2>2, <3>2, <4>2 DEF Ledger, StoreKept
      <4> QED BY <4>1, <4>2
    <3>6. DOMAIN cnt2 \subseteq Key
      BY <3>2 DEF Ledger, StoreKept
    <3> QED BY <3>5, <3>6 DEF StoreKept
  <2> QED BY <2>5, <2>6
<1>13. Ledger(home, hs, mb2, cnt2, put, cps, unb)
  BY <1>9, <1>10, <1>11, <1>12 DEF Ledger
<1> QED BY <1>8, <1>13

-----------------------------------------------------------------------------
(***************************************************************************)
(* Handles relabelled and collected.                                       *)
(***************************************************************************)
LEMMA ImageFinite ==
  ASSUME NEW S, IsFiniteSet(S), NEW f
  PROVE  IsFiniteSet({f[x] : x \in S})
<1> DEFINE T == {f[x] : x \in S}
           g == [x \in S |-> f[x]]
<1>1. g \in Surjection(S, T)
  BY DEF Surjection
<1> QED BY <1>1, FS_Surjection

Unique(hs) == \A h, g \in hs : Same(h, g) => h = g

LEMMA Relabel ==
  ASSUME NEW hs \in SUBSET Handles, IsFiniteSet(hs), Unique(hs), NEW f \in [hs -> Handles],
         \A h \in hs : Same(f[h], h) /\ f[h].worker = h.worker
  PROVE  LET hs2 == {f[h] : h \in hs}
         IN  hs2 \in SUBSET Handles /\ IsFiniteSet(hs2) /\ Alike(hs, hs2) /\ Unique(hs2)
<1> DEFINE hs2 == {f[h] : h \in hs}
<1>1. hs2 \in SUBSET Handles
  OBVIOUS
<1>2. IsFiniteSet(hs2)
  BY ImageFinite
<1>3. ASSUME NEW h \in hs2, NEW g \in hs2, Same(h, g) PROVE h = g
  <2>1. PICK a \in hs : h = f[a]
    OBVIOUS
  <2>2. PICK b \in hs : g = f[b]
    OBVIOUS
  <2>3. Same(a, b)
    BY <1>3, <2>1, <2>2 DEF Same
  <2> QED BY <2>1, <2>2, <2>3 DEF Unique
<1>4. \A h \in hs2 : \E g \in hs : Same(h, g) /\ h.worker = g.worker
  OBVIOUS
<1>5. \A g \in hs : \E h \in hs2 : Same(h, g)
  OBVIOUS
<1> HIDE DEF hs2
<1>6. Alike(hs, hs2) /\ Unique(hs2)
  BY <1>3, <1>4, <1>5 DEF Alike, Unique
<1> QED BY <1>1, <1>2, <1>6 DEF hs2

LEMMA HandleFields ==
  \A h \in Handles :
    /\ h.key \in Key /\ h.worker \in Worker /\ h.copy \in Nat /\ h.owners \in SUBSET Int
    /\ \A os \in SUBSET Int :
         LET g == [h EXCEPT !.owners = os]
         IN  /\ g \in Handles /\ Same(g, h) /\ g.worker = h.worker /\ g.owners = os
             /\ g.key = h.key /\ g.copy = h.copy
BY DEF Handles, Same

LEMMA OwnRelabels ==
  ASSUME NEW hs \in SUBSET Handles, IsFiniteSet(hs), Unique(hs), NEW objects, NEW o \in Int
  PROVE  LET hs2 == Own(hs, objects, o)
         IN  /\ hs2 \in SUBSET Handles /\ IsFiniteSet(hs2) /\ Alike(hs, hs2) /\ Unique(hs2)
             /\ \A h \in hs : \E g \in hs2 :
                  /\ Same(g, h) /\ h.owners \subseteq g.owners
                  /\ h \in objects => o \in g.owners
<1> DEFINE f == [h \in hs |-> IF h \in objects THEN [h EXCEPT !.owners = @ \cup {o}] ELSE h]
           hs2 == {f[h] : h \in hs}
<1>1. ASSUME NEW h \in hs
      PROVE  /\ f[h] \in Handles /\ Same(f[h], h) /\ f[h].worker = h.worker
             /\ h.owners \subseteq f[h].owners /\ (h \in objects => o \in f[h].owners)
  <2>1. h \in Handles /\ h.owners \cup {o} \in SUBSET Int
    BY HandleFields
  <2>2. CASE h \in objects
    <3>1. f[h] = [h EXCEPT !.owners = @ \cup {o}]
      BY <2>2, Zenon
    <3>2. [h EXCEPT !.owners = @ \cup {o}] = [h EXCEPT !.owners = h.owners \cup {o}]
      OBVIOUS
    <3> HIDE DEF f
    <3>3. o \in h.owners \cup {o} /\ h.owners \subseteq h.owners \cup {o}
      OBVIOUS
    <3> QED BY <2>1, <3>1, <3>2, <3>3, HandleFields
  <2>3. CASE h \notin objects
    <3>1. f[h] = h
      BY <2>3
    <3> QED BY <2>1, <2>3, <3>1 DEF Same
  <2> QED BY <2>2, <2>3
<1>2. f \in [hs -> Handles] /\ Own(hs, objects, o) = hs2
  BY <1>1 DEF Own
<1> HIDE DEF f
<1>3. hs2 \in SUBSET Handles /\ IsFiniteSet(hs2) /\ Alike(hs, hs2) /\ Unique(hs2)
  BY <1>1, <1>2, Relabel
<1>4. \A h \in hs : \E g \in hs2 : /\ Same(g, h) /\ h.owners \subseteq g.owners
                                   /\ h \in objects => o \in g.owners
  BY <1>1
<1> QED BY <1>2, <1>3, <1>4

LEMMA DisownRelabels ==
  ASSUME NEW hs \in SUBSET Handles, IsFiniteSet(hs), Unique(hs), NEW o
  PROVE  LET hs2 == Disown(hs, o)
         IN  /\ hs2 \in SUBSET Handles /\ IsFiniteSet(hs2) /\ Alike(hs, hs2) /\ Unique(hs2)
             /\ \A h \in hs : \E g \in hs2 : Same(g, h) /\ g.owners = h.owners \ {o}
<1> DEFINE f == [h \in hs |-> [h EXCEPT !.owners = @ \ {o}]]
           hs2 == {f[h] : h \in hs}
<1>1. ASSUME NEW h \in hs
      PROVE  /\ f[h] \in Handles /\ Same(f[h], h) /\ f[h].worker = h.worker
             /\ f[h].owners = h.owners \ {o}
  <2>1. h \in Handles /\ h.owners \ {o} \in SUBSET Int
    BY HandleFields
  <2>2. f[h] = [h EXCEPT !.owners = h.owners \ {o}]
    OBVIOUS
  <2> HIDE DEF f
  <2> QED BY <2>1, <2>2, HandleFields
<1>2. f \in [hs -> Handles] /\ Disown(hs, o) = hs2
  BY <1>1 DEF Disown
<1> HIDE DEF f
<1>3. hs2 \in SUBSET Handles /\ IsFiniteSet(hs2) /\ Alike(hs, hs2) /\ Unique(hs2)
  BY <1>1, <1>2, Relabel
<1>4. \A h \in hs : \E g \in hs2 : Same(g, h) /\ g.owners = h.owners \ {o}
  BY <1>1
<1> QED BY <1>2, <1>3, <1>4

LEMMA LeaseRelabels ==
  ASSUME NEW hs \in SUBSET Handles, IsFiniteSet(hs), Unique(hs), NEW shards, NEW c \in Int
  PROVE  LET hs2 == Lease(hs, shards, c)
         IN  /\ hs2 \in SUBSET Handles /\ IsFiniteSet(hs2) /\ Alike(hs, hs2) /\ Unique(hs2)
             /\ \A h \in hs : \E g \in hs2 :
                  /\ Same(g, h) /\ h.owners \subseteq g.owners
                  /\ (\E d \in Devices : shards[d] # None /\ Same(h, shards[d])) => c \in g.owners
<1> DEFINE Leased(h) == \E d \in Devices : shards[d] # None /\ Same(h, shards[d])
           f == [h \in hs |-> IF Leased(h) THEN [h EXCEPT !.owners = @ \cup {c}] ELSE h]
           hs2 == {f[h] : h \in hs}
<1>2. Lease(hs, shards, c) = hs2
  BY DEF Lease
<1> HIDE DEF Leased
<1>1. ASSUME NEW h \in hs
      PROVE  /\ f[h] \in Handles /\ Same(f[h], h) /\ f[h].worker = h.worker
             /\ h.owners \subseteq f[h].owners /\ (Leased(h) => c \in f[h].owners)
  <2>1. h \in Handles /\ h.owners \cup {c} \in SUBSET Int
    BY HandleFields
  <2>2. CASE Leased(h)
    <3>1. f[h] = [h EXCEPT !.owners = @ \cup {c}]
      BY <2>2, Zenon
    <3>2. [h EXCEPT !.owners = @ \cup {c}] = [h EXCEPT !.owners = h.owners \cup {c}]
      OBVIOUS
    <3> HIDE DEF f
    <3>3. c \in h.owners \cup {c} /\ h.owners \subseteq h.owners \cup {c}
      OBVIOUS
    <3> QED BY <2>1, <3>1, <3>2, <3>3, HandleFields
  <2>3. CASE ~Leased(h)
    <3>1. f[h] = h
      BY <2>3
    <3> QED BY <2>1, <2>3, <3>1 DEF Same
  <2> QED BY <2>2, <2>3
<1>3. f \in [hs -> Handles]
  BY <1>1
<1> HIDE DEF f
<1>4. hs2 \in SUBSET Handles /\ IsFiniteSet(hs2) /\ Alike(hs, hs2) /\ Unique(hs2)
  BY <1>1, <1>3, Relabel
<1>5. \A h \in hs : \E g \in hs2 : /\ Same(g, h) /\ h.owners \subseteq g.owners
                                   /\ Leased(h) => c \in g.owners
  BY <1>1
<1> QED BY <1>2, <1>4, <1>5 DEF Leased

Keeps(S, mb, mb2) ==
  \A w \in Worker : \A x \in S :
    (In(mb[w], x) <=> In(mb2[w], x)) /\ (Lt(mb[w], x, x) <=> Lt(mb2[w], x, x))

LEMMA OtherMessages ==
  /\ \A x \in Tasks \cup Ends : x \in Message
  /\ \A x \in Tasks \cup Ends : \A k, c : x # Inc(k, c) /\ x # Dec(k, c)
  /\ \A x \in Tasks \cup Ends : x \notin Counts
  /\ \A c \in Nat \ {0} : \A a \in Key \cup {<<>>} : Task(c, a) \in Tasks
  /\ \A g \in Devices \X Devices : Receive(g) \in Ends /\ Send(g) \in Ends
<1>1. /\ \A x \in Tasks \cup Ends : x \in Message
      /\ \A c \in Nat \ {0} : \A a \in Key \cup {<<>>} : Task(c, a) \in Tasks
      /\ \A g \in Devices \X Devices : Receive(g) \in Ends /\ Send(g) \in Ends
  BY DEF Message, Tasks, Ends
<1>2. ASSUME NEW x \in Tasks, NEW k, NEW c PROVE x # Inc(k, c) /\ x # Dec(k, c)
  <2>1. PICK b \in Nat \ {0}, a \in Key \cup {<<>>} : x = Task(b, a)
    BY DEF Tasks
  <2>2. Inc(k, c) # Task(b, a) /\ Dec(k, c) # Task(b, a)
    BY Kinds
  <2> QED BY <2>1, <2>2
<1>3. ASSUME NEW x \in Ends, NEW k, NEW c PROVE x # Inc(k, c) /\ x # Dec(k, c)
  <2>1. PICK g \in Devices \X Devices : x = Receive(g) \/ x = Send(g)
    BY DEF Ends
  <2> QED BY <2>1, EndMessages
<1>4. \A x \in Tasks \cup Ends : \A k, c : x # Inc(k, c) /\ x # Dec(k, c)
  BY <1>2, <1>3
<1>5. \A x \in Tasks \cup Ends : x \notin Counts
  BY <1>4 DEF Counts
<1> QED BY <1>1, <1>4, <1>5

\* What Collect does to the ledger, and leaves alone.
LEMMA Collected ==
  ASSUME NEW home \in [Key -> Worker], NEW hs \in SUBSET Handles, IsFiniteSet(hs),
         NEW boxes \in [Worker -> Seq(Message)], NEW cnt, NEW put, NEW cps, NEW unb \in SUBSET Key,
         Ledger(home, hs, boxes, cnt, put, cps, unb), Collect(hs, boxes)
  PROVE  /\ handles' = Living(hs) /\ handles' \in SUBSET Handles
         /\ IsFiniteSet(handles')
         /\ mailbox' \in [Worker -> Seq(Message)]
         /\ Keeps(Tasks \cup Ends, boxes, mailbox')
         /\ Ledger(home, handles', mailbox', cnt, put, cps, unb)
<1> DEFINE gone(w) == {h \in hs : h.owners = {} /\ h.worker = w}
           dec(h) == [op |-> "decref", key |-> h.key, copy |-> h.copy]
           ext == [w \in Worker |-> SetToSeq({dec(h) : h \in gone(w)})]
<1>1. handles' = Living(hs) /\ handles' \in SUBSET Handles /\ handles' \in SUBSET hs
  BY DEF Collect, Living
<1>2. IsFiniteSet(handles')
  BY <1>1, FS_Subset
<1>3. ASSUME NEW w \in Worker
      PROVE  /\ ext[w] \in Seq(Message)
             /\ \A x : In(ext[w], x) <=> x \in Decs(hs, w)
             /\ \A x : ~Lt(ext[w], x, x)
  <2> DEFINE S == {dec(h) : h \in gone(w)}
             f == [h \in gone(w) |-> dec(h)]
  <2>1. \A h \in hs : Dec(h.key, h.copy) \in Message
    BY HandleFields, Messages DEF Message
  <2>2. S = Decs(hs, w)
    BY DEF Dec, Decs
  <2>3. S = {f[h] : h \in gone(w)}
    OBVIOUS
  <2>4. IsFiniteSet(gone(w))
    BY FS_Subset
  <2>5. IsFiniteSet(S)
    <3> HIDE DEF f, gone, S
    <3> QED BY <2>3, <2>4, ImageFinite
  <2>6. S \in SUBSET Message
    <3> HIDE DEF S
    <3> QED BY <2>1, <2>2 DEF Decs
  <2>7. ext[w] = SetToSeq(S)
    OBVIOUS
  <2> HIDE DEF S, ext
  <2>8. /\ SetToSeq(S) \in Seq(Message)
        /\ \A x : In(SetToSeq(S), x) <=> x \in S
        /\ \A x : ~Lt(SetToSeq(S), x, x)
    BY <2>5, <2>6, InSetToSeq
  <2> QED BY <2>2, <2>7, <2>8
<1>4. mailbox' = [w \in Worker |-> boxes[w] \o ext[w]]
  BY DEF Collect
<1> HIDE DEF ext
<1>5. ASSUME NEW w \in Worker
      PROVE  /\ mailbox'[w] \in Seq(Message)
             /\ \A x, y :
                  /\ In(mailbox'[w], x) <=> In(boxes[w], x) \/ In(ext[w], x)
                  /\ Lt(mailbox'[w], x, y) <=>
                       Lt(boxes[w], x, y) \/ Lt(ext[w], x, y) \/ (In(boxes[w], x) /\ In(ext[w], y))
  <2>1. boxes[w] \in Seq(Message) /\ ext[w] \in Seq(Message) /\ mailbox'[w] = boxes[w] \o ext[w]
    BY <1>3, <1>4
  <2> QED BY <2>1, InThen
<1>6. mailbox' \in [Worker -> Seq(Message)]
  <2>1. mailbox' \in [Worker -> Seq(Message)] <=> \A w \in Worker : mailbox'[w] \in Seq(Message)
    BY <1>4
  <2> QED BY <1>5, <2>1
<1>7. Ledger(home, handles', mailbox', cnt, put, cps, unb)
  <2>1. DecsOf(hs, ext)
    BY <1>3 DEF DecsOf
  <2>2. Extended(boxes, ext, mailbox')
    BY <1>5 DEF Extended
  <2>3. Ledger(home, Living(hs), mailbox', cnt, put, cps, unb)
    BY <2>1, <2>2, LedgerCollect
  <2> QED BY <1>1, <2>3
<1>8. Keeps(Tasks \cup Ends, boxes, mailbox')
  <2>1. ASSUME NEW w \in Worker, NEW x \in Tasks \cup Ends
        PROVE  /\ In(boxes[w], x) <=> In(mailbox'[w], x)
               /\ Lt(boxes[w], x, x) <=> Lt(mailbox'[w], x, x)
    <3>1. ASSUME In(ext[w], x) PROVE FALSE
      <4>1. x \in Decs(hs, w)
        BY <1>3, <3>1
      <4>2. PICK h \in hs : x = Dec(h.key, h.copy)
        BY <4>1 DEF Decs
      <4> QED BY <4>2, OtherMessages
    <3>2. ~Lt(ext[w], x, x)
      BY <1>3
    <3> QED BY <1>5, <3>1, <3>2
  <2> QED BY <2>1 DEF Keeps
<1> QED BY <1>1, <1>2, <1>6, <1>7, <1>8

-----------------------------------------------------------------------------
(***************************************************************************)
(* Parts of the invariant a step leaves alone.                             *)
(***************************************************************************)
LEMMA SamePuts ==
  ASSUME NEW home, CallsKept(home), UNCHANGED <<calls, puts>>, poisoned => poisoned'
  PROVE  CallsKept(home)'
BY DEF CallsKept, AllOk, MadeKey

LEMMA SameParts ==
  ASSUME PartsKept, UNCHANGED <<calls, running>>, Keeps(Tasks, mailbox, mailbox')
  PROVE  PartsKept'
<1>1. \A w \in Worker : \A c \in Nat \ {0} : \A a \in Key \cup {<<>>} :
        /\ In(mailbox[w], Task(c, a)) <=> In(mailbox'[w], Task(c, a))
        /\ Lt(mailbox[w], Task(c, a), Task(c, a)) <=> Lt(mailbox'[w], Task(c, a), Task(c, a))
  BY OtherMessages DEF Keeps
<1> QED BY <1>1 DEF PartsKept, Owes

LEMMA SameEnds ==
  ASSUME EndsKept, UNCHANGED frame, Keeps(Ends, mailbox, mailbox')
  PROVE  EndsKept'
<1>1. \A w \in Worker : \A g \in Devices \X Devices :
        /\ In(mailbox[w], Receive(g)) <=> In(mailbox'[w], Receive(g))
        /\ In(mailbox[w], Send(g)) <=> In(mailbox'[w], Send(g))
        /\ Lt(mailbox[w], Receive(g), Receive(g)) <=> Lt(mailbox'[w], Receive(g), Receive(g))
        /\ Lt(mailbox[w], Send(g), Send(g)) <=> Lt(mailbox'[w], Send(g), Send(g))
  BY OtherMessages DEF Keeps
<1>2. EndsApart'
  BY <1>1 DEF EndsKept, EndsApart
<1>3. EndsPosted'
  <2> SUFFICES ASSUME frame.waiting
               PROVE  EndsPosted'
    BY DEF EndsPosted
  <2>1. PICK src, dst \in Worker, g \in Devices \X Devices :
          /\ src = <<g[1], 0>> /\ In(mailbox[src], Send(g))
          /\ dst = <<g[2], 0>> /\ In(mailbox[dst], Receive(g))
    BY DEF EndsKept, EndsPosted
  <2>2. In(mailbox'[src], Send(g)) /\ In(mailbox'[dst], Receive(g))
    BY <1>1, <2>1
  <2> QED BY <2>1, <2>2 DEF EndsPosted
<1> QED BY <1>2, <1>3 DEF EndsKept

Holds(owner) == \A h \in handles : owner \in h.owners =>
                  \E g \in handles' : Same(g, h) /\ owner \in g.owners

LEMMA SameLeases ==
  ASSUME LeasesKept, poisoned => poisoned', Keeps(Tasks, mailbox, mailbox'),
         \A c \in Nat \ {0} : \A w \in Worker : \A k \in Key :
           In(mailbox[w], Task(c, k)) => Holds(c)
  PROVE  LeasesKept'
<1> SUFFICES ASSUME ~poisoned, NEW w \in Worker, NEW c \in Nat \ {0}, NEW k \in Key,
                    In(mailbox'[w], Task(c, k))
             PROVE  \E h \in handles' : h.key = k /\ c \in h.owners
  BY DEF LeasesKept
<1>1. In(mailbox[w], Task(c, k))
  BY OtherMessages DEF Keeps
<1>2. PICK h \in handles : h.key = k /\ c \in h.owners
  BY <1>1 DEF LeasesKept
<1> QED BY <1>1, <1>2 DEF Holds, Same

LEMMA SameFrame ==
  ASSUME FrameKept, UNCHANGED frame, Holds(Launching)
  PROVE  FrameKept'
<1>1. ASSUME frame # Idle, NEW d \in Devices, frame.shards[d] # None
      PROVE  \E h \in handles' : Same(h, frame.shards[d]) /\ Launching \in h.owners
  <2>1. PICK h \in handles : Same(h, frame.shards[d]) /\ Launching \in h.owners
    BY <1>1 DEF FrameKept
  <2> QED BY <2>1 DEF Holds, Same
<1> QED BY <1>1 DEF FrameKept

-----------------------------------------------------------------------------
(***************************************************************************)
(* Mailboxes.                                                              *)
(***************************************************************************)
LEMMA PostAdds ==
  ASSUME NEW boxes \in [Worker -> Seq(Message)], NEW w \in Worker, NEW m \in Message
  PROVE  LET boxes2 == Post(boxes, w, <<m>>)
         IN  boxes2 \in [Worker -> Seq(Message)] /\ Posted(boxes, boxes2, w, m)
<1> DEFINE boxes2 == Post(boxes, w, <<m>>)
<1>1. boxes2 = [boxes EXCEPT ![w] = boxes[w] \o <<m>>]
  BY DEF Post
<1>2. <<m>> \in Seq(Message) /\ boxes[w] \in Seq(Message) /\ boxes[w] \o <<m>> \in Seq(Message)
  OBVIOUS
<1> HIDE DEF boxes2
<1>3. /\ boxes2 \in [Worker -> Seq(Message)]
      /\ boxes2[w] = boxes[w] \o <<m>>
      /\ \A v \in Worker : v # w => boxes2[v] = boxes[v]
  BY <1>1, <1>2
<1>4. /\ \A x : In(boxes2[w], x) <=> In(boxes[w], x) \/ x = m
      /\ \A x, y : Lt(boxes2[w], x, y) <=> Lt(boxes[w], x, y) \/ (In(boxes[w], x) /\ y = m)
  <2> DEFINE one == <<m>>
             s == boxes[w]
  <2>0. one \in Seq(Message) /\ s \in Seq(Message) /\ boxes2[w] = s \o one
    BY <1>2, <1>3
  <2>2. \A x, y : (In(one, x) <=> x = m) /\ ~Lt(one, x, y)
    BY InOne
  <2> HIDE DEF one
  <2>1. /\ \A x : In(boxes2[w], x) <=> In(boxes[w], x) \/ In(one, x)
        /\ \A x, y : Lt(boxes2[w], x, y) <=>
                       Lt(boxes[w], x, y) \/ Lt(one, x, y) \/ (In(boxes[w], x) /\ In(one, y))
    BY <2>0, InThen
  <2>3. \A x : In(boxes2[w], x) <=> In(boxes[w], x) \/ x = m
    BY <2>1, <2>2
  <2>4. \A x, y : Lt(boxes2[w], x, y) <=> Lt(boxes[w], x, y) \/ (In(boxes[w], x) /\ y = m)
    BY <2>1, <2>2
  <2> QED BY <2>3, <2>4
<1>5. Posted(boxes, boxes2, w, m)
  BY <1>3, <1>4 DEF Posted
<1> QED BY <1>3, <1>5 DEF boxes2

LEMMA FirstGroup ==
  ASSUME NEW groups \in SUBSET (Devices \X Devices), groups # {}
  PROVE  First(groups) \in groups
<1> DEFINE S == {a[1] : a \in groups}
<1>1. \A a \in groups : a[1] \in Devices /\ a[2] \in Devices /\ a[1] \in Nat /\ a[2] \in Nat
  BY CallsAssumption
<1>2. PICK s \in S : \A n \in S : s <= n
  <2>1. S \in SUBSET Nat /\ S # {}
    BY <1>1
  <2> QED BY <2>1, Least
<1> DEFINE T == {a[2] : a \in {g \in groups : g[1] = s}}
<1>3. PICK t \in T : \A n \in T : t <= n
  <2>1. T \in SUBSET Nat
    BY <1>1
  <2>2. T # {}
    OBVIOUS
  <2> QED BY <2>1, <2>2, Least
<1>4. PICK a \in groups : a[1] = s /\ a[2] = t
  OBVIOUS
<1>5. ASSUME NEW b \in groups PROVE a[1] < b[1] \/ (a[1] = b[1] /\ a[2] <= b[2])
  <2>1. s <= b[1] /\ s \in Nat /\ b[1] \in Nat
    BY <1>1, <1>2, <1>4
  <2>2. CASE b[1] = s
    <3>1. b[2] \in T
      BY <2>2
    <3> QED BY <1>3, <1>4, <2>2, <3>1
  <2>3. CASE b[1] # s
    BY <1>4, <2>1, <2>3
  <2> QED BY <2>2, <2>3
<1>6. \E g \in groups : \A b \in groups : g[1] < b[1] \/ (g[1] = b[1] /\ g[2] <= b[2])
  BY <1>5
<1> QED BY <1>6 DEF First

LEMMA MailboxIs ==
  ASSUME Types
  PROVE  \A w \in Worker : mailbox[w] \in Seq(Message) /\ Len(mailbox[w]) \in Nat
BY DEF Types

-----------------------------------------------------------------------------
(***************************************************************************)
(* The actions.                                                            *)
(***************************************************************************)
LEMMA MoveStep ==
  ASSUME NEW home, Inv(home), Move
  PROVE  Inv(home)'
<1> DEFINE g == First(frame.groups)
           src == <<g[1], 0>>
           dst == <<g[2], 0>>
           mid == Post(mailbox, dst, <<Receive(g)>>)
<1>1. /\ frame \in Frames /\ frame # Idle /\ frame.groups # {} /\ ~frame.waiting
      /\ frame.groups \in SUBSET (Devices \X Devices)
  BY DEF Inv, FrameKept, Frames, Move, Idle
<1>2. g \in frame.groups /\ g \in Devices \X Devices /\ src \in Worker /\ dst \in Worker
  <2>1. g \in frame.groups
    BY <1>1, FirstGroup
  <2> HIDE DEF g
  <2> QED BY <1>1, <2>1 DEF Worker, Slot
<1>3. mailbox' = Post(mid, src, <<Send(g)>>)
  BY DEF Move, PostMove
<1>4. Receive(g) \in Message /\ Send(g) \in Message
  BY <1>2, OtherMessages
<1> HIDE DEF g, src, dst
<1>5. mid \in [Worker -> Seq(Message)] /\ Posted(mailbox, mid, dst, Receive(g))
  BY <1>2, <1>4, PostAdds DEF Inv, Types
<1> HIDE DEF mid
<1>6. mailbox' \in [Worker -> Seq(Message)] /\ Posted(mid, mailbox', src, Send(g))
  BY <1>2, <1>3, <1>4, <1>5, PostAdds
<1>7. \A w \in Worker : \A x, y : x # Receive(g) /\ x # Send(g) /\ y # Receive(g) /\ y # Send(g) =>
        (In(mailbox[w], x) <=> In(mailbox'[w], x)) /\ (Lt(mailbox[w], x, y) <=> Lt(mailbox'[w], x, y))
  BY <1>5, <1>6 DEF Posted
<1>8. Agree(mailbox, mailbox')
  <2>1. Receive(g) \notin Counts /\ Send(g) \notin Counts
    BY <1>2, OtherMessages
  <2> QED BY <1>7, <2>1 DEF Agree
<1>9. Keeps(Tasks, mailbox, mailbox')
  <2>1. \A x \in Tasks : x # Receive(g) /\ x # Send(g)
    BY EndMessages DEF Tasks
  <2> QED BY <1>7, <2>1 DEF Keeps
<1>10. /\ frame' \in Frames /\ frame'.waiting = TRUE /\ frame'.groups = frame.groups
       /\ frame'.shards = frame.shards /\ frame' # Idle
  <2>1. frame' = [frame EXCEPT !.waiting = TRUE]
    BY DEF Move
  <2>2. frame' \in Frames /\ frame'.waiting = TRUE /\ frame'.groups = frame.groups
    BY <1>1, <2>1 DEF Frames
  <2>3. frame'.shards = frame.shards
    BY <1>1, <2>1 DEF Frames
  <2>4. Idle.groups = {}
    BY DEF Idle
  <2> QED BY <1>1, <2>2, <2>3, <2>4
<1>11. /\ UNCHANGED <<poisoned, handles, calls, running, count, puts, copies, failures, missed>>
  BY DEF Move, storeVars
<1>12. Types'
  BY <1>6, <1>11 DEF Inv, Types
<1>13. Ledger(home, handles', mailbox', count', puts', copies', Unbound(calls'))
  <2>1. Alike(handles, handles)
    BY DEF Inv, Ledger, HandlesKept, Alike, Same
  <2>2. Unbound(calls) \in SUBSET Key
    BY DEF Unbound
  <2>3. Ledger(home, handles, mailbox', count, puts, copies, Unbound(calls))
    BY <1>8, <2>1, <2>2, LedgerAgrees DEF Inv
  <2> QED BY <1>11, <2>3
<1>14. PartsKept'
  BY <1>9, <1>11, SameParts DEF Inv
<1>15. CallsKept(home)'
  BY <1>11, SamePuts DEF Inv
<1>16. LeasesKept'
  BY <1>9, <1>11, SameLeases DEF Inv, Holds, Same
<1>17. FrameKept'
  BY <1>1, <1>10, <1>11 DEF Inv, FrameKept
<1>18. EndsKept'
  <2>1. \A w \in Worker : \A f \in Devices \X Devices :
          ~In(mailbox[w], Receive(f)) /\ ~In(mailbox[w], Send(f))
    BY <1>1 DEF Inv, EndsKept, EndsApart
  <2>2. ASSUME NEW w \in Worker, NEW f \in Devices \X Devices
        PROVE  /\ In(mailbox'[w], Receive(f)) <=> w = dst /\ f = g
               /\ In(mailbox'[w], Send(f)) <=> w = src /\ f = g
               /\ ~Lt(mailbox'[w], Receive(f), Receive(f)) /\ ~Lt(mailbox'[w], Send(f), Send(f))
    <3>1. /\ Receive(f) # Send(g) /\ Send(f) # Receive(g)
          /\ Receive(f) = Receive(g) <=> f = g
          /\ Send(f) = Send(g) <=> f = g
      BY <1>2, EndMessages
    <3>2. /\ ~In(mailbox[w], Receive(f)) /\ ~In(mailbox[w], Send(f))
          /\ ~Lt(mailbox[w], Receive(f), Receive(f)) /\ ~Lt(mailbox[w], Send(f), Send(f))
      BY <2>1 DEF Lt, In
    <3> QED BY <1>5, <1>6, <3>1, <3>2 DEF Posted
  <2>3. First(frame'.groups) = g /\ frame'.waiting
    BY <1>10 DEF g
  <2>4. EndsApart'
    BY <2>2, <2>3 DEF EndsApart
  <2>5. In(mailbox'[src], Send(g)) /\ In(mailbox'[dst], Receive(g))
    BY <1>2, <2>2
  <2>6. EndsPosted'
    BY <1>2, <2>5 DEF EndsPosted, src, dst
  <2> QED BY <2>4, <2>6 DEF EndsKept
<1>19. TensorsThere'
  BY <1>11 DEF Inv, TensorsThere
<1>20. home \in [Key -> Worker]
  BY DEF Inv
<1> QED BY <1>12, <1>13, <1>14, <1>15, <1>16, <1>17, <1>18, <1>19, <1>20 DEF Inv

LEMMA InvHandles ==
  ASSUME NEW home, Inv(home)
  PROVE  /\ handles \in SUBSET Handles /\ IsFiniteSet(handles) /\ Unique(handles)
         /\ home \in [Key -> Worker]
         /\ mailbox \in [Worker -> Seq(Message)]
         /\ Unbound(calls) \in SUBSET Key
         /\ Ledger(home, handles, mailbox, count, puts, copies, Unbound(calls))
<1>1. Unbound(calls) \in SUBSET Key
  BY DEF Unbound
<1>2. Unique(handles)
  BY DEF Inv, Ledger, HandlesKept, Unique
<1> QED BY <1>1, <1>2 DEF Inv, Types

LEMMA LedgerUnique ==
  ASSUME NEW home, NEW hs, NEW mb, NEW cnt, NEW put, NEW cps, NEW unb,
         Ledger(home, hs, mb, cnt, put, cps, unb)
  PROVE  Unique(hs)
BY DEF Ledger, HandlesKept, Unique

LEMMA LedgerRelabel ==
  ASSUME NEW home \in [Key -> Worker], NEW hs, NEW hs2, NEW mb, NEW cnt, NEW put, NEW cps,
         NEW unb \in SUBSET Key, Ledger(home, hs, mb, cnt, put, cps, unb), Alike(hs, hs2)
  PROVE  Ledger(home, hs2, mb, cnt, put, cps, unb)
<1>1. Agree(mb, mb)
  BY DEF Agree
<1> QED BY <1>1, LedgerAgrees

\* While no transfer is waited for no mailbox holds an end of one.
LEMMA NoEnds ==
  ASSUME NEW home, Inv(home), ~frame.waiting
  PROVE  \A x \in Ends : \A w \in Worker : ~In(mailbox[w], x)
<1> SUFFICES ASSUME NEW x \in Ends, NEW w \in Worker, In(mailbox[w], x) PROVE FALSE
  OBVIOUS
<1>1. PICK g \in Devices \X Devices : x = Receive(g) \/ x = Send(g)
  BY DEF Ends
<1> QED BY <1>1 DEF Inv, EndsKept, EndsApart

LEMMA EndsFree ==
  ASSUME \A x \in Ends : \A w \in Worker : ~In(mailbox'[w], x), ~frame'.waiting
  PROVE  EndsKept'
<1>1. \A g \in Devices \X Devices : \A w \in Worker :
        ~In(mailbox'[w], Receive(g)) /\ ~In(mailbox'[w], Send(g))
  BY OtherMessages
<1>2. \A s, x : Lt(s, x, x) => In(s, x)
  BY DEF Lt, In
<1> QED BY <1>1, <1>2 DEF EndsKept, EndsApart, EndsPosted

LEMMA StartStep ==
  ASSUME NEW home, Inv(home), NEW slot \in Slot, Start(slot)
  PROVE  Inv(home)'
<1>1. PICK shards \in [Devices -> Held \cup {None}] :
        /\ frame' = [slot |-> slot, shards |-> shards, groups |-> Groups(shards), waiting |-> FALSE]
        /\ handles' = Own(handles, {shards[d] : d \in Devices}, Launching)
  BY DEF Start
<1>2. /\ frame = Idle /\ ~frame.waiting
      /\ UNCHANGED <<poisoned, calls, mailbox, running, count, puts, copies, failures, missed>>
  BY DEF Start, Idle, storeVars
<1>3. /\ handles' \in SUBSET Handles /\ IsFiniteSet(handles') /\ Alike(handles, handles')
      /\ \A h \in handles : \E g \in handles' :
           /\ Same(g, h) /\ h.owners \subseteq g.owners
           /\ h \in {shards[d] : d \in Devices} => Launching \in g.owners
  <2> DEFINE objects == {shards[d] : d \in Devices}
  <2>1. handles' = Own(handles, objects, Launching) /\ Launching \in Int
    BY <1>1 DEF Launching
  <2> HIDE DEF objects
  <2>2. LET hs2 == Own(handles, objects, Launching)
        IN  /\ hs2 \in SUBSET Handles /\ IsFiniteSet(hs2) /\ Alike(handles, hs2) /\ Unique(hs2)
            /\ \A h \in handles : \E g \in hs2 :
                 /\ Same(g, h) /\ h.owners \subseteq g.owners
                 /\ h \in objects => Launching \in g.owners
    BY <2>1, InvHandles, OwnRelabels
  <2> QED BY <2>1, <2>2 DEF objects
<1>4. Types'
  BY <1>2, <1>3 DEF Inv, Types
<1>5. Ledger(home, handles', mailbox', count', puts', copies', Unbound(calls'))
  <2>1. Ledger(home, handles', mailbox, count, puts, copies, Unbound(calls))
    BY <1>3, InvHandles, LedgerRelabel
  <2> QED BY <1>2, <2>1
<1>6. Keeps(Tasks, mailbox, mailbox')
  BY <1>2 DEF Keeps
<1>7. PartsKept'
  BY <1>2, <1>6, SameParts DEF Inv
<1>8. CallsKept(home)'
  BY <1>2, SamePuts DEF Inv
<1>9. LeasesKept'
  <2>1. \A c : Holds(c)
    BY <1>3 DEF Holds
  <2> QED BY <1>2, <1>6, <2>1, SameLeases DEF Inv
<1>10. FrameKept'
  <2>1. \A d \in Devices : shards[d] # None =>
          /\ shards[d] \in handles /\ shards[d] \in Handles
          /\ Device(shards[d].key) \in Devices
    BY InvHandles DEF Held, Handles, Device, Key
  <2>2. Groups(shards) \in SUBSET (Devices \X Devices)
    BY <2>1 DEF Groups, Foreign
  <2>3. shards \in [Devices -> Handles \cup {None}]
    BY <2>1
  <2>4. frame' \in Frames
    BY <1>1, <2>2, <2>3 DEF Frames
  <2>5. frame'.shards = shards /\ frame'.groups = Groups(shards) /\ frame'.waiting = FALSE
    BY <1>1
  <2>6. ASSUME NEW d \in Devices, shards[d] # None
        PROVE  \E h \in handles' : Same(h, shards[d]) /\ Launching \in h.owners
    BY <1>3, <2>1, <2>6
  <2>7. \A g \in Groups(shards) : shards[g[2]] # None /\ g[1] # g[2]
    BY DEF Groups, Foreign
  <2> QED BY <2>4, <2>5, <2>6, <2>7 DEF FrameKept
<1>11. EndsKept'
  <2>1. ~frame'.waiting
    BY <1>1
  <2> QED BY <1>2, <2>1, NoEnds, EndsFree
<1>12. TensorsThere'
  BY <1>2 DEF Inv, TensorsThere
<1>13. home \in [Key -> Worker]
  BY InvHandles
<1> QED BY <1>4, <1>5, <1>7, <1>8, <1>9, <1>10, <1>11, <1>12, <1>13 DEF Inv

LEMMA CallsIs ==
  ASSUME Types
  PROVE  /\ DOMAIN calls = 1 .. Len(calls) /\ Len(calls) \in Nat
         /\ \A c \in DOMAIN calls :
              /\ c \in Nat \ {0} /\ calls[c] \in Record /\ calls[c].slot \in Slot
              /\ \A d \in Devices : /\ calls[c].ranks[d] \in Outcome
                                    /\ calls[c].outs[d] \in Key \cup {<<>>}
<1>1. DOMAIN calls = 1 .. Len(calls) /\ Len(calls) \in Nat
  BY DEF Types
<1>2. \A c \in DOMAIN calls : calls[c] \in Record
  BY DEF Types
<1>3. \A r \in Record : r.slot \in Slot /\ r.ranks \in [Devices -> Outcome]
                                       /\ r.outs \in [Devices -> Key \cup {<<>>}]
  BY DEF Record
<1> QED BY <1>1, <1>2, <1>3

\* One call replaced.
LEMMA OneCall ==
  ASSUME Types, NEW c \in DOMAIN calls, NEW r \in Record, calls' = [calls EXCEPT ![c] = r]
  PROVE  /\ calls' \in Seq(Record) /\ DOMAIN calls' = DOMAIN calls /\ calls'[c] = r
         /\ \A b \in DOMAIN calls : b # c => calls'[b] = calls[b]
<1>1. calls \in Seq(Record)
  BY DEF Types
<1> QED BY <1>1

\* The state of a call changes; what nobody has bound is the same as long as the
\* call does not become collected.
LEMMA DiscardStep ==
  ASSUME NEW home, Inv(home), NEW c \in DOMAIN calls, Discard(c)
  PROVE  Inv(home)'
<1> DEFINE r == [calls[c] EXCEPT !.state = "discarding"]
<1>1. /\ calls' = [calls EXCEPT ![c] = r] /\ calls[c].state = "pending" /\ calls[c] \in Record
      /\ UNCHANGED <<poisoned, frame, handles, mailbox, running, count, puts, copies, failures, missed>>
  BY CallsIs DEF Discard, storeVars, Inv
<1>2. /\ r \in Record /\ r.state = "discarding" /\ r.slot = calls[c].slot
      /\ r.ranks = calls[c].ranks /\ r.outs = calls[c].outs
  BY <1>1 DEF Record
<1> HIDE DEF r
<1>3. /\ calls' \in Seq(Record) /\ DOMAIN calls' = DOMAIN calls /\ calls'[c] = r
      /\ \A b \in DOMAIN calls : b # c => calls'[b] = calls[b]
  BY <1>1, <1>2, OneCall DEF Inv
<1>4. \A b \in DOMAIN calls :
        /\ calls'[b].ranks = calls[b].ranks /\ calls'[b].outs = calls[b].outs
        /\ calls'[b].slot = calls[b].slot
        /\ calls'[b].state = "collected" <=> calls[b].state = "collected"
        /\ calls'[b].state = "failed" <=> calls[b].state = "failed"
  BY <1>1, <1>2, <1>3
<1>5. Types'
  BY <1>1, <1>3 DEF Inv, Types
<1>6. Unbound(calls') = Unbound(calls)
  BY <1>3, <1>4 DEF Unbound
<1>7. Ledger(home, handles', mailbox', count', puts', copies', Unbound(calls'))
  BY <1>1, <1>6, InvHandles
<1>8. PartsKept'
  BY <1>1, <1>3, <1>4 DEF Inv, PartsKept, Owes
<1>9. CallsKept(home)'
  BY <1>1, <1>3, <1>4 DEF Inv, CallsKept, AllOk
<1>10. LeasesKept' /\ FrameKept' /\ EndsKept' /\ TensorsThere'
  <2>1. LeasesKept'
    BY <1>1 DEF Inv, LeasesKept
  <2>2. FrameKept'
    BY <1>1 DEF Inv, FrameKept
  <2>3. EndsKept'
    BY <1>1 DEF Inv, EndsKept, EndsApart, EndsPosted
  <2>4. TensorsThere'
    BY <1>1 DEF Inv, TensorsThere
  <2> QED BY <2>1, <2>2, <2>3, <2>4
<1>11. home \in [Key -> Worker]
  BY InvHandles
<1> QED BY <1>5, <1>7, <1>8, <1>9, <1>10, <1>11 DEF Inv

LEMMA TakesHead ==
  ASSUME NEW boxes \in [Worker -> Seq(Message)], NEW w \in Worker, boxes[w] # <<>>,
         NEW boxes2, boxes2 = [boxes EXCEPT ![w] = Tail(@)]
  PROVE  /\ Head(boxes[w]) \in Message /\ boxes2 \in [Worker -> Seq(Message)]
         /\ TakenFrom(boxes, boxes2, w, Head(boxes[w]))
<1> DEFINE m == Head(boxes[w])
           s == boxes[w]
<1>1. s \in Seq(Message) /\ s # <<>>
  OBVIOUS
<1>2. /\ Head(s) \in Message /\ Tail(s) \in Seq(Message) /\ In(s, Head(s))
      /\ \A x : In(s, x) <=> x = Head(s) \/ In(Tail(s), x)
      /\ \A x, y : Lt(s, x, y) <=> Lt(Tail(s), x, y) \/ (x = Head(s) /\ In(Tail(s), y))
  <2> HIDE DEF s
  <2> QED BY <1>1, InTail
<1>3. /\ boxes2 \in [Worker -> Seq(Message)] /\ boxes2[w] = Tail(s)
      /\ \A v \in Worker : v # w => boxes2[v] = boxes[v]
  BY <1>2
<1>4. TakenFrom(boxes, boxes2, w, m)
  BY <1>2, <1>3 DEF TakenFrom
<1> QED BY <1>2, <1>3, <1>4

LEMMA TakenKeeps ==
  ASSUME NEW mb, NEW mb2, NEW w \in Worker, NEW m, TakenFrom(mb, mb2, w, m)
  PROVE  /\ \A S : m \notin S => Keeps(S, mb, mb2)
         /\ m \notin Counts => Agree(mb, mb2)
<1>1. \A v \in Worker : \A x, y : x # m /\ y # m =>
        (In(mb[v], x) <=> In(mb2[v], x)) /\ (Lt(mb[v], x, y) <=> Lt(mb2[v], x, y))
  <2> SUFFICES ASSUME NEW v \in Worker, NEW x, NEW y, x # m, y # m
               PROVE  (In(mb[v], x) <=> In(mb2[v], x)) /\ (Lt(mb[v], x, y) <=> Lt(mb2[v], x, y))
    OBVIOUS
  <2>1. CASE v = w
    BY <2>1 DEF TakenFrom
  <2>2. CASE v # w
    BY <2>2 DEF TakenFrom
  <2> QED BY <2>1, <2>2
<1>2. \A S : m \notin S => Keeps(S, mb, mb2)
  BY <1>1 DEF Keeps
<1>3. m \notin Counts => Agree(mb, mb2)
  BY <1>1 DEF Agree
<1> QED BY <1>2, <1>3

LEMMA SameLedger ==
  ASSUME NEW home, Inv(home), Agree(mailbox, mailbox'),
         UNCHANGED <<handles, count, puts, copies>>, Unbound(calls') = Unbound(calls)
  PROVE  Ledger(home, handles', mailbox', count', puts', copies', Unbound(calls'))
<1>1. Alike(handles, handles)
  BY InvHandles DEF Alike, Unique, Same
<1>2. Ledger(home, handles, mailbox', count, puts, copies, Unbound(calls))
  BY <1>1, InvHandles, LedgerAgrees
<1> QED BY <1>2

LEMMA CountedStep ==
  ASSUME NEW home, Inv(home), NEW w \in Worker, Counted(w)
  PROVE  Inv(home)'
<1> DEFINE m == Next1(w)
<1>1. /\ mailbox \in [Worker -> Seq(Message)] /\ mailbox[w] # <<>>
      /\ mailbox' = [mailbox EXCEPT ![w] = Tail(@)]
      /\ m.op \in {"incref", "decref"} /\ m = Head(mailbox[w])
      /\ UNCHANGED <<poisoned, frame, handles, calls, running, puts, copies, failures, missed>>
  BY InvHandles DEF Counted, Free, Taken, Next1
<1>2. m \in Message /\ mailbox' \in [Worker -> Seq(Message)] /\ TakenFrom(mailbox, mailbox', w, m)
  <2> HIDE DEF m
  <2> QED BY <1>1, TakesHead
<1>3. m \in Counts
  BY <1>1, <1>2 DEF Message, Tasks, Ends, Task, Receive, Send
<1>4. PICK k \in Key, n \in Nat : m = Inc(k, n) \/ m = Dec(k, n)
  BY <1>3 DEF Counts
<1>5. m.key = k /\ (m.op = "incref" <=> m = Inc(k, n))
  BY <1>4 DEF Inc, Dec
<1>6. count' = IF k \notin DOMAIN count THEN count
               ELSE IF m = Inc(k, n) THEN [count EXCEPT ![k] = @ + 1]
               ELSE Left(count, k)
  BY <1>5 DEF Counted, Left
<1> HIDE DEF m
<1>7. copies \in 0 .. MaxCopies /\ \A h \in handles : h.copy \in Nat
  BY HandleFields, InvHandles DEF Inv, Types
<1>8. Ledger(home, handles', mailbox', count', puts', copies', Unbound(calls'))
  <2>1. CASE m = Inc(k, n)
    <3>1. /\ k \in DOMAIN count
          /\ Ledger(home, handles, mailbox', [count EXCEPT ![k] = @ + 1], puts, copies, Unbound(calls))
      BY <1>2, <1>7, <2>1, InvHandles, LedgerCountedIn
    <3> QED BY <1>1, <1>6, <2>1, <3>1
  <2>2. CASE m = Dec(k, n)
    <3>1. /\ k \in DOMAIN count
          /\ Ledger(home, handles, mailbox', Left(count, k), puts, copies, Unbound(calls))
      BY <1>2, <1>7, <2>2, InvHandles, LedgerCountedOut
    <3>2. m # Inc(k, n)
      BY <2>2, Kinds
    <3> QED BY <1>1, <1>6, <3>1, <3>2
  <2> QED BY <1>4, <2>1, <2>2
<1>9. Keeps(Tasks, mailbox, mailbox') /\ Keeps(Ends, mailbox, mailbox')
  BY <1>2, <1>3, OtherMessages, TakenKeeps
<1>10. Types'
  BY <1>1, <1>2 DEF Inv, Types
<1>11. PartsKept'
  BY <1>1, <1>9, SameParts DEF Inv
<1>12. CallsKept(home)'
  BY <1>1, SamePuts DEF Inv
<1>13. \A o : Holds(o)
  BY <1>1 DEF Holds, Same
<1>14. LeasesKept'
  BY <1>1, <1>9, <1>13, SameLeases DEF Inv
<1>15. FrameKept'
  BY <1>1, <1>13, SameFrame DEF Inv
<1>16. EndsKept'
  BY <1>1, <1>9, SameEnds DEF Inv
<1>17. TensorsThere'
  BY <1>1 DEF Inv, TensorsThere
<1>18. home \in [Key -> Worker]
  BY InvHandles
<1> QED BY <1>8, <1>10, <1>11, <1>12, <1>14, <1>15, <1>16, <1>17, <1>18 DEF Inv

\* The outcome of a rank is noted.
LEMMA RankNoted ==
  ASSUME Types, NEW c \in DOMAIN calls, NEW d \in Devices, NEW out \in Outcome, Rank(c, d, out)
  PROVE  /\ calls' \in Seq(Record) /\ DOMAIN calls' = DOMAIN calls
         /\ \A b \in DOMAIN calls :
              /\ calls'[b].state = calls[b].state /\ calls'[b].slot = calls[b].slot
              /\ calls'[b].outs = calls[b].outs
              /\ \A e \in Devices :
                   calls'[b].ranks[e] = IF b = c /\ e = d THEN out ELSE calls[b].ranks[e]
<1> DEFINE r == [calls[c] EXCEPT !.ranks = [calls[c].ranks EXCEPT ![d] = out]]
<1>1. calls[c] \in Record /\ calls[c].ranks \in [Devices -> Outcome]
  BY CallsIs DEF Record
<1>2. calls' = [calls EXCEPT ![c] = r]
  BY DEF Rank
<1>3. /\ r \in Record /\ r.state = calls[c].state /\ r.slot = calls[c].slot /\ r.outs = calls[c].outs
      /\ r.ranks = [calls[c].ranks EXCEPT ![d] = out]
  BY <1>1 DEF Record
<1> HIDE DEF r
<1>4. /\ calls' \in Seq(Record) /\ DOMAIN calls' = DOMAIN calls /\ calls'[c] = r
      /\ \A b \in DOMAIN calls : b # c => calls'[b] = calls[b]
  BY <1>2, <1>3, OneCall
<1>5. \A e \in Devices : r.ranks[e] = IF e = d THEN out ELSE calls[c].ranks[e]
  BY <1>1, <1>3
<1>6. ASSUME NEW b \in DOMAIN calls
      PROVE  /\ calls'[b].state = calls[b].state /\ calls'[b].slot = calls[b].slot
             /\ calls'[b].outs = calls[b].outs
             /\ \A e \in Devices :
                  calls'[b].ranks[e] = IF b = c /\ e = d THEN out ELSE calls[b].ranks[e]
  <2>1. CASE b = c
    BY <1>3, <1>4, <1>5, <2>1
  <2>2. CASE b # c
    BY <1>4, <2>2
  <2> QED BY <2>1, <2>2
<1> QED BY <1>4, <1>6

LEMMA RankFails ==
  ASSUME NEW home, Types, CallsKept(home), NEW c \in DOMAIN calls, NEW d \in Devices,
         calls[c].ranks[d] = "waiting", Rank(c, d, "failed"),
         UNCHANGED puts, poisoned => poisoned'
  PROVE  CallsKept(home)' /\ Unbound(calls') = Unbound(calls)
<1>1. /\ DOMAIN calls' = DOMAIN calls
      /\ \A b \in DOMAIN calls :
           /\ calls'[b].state = calls[b].state /\ calls'[b].slot = calls[b].slot
           /\ calls'[b].outs = calls[b].outs
           /\ \A e \in Devices :
                calls'[b].ranks[e] = IF b = c /\ e = d THEN "failed" ELSE calls[b].ranks[e]
  BY RankNoted DEF Outcome
<1>2. Unbound(calls') = Unbound(calls)
  BY <1>1 DEF Unbound
<1>3. ASSUME NEW b \in DOMAIN calls
      PROVE  /\ calls'[b].state = "failed" => poisoned'
             /\ calls'[b].state = "collected" => AllOk(b)'
  <2>1. calls'[b].state = "failed" => poisoned'
    BY <1>1 DEF CallsKept
  <2>2. ASSUME calls'[b].state = "collected" PROVE AllOk(b)'
    <3>1. AllOk(b)
      BY <1>1, <2>2 DEF CallsKept
    <3>2. b # c
      BY <3>1 DEF AllOk
    <3> QED BY <1>1, <3>1, <3>2 DEF AllOk
  <2> QED BY <2>1, <2>2
<1>4. ASSUME NEW b \in DOMAIN calls, NEW e \in Devices
      PROVE  calls'[b].outs[e] # <<>> <=> calls'[b].ranks[e] = "ok"
  BY <1>1 DEF CallsKept
<1>5. ASSUME NEW b \in DOMAIN calls', NEW e \in Devices
      PROVE  LET k == calls'[b].outs[e]
             IN  /\ k # <<>> <=> calls'[b].ranks[e] = "ok"
                 /\ k # <<>> =>
                      /\ k[1] = e /\ MadeKey(puts', k) /\ home[k] = <<e, calls'[b].slot>>
                      /\ \A a \in DOMAIN calls' : calls'[a].outs[e] = k => a = b
  <2> SUFFICES ASSUME NEW k, k = calls[b].outs[e], k # <<>>
               PROVE  /\ k[1] = e /\ MadeKey(puts', k) /\ home[k] = <<e, calls'[b].slot>>
                      /\ \A a \in DOMAIN calls' : calls'[a].outs[e] = k => a = b
    BY <1>1, <1>4
  <2>1. /\ k[1] = e /\ MadeKey(puts, k) /\ home[k] = <<e, calls[b].slot>>
        /\ \A a \in DOMAIN calls : calls[a].outs[e] = k => a = b
    BY <1>1 DEF CallsKept
  <2> QED BY <1>1, <2>1
<1>6. CallsKept(home)'
  <2>1. \A b \in DOMAIN calls' : /\ calls'[b].state = "failed" => poisoned'
                                 /\ calls'[b].state = "collected" => AllOk(b)'
    BY <1>1, <1>3
  <2> QED BY <1>5, <2>1, Zenon DEF CallsKept
<1> QED BY <1>2, <1>6

\* The rank whose part of a call is taken has nothing else of it before it.
LEMMA PartTaken ==
  ASSUME NEW home, Inv(home), NEW w \in Worker, NEW c \in Nat \ {0}, NEW a \in Key \cup {<<>>},
         TakenFrom(mailbox, mailbox', w, Task(c, a))
  PROVE  /\ Owes(calls, c, w) /\ running[w] # c
         /\ \A v \in Worker : \A b \in Nat \ {0} : \A x \in Key \cup {<<>>} :
              In(mailbox'[v], Task(b, x)) =>
                /\ In(mailbox[v], Task(b, x)) /\ ~(v = w /\ b = c)
                /\ ~Lt(mailbox'[v], Task(b, x), Task(b, x))
<1>1. /\ In(mailbox[w], Task(c, a)) /\ Owes(calls, c, w) /\ running[w] # c
      /\ ~Lt(mailbox[w], Task(c, a), Task(c, a))
  BY DEF TakenFrom, Inv, PartsKept
<1>2. ~In(mailbox'[w], Task(c, a))
  BY <1>1 DEF TakenFrom
<1>3. ASSUME NEW v \in Worker, NEW b \in Nat \ {0}, NEW x \in Key \cup {<<>>},
             In(mailbox'[v], Task(b, x))
      PROVE  /\ In(mailbox[v], Task(b, x)) /\ ~(v = w /\ b = c)
             /\ ~Lt(mailbox'[v], Task(b, x), Task(b, x))
  <2>1. In(mailbox[v], Task(b, x))
    BY <1>3 DEF TakenFrom
  <2>2. ~Lt(mailbox[v], Task(b, x), Task(b, x))
    BY <2>1 DEF Inv, PartsKept
  <2>3. ~Lt(mailbox'[v], Task(b, x), Task(b, x))
    BY <2>2 DEF TakenFrom
  <2>4. ASSUME v = w, b = c PROVE FALSE
    <3>1. x = a
      BY <1>1, <2>1, <2>4 DEF Inv, PartsKept
    <3> QED BY <1>2, <1>3, <2>4, <3>1
  <2> QED BY <2>1, <2>3, <2>4
<1> QED BY <1>1, <1>3

LEMMA ResolveStep ==
  ASSUME NEW home, Inv(home), NEW w \in Worker, Resolve(w)
  PROVE  Inv(home)'
<1> DEFINE m == Next1(w)
<1>1. /\ mailbox \in [Worker -> Seq(Message)] /\ mailbox[w] # <<>> /\ running[w] = 0
      /\ mailbox' = [mailbox EXCEPT ![w] = Tail(@)]
      /\ m.op = "call" /\ m = Head(mailbox[w])
      /\ UNCHANGED <<poisoned, frame, handles, count, puts, copies, failures>>
  BY InvHandles DEF Resolve, Free, Taken, Next1, storeVars
<1>2. m \in Message /\ mailbox' \in [Worker -> Seq(Message)] /\ TakenFrom(mailbox, mailbox', w, m)
  <2> HIDE DEF m
  <2> QED BY <1>1, TakesHead
<1>3. m \in Tasks
  BY <1>1, <1>2 DEF Message, Counts, Ends, Inc, Dec, Receive, Send
<1>4. PICK c \in Nat \ {0}, a \in Key \cup {<<>>} : m = Task(c, a)
  BY <1>3 DEF Tasks
<1>5. m.call = c /\ m.arg = a
  BY <1>4 DEF Task
<1>6. \/ running' = [running EXCEPT ![w] = c] /\ UNCHANGED <<calls, missed>>
      \/ /\ a \notin DOMAIN count /\ a # <<>> /\ Rank(c, w[1], "failed") /\ missed' = TRUE
         /\ UNCHANGED running
  BY <1>5 DEF Resolve
<1> HIDE DEF m
<1>7. /\ Owes(calls, c, w) /\ running[w] # c
      /\ \A v \in Worker : \A b \in Nat \ {0} : \A x \in Key \cup {<<>>} :
           In(mailbox'[v], Task(b, x)) =>
             /\ In(mailbox[v], Task(b, x)) /\ ~(v = w /\ b = c)
             /\ ~Lt(mailbox'[v], Task(b, x), Task(b, x))
  BY <1>2, <1>4, PartTaken
<1>8. /\ c \in DOMAIN calls /\ calls[c].slot = w[2] /\ calls[c].ranks[w[1]] = "waiting"
      /\ w[1] \in Devices
  BY <1>7 DEF Owes, Worker
<1>9. Agree(mailbox, mailbox') /\ Keeps(Ends, mailbox, mailbox')
  <2>1. m \notin Counts
    BY <1>3, OtherMessages
  <2>2. m \notin Ends
    <3>1. \A g : Task(c, a) # Receive(g) /\ Task(c, a) # Send(g)
      BY EndMessages
    <3> QED BY <1>4, <3>1 DEF Ends
  <2> QED BY <1>2, <2>1, <2>2, TakenKeeps
<1>10. \A o : Holds(o)
  BY <1>1 DEF Holds, Same
<1>11. LeasesKept'
  <2> SUFFICES ASSUME ~poisoned, NEW v \in Worker, NEW b \in Nat \ {0}, NEW k \in Key,
                      In(mailbox'[v], Task(b, k))
               PROVE  \E h \in handles' : h.key = k /\ b \in h.owners
    BY <1>1 DEF LeasesKept
  <2>1. In(mailbox[v], Task(b, k))
    BY <1>7
  <2> QED BY <1>1, <2>1 DEF Inv, LeasesKept
<1>12. FrameKept'
  BY <1>1, <1>10, SameFrame DEF Inv
<1>13. EndsKept'
  BY <1>1, <1>9, SameEnds DEF Inv
<1>14. home \in [Key -> Worker]
  BY InvHandles
<1>15. CASE running' = [running EXCEPT ![w] = c] /\ UNCHANGED <<calls, missed>>
  <2>1. /\ running' \in [Worker -> Nat] /\ running'[w] = c
        /\ \A v \in Worker : v # w => running'[v] = running[v]
    BY <1>15 DEF Inv, Types
  <2>2. Types'
    BY <1>1, <1>2, <1>15, <2>1 DEF Inv, Types
  <2>3. Ledger(home, handles', mailbox', count', puts', copies', Unbound(calls'))
    BY <1>1, <1>9, <1>15, SameLedger
  <2>4. PartsKept'
    <3>1. ASSUME NEW v \in Worker, running'[v] # 0 PROVE Owes(calls', running'[v], v)
      <4>1. Owes(calls, running'[v], v)
        BY <1>7, <2>1, <3>1 DEF Inv, PartsKept
      <4> QED BY <1>15, <4>1 DEF Owes
    <3>2. ASSUME NEW v \in Worker, NEW b \in Nat \ {0}, NEW x \in Key \cup {<<>>},
                 In(mailbox'[v], Task(b, x))
          PROVE  /\ Owes(calls', b, v) /\ running'[v] # b /\ ~Lt(mailbox'[v], Task(b, x), Task(b, x))
                 /\ \A y \in Key \cup {<<>>} : In(mailbox'[v], Task(b, y)) => y = x
      <4>1. /\ In(mailbox[v], Task(b, x)) /\ ~(v = w /\ b = c)
            /\ ~Lt(mailbox'[v], Task(b, x), Task(b, x))
        BY <1>7, <3>2
      <4>2. Owes(calls, b, v) /\ running[v] # b
        BY <4>1 DEF Inv, PartsKept
      <4>3. \A y \in Key \cup {<<>>} : In(mailbox'[v], Task(b, y)) => y = x
        BY <1>7, <4>1 DEF Inv, PartsKept
      <4>4. Owes(calls', b, v)
        BY <1>15, <4>2 DEF Owes
      <4>5. running'[v] # b
        BY <2>1, <4>1, <4>2
      <4> QED BY <4>1, <4>3, <4>4, <4>5
    <3> QED BY <3>1, <3>2 DEF PartsKept
  <2>5. CallsKept(home)'
    BY <1>1, <1>15, SamePuts DEF Inv
  <2>6. TensorsThere'
    BY <1>1, <1>15 DEF Inv, TensorsThere
  <2> QED BY <1>11, <1>12, <1>13, <1>14, <2>2, <2>3, <2>4, <2>5, <2>6 DEF Inv
<1>16. CASE /\ a \notin DOMAIN count /\ a # <<>> /\ Rank(c, w[1], "failed") /\ missed' = TRUE
            /\ UNCHANGED running
  <2>1. /\ calls' \in Seq(Record) /\ DOMAIN calls' = DOMAIN calls
        /\ \A b \in DOMAIN calls :
             /\ calls'[b].state = calls[b].state /\ calls'[b].slot = calls[b].slot
             /\ calls'[b].outs = calls[b].outs
             /\ \A e \in Devices :
                  calls'[b].ranks[e] = IF b = c /\ e = w[1] THEN "failed" ELSE calls[b].ranks[e]
    BY <1>8, <1>16, RankNoted DEF Inv, Outcome
  <2>2. Types'
    BY <1>1, <1>2, <1>16, <2>1 DEF Inv, Types
  <2>3. CallsKept(home)' /\ Unbound(calls') = Unbound(calls)
    BY <1>1, <1>8, <1>16, RankFails DEF Inv
  <2>4. Ledger(home, handles', mailbox', count', puts', copies', Unbound(calls'))
    BY <1>1, <1>9, <2>3, SameLedger
  <2>5. ASSUME NEW v \in Worker, NEW b, Owes(calls, b, v), ~(v = w /\ b = c) PROVE Owes(calls', b, v)
    <3>1. v[1] \in Devices /\ v[2] \in Slot /\ v = <<v[1], v[2]>> /\ w = <<w[1], w[2]>>
      BY DEF Worker
    <3>2. ~(b = c /\ v[1] = w[1])
      BY <1>8, <2>5, <3>1 DEF Owes
    <3> QED BY <2>1, <2>5, <3>1, <3>2 DEF Owes
  <2>6. PartsKept'
    <3>1. ASSUME NEW v \in Worker, running'[v] # 0 PROVE Owes(calls', running'[v], v)
      <4>1. Owes(calls, running[v], v) /\ v # w
        BY <1>1, <1>16, <3>1 DEF Inv, PartsKept
      <4>2. Owes(calls', running[v], v)
        BY <2>5, <4>1
      <4> QED BY <1>16, <4>2 DEF Owes
    <3>2. ASSUME NEW v \in Worker, NEW b \in Nat \ {0}, NEW x \in Key \cup {<<>>},
                 In(mailbox'[v], Task(b, x))
          PROVE  /\ Owes(calls', b, v) /\ running'[v] # b /\ ~Lt(mailbox'[v], Task(b, x), Task(b, x))
                 /\ \A y \in Key \cup {<<>>} : In(mailbox'[v], Task(b, y)) => y = x
      <4>1. /\ In(mailbox[v], Task(b, x)) /\ ~(v = w /\ b = c)
            /\ ~Lt(mailbox'[v], Task(b, x), Task(b, x))
        BY <1>7, <3>2
      <4>2. Owes(calls, b, v) /\ running[v] # b
        BY <4>1 DEF Inv, PartsKept
      <4>3. \A y \in Key \cup {<<>>} : In(mailbox'[v], Task(b, y)) => y = x
        BY <1>7, <4>1 DEF Inv, PartsKept
      <4>4. Owes(calls', b, v)
        BY <2>5, <4>1, <4>2
      <4> QED BY <1>16, <4>1, <4>2, <4>3, <4>4
    <3> QED BY <3>1, <3>2 DEF PartsKept
  <2>7. poisoned
    <3> SUFFICES ASSUME ~poisoned PROVE FALSE
      OBVIOUS
    <3>1. a \in Key /\ In(mailbox[w], Task(c, a))
      BY <1>2, <1>4, <1>16 DEF TakenFrom
    <3>2. PICK h \in handles : h.key = a
      BY <3>1 DEF Inv, LeasesKept
    <3>3. Len(mailbox[home[h.key]]) \in Nat /\ copies \in 0 .. MaxCopies
      BY <3>1, <3>2, InvHandles, MailboxIs DEF Inv, Types
    <3>4. h.key \in DOMAIN count
      BY <3>3, InvHandles, LedgerUse
    <3> QED BY <1>16, <3>2, <3>4
  <2>8. TensorsThere'
    BY <1>1, <2>7 DEF TensorsThere
  <2> QED BY <1>11, <1>12, <1>13, <1>14, <2>2, <2>3, <2>4, <2>6, <2>8 DEF Inv
<1> QED BY <1>6, <1>15, <1>16

LEMMA NoKey == \A k \in Key : k # <<>> /\ k = <<k[1], k[2]>> /\ k[1] \in Devices
BY DEF Key

LEMMA WorkerIs ==
  \A w \in Worker : w[1] \in Devices /\ w[2] \in Slot /\ w = <<w[1], w[2]>>
BY DEF Worker

\* The rank that runs its part of a call answers.
LEMMA PartAnswered ==
  ASSUME PartsKept, NEW w \in Worker, running \in [Worker -> Nat],
         running' = [running EXCEPT ![w] = 0], running[w] # 0,
         UNCHANGED mailbox, DOMAIN calls' = DOMAIN calls,
         \A b \in DOMAIN calls : /\ calls'[b].slot = calls[b].slot
                                 /\ \A e \in Devices : ~(b = running[w] /\ e = w[1]) =>
                                      calls'[b].ranks[e] = calls[b].ranks[e]
  PROVE  PartsKept'
<1>1. Owes(calls, running[w], w)
  BY DEF PartsKept
<1>2. ASSUME NEW v \in Worker, NEW b, Owes(calls, b, v), ~(v = w /\ b = running[w])
      PROVE  Owes(calls', b, v)
  <2>1. ~(b = running[w] /\ v[1] = w[1])
    BY <1>1, <1>2, WorkerIs DEF Owes
  <2> QED BY <1>2, <2>1, WorkerIs DEF Owes
<1>3. ASSUME NEW v \in Worker, running'[v] # 0 PROVE Owes(calls', running'[v], v)
  <2>1. v # w /\ running'[v] = running[v]
    BY <1>3
  <2>2. Owes(calls, running[v], v)
    BY <1>3, <2>1 DEF PartsKept
  <2>3. Owes(calls', running[v], v)
    BY <1>2, <2>1, <2>2
  <2> QED BY <2>1, <2>3
<1>4. ASSUME NEW v \in Worker, NEW b \in Nat \ {0}, NEW x \in Key \cup {<<>>},
             In(mailbox'[v], Task(b, x))
      PROVE  /\ Owes(calls', b, v) /\ running'[v] # b /\ ~Lt(mailbox'[v], Task(b, x), Task(b, x))
             /\ \A y \in Key \cup {<<>>} : In(mailbox'[v], Task(b, y)) => y = x
  <2>1. /\ Owes(calls, b, v) /\ running[v] # b /\ ~Lt(mailbox[v], Task(b, x), Task(b, x))
        /\ \A y \in Key \cup {<<>>} : In(mailbox[v], Task(b, y)) => y = x
    BY <1>4 DEF PartsKept
  <2>2. Owes(calls', b, v)
    BY <1>2, <2>1
  <2>3. running'[v] # b
    BY <2>1
  <2> QED BY <2>1, <2>2, <2>3
<1> QED BY <1>3, <1>4 DEF PartsKept

Returned(c, d, k) == calls' = [calls EXCEPT ![c].ranks[d] = "ok", ![c].outs[d] = k]

\* A rank answers with a tensor.
LEMMA RankReturns ==
  ASSUME Types, NEW c \in DOMAIN calls, NEW d \in Devices, NEW k \in Key,
         Returned(c, d, k)
  PROVE  /\ calls' \in Seq(Record) /\ DOMAIN calls' = DOMAIN calls
         /\ \A b \in DOMAIN calls :
              /\ calls'[b].state = calls[b].state /\ calls'[b].slot = calls[b].slot
              /\ \A e \in Devices :
                   /\ b = c /\ e = d => calls'[b].ranks[e] = "ok" /\ calls'[b].outs[e] = k
                   /\ ~(b = c /\ e = d) => /\ calls'[b].ranks[e] = calls[b].ranks[e]
                                           /\ calls'[b].outs[e] = calls[b].outs[e]
<1> DEFINE r == [calls[c] EXCEPT !.ranks = [calls[c].ranks EXCEPT ![d] = "ok"],
                                 !.outs = [calls[c].outs EXCEPT ![d] = k]]
<1>1. calls[c] \in Record /\ calls[c].ranks \in [Devices -> Outcome]
      /\ calls[c].outs \in [Devices -> Key \cup {<<>>}]
  BY CallsIs DEF Record
<1>2. calls' = [calls EXCEPT ![c] = r]
  BY DEF Returned
<1>3. /\ r \in Record /\ r.state = calls[c].state /\ r.slot = calls[c].slot
      /\ r.ranks = [calls[c].ranks EXCEPT ![d] = "ok"]
      /\ r.outs = [calls[c].outs EXCEPT ![d] = k]
  BY <1>1 DEF Record, Outcome
<1> HIDE DEF r
<1>4. /\ calls' \in Seq(Record) /\ DOMAIN calls' = DOMAIN calls /\ calls'[c] = r
      /\ \A b \in DOMAIN calls : b # c => calls'[b] = calls[b]
  BY <1>2, <1>3, OneCall
<1>5. \A e \in Devices : /\ r.ranks[e] = IF e = d THEN "ok" ELSE calls[c].ranks[e]
                         /\ r.outs[e] = IF e = d THEN k ELSE calls[c].outs[e]
  BY <1>1, <1>3
<1>6. ASSUME NEW b \in DOMAIN calls
      PROVE  /\ calls'[b].state = calls[b].state /\ calls'[b].slot = calls[b].slot
             /\ \A e \in Devices :
                  /\ b = c /\ e = d => calls'[b].ranks[e] = "ok" /\ calls'[b].outs[e] = k
                  /\ ~(b = c /\ e = d) => /\ calls'[b].ranks[e] = calls[b].ranks[e]
                                          /\ calls'[b].outs[e] = calls[b].outs[e]
  <2>1. CASE b = c
    BY <1>3, <1>4, <1>5, <2>1
  <2>2. CASE b # c
    BY <1>4, <2>2
  <2> QED BY <2>1, <2>2
<1> QED BY <1>4, <1>6

\* The tensor is new, and nobody has bound it.
LEMMA ReturnUnbound ==
  ASSUME NEW home, Types, CallsKept(home), NEW c \in DOMAIN calls, NEW d \in Devices, NEW k \in Key,
         Returned(c, d, k),
         calls[c].ranks[d] = "waiting", k[1] = d, ~MadeKey(puts, k), MadeKey(puts', k),
         \A l \in Key : MadeKey(puts, l) => MadeKey(puts', l),
         NEW home2, home2[k] = <<d, calls[c].slot>>,
         \A l \in Key : l # k => home2[l] = home[l], poisoned => poisoned'
  PROVE  CallsKept(home2)' /\ Unbound(calls') = Unbound(calls) \cup {k}
<1>1. /\ calls' \in Seq(Record) /\ DOMAIN calls' = DOMAIN calls
      /\ \A b \in DOMAIN calls :
           /\ calls'[b].state = calls[b].state /\ calls'[b].slot = calls[b].slot
           /\ \A e \in Devices :
                /\ b = c /\ e = d => calls'[b].ranks[e] = "ok" /\ calls'[b].outs[e] = k
                /\ ~(b = c /\ e = d) => /\ calls'[b].ranks[e] = calls[b].ranks[e]
                                        /\ calls'[b].outs[e] = calls[b].outs[e]
  BY RankReturns
<1>2. calls[c].outs[d] = <<>> /\ calls[c].state # "collected"
  BY DEF CallsKept, AllOk
<1>3. \A b \in DOMAIN calls : \A e \in Devices : calls[b].outs[e] # <<>> =>
        /\ calls[b].outs[e] \in Key /\ calls[b].outs[e] # k
        /\ MadeKey(puts, calls[b].outs[e])
  BY CallsIs DEF CallsKept
<1>4. k # <<>> /\ k[1] = d
  BY NoKey
<1>5. Unbound(calls') = Unbound(calls) \cup {k}
  <2>1. ASSUME NEW l \in Key
        PROVE  l \in Unbound(calls') <=> l \in Unbound(calls) \/ l = k
    <3>1. l # <<>> /\ l[1] \in Devices
      BY NoKey
    <3>2. CASE l = k
      <4>1. calls'[c].state # "collected" /\ calls'[c].outs[l[1]] = l
        <5>1. l[1] = d
          BY <1>4, <3>2
        <5> QED BY <1>1, <1>2, <3>2, <5>1
      <4> QED BY <1>1, <3>2, <4>1 DEF Unbound
    <3>3. CASE l # k
      <4>1. \A b \in DOMAIN calls : calls'[b].outs[l[1]] = l <=> calls[b].outs[l[1]] = l
        <5> SUFFICES ASSUME NEW b \in DOMAIN calls
                     PROVE  calls'[b].outs[l[1]] = l <=> calls[b].outs[l[1]] = l
          OBVIOUS
        <5>1. CASE b = c /\ l[1] = d
          BY <1>1, <1>2, <3>1, <3>3, <5>1
        <5>2. CASE ~(b = c /\ l[1] = d)
          BY <1>1, <3>1, <5>2
        <5> QED BY <5>1, <5>2
      <4> QED BY <1>1, <3>3, <4>1 DEF Unbound
    <3> QED BY <3>2, <3>3
  <2>2. Unbound(calls') \subseteq Key /\ Unbound(calls) \subseteq Key
    BY DEF Unbound
  <2> QED BY <2>1, <2>2
<1>6. \A b \in DOMAIN calls' : /\ calls'[b].state = "failed" => poisoned'
                               /\ calls'[b].state = "collected" => AllOk(b)'
  <2> SUFFICES ASSUME NEW b \in DOMAIN calls
               PROVE  /\ calls'[b].state = "failed" => poisoned'
                      /\ calls'[b].state = "collected" => AllOk(b)'
    BY <1>1
  <2>1. calls'[b].state = "failed" => poisoned'
    BY <1>1 DEF CallsKept
  <2>2. ASSUME calls'[b].state = "collected" PROVE AllOk(b)'
    <3>1. AllOk(b)
      BY <1>1, <2>2 DEF CallsKept
    <3> QED BY <1>1, <3>1 DEF AllOk
  <2> QED BY <2>1, <2>2
<1>7. ASSUME NEW b \in DOMAIN calls', NEW e \in Devices
      PROVE  LET l == calls'[b].outs[e]
             IN  /\ l # <<>> <=> calls'[b].ranks[e] = "ok"
                 /\ l # <<>> =>
                      /\ l[1] = e /\ MadeKey(puts', l) /\ home2[l] = <<e, calls'[b].slot>>
                      /\ \A a \in DOMAIN calls' : calls'[a].outs[e] = l => a = b
  <2>1. CASE b = c /\ e = d
    <3>1. calls'[b].outs[e] = k /\ calls'[b].ranks[e] = "ok" /\ calls'[b].slot = calls[c].slot
      BY <1>1, <2>1
    <3>2. ASSUME NEW a \in DOMAIN calls', calls'[a].outs[e] = k PROVE a = b
      BY <1>1, <1>3, <1>4, <2>1, <3>2
    <3> QED BY <1>4, <2>1, <3>1, <3>2
  <2>2. CASE ~(b = c /\ e = d)
    <3>1. calls'[b].outs[e] = calls[b].outs[e] /\ calls'[b].ranks[e] = calls[b].ranks[e]
      BY <1>1, <2>2
    <3>2. calls[b].outs[e] # <<>> <=> calls[b].ranks[e] = "ok"
      BY <1>1 DEF CallsKept
    <3> SUFFICES ASSUME NEW l, l = calls[b].outs[e], l # <<>>
                 PROVE  /\ l[1] = e /\ MadeKey(puts', l) /\ home2[l] = <<e, calls'[b].slot>>
                        /\ \A a \in DOMAIN calls' : calls'[a].outs[e] = l => a = b
      BY <3>1, <3>2
    <3>3. /\ l[1] = e /\ MadeKey(puts, l) /\ home[l] = <<e, calls[b].slot>>
          /\ \A a \in DOMAIN calls : calls[a].outs[e] = l => a = b
      BY <1>1 DEF CallsKept
    <3>4. l \in Key /\ l # k
      BY <1>1, <1>3
    <3>5. ASSUME NEW a \in DOMAIN calls', calls'[a].outs[e] = l PROVE a = b
      <4>1. ~(a = c /\ e = d)
        BY <1>1, <3>4, <3>5
      <4> QED BY <1>1, <3>3, <3>5, <4>1
    <3> QED BY <1>1, <3>3, <3>4, <3>5
  <2> QED BY <2>1, <2>2
<1>8. CallsKept(home2)'
  BY <1>6, <1>7, Zenon DEF CallsKept
<1> QED BY <1>5, <1>8

LEMMA ReturnStep ==
  ASSUME NEW home, Inv(home), NEW w \in Worker, Return(w)
  PROVE  \E h2 \in [Key -> Worker] : Inv(h2)'
<1>0. PICK c, d, k : c = running[w] /\ d = w[1] /\ k = NewKey(w[1])
  OBVIOUS
<1> DEFINE h2 == [home EXCEPT ![k] = w]
<1>1. /\ running[w] # 0 /\ running' = [running EXCEPT ![w] = 0]
      /\ running \in [Worker -> Nat] /\ running' \in [Worker -> Nat]
      /\ UNCHANGED <<poisoned, frame, handles, mailbox, copies, missed>>
  BY DEF Return, Inv, Types
<1>2. /\ c \in DOMAIN calls /\ calls[c].slot = w[2] /\ calls[c].ranks[d] = "waiting"
      /\ d \in Devices /\ w = <<d, calls[c].slot>>
  BY <1>0, <1>1, WorkerIs DEF Inv, PartsKept, Owes
<1>3. LeasesKept' /\ FrameKept' /\ EndsKept' /\ TensorsThere'
  <2>1. LeasesKept'
    BY <1>1 DEF Inv, LeasesKept
  <2>2. FrameKept'
    BY <1>1 DEF Inv, FrameKept
  <2>3. EndsKept'
    BY <1>1 DEF Inv, EndsKept, EndsApart, EndsPosted
  <2>4. TensorsThere'
    BY <1>1 DEF Inv, TensorsThere
  <2> QED BY <2>1, <2>2, <2>3, <2>4
<1>4. home \in [Key -> Worker] /\ failures \in Nat /\ puts \in [Devices -> Nat]
  BY DEF Inv, Types
<1>5. CASE /\ Stored(d) /\ UNCHANGED failures
           /\ Returned(c, d, k)
  <2>1. PutIn(d, k, puts, puts', count, count')
    BY <1>0, <1>5 DEF NewKey, Stored, PutIn
  <2>2. /\ h2 \in [Key -> Worker] /\ h2[k] = w /\ \A l \in Key : l # k => h2[l] = home[l]
        /\ k \in Key /\ ~MadeKey(puts, k) /\ MadeKey(puts', k)
        /\ \A l \in Key : MadeKey(puts, l) => MadeKey(puts', l)
        /\ Ledger(h2, handles, mailbox, count', puts', copies, Unbound(calls) \cup {k})
    <3>1. PICK home2 : home2 = [home EXCEPT ![k] = w]
      OBVIOUS
    <3>2. /\ Placed(home, home2, puts, puts', k, w)
          /\ Ledger(home2, handles, mailbox, count', puts', copies, Unbound(calls) \cup {k})
      <4>1. /\ home \in [Key -> Worker] /\ handles \in SUBSET Handles /\ puts \in [Devices -> Nat]
            /\ Unbound(calls) \in SUBSET Key
            /\ Ledger(home, handles, mailbox, count, puts, copies, Unbound(calls))
        BY <1>4, InvHandles
      <4>2. HomeOf(home, home2, k, w) /\ d \in Devices
        BY <1>2, <3>1 DEF HomeOf
      <4> HIDE DEF h2
      <4> QED BY <2>1, <4>1, <4>2, LedgerPut
    <3> QED BY <3>1, <3>2 DEF Placed
  <2>4. k[1] = d
    BY <2>1 DEF PutIn
  <2>5. CallsKept(h2)' /\ Unbound(calls') = Unbound(calls) \cup {k}
    <3> HIDE DEF h2
    <3>1. h2[k] = <<d, calls[c].slot>>
      BY <1>2, <2>2
    <3> QED BY <1>1, <1>2, <1>5, <2>2, <2>4, <3>1, ReturnUnbound DEF Inv
  <2>6. /\ calls' \in Seq(Record) /\ DOMAIN calls' = DOMAIN calls
        /\ \A b \in DOMAIN calls :
             /\ calls'[b].slot = calls[b].slot
             /\ \A e \in Devices : ~(b = c /\ e = d) => calls'[b].ranks[e] = calls[b].ranks[e]
    BY <1>2, <1>5, <2>2, RankReturns DEF Inv
  <2>7. PartsKept'
    BY <1>0, <1>1, <2>6, PartAnswered DEF Inv
  <2>8. Types'
    <3>1. puts' \in [Devices -> Nat]
      BY <1>2, <1>4, <2>1 DEF PutIn
    <3> QED BY <1>1, <1>5, <2>6, <3>1 DEF Inv, Types
  <2>9. Ledger(h2, handles', mailbox', count', puts', copies', Unbound(calls'))
    BY <1>1, <2>2, <2>5
  <2>10. Inv(h2)'
    BY <1>3, <2>2, <2>5, <2>7, <2>8, <2>9 DEF Inv
  <2> QED BY <2>2, <2>10
<1>6. CASE /\ failures' = failures + 1 /\ Rank(c, d, "failed") /\ UNCHANGED <<count, puts>>
  <2>1. /\ calls' \in Seq(Record) /\ DOMAIN calls' = DOMAIN calls
        /\ \A b \in DOMAIN calls :
             /\ calls'[b].slot = calls[b].slot
             /\ \A e \in Devices : ~(b = c /\ e = d) => calls'[b].ranks[e] = calls[b].ranks[e]
    <3>1. "failed" \in Outcome
      BY DEF Outcome
    <3> QED BY <1>2, <1>6, <3>1, RankNoted DEF Inv
  <2>2. PartsKept'
    BY <1>0, <1>1, <2>1, PartAnswered DEF Inv
  <2>3. CallsKept(home)' /\ Unbound(calls') = Unbound(calls)
    BY <1>1, <1>2, <1>6, RankFails DEF Inv
  <2>4. Types'
    <3>1. failures' \in Nat
      BY <1>4, <1>6
    <3> QED BY <1>1, <1>6, <2>1, <3>1 DEF Inv, Types
  <2>5. Ledger(home, handles', mailbox', count', puts', copies', Unbound(calls'))
    BY <1>1, <1>6, <2>3, InvHandles
  <2>6. Inv(home)'
    BY <1>3, <1>4, <2>2, <2>3, <2>4, <2>5 DEF Inv
  <2> QED BY <1>4, <2>6
<1> QED BY <1>0, <1>5, <1>6 DEF Return, storeVars, Returned

LEMMA KeepsParts ==
  ASSUME NEW mb, NEW mb2, Keeps(Tasks \cup Ends, mb, mb2)
  PROVE  Keeps(Tasks, mb, mb2) /\ Keeps(Ends, mb, mb2)
BY DEF Keeps

\* What has an owner is not collected.
Owned(hs, o) == \A h \in handles : o \in h.owners => \E g \in hs : Same(g, h) /\ o \in g.owners

LEMMA OwnedHolds ==
  ASSUME NEW hs, NEW o, Owned(hs, o), handles' = Living(hs)
  PROVE  Holds(o)
<1>1. \A g \in hs : o \in g.owners => g \in handles'
  BY DEF Living
<1> QED BY <1>1 DEF Owned, Holds

LEMMA DropRelabels ==
  ASSUME NEW hs \in SUBSET Handles, IsFiniteSet(hs), Unique(hs), NEW h \in hs
  PROVE  LET hs2 == (hs \ {h}) \cup {[h EXCEPT !.owners = @ \ {Program}]}
         IN  /\ hs2 \in SUBSET Handles /\ IsFiniteSet(hs2) /\ Alike(hs, hs2) /\ Unique(hs2)
             /\ \A g \in hs : \E b \in hs2 : Same(b, g) /\ g.owners \ {Program} \subseteq b.owners
<1> DEFINE h2 == [h EXCEPT !.owners = @ \ {Program}]
           f == [g \in hs |-> IF g = h THEN h2 ELSE g]
           hs2 == {f[g] : g \in hs}
<1>1. /\ h2 \in Handles /\ Same(h2, h) /\ h2.worker = h.worker /\ h2.owners = h.owners \ {Program}
  <2>1. h \in Handles /\ h.owners \ {Program} \in SUBSET Int
    BY HandleFields
  <2>2. h2 = [h EXCEPT !.owners = h.owners \ {Program}]
    OBVIOUS
  <2> HIDE DEF h2
  <2> QED BY <2>1, <2>2, HandleFields
<1> HIDE DEF h2
<1>2. ASSUME NEW g \in hs
      PROVE  /\ f[g] \in Handles /\ Same(f[g], g) /\ f[g].worker = g.worker
             /\ g.owners \ {Program} \subseteq f[g].owners
  <2>1. CASE g = h
    BY <1>1, <2>1
  <2>2. CASE g # h
    BY <2>2 DEF Same
  <2> QED BY <2>1, <2>2
<1>3. f \in [hs -> Handles]
  BY <1>2
<1>4. hs2 = (hs \ {h}) \cup {h2}
  <2>1. \A x : x \in hs2 => x \in (hs \ {h}) \cup {h2}
    OBVIOUS
  <2>2. \A x : x \in hs \ {h} => f[x] = x /\ x \in hs
    OBVIOUS
  <2>3. f[h] = h2
    OBVIOUS
  <2>4. \A x : x \in (hs \ {h}) \cup {h2} => x \in hs2
    BY <2>2, <2>3
  <2> QED BY <2>1, <2>4
<1> HIDE DEF f
<1>5. hs2 \in SUBSET Handles /\ IsFiniteSet(hs2) /\ Alike(hs, hs2) /\ Unique(hs2)
  BY <1>2, <1>3, Relabel
<1>6. \A g \in hs : \E b \in hs2 : Same(b, g) /\ g.owners \ {Program} \subseteq b.owners
  BY <1>2
<1> QED BY <1>4, <1>5, <1>6 DEF h2



LEMMA DropStep ==
  ASSUME NEW home, Inv(home), NEW h \in Held, Drop(h)
  PROVE  Inv(home)'
<1> DEFINE hs == (handles \ {h}) \cup {[h EXCEPT !.owners = @ \ {Program}]}
<1>1. /\ Collect(hs, mailbox)
      /\ UNCHANGED <<poisoned, frame, calls, running, count, puts, copies, failures, missed>>
  BY DEF Drop, storeVars
<1>2. /\ hs \in SUBSET Handles /\ IsFiniteSet(hs) /\ Alike(handles, hs) /\ Unique(hs)
      /\ \A g \in handles : \E b \in hs : Same(b, g) /\ g.owners \ {Program} \subseteq b.owners
  <2>1. h \in handles
    BY DEF Held
  <2> QED BY <2>1, InvHandles, DropRelabels
<1> HIDE DEF hs
<1>3. Ledger(home, hs, mailbox, count, puts, copies, Unbound(calls))
  BY <1>2, InvHandles, LedgerRelabel
<1>4. /\ handles' = Living(hs) /\ handles' \in SUBSET Handles /\ IsFiniteSet(handles')
      /\ mailbox' \in [Worker -> Seq(Message)]
      /\ Keeps(Tasks \cup Ends, mailbox, mailbox')
      /\ Ledger(home, handles', mailbox', count, puts, copies, Unbound(calls))
  BY <1>1, <1>2, <1>3, InvHandles, Collected
<1>5. \A o : o # Program => Holds(o)
  <2>1. \A o : o # Program => Owned(hs, o)
    BY <1>2 DEF Owned
  <2> QED BY <1>4, <2>1, OwnedHolds
<1>6. Keeps(Tasks, mailbox, mailbox') /\ Keeps(Ends, mailbox, mailbox')
  BY <1>4, KeepsParts
<1>7. Types'
  BY <1>1, <1>4 DEF Inv, Types
<1>8. PartsKept'
  BY <1>1, <1>6, SameParts DEF Inv
<1>9. CallsKept(home)'
  BY <1>1, SamePuts DEF Inv
<1>10. LeasesKept'
  BY <1>1, <1>5, <1>6, SameLeases DEF Inv, Program
<1>11. FrameKept'
  BY <1>1, <1>5, SameFrame DEF Inv, Program, Launching
<1>12. EndsKept'
  BY <1>1, <1>6, SameEnds DEF Inv
<1>13. TensorsThere'
  BY <1>1 DEF Inv, TensorsThere
<1>14. Ledger(home, handles', mailbox', count', puts', copies', Unbound(calls'))
  BY <1>1, <1>4
<1>15. home \in [Key -> Worker]
  BY InvHandles
<1> QED BY <1>7, <1>8, <1>9, <1>10, <1>11, <1>12, <1>13, <1>14, <1>15 DEF Inv

LEMMA PostedKeeps ==
  ASSUME NEW mb, NEW mb2, NEW w, NEW m, NEW S, m \notin S, Posted(mb, mb2, w, m)
  PROVE  Keeps(S, mb, mb2)
<1>1. \A x \in S : x # m
  OBVIOUS
<1> QED BY <1>1 DEF Posted, Keeps

LEMMA CopyStep ==
  ASSUME NEW home, Inv(home), NEW h \in Held, Copy(h)
  PROVE  Inv(home)'
<1> DEFINE h2 == [h EXCEPT !.copy = copies + 1, !.owners = {Program}]
           m == Inc(h.key, copies + 1)
<1>1. /\ copies' = copies + 1 /\ copies \in 0 .. MaxCopies /\ copies' \in 0 .. MaxCopies
      /\ mailbox' = Post(mailbox, h.worker, <<m>>) /\ handles' = handles \cup {h2}
      /\ UNCHANGED <<poisoned, frame, calls, running, count, puts, failures, missed>>
  BY CallsAssumption DEF Copy, CopyCounted, storeVars, Inc, Inv, Types
<1>2. h \in handles /\ h \in Handles
  BY InvHandles DEF Held
<1>3. h2 \in Handles /\ h2.key = h.key /\ h2.worker = h.worker /\ h2.copy = copies + 1
  <2>1. copies + 1 \in Nat /\ {Program} \in SUBSET Int
    BY <1>1 DEF Program
  <2>2. \A n \in Nat : \A os \in SUBSET Int :
          LET g == [h EXCEPT !.copy = n, !.owners = os]
          IN  g \in Handles /\ g.key = h.key /\ g.worker = h.worker /\ g.copy = n
    BY <1>2 DEF Handles
  <2> QED BY <2>1, <2>2
<1>4. m \in Message /\ m \notin Tasks \cup Ends
  <2>1. h.key \in Key /\ copies + 1 \in Nat
    BY <1>1, <1>2, HandleFields
  <2>2. m \in Message
    BY <2>1, Messages DEF Message
  <2> QED BY <2>2, OtherMessages
<1> HIDE DEF h2, m
<1>5. mailbox' \in [Worker -> Seq(Message)] /\ Posted(mailbox, mailbox', h.worker, m)
  <2>1. h.worker \in Worker
    BY <1>2, HandleFields
  <2> QED BY <1>1, <1>4, <2>1, InvHandles, PostAdds
<1>6. Ledger(home, handles', mailbox', count', puts', copies', Unbound(calls'))
  <2>1. Posted(mailbox, mailbox', h.worker, Inc(h.key, copies + 1)) /\ copies \in Nat
    BY <1>1, <1>5 DEF m
  <2>2. Ledger(home, handles \cup {h2}, mailbox', count, puts, copies + 1, Unbound(calls))
    BY <1>2, <1>3, <2>1, InvHandles, LedgerCopy
  <2> QED BY <1>1, <2>2
<1>7. Keeps(Tasks, mailbox, mailbox') /\ Keeps(Ends, mailbox, mailbox')
  <2>1. Keeps(Tasks \cup Ends, mailbox, mailbox')
    BY <1>4, <1>5, PostedKeeps
  <2> QED BY <2>1, KeepsParts
<1>8. \A o : Holds(o)
  BY <1>1 DEF Holds, Same
<1>9. Types'
  <2>1. handles' \in SUBSET Handles /\ IsFiniteSet(handles')
    BY <1>1, <1>3, InvHandles, FS_AddElement
  <2> QED BY <1>1, <1>5, <2>1 DEF Inv, Types
<1>10. PartsKept'
  BY <1>1, <1>7, SameParts DEF Inv
<1>11. CallsKept(home)'
  BY <1>1, SamePuts DEF Inv
<1>12. LeasesKept'
  BY <1>1, <1>7, <1>8, SameLeases DEF Inv
<1>13. FrameKept'
  BY <1>1, <1>8, SameFrame DEF Inv
<1>14. EndsKept'
  BY <1>1, <1>7, SameEnds DEF Inv
<1>15. TensorsThere'
  BY <1>1 DEF Inv, TensorsThere
<1>16. home \in [Key -> Worker]
  BY InvHandles
<1> QED BY <1>6, <1>9, <1>10, <1>11, <1>12, <1>13, <1>14, <1>15, <1>16 DEF Inv

LEMMA OneMore ==
  ASSUME NEW s \in Seq(Message), NEW m \in Message
  PROVE  /\ s \o <<m>> \in Seq(Message)
         /\ \A x : In(s \o <<m>>, x) <=> In(s, x) \/ x = m
         /\ \A x, y : Lt(s \o <<m>>, x, y) <=> Lt(s, x, y) \/ (In(s, x) /\ y = m)
<1> DEFINE one == <<m>>
<1>1. /\ one \in Seq(Message)
      /\ \A x, y : (In(one, x) <=> x = m) /\ ~Lt(one, x, y)
  <2>1. one \in Seq(Message)
    OBVIOUS
  <2>2. \A x, y : (In(one, x) <=> x = m) /\ ~Lt(one, x, y)
    BY InOne
  <2> QED BY <2>1, <2>2
<1> HIDE DEF one
<1>2. /\ s \o one \in Seq(Message)
      /\ \A x : In(s \o one, x) <=> In(s, x) \/ In(one, x)
      /\ \A x, y : Lt(s \o one, x, y) <=>
                     Lt(s, x, y) \/ Lt(one, x, y) \/ (In(s, x) /\ In(one, y))
  BY <1>1, InThen
<1>3. \A x : In(s \o one, x) <=> In(s, x) \/ x = m
  BY <1>1, <1>2
<1>4. \A x, y : Lt(s \o one, x, y) <=> Lt(s, x, y) \/ (In(s, x) /\ y = m)
  BY <1>1, <1>2
<1> QED BY <1>2, <1>3, <1>4 DEF one

\* Every worker of a slot is sent its part of a call.
Sent(mb, mb2, slot, c, arg) ==
  \A w \in Worker : \A x, y :
    /\ In(mb2[w], x) <=> In(mb[w], x) \/ (w[2] = slot /\ x = Task(c, arg[w[1]]))
    /\ Lt(mb2[w], x, y) <=>
         Lt(mb[w], x, y) \/ (w[2] = slot /\ In(mb[w], x) /\ y = Task(c, arg[w[1]]))

SentTo(mb, mb2, slot, c, arg) ==
  mb2 = [w \in Worker |-> IF w[2] = slot THEN mb[w] \o <<Task(c, arg[w[1]])>> ELSE mb[w]]

LEMMA SentParts ==
  ASSUME NEW boxes \in [Worker -> Seq(Message)], NEW slot, NEW c \in Nat \ {0},
         NEW arg \in [Devices -> Key \cup {<<>>}], NEW sent,
         SentTo(boxes, sent, slot, c, arg)
  PROVE  /\ sent \in [Worker -> Seq(Message)] /\ Sent(boxes, sent, slot, c, arg)
         /\ Agree(boxes, sent) /\ Keeps(Ends, boxes, sent)
<1> USE DEF SentTo
<1>1. ASSUME NEW w \in Worker
      PROVE  /\ Task(c, arg[w[1]]) \in Tasks /\ Task(c, arg[w[1]]) \in Message
             /\ Task(c, arg[w[1]]) \notin Counts /\ Task(c, arg[w[1]]) \notin Ends
  <2>1. arg[w[1]] \in Key \cup {<<>>}
    BY WorkerIs
  <2>2. \A g : Task(c, arg[w[1]]) # Receive(g) /\ Task(c, arg[w[1]]) # Send(g)
    BY EndMessages
  <2>3. Task(c, arg[w[1]]) \notin Ends
    BY <2>2 DEF Ends
  <2> QED BY <2>1, <2>3, OtherMessages
<1>2. ASSUME NEW w \in Worker
      PROVE  /\ sent[w] \in Seq(Message)
             /\ \A x, y :
                  /\ In(sent[w], x) <=> In(boxes[w], x) \/ (w[2] = slot /\ x = Task(c, arg[w[1]]))
                  /\ Lt(sent[w], x, y) <=>
                       \/ Lt(boxes[w], x, y)
                       \/ w[2] = slot /\ In(boxes[w], x) /\ y = Task(c, arg[w[1]])
  <2> DEFINE m == Task(c, arg[w[1]])
             s == boxes[w]
  <2>1. s \in Seq(Message) /\ m \in Message
    BY <1>1
  <2>2. CASE w[2] = slot
    <3>1. sent[w] = s \o <<m>>
      BY <2>2
    <3> HIDE DEF s, m
    <3>2. /\ sent[w] \in Seq(Message)
          /\ \A x : In(sent[w], x) <=> In(s, x) \/ x = m
          /\ \A x, y : Lt(sent[w], x, y) <=> Lt(s, x, y) \/ (In(s, x) /\ y = m)
      <4>1. /\ s \o <<m>> \in Seq(Message)
            /\ \A x : In(s \o <<m>>, x) <=> In(s, x) \/ x = m
            /\ \A x, y : Lt(s \o <<m>>, x, y) <=> Lt(s, x, y) \/ (In(s, x) /\ y = m)
        BY <2>1, OneMore
      <4> QED BY <3>1, <4>1
    <3> QED BY <2>2, <3>2 DEF s, m
  <2>3. CASE w[2] # slot
    <3>1. sent[w] = s
      BY <2>3
    <3> QED BY <2>1, <2>3, <3>1
  <2> QED BY <2>2, <2>3
<1>3. sent \in [Worker -> Seq(Message)]
  <2>1. sent \in [Worker -> Seq(Message)] <=> \A w \in Worker : sent[w] \in Seq(Message)
    OBVIOUS
  <2> QED BY <1>2, <2>1
<1>4. Sent(boxes, sent, slot, c, arg)
  BY <1>2 DEF Sent
<1>5. \A w \in Worker : \A x, y : y # Task(c, arg[w[1]]) /\ x # Task(c, arg[w[1]]) =>
        /\ In(boxes[w], x) <=> In(sent[w], x)
        /\ Lt(boxes[w], x, y) <=> Lt(sent[w], x, y)
  BY <1>4 DEF Sent
<1>6. Agree(boxes, sent)
  <2>1. \A w \in Worker : \A x \in Counts : x # Task(c, arg[w[1]])
    BY <1>1
  <2> QED BY <1>5, <2>1 DEF Agree
<1>7. Keeps(Ends, boxes, sent)
  <2>1. \A w \in Worker : \A x \in Ends : x # Task(c, arg[w[1]])
    BY <1>1
  <2> QED BY <1>5, <2>1 DEF Keeps
<1> QED BY <1>3, <1>4, <1>6, <1>7

\* The handles of a launch's shards become the leases of its call.
LEMMA Leased ==
  ASSUME NEW home, Inv(home), NEW shards, NEW c \in Nat \ {0}, NEW hs,
         hs = Disown(Lease(handles, shards, c), Launching)
  PROVE  /\ hs \in SUBSET Handles /\ IsFiniteSet(hs)
         /\ Ledger(home, hs, mailbox, count, puts, copies, Unbound(calls))
         /\ \A o : o # Launching => Owned(hs, o)
         /\ \A h \in handles : \A d \in Devices :
              shards[d] # None /\ Same(h, shards[d]) => \E g \in hs : Same(g, h) /\ c \in g.owners
<1> DEFINE mid == Lease(handles, shards, c)
<1>1. /\ mid \in SUBSET Handles /\ IsFiniteSet(mid) /\ Alike(handles, mid) /\ Unique(mid)
      /\ \A h \in handles : \E g \in mid :
           /\ Same(g, h) /\ h.owners \subseteq g.owners
           /\ (\E d \in Devices : shards[d] # None /\ Same(h, shards[d])) => c \in g.owners
  BY InvHandles, LeaseRelabels
<1> HIDE DEF mid
<1>2. /\ hs \in SUBSET Handles /\ IsFiniteSet(hs) /\ Alike(mid, hs) /\ Unique(hs)
      /\ \A h \in mid : \E g \in hs : Same(g, h) /\ g.owners = h.owners \ {Launching}
  <2>1. hs = Disown(mid, Launching)
    BY DEF mid
  <2> QED BY <1>1, <2>1, DisownRelabels
<1>3. Ledger(home, hs, mailbox, count, puts, copies, Unbound(calls))
  <2>1. Ledger(home, mid, mailbox, count, puts, copies, Unbound(calls))
    BY <1>1, InvHandles, LedgerRelabel
  <2> QED BY <1>2, <2>1, InvHandles, LedgerRelabel
<1>4. ASSUME NEW o, o # Launching, NEW h \in handles, o \in h.owners
      PROVE  \E g \in hs : Same(g, h) /\ o \in g.owners
  <2>1. PICK b \in mid : Same(b, h) /\ h.owners \subseteq b.owners
    BY <1>1
  <2>2. PICK g \in hs : Same(g, b) /\ g.owners = b.owners \ {Launching}
    BY <1>2
  <2>3. Same(g, h) /\ o \in g.owners
    BY <1>4, <2>1, <2>2 DEF Same
  <2> QED BY <2>3
<1>5. ASSUME NEW h \in handles, NEW d \in Devices, shards[d] # None, Same(h, shards[d])
      PROVE  \E g \in hs : Same(g, h) /\ c \in g.owners
  <2>1. PICK b \in mid : Same(b, h) /\ c \in b.owners
    BY <1>1, <1>5
  <2>2. PICK g \in hs : Same(g, b) /\ g.owners = b.owners \ {Launching}
    BY <1>2
  <2>3. Same(g, h) /\ c \in g.owners
    BY <2>1, <2>2 DEF Same, Launching
  <2> QED BY <2>3
<1> QED BY <1>2, <1>3, <1>4, <1>5 DEF Owned

\* A call launched has no answers yet.
LEMMA CallAppended ==
  ASSUME NEW home, Types, CallsKept(home), NEW slot \in Slot,
         calls' = Append(calls, [slot |-> slot, state |-> "pending",
                                 ranks |-> [d \in Devices |-> "waiting"],
                                 outs |-> [d \in Devices |-> <<>>]]),
         UNCHANGED <<poisoned, puts>>
  PROVE  /\ calls' \in Seq(Record) /\ DOMAIN calls' = DOMAIN calls \cup {Len(calls) + 1}
         /\ \A b \in DOMAIN calls : calls'[b] = calls[b]
         /\ calls'[Len(calls) + 1].slot = slot
         /\ \A d \in Devices : calls'[Len(calls) + 1].ranks[d] = "waiting"
         /\ Len(calls) + 1 \in Nat \ {0} /\ Len(calls) + 1 \notin DOMAIN calls
         /\ CallsKept(home)' /\ Unbound(calls') = Unbound(calls)
<1> DEFINE r == [slot |-> slot, state |-> "pending",
                 ranks |-> [d \in Devices |-> "waiting"], outs |-> [d \in Devices |-> <<>>]]
           c == Len(calls) + 1
<1>1. /\ r \in Record /\ r.slot = slot /\ r.state = "pending"
      /\ \A d \in Devices : r.ranks[d] = "waiting" /\ r.outs[d] = <<>>
  BY DEF Record, Outcome
<1>2. calls \in Seq(Record) /\ calls' = Append(calls, r)
  BY DEF Types
<1> HIDE DEF r
<1>3. /\ calls' \in Seq(Record) /\ DOMAIN calls' = DOMAIN calls \cup {c} /\ calls'[c] = r
      /\ \A b \in DOMAIN calls : calls'[b] = calls[b]
      /\ c \in Nat \ {0} /\ c \notin DOMAIN calls
  BY <1>1, <1>2
<1> HIDE DEF c
<1>4. Unbound(calls') = Unbound(calls)
  <2>1. \A k \in Key : calls'[c].outs[k[1]] # k
    BY <1>1, <1>3, NoKey
  <2> QED BY <1>3, <2>1 DEF Unbound
<1>5. CallsKept(home)'
  <2>1. \A b \in DOMAIN calls' : /\ calls'[b].state = "failed" => poisoned'
                                 /\ calls'[b].state = "collected" => AllOk(b)'
    BY <1>1, <1>3 DEF CallsKept, AllOk
  <2>2. ASSUME NEW b \in DOMAIN calls', NEW e \in Devices
        PROVE  LET l == calls'[b].outs[e]
               IN  /\ l # <<>> <=> calls'[b].ranks[e] = "ok"
                   /\ l # <<>> =>
                        /\ l[1] = e /\ MadeKey(puts', l) /\ home[l] = <<e, calls'[b].slot>>
                        /\ \A a \in DOMAIN calls' : calls'[a].outs[e] = l => a = b
    <3>1. CASE b = c
      BY <1>1, <1>3, <3>1
    <3>2. CASE b # c
      <4>1. b \in DOMAIN calls /\ calls'[b] = calls[b]
        BY <1>3, <3>2
      <4>2. calls[b].outs[e] # <<>> <=> calls[b].ranks[e] = "ok"
        BY <4>1 DEF CallsKept
      <4> SUFFICES ASSUME NEW l, l = calls[b].outs[e], l # <<>>
                   PROVE  /\ l[1] = e /\ MadeKey(puts', l) /\ home[l] = <<e, calls'[b].slot>>
                          /\ \A a \in DOMAIN calls' : calls'[a].outs[e] = l => a = b
        BY <4>1, <4>2
      <4>3. /\ l[1] = e /\ MadeKey(puts, l) /\ home[l] = <<e, calls[b].slot>>
            /\ \A a \in DOMAIN calls : calls[a].outs[e] = l => a = b
        BY <4>1 DEF CallsKept
      <4>4. calls'[c].outs[e] # l
        BY <1>1, <1>3
      <4> QED BY <1>3, <4>1, <4>3, <4>4
    <3> QED BY <3>1, <3>2
  <2> QED BY <2>1, <2>2, Zenon DEF CallsKept
<1> QED BY <1>1, <1>3, <1>4, <1>5 DEF c

\* A call is the last launched.
Launched(cs, cs2, slot, c) ==
  /\ DOMAIN cs2 = DOMAIN cs \cup {c} /\ c \notin DOMAIN cs
  /\ \A b \in DOMAIN cs : cs2[b] = cs[b]
  /\ cs2[c].slot = slot /\ \A d \in Devices : cs2[c].ranks[d] = "waiting"

NewParts(mb, mb2, c, arg) ==
  \A w \in Worker : \A b \in Nat \ {0} : \A a \in Key \cup {<<>>} :
    In(mb2[w], Task(b, a)) => In(mb[w], Task(b, a)) \/ (b = c /\ a = arg[w[1]])

\* The parts of a call launched are the last in their workers' mailboxes.
LEMMA PartsSent ==
  ASSUME PartsKept, NEW slot, NEW c \in Nat \ {0},
         NEW arg \in [Devices -> Key \cup {<<>>}],
         NEW sent, Sent(mailbox, sent, slot, c, arg), Keeps(Tasks, sent, mailbox'),
         UNCHANGED running, Launched(calls, calls', slot, c)
  PROVE  PartsKept' /\ NewParts(mailbox, mailbox', c, arg)
<1> USE DEF Launched
<1>1. \A w \in Worker : \A b \in Nat \ {0} : \A a \in Key \cup {<<>>} :
        /\ In(mailbox'[w], Task(b, a)) <=>
             In(mailbox[w], Task(b, a)) \/ (w[2] = slot /\ b = c /\ a = arg[w[1]])
        /\ Lt(mailbox'[w], Task(b, a), Task(b, a)) <=>
             \/ Lt(mailbox[w], Task(b, a), Task(b, a))
             \/ w[2] = slot /\ In(mailbox[w], Task(b, a)) /\ b = c /\ a = arg[w[1]]
  <2> SUFFICES ASSUME NEW w \in Worker, NEW b \in Nat \ {0}, NEW a \in Key \cup {<<>>}
               PROVE  /\ In(mailbox'[w], Task(b, a)) <=>
                           In(mailbox[w], Task(b, a)) \/ (w[2] = slot /\ b = c /\ a = arg[w[1]])
                      /\ Lt(mailbox'[w], Task(b, a), Task(b, a)) <=>
                           \/ Lt(mailbox[w], Task(b, a), Task(b, a))
                           \/ w[2] = slot /\ In(mailbox[w], Task(b, a)) /\ b = c /\ a = arg[w[1]]
    OBVIOUS
  <2>1. Task(b, a) = Task(c, arg[w[1]]) <=> b = c /\ a = arg[w[1]]
    BY DEF Task
  <2>2. /\ In(sent[w], Task(b, a)) <=> In(mailbox'[w], Task(b, a))
        /\ Lt(sent[w], Task(b, a), Task(b, a)) <=> Lt(mailbox'[w], Task(b, a), Task(b, a))
    BY OtherMessages DEF Keeps
  <2>3. /\ In(sent[w], Task(b, a)) <=>
             In(mailbox[w], Task(b, a)) \/ (w[2] = slot /\ Task(b, a) = Task(c, arg[w[1]]))
        /\ Lt(sent[w], Task(b, a), Task(b, a)) <=>
             \/ Lt(mailbox[w], Task(b, a), Task(b, a))
             \/ w[2] = slot /\ In(mailbox[w], Task(b, a)) /\ Task(b, a) = Task(c, arg[w[1]])
    BY DEF Sent
  <2> QED BY <2>1, <2>2, <2>3
<1>2. \A w \in Worker : \A a \in Key \cup {<<>>} : ~In(mailbox[w], Task(c, a))
  BY DEF PartsKept, Owes
<1>3. ASSUME NEW w \in Worker, NEW b, Owes(calls, b, w) PROVE Owes(calls', b, w)
  BY <1>3 DEF Owes
<1>4. \A w \in Worker : running'[w] # 0 => Owes(calls', running'[w], w)
  <2> SUFFICES ASSUME NEW w \in Worker, running'[w] # 0 PROVE Owes(calls', running'[w], w)
    OBVIOUS
  <2>1. Owes(calls, running[w], w)
    BY DEF PartsKept
  <2>2. Owes(calls', running[w], w)
    BY <1>3, <2>1
  <2> QED BY <2>2
<1>5. ASSUME NEW w \in Worker, NEW b \in Nat \ {0}, NEW a \in Key \cup {<<>>},
             In(mailbox'[w], Task(b, a))
      PROVE  /\ Owes(calls', b, w) /\ running'[w] # b /\ ~Lt(mailbox'[w], Task(b, a), Task(b, a))
             /\ \A x \in Key \cup {<<>>} : In(mailbox'[w], Task(b, x)) => x = a
  <2>1. CASE In(mailbox[w], Task(b, a))
    <3>1. /\ Owes(calls, b, w) /\ running[w] # b /\ ~Lt(mailbox[w], Task(b, a), Task(b, a))
          /\ \A x \in Key \cup {<<>>} : In(mailbox[w], Task(b, x)) => x = a
      BY <2>1 DEF PartsKept
    <3>2. b # c
      BY <3>1 DEF Owes
    <3>3. Owes(calls', b, w)
      BY <1>3, <3>1
    <3> QED BY <1>1, <3>1, <3>2, <3>3
  <2>2. CASE ~In(mailbox[w], Task(b, a))
    <3>1. w[2] = slot /\ b = c /\ a = arg[w[1]]
      BY <1>1, <1>5, <2>2
    <3>2. Owes(calls', b, w)
      BY <3>1, WorkerIs DEF Owes
    <3>3. running'[w] # b
      BY <3>1 DEF PartsKept, Owes
    <3>4. ~Lt(mailbox'[w], Task(b, a), Task(b, a))
      <4>1. \A s, m : Lt(s, m, m) => In(s, m)
        BY DEF Lt, In
      <4> QED BY <1>1, <2>2, <4>1
    <3>5. ASSUME NEW x \in Key \cup {<<>>}, In(mailbox'[w], Task(b, x)) PROVE x = a
      BY <1>1, <1>2, <3>1, <3>5
    <3> QED BY <3>2, <3>3, <3>4, <3>5
  <2> QED BY <2>1, <2>2
<1>6. PartsKept'
  BY <1>4, <1>5 DEF PartsKept
<1>7. NewParts(mailbox, mailbox', c, arg)
  BY <1>1 DEF NewParts
<1> QED BY <1>6, <1>7

LEMMA LaunchStep ==
  ASSUME NEW home, Inv(home), Launch
  PROVE  Inv(home)'
<1>0. PICK c, shards, hs, arg, sent :
        /\ c = Len(calls) + 1 /\ shards = frame.shards
        /\ hs = Disown(Lease(handles, frame.shards, c), Launching)
        /\ arg = [d \in Devices |-> frame.shards[d].key]
        /\ sent = [w \in Worker |-> IF w[2] = frame.slot
                                      THEN mailbox[w] \o <<Task(c, frame.shards[w[1]].key)>>
                                      ELSE mailbox[w]]
  OBVIOUS
<1>1. /\ frame # Idle /\ frame.groups = {} /\ frame' = Idle /\ Collect(hs, sent)
      /\ calls' = Append(calls, [slot |-> frame.slot, state |-> "pending",
                                 ranks |-> [d \in Devices |-> "waiting"],
                                 outs |-> [d \in Devices |-> <<>>]])
      /\ UNCHANGED <<poisoned, running, count, puts, copies, failures, missed>>
  BY <1>0 DEF Launch, storeVars, Task
<1>2. /\ frame \in Frames /\ frame.slot \in Slot /\ ~frame.waiting
      /\ shards \in [Devices -> Handles \cup {None}]
  BY <1>0, <1>1 DEF Inv, FrameKept, Frames
<1>3. /\ calls' \in Seq(Record) /\ DOMAIN calls' = DOMAIN calls \cup {c}
      /\ \A b \in DOMAIN calls : calls'[b] = calls[b]
      /\ calls'[c].slot = frame.slot
      /\ \A d \in Devices : calls'[c].ranks[d] = "waiting"
      /\ c \in Nat \ {0} /\ c \notin DOMAIN calls
      /\ CallsKept(home)' /\ Unbound(calls') = Unbound(calls)
  BY <1>0, <1>1, <1>2, CallAppended DEF Inv
<1>4. \A d \in Devices : /\ shards[d] # None => arg[d] \in Key
                         /\ shards[d] = None => arg[d] = <<>>
                         /\ arg[d] = shards[d].key /\ arg[d] \in Key \cup {<<>>}
  <2> SUFFICES ASSUME NEW d \in Devices
               PROVE  /\ shards[d] # None => arg[d] \in Key
                      /\ shards[d] = None => arg[d] = <<>>
                      /\ arg[d] = shards[d].key
    OBVIOUS
  <2>1. arg[d] = shards[d].key
    BY <1>0
  <2>2. shards[d] # None => shards[d].key \in Key
    BY <1>2, HandleFields
  <2>3. None.key = <<>>
    BY DEF None
  <2> QED BY <2>1, <2>2, <2>3
<1>5. arg \in [Devices -> Key \cup {<<>>}]
  BY <1>0, <1>4
<1>6. /\ sent \in [Worker -> Seq(Message)] /\ Sent(mailbox, sent, frame.slot, c, arg)
      /\ Agree(mailbox, sent) /\ Keeps(Ends, mailbox, sent)
  <2>1. SentTo(mailbox, sent, frame.slot, c, arg)
    BY <1>0, WorkerIs DEF SentTo
  <2> QED BY <1>3, <1>5, <2>1, InvHandles, SentParts
<1>7. /\ hs \in SUBSET Handles /\ IsFiniteSet(hs)
      /\ Ledger(home, hs, mailbox, count, puts, copies, Unbound(calls))
      /\ \A o : o # Launching => Owned(hs, o)
      /\ \A h \in handles : \A d \in Devices :
           shards[d] # None /\ Same(h, shards[d]) => \E g \in hs : Same(g, h) /\ c \in g.owners
  <2>1. hs = Disown(Lease(handles, shards, c), Launching)
    BY <1>0
  <2> QED BY <1>3, <2>1, Leased
<1>8. Ledger(home, hs, sent, count, puts, copies, Unbound(calls))
  <2>1. Unique(hs)
    BY <1>7, LedgerUnique
  <2>2. Alike(hs, hs)
    BY <2>1 DEF Alike, Unique, Same
  <2> QED BY <1>6, <1>7, <2>2, InvHandles, LedgerAgrees
<1>9. /\ handles' = Living(hs) /\ handles' \in SUBSET Handles /\ IsFiniteSet(handles')
      /\ mailbox' \in [Worker -> Seq(Message)]
      /\ Keeps(Tasks \cup Ends, sent, mailbox')
      /\ Ledger(home, handles', mailbox', count, puts, copies, Unbound(calls))
  BY <1>1, <1>6, <1>7, <1>8, InvHandles, Collected
<1>10. Keeps(Tasks, sent, mailbox') /\ Keeps(Ends, sent, mailbox')
  BY <1>9, KeepsParts
<1>11. PartsKept' /\ NewParts(mailbox, mailbox', c, arg)
  <2>1. Launched(calls, calls', frame.slot, c)
    BY <1>3 DEF Launched
  <2> QED BY <1>1, <1>3, <1>5, <1>6, <1>10, <2>1, PartsSent DEF Inv
<1>12. LeasesKept'
  <2> SUFFICES ASSUME ~poisoned, NEW w \in Worker, NEW b \in Nat \ {0}, NEW k \in Key,
                      In(mailbox'[w], Task(b, k))
               PROVE  \E h \in handles' : h.key = k /\ b \in h.owners
    BY <1>1 DEF LeasesKept
  <2>1. CASE In(mailbox[w], Task(b, k))
    <3>1. PICK h \in handles : h.key = k /\ b \in h.owners
      BY <2>1 DEF Inv, LeasesKept
    <3>2. b # Launching
      BY DEF Launching
    <3>3. Holds(b)
      BY <1>7, <1>9, <3>2, OwnedHolds
    <3> QED BY <3>1, <3>3 DEF Holds, Same
  <2>2. CASE b = c /\ k = arg[w[1]]
    <3>1. shards[w[1]] # None /\ shards[w[1]].key = k
      BY <1>4, <2>2, NoKey, WorkerIs
    <3>2. PICK h \in handles : Same(h, shards[w[1]])
      BY <1>0, <1>1, <3>1, WorkerIs DEF Inv, FrameKept
    <3>3. PICK g \in hs : Same(g, h) /\ c \in g.owners
      BY <1>7, <3>1, <3>2, WorkerIs
    <3>4. g \in handles' /\ g.key = k
      BY <1>9, <3>1, <3>2, <3>3 DEF Living, Same
    <3> QED BY <2>2, <3>3, <3>4
  <2> QED BY <1>11, <2>1, <2>2 DEF NewParts
<1>13. FrameKept'
  BY <1>1 DEF FrameKept, Idle
<1>14. EndsKept'
  <2>1. \A x \in Ends : \A w \in Worker : ~In(mailbox[w], x)
    BY <1>2, NoEnds
  <2>2. \A x \in Ends : \A w \in Worker : ~In(mailbox'[w], x)
    BY <1>6, <1>10, <2>1 DEF Keeps
  <2>3. ~frame'.waiting
    BY <1>1 DEF Idle
  <2> QED BY <2>2, <2>3, EndsFree
<1>15. TensorsThere'
  BY <1>1 DEF Inv, TensorsThere
<1>16. Types'
  BY <1>1, <1>3, <1>9 DEF Inv, Types
<1>17. Ledger(home, handles', mailbox', count', puts', copies', Unbound(calls'))
  BY <1>1, <1>3, <1>9
<1>18. home \in [Key -> Worker]
  BY InvHandles
<1> QED BY <1>3, <1>11, <1>12, <1>13, <1>14, <1>15, <1>16, <1>17, <1>18 DEF Inv

\* The state of a call changes, and nothing else of it.
LEMMA StateNoted ==
  ASSUME Types, NEW c \in DOMAIN calls, NEW s \in {"discarding", "collected", "failed"},
         calls' = [calls EXCEPT ![c].state = s]
  PROVE  /\ calls' \in Seq(Record) /\ DOMAIN calls' = DOMAIN calls
         /\ \A b \in DOMAIN calls :
              /\ calls'[b].ranks = calls[b].ranks /\ calls'[b].outs = calls[b].outs
              /\ calls'[b].slot = calls[b].slot
              /\ calls'[b].state = IF b = c THEN s ELSE calls[b].state
<1> DEFINE r == [calls[c] EXCEPT !.state = s]
<1>1. calls' = [calls EXCEPT ![c] = r] /\ calls[c] \in Record
  BY CallsIs
<1>2. /\ r \in Record /\ r.state = s /\ r.slot = calls[c].slot
      /\ r.ranks = calls[c].ranks /\ r.outs = calls[c].outs
  BY <1>1 DEF Record
<1> HIDE DEF r
<1>3. /\ calls' \in Seq(Record) /\ DOMAIN calls' = DOMAIN calls /\ calls'[c] = r
      /\ \A b \in DOMAIN calls : b # c => calls'[b] = calls[b]
  BY <1>1, <1>2, OneCall
<1> QED BY <1>2, <1>3

\* What the ranks returned is the same.
LEMMA CallsSame ==
  ASSUME NEW home, CallsKept(home), UNCHANGED puts, DOMAIN calls' = DOMAIN calls,
         \A b \in DOMAIN calls :
           /\ calls'[b].outs = calls[b].outs /\ calls'[b].slot = calls[b].slot
           /\ \A e \in Devices : calls'[b].ranks[e] = "ok" <=> calls[b].ranks[e] = "ok",
         \A b \in DOMAIN calls : /\ calls'[b].state = "failed" => poisoned'
                                 /\ calls'[b].state = "collected" => AllOk(b)
  PROVE  CallsKept(home)'
<1>1. \A b \in DOMAIN calls' : /\ calls'[b].state = "failed" => poisoned'
                               /\ calls'[b].state = "collected" => AllOk(b)'
  BY DEF AllOk
<1>2. ASSUME NEW b \in DOMAIN calls', NEW e \in Devices
      PROVE  LET l == calls'[b].outs[e]
             IN  /\ l # <<>> <=> calls'[b].ranks[e] = "ok"
                 /\ l # <<>> =>
                      /\ l[1] = e /\ MadeKey(puts', l) /\ home[l] = <<e, calls'[b].slot>>
                      /\ \A a \in DOMAIN calls' : calls'[a].outs[e] = l => a = b
  <2>1. calls[b].outs[e] # <<>> <=> calls[b].ranks[e] = "ok"
    BY DEF CallsKept
  <2> SUFFICES ASSUME NEW l, l = calls[b].outs[e], l # <<>>
               PROVE  /\ l[1] = e /\ MadeKey(puts', l) /\ home[l] = <<e, calls'[b].slot>>
                      /\ \A a \in DOMAIN calls' : calls'[a].outs[e] = l => a = b
    BY <2>1
  <2>2. /\ l[1] = e /\ MadeKey(puts, l) /\ home[l] = <<e, calls[b].slot>>
        /\ \A a \in DOMAIN calls : calls[a].outs[e] = l => a = b
    BY DEF CallsKept
  <2> QED BY <2>2
<1> QED BY <1>1, <1>2, Zenon DEF CallsKept

LEMMA MoreParts ==
  ASSUME PartsKept, UNCHANGED running, Keeps(Tasks, mailbox, mailbox'),
         \A w \in Worker : \A b : Owes(calls, b, w) => Owes(calls', b, w)
  PROVE  PartsKept'
<1>1. \A w \in Worker : \A c \in Nat \ {0} : \A a \in Key \cup {<<>>} :
        /\ In(mailbox[w], Task(c, a)) <=> In(mailbox'[w], Task(c, a))
        /\ Lt(mailbox[w], Task(c, a), Task(c, a)) <=> Lt(mailbox'[w], Task(c, a), Task(c, a))
  BY OtherMessages DEF Keeps
<1>2. \A w \in Worker : running'[w] # 0 => Owes(calls', running'[w], w)
  BY DEF PartsKept
<1>3. ASSUME NEW w \in Worker, NEW b \in Nat \ {0}, NEW a \in Key \cup {<<>>},
             In(mailbox'[w], Task(b, a))
      PROVE  /\ Owes(calls', b, w) /\ running'[w] # b /\ ~Lt(mailbox'[w], Task(b, a), Task(b, a))
             /\ \A x \in Key \cup {<<>>} : In(mailbox'[w], Task(b, x)) => x = a
  <2>1. /\ Owes(calls, b, w) /\ running[w] # b /\ ~Lt(mailbox[w], Task(b, a), Task(b, a))
        /\ \A x \in Key \cup {<<>>} : In(mailbox[w], Task(b, x)) => x = a
    BY <1>1, <1>3 DEF PartsKept
  <2> QED BY <1>1, <2>1
<1> QED BY <1>2, <1>3 DEF PartsKept

\* The handles made for the results of a call every rank of which succeeded.
Results(home, new) ==
  /\ \A h \in new : h.key \in Unbound(calls) /\ h.copy = 0 /\ h.worker = home[h.key]
  /\ \A h, g \in new : h.key = g.key => h = g

KeysOf(new, c) == \A k : k \in {h.key : h \in new} <=> \E d \in Devices : k = calls[c].outs[d]

LEMMA ReboundIs ==
  ASSUME NEW home, Inv(home), NEW c \in DOMAIN calls, AllOk(c), calls[c].state # "collected",
         NEW os \in SUBSET Int, NEW new, new = Rebound(c, os)
  PROVE  /\ new \in SUBSET Handles /\ IsFiniteSet(new) /\ Results(home, new)
         /\ KeysOf(new, c)
<1> DEFINE f == [d \in Devices |->
                   [key |-> calls[c].outs[d], worker |-> <<d, calls[c].slot>>, copy |-> 0,
                    owners |-> os]]
<1>1. \A d \in Devices :
        /\ calls[c].outs[d] \in Key /\ calls[c].outs[d][1] = d
        /\ home[calls[c].outs[d]] = <<d, calls[c].slot>>
        /\ calls[c].slot \in Slot
  BY CallsIs DEF Inv, CallsKept, AllOk
<1>2. new = {f[d] : d \in Devices}
  <2> DEFINE g(d) == [NewHandle(calls[c].outs[d], <<d, calls[c].slot>>, Program)
                      EXCEPT !.owners = os]
  <2>1. \A d \in Devices : f[d] = g(d)
    BY DEF NewHandle
  <2>2. new = {g(d) : d \in Devices}
    BY DEF Rebound
  <2> HIDE DEF f, g
  <2> QED BY <2>1, <2>2
<1>3. \A d \in Devices :
        /\ f[d] \in Handles /\ f[d].key = calls[c].outs[d] /\ f[d].copy = 0
        /\ f[d].worker = <<d, calls[c].slot>>
  BY <1>1 DEF Handles, Worker
<1> HIDE DEF f
<1>4. new \in SUBSET Handles /\ IsFiniteSet(new)
  <2>1. IsFiniteSet(Devices)
    BY CallsAssumption
  <2>2. IsFiniteSet({f[d] : d \in Devices})
    BY <2>1, ImageFinite
  <2> QED BY <1>2, <1>3, <2>2
<1>5. \A d \in Devices : calls[c].outs[d] \in Unbound(calls)
  BY <1>1 DEF Unbound
<1>6. Results(home, new)
  <2>1. \A h \in new : h.key \in Unbound(calls) /\ h.copy = 0 /\ h.worker = home[h.key]
    BY <1>1, <1>2, <1>3, <1>5
  <2>2. ASSUME NEW h \in new, NEW g \in new, h.key = g.key PROVE h = g
    <3>1. PICK d \in Devices, e \in Devices : h = f[d] /\ g = f[e]
      BY <1>2
    <3>2. d = e
      BY <1>1, <1>3, <2>2, <3>1
    <3> QED BY <3>1, <3>2
  <2> QED BY <2>1, <2>2 DEF Results
<1>7. KeysOf(new, c)
  BY <1>2, <1>3 DEF KeysOf
<1> QED BY <1>4, <1>6, <1>7

LEMMA ResultsBound ==
  ASSUME NEW home, Inv(home), NEW c \in DOMAIN calls, AllOk(c), calls[c].state # "collected",
         calls' = [calls EXCEPT ![c].state = "collected"], NEW keys,
         \A k : k \in keys <=> \E d \in Devices : k = calls[c].outs[d],
         UNCHANGED <<poisoned, puts>>
  PROVE  Unbound(calls') = Unbound(calls) \ keys /\ CallsKept(home)'
<1>1. /\ DOMAIN calls' = DOMAIN calls
      /\ \A b \in DOMAIN calls :
           /\ calls'[b].ranks = calls[b].ranks /\ calls'[b].outs = calls[b].outs
           /\ calls'[b].slot = calls[b].slot
           /\ calls'[b].state = IF b = c THEN "collected" ELSE calls[b].state
  BY StateNoted DEF Inv
<1>2. ASSUME NEW k \in Key PROVE k \in Unbound(calls') <=> k \in Unbound(calls) /\ k \notin keys
  <2>1. k[1] \in Devices /\ k # <<>>
    BY NoKey
  <2>2. ASSUME k \in Unbound(calls') PROVE k \in Unbound(calls) /\ k \notin keys
    <3>1. PICK b \in DOMAIN calls : /\ calls'[b].state # "collected" /\ calls'[b].outs[k[1]] = k
      BY <1>1, <2>2 DEF Unbound
    <3>2. b # c /\ calls[b].state # "collected" /\ calls[b].outs[k[1]] = k
      BY <1>1, <3>1
    <3>3. \A a \in DOMAIN calls : calls[a].outs[k[1]] = k => a = b
      BY <2>1, <3>2 DEF Inv, CallsKept
    <3>4. ASSUME NEW d \in Devices, k = calls[c].outs[d] PROVE FALSE
      <4>1. k[1] = d
        BY <2>1, <3>4 DEF Inv, CallsKept
      <4> QED BY <3>2, <3>3, <3>4, <4>1
    <3> QED BY <3>2, <3>4 DEF Unbound
  <2>3. ASSUME k \in Unbound(calls), k \notin keys PROVE k \in Unbound(calls')
    <3>1. PICK b \in DOMAIN calls : calls[b].state # "collected" /\ calls[b].outs[k[1]] = k
      BY <2>3 DEF Unbound
    <3>2. b # c
      BY <2>1, <2>3, <3>1
    <3> QED BY <1>1, <3>1, <3>2 DEF Unbound
  <2> QED BY <2>2, <2>3
<1>3. Unbound(calls') = Unbound(calls) \ keys
  <2>1. Unbound(calls') \subseteq Key /\ Unbound(calls) \subseteq Key
    BY DEF Unbound
  <2> QED BY <1>2, <2>1
<1>4. CallsKept(home)'
  <2>1. \A b \in DOMAIN calls : /\ calls'[b].state = "failed" => poisoned'
                                /\ calls'[b].state = "collected" => AllOk(b)
    BY <1>1 DEF Inv, CallsKept
  <2> QED BY <1>1, <2>1, CallsSame DEF Inv
<1> QED BY <1>3, <1>4

\* The leases of a call are given up.
LEMMA Released ==
  ASSUME NEW home, Inv(home), NEW c, NEW mid, mid = Disown(handles, c)
  PROVE  /\ mid \in SUBSET Handles /\ IsFiniteSet(mid)
         /\ Ledger(home, mid, mailbox, count, puts, copies, Unbound(calls))
         /\ \A o : o # c => Owned(mid, o)
<1>1. /\ mid \in SUBSET Handles /\ IsFiniteSet(mid) /\ Alike(handles, mid) /\ Unique(mid)
      /\ \A h \in handles : \E g \in mid : Same(g, h) /\ g.owners = h.owners \ {c}
  BY InvHandles, DisownRelabels
<1>2. Ledger(home, mid, mailbox, count, puts, copies, Unbound(calls))
  BY <1>1, InvHandles, LedgerRelabel
<1>3. ASSUME NEW o, o # c, NEW h \in handles, o \in h.owners
      PROVE  \E g \in mid : Same(g, h) /\ o \in g.owners
  BY <1>1, <1>3
<1> QED BY <1>1, <1>2, <1>3 DEF Owned

LEMMA ResultsLedger ==
  ASSUME NEW home \in [Key -> Worker], NEW hs, NEW mb, NEW cnt, NEW put, NEW cps \in Nat,
         Unbound(calls) \in SUBSET Key,
         Ledger(home, hs, mb, cnt, put, cps, Unbound(calls)),
         NEW new, Results(home, new), NEW unb2, unb2 = Unbound(calls) \ {h.key : h \in new}
  PROVE  Ledger(home, hs \cup new, mb, cnt, put, cps, unb2)
BY LedgerBind DEF Results

\* A call is collected: its results are bound, and its leases end.
LEMMA Settled ==
  ASSUME NEW home, Inv(home), NEW c \in DOMAIN calls, AllOk(c), calls[c].state # "collected",
         calls' = [calls EXCEPT ![c].state = "collected"],
         NEW os \in SUBSET Int, NEW hs, hs = Disown(handles, c) \cup Rebound(c, os),
         Collect(hs, mailbox), c # Launching,
         UNCHANGED <<poisoned, frame, running, count, puts, copies, failures, missed>>
  PROVE  Inv(home)'
<1>0. PICK mid, new, keys : /\ mid = Disown(handles, c) /\ new = Rebound(c, os)
                            /\ keys = {h.key : h \in new}
  OBVIOUS
<1>1. /\ mid \in SUBSET Handles /\ IsFiniteSet(mid)
      /\ Ledger(home, mid, mailbox, count, puts, copies, Unbound(calls))
      /\ \A o : o # c => Owned(mid, o)
  BY <1>0, Released
<1>2. /\ new \in SUBSET Handles /\ IsFiniteSet(new) /\ Results(home, new)
      /\ \A k : k \in keys <=> \E d \in Devices : k = calls[c].outs[d]
  <2>1. /\ new \in SUBSET Handles /\ IsFiniteSet(new) /\ Results(home, new)
        /\ KeysOf(new, c)
    BY <1>0, ReboundIs
  <2> QED BY <1>0, <2>1 DEF KeysOf
<1>3. Unbound(calls') = Unbound(calls) \ keys /\ CallsKept(home)'
  BY <1>2, ResultsBound
<1>4. Ledger(home, hs, mailbox, count, puts, copies, Unbound(calls'))
  <2>1. copies \in Nat
    BY CallsAssumption DEF Inv, Types
  <2>2. Unbound(calls') = Unbound(calls) \ {h.key : h \in new}
    BY <1>0, <1>3
  <2>3. Ledger(home, mid \cup new, mailbox, count, puts, copies, Unbound(calls'))
    BY <1>1, <1>2, <2>1, <2>2, InvHandles, ResultsLedger
  <2>4. hs = mid \cup new
    BY <1>0
  <2> QED BY <2>3, <2>4
<1>5. hs \in SUBSET Handles /\ IsFiniteSet(hs)
  BY <1>0, <1>1, <1>2, FS_Union
<1>6. /\ handles' = Living(hs) /\ handles' \in SUBSET Handles /\ IsFiniteSet(handles')
      /\ mailbox' \in [Worker -> Seq(Message)]
      /\ Keeps(Tasks \cup Ends, mailbox, mailbox')
      /\ Ledger(home, handles', mailbox', count, puts, copies, Unbound(calls'))
  <2>1. Unbound(calls') \in SUBSET Key
    BY DEF Unbound
  <2> QED BY <1>4, <1>5, <2>1, InvHandles, Collected
<1>7. Keeps(Tasks, mailbox, mailbox') /\ Keeps(Ends, mailbox, mailbox')
  BY <1>6, KeepsParts
<1>8. \A o : o # c => Holds(o)
  <2>1. \A o : o # c => Owned(hs, o)
    BY <1>0, <1>1 DEF Owned
  <2> QED BY <1>6, <2>1, OwnedHolds
<1>9. /\ calls' \in Seq(Record) /\ DOMAIN calls' = DOMAIN calls
      /\ \A b \in DOMAIN calls : calls'[b].ranks = calls[b].ranks /\ calls'[b].slot = calls[b].slot
  BY StateNoted DEF Inv
<1>10. Types'
  BY <1>6, <1>9 DEF Inv, Types
<1>11. PartsKept'
  <2>1. \A w \in Worker : \A b : Owes(calls, b, w) => Owes(calls', b, w)
    BY <1>9 DEF Owes
  <2> QED BY <1>7, <2>1, MoreParts DEF Inv
<1>12. LeasesKept'
  <2>1. ASSUME NEW b \in Nat \ {0}, NEW w \in Worker, NEW k \in Key, In(mailbox[w], Task(b, k))
        PROVE  Holds(b)
    <3>1. Owes(calls, b, w)
      BY <2>1 DEF Inv, PartsKept
    <3>2. b # c
      BY <3>1, WorkerIs DEF Owes, AllOk
    <3> QED BY <1>8, <3>2
  <2> QED BY <1>7, <2>1, SameLeases DEF Inv
<1>13. FrameKept'
  BY <1>8, SameFrame DEF Inv
<1>14. EndsKept'
  BY <1>7, SameEnds DEF Inv
<1>15. TensorsThere'
  BY DEF Inv, TensorsThere
<1>16. Ledger(home, handles', mailbox', count', puts', copies', Unbound(calls'))
  BY <1>6
<1>17. home \in [Key -> Worker]
  BY InvHandles
<1> QED BY <1>3, <1>10, <1>11, <1>12, <1>13, <1>14, <1>15, <1>16, <1>17 DEF Inv

LEMMA ResultStep ==
  ASSUME NEW home, Inv(home), NEW c \in DOMAIN calls, Result(c)
  PROVE  Inv(home)'
<1> DEFINE new == Rebound(c, {Program})
<1>1. /\ calls[c].state = "pending" /\ AllOk(c)
      /\ Collect(Disown(handles \cup new, c), mailbox)
      /\ calls' = [calls EXCEPT ![c].state = "collected"]
      /\ UNCHANGED <<poisoned, frame, running, count, puts, copies, failures, missed>>
  BY DEF Result, storeVars
<1>2. c # Launching /\ c # Program /\ {Program} \in SUBSET Int
  BY CallsIs DEF Inv, Launching, Program
<1>3. Disown(handles \cup new, c) = Disown(handles, c) \cup new
  <2>1. Disown(handles \cup new, c) = Disown(handles, c) \cup Disown(new, c)
    BY DEF Disown
  <2>2. new \in SUBSET Handles /\ \A h \in new : h.owners = {Program}
    <3>1. new \in SUBSET Handles
      BY <1>1, <1>2, ReboundIs
    <3>2. \A h \in new : h.owners = {Program}
      BY DEF Rebound, NewHandle
    <3> QED BY <3>1, <3>2
  <2> HIDE DEF new
  <2>3. \A h \in new : [h EXCEPT !.owners = @ \ {c}] = h
    <3> SUFFICES ASSUME NEW h \in new PROVE [h EXCEPT !.owners = @ \ {c}] = h
      OBVIOUS
    <3>1. h.owners \ {c} = h.owners
      BY <1>2, <2>2
    <3>2. [h EXCEPT !.owners = h.owners \ {c}] = [h EXCEPT !.owners = h.owners]
      BY <3>1
    <3>3. [h EXCEPT !.owners = h.owners] = h
      BY <2>2 DEF Handles
    <3> QED BY <3>2, <3>3
  <2>4. Disown(new, c) = new
    BY <2>3 DEF Disown
  <2> QED BY <2>1, <2>4
<1> QED BY <1>1, <1>2, <1>3, Settled

LEMMA LetGoStep ==
  ASSUME NEW home, Inv(home), NEW c \in DOMAIN calls, calls[c].state = "discarding", AllOk(c),
         Collect(Disown(handles, c) \cup Rebound(c, {}), mailbox),
         calls' = [calls EXCEPT ![c].state = "collected"],
         UNCHANGED <<poisoned, frame, running, count, puts, copies, failures, missed>>
  PROVE  Inv(home)'
<1>1. c # Launching /\ {} \in SUBSET Int
  BY CallsIs DEF Inv, Launching
<1> QED BY <1>1, Settled

\* One message is taken out of a mailbox, wherever it is.
Cut(s, r, m) ==
  /\ In(s, m) /\ ~In(r, m)
  /\ \A x : x # m => (In(s, x) <=> In(r, x))
  /\ \A x, y : x # m /\ y # m => (Lt(s, x, y) <=> Lt(r, x, y))

LEMMA PartCut ==
  ASSUME NEW home, Inv(home), NEW c \in Nat \ {0}, NEW w \in Worker, Waits(c, w)
  PROVE  /\ Cancelled(c, w) \in Seq(Message)
         /\ \E a \in Key \cup {<<>>} : Cut(mailbox[w], Cancelled(c, w), Task(c, a))
<1> DEFINE i == CHOOSE j \in DOMAIN mailbox[w] : Part(c, mailbox[w][j])
           s == mailbox[w]
           r == RemoveAt(s, i)
<1>1. s \in Seq(Message) /\ DOMAIN s = 1 .. Len(s)
  BY InvHandles
<1>2. i \in 1 .. Len(s) /\ Part(c, s[i])
  BY <1>1 DEF Waits
<1>3. Cancelled(c, w) = r
  BY DEF Cancelled
<1> HIDE DEF i
<1>4. s[i] \in Message
  BY <1>1, <1>2
<1>5. PICK a \in Key \cup {<<>>} : s[i] = Task(c, a)
  <2>1. s[i] \in Tasks
    BY <1>2, <1>4 DEF Part, Message, Counts, Ends, Inc, Dec, Receive, Send
  <2>2. PICK b \in Nat \ {0}, a \in Key \cup {<<>>} : s[i] = Task(b, a)
    BY <2>1 DEF Tasks
  <2>3. b = c
    BY <1>2, <2>2 DEF Part, Task
  <2> QED BY <2>2, <2>3
<1>6. /\ r \in Seq(Message)
      /\ \A x : In(s, x) <=> x = s[i] \/ In(r, x)
      /\ \A x, y : Lt(r, x, y) => Lt(s, x, y)
      /\ \A x, y : x # s[i] /\ y # s[i] /\ Lt(s, x, y) => Lt(r, x, y)
      /\ In(r, s[i]) => Lt(s, s[i], s[i])
  <2> HIDE DEF s
  <2> QED BY <1>1, <1>2, InRemove
<1>7. ~Lt(s, s[i], s[i])
  BY <1>5, <1>6 DEF Inv, PartsKept
<1>8. Cut(s, r, Task(c, a))
  <2> HIDE DEF s, r
  <2> QED BY <1>5, <1>6, <1>7 DEF Cut
<1> QED BY <1>3, <1>6, <1>8

\* The parts of a call that could still be cancelled are.
Without(c, cancelled, mb, mb2) ==
  \A w \in Worker : \A b \in Nat \ {0} : \A a \in Key \cup {<<>>} :
    In(mb2[w], Task(b, a)) =>
      /\ In(mb[w], Task(b, a)) /\ ~(w \in cancelled /\ b = c)
      /\ ~Lt(mb2[w], Task(b, a), Task(b, a))

Boxes(c, cancelled, boxes) ==
  boxes = [w \in Worker |-> IF w \in cancelled THEN Cancelled(c, w) ELSE mailbox[w]]

LEMMA PartsCut ==
  ASSUME NEW home, Inv(home), NEW c \in Nat \ {0},
         NEW cancelled \in SUBSET {w \in Worker : Waits(c, w)},
         NEW boxes, Boxes(c, cancelled, boxes)
  PROVE  /\ boxes \in [Worker -> Seq(Message)]
         /\ Agree(mailbox, boxes) /\ Keeps(Ends, mailbox, boxes)
         /\ Without(c, cancelled, mailbox, boxes)
         /\ \A w \in cancelled : Owes(calls, c, w) /\ running[w] # c
<1> USE DEF Boxes
<1>1. \A w \in cancelled : /\ w \in Worker /\ boxes[w] \in Seq(Message)
                           /\ \E a \in Key \cup {<<>>} : Cut(mailbox[w], boxes[w], Task(c, a))
  BY PartCut
<1>2. \A w \in Worker : w \notin cancelled => boxes[w] = mailbox[w]
  OBVIOUS
<1>3. boxes \in [Worker -> Seq(Message)]
  <2>1. \A w \in Worker : boxes[w] \in Seq(Message)
    BY <1>1, <1>2, InvHandles
  <2>2. boxes \in [Worker -> Seq(Message)] <=> \A w \in Worker : boxes[w] \in Seq(Message)
    OBVIOUS
  <2> QED BY <2>1, <2>2
<1>4. \A w \in Worker : \A x, y : x \notin Tasks /\ y \notin Tasks =>
        (In(mailbox[w], x) <=> In(boxes[w], x)) /\ (Lt(mailbox[w], x, y) <=> Lt(boxes[w], x, y))
  <2> SUFFICES ASSUME NEW w \in Worker, NEW x, NEW y, x \notin Tasks, y \notin Tasks
               PROVE  /\ In(mailbox[w], x) <=> In(boxes[w], x)
                      /\ Lt(mailbox[w], x, y) <=> Lt(boxes[w], x, y)
    OBVIOUS
  <2>1. CASE w \in cancelled
    <3>1. PICK a \in Key \cup {<<>>} : Cut(mailbox[w], boxes[w], Task(c, a))
      BY <1>1, <2>1
    <3>2. x # Task(c, a) /\ y # Task(c, a)
      BY OtherMessages
    <3> QED BY <3>1, <3>2 DEF Cut
  <2>2. CASE w \notin cancelled
    BY <1>2, <2>2
  <2> QED BY <2>1, <2>2
<1>5. Agree(mailbox, boxes)
  <2>1. \A x \in Counts : x \notin Tasks
    BY OtherMessages
  <2> QED BY <1>4, <2>1 DEF Agree
<1>6. Keeps(Ends, mailbox, boxes)
  <2>1. \A x \in Ends : x \notin Tasks
    BY EndMessages DEF Ends, Tasks
  <2> QED BY <1>4, <2>1 DEF Keeps
<1>7. \A w \in cancelled : Owes(calls, c, w) /\ running[w] # c
  BY <1>1 DEF Cut, Inv, PartsKept
<1>8. ASSUME NEW w \in Worker, NEW b \in Nat \ {0}, NEW a \in Key \cup {<<>>},
             In(boxes[w], Task(b, a))
      PROVE  /\ In(mailbox[w], Task(b, a)) /\ ~(w \in cancelled /\ b = c)
             /\ ~Lt(boxes[w], Task(b, a), Task(b, a))
  <2>1. CASE w \in cancelled
    <3>1. PICK x \in Key \cup {<<>>} : Cut(mailbox[w], boxes[w], Task(c, x))
      BY <1>1, <2>1
    <3>2. Task(b, a) # Task(c, x) /\ In(mailbox[w], Task(b, a))
      BY <1>8, <3>1 DEF Cut
    <3>3. ~Lt(mailbox[w], Task(b, a), Task(b, a))
      BY <3>2 DEF Inv, PartsKept
    <3>4. b # c
      <4> SUFFICES ASSUME b = c PROVE FALSE
        OBVIOUS
      <4>1. In(mailbox[w], Task(c, x)) /\ In(mailbox[w], Task(c, a))
        BY <3>1, <3>2 DEF Cut
      <4>2. a = x
        BY <4>1 DEF Inv, PartsKept
      <4> QED BY <3>2, <4>2
    <3> QED BY <3>1, <3>2, <3>3, <3>4 DEF Cut
  <2>2. CASE w \notin cancelled
    BY <1>2, <1>8, <2>2 DEF Inv, PartsKept
  <2> QED BY <2>1, <2>2
<1>9. Without(c, cancelled, mailbox, boxes)
  BY <1>8 DEF Without
<1> QED BY <1>3, <1>5, <1>6, <1>7, <1>9

FailedWith(c, cancelled) ==
  calls' = [calls EXCEPT ![c].state = "failed",
              ![c].ranks = [d \in Devices |->
                 IF <<d, calls[c].slot>> \in cancelled THEN "cancelled" ELSE @[d]]]

\* The parts cancelled are noted with the call's failure.
LEMMA FailureNoted ==
  ASSUME Types, NEW c \in DOMAIN calls, NEW cancelled,
         FailedWith(c, cancelled)
  PROVE  /\ calls' \in Seq(Record) /\ DOMAIN calls' = DOMAIN calls
         /\ \A b \in DOMAIN calls :
              /\ calls'[b].outs = calls[b].outs /\ calls'[b].slot = calls[b].slot
              /\ calls'[b].state = IF b = c THEN "failed" ELSE calls[b].state
              /\ \A d \in Devices :
                   calls'[b].ranks[d] = IF b = c /\ <<d, calls[c].slot>> \in cancelled
                                          THEN "cancelled" ELSE calls[b].ranks[d]
<1> DEFINE ranks == [d \in Devices |->
                       IF <<d, calls[c].slot>> \in cancelled THEN "cancelled" ELSE calls[c].ranks[d]]
           r == [calls[c] EXCEPT !.state = "failed", !.ranks = ranks]
<1>1. calls' = [calls EXCEPT ![c] = r] /\ calls[c] \in Record
  BY CallsIs DEF FailedWith
<1>2. ranks \in [Devices -> Outcome]
  BY CallsIs DEF Outcome
<1>3. /\ \A d \in Devices : ranks[d] = IF <<d, calls[c].slot>> \in cancelled
                                          THEN "cancelled" ELSE calls[c].ranks[d]
  OBVIOUS
<1> HIDE DEF ranks
<1>4. /\ r \in Record /\ r.state = "failed" /\ r.slot = calls[c].slot
      /\ r.ranks = ranks /\ r.outs = calls[c].outs
  BY <1>1, <1>2 DEF Record
<1> HIDE DEF r
<1>5. /\ calls' \in Seq(Record) /\ DOMAIN calls' = DOMAIN calls /\ calls'[c] = r
      /\ \A b \in DOMAIN calls : b # c => calls'[b] = calls[b]
  BY <1>1, <1>4, OneCall
<1> QED BY <1>3, <1>4, <1>5

LEMMA FailStep ==
  ASSUME NEW home, Inv(home), NEW c \in DOMAIN calls,
         calls[c].state \in {"pending", "discarding"}, Fail(c)
  PROVE  Inv(home)'
<1>0. PICK cancelled, boxes, mid :
        /\ cancelled \in SUBSET {w \in Worker : Waits(c, w)}
        /\ Boxes(c, cancelled, boxes) /\ mid = Disown(handles, c) /\ Collect(mid, boxes)
        /\ FailedWith(c, cancelled)
  BY DEF Fail, Boxes, FailedWith
<1>1. /\ poisoned' = TRUE
      /\ UNCHANGED <<frame, running, count, puts, copies, failures, missed>>
  BY DEF Fail, storeVars
<1>2. c \in Nat \ {0} /\ c # Launching
  BY CallsIs DEF Inv, Launching
<1>3. /\ boxes \in [Worker -> Seq(Message)]
      /\ Agree(mailbox, boxes) /\ Keeps(Ends, mailbox, boxes)
      /\ Without(c, cancelled, mailbox, boxes)
      /\ \A w \in cancelled : Owes(calls, c, w) /\ running[w] # c
  BY <1>0, <1>2, PartsCut
<1>4. /\ mid \in SUBSET Handles /\ IsFiniteSet(mid)
      /\ Ledger(home, mid, mailbox, count, puts, copies, Unbound(calls))
      /\ \A o : o # c => Owned(mid, o)
  BY <1>0, Released
<1>5. Ledger(home, mid, boxes, count, puts, copies, Unbound(calls))
  <2>1. Unique(mid)
    BY <1>4, LedgerUnique
  <2>2. Alike(mid, mid)
    BY <2>1 DEF Alike, Unique, Same
  <2> QED BY <1>3, <1>4, <2>2, InvHandles, LedgerAgrees
<1>6. /\ handles' = Living(mid) /\ handles' \in SUBSET Handles /\ IsFiniteSet(handles')
      /\ mailbox' \in [Worker -> Seq(Message)]
      /\ Keeps(Tasks \cup Ends, boxes, mailbox')
      /\ Ledger(home, handles', mailbox', count, puts, copies, Unbound(calls))
  BY <1>0, <1>3, <1>4, <1>5, InvHandles, Collected
<1>7. /\ calls' \in Seq(Record) /\ DOMAIN calls' = DOMAIN calls
      /\ \A b \in DOMAIN calls :
           /\ calls'[b].outs = calls[b].outs /\ calls'[b].slot = calls[b].slot
           /\ calls'[b].state = IF b = c THEN "failed" ELSE calls[b].state
           /\ \A d \in Devices :
                calls'[b].ranks[d] = IF b = c /\ <<d, calls[c].slot>> \in cancelled
                                       THEN "cancelled" ELSE calls[b].ranks[d]
  BY <1>0, FailureNoted DEF Inv
<1>8. Unbound(calls') = Unbound(calls)
  BY <1>7 DEF Unbound
<1>9. CallsKept(home)'
  <2>1. \A b \in DOMAIN calls : \A e \in Devices :
          calls'[b].ranks[e] = "ok" <=> calls[b].ranks[e] = "ok"
    <3> SUFFICES ASSUME NEW b \in DOMAIN calls, NEW e \in Devices
                 PROVE  calls'[b].ranks[e] = "ok" <=> calls[b].ranks[e] = "ok"
      OBVIOUS
    <3>1. CASE b = c /\ <<e, calls[c].slot>> \in cancelled
      <4>1. Owes(calls, c, <<e, calls[c].slot>>)
        BY <1>3, <3>1
      <4>2. calls[c].ranks[e] = "waiting" /\ calls'[c].ranks[e] = "cancelled"
        BY <1>7, <3>1, <4>1 DEF Owes
      <4> QED BY <3>1, <4>2
    <3>2. CASE ~(b = c /\ <<e, calls[c].slot>> \in cancelled)
      BY <1>7, <3>2
    <3> QED BY <3>1, <3>2
  <2>2. \A b \in DOMAIN calls : /\ calls'[b].state = "failed" => poisoned'
                                /\ calls'[b].state = "collected" => AllOk(b)
    BY <1>1, <1>7 DEF Inv, CallsKept
  <2> QED BY <1>1, <1>7, <2>1, <2>2, CallsSame DEF Inv
<1>10. ASSUME NEW v \in Worker, NEW b, Owes(calls, b, v), ~(v \in cancelled /\ b = c)
       PROVE  Owes(calls', b, v)
  <2>1. ~(b = c /\ <<v[1], calls[c].slot>> \in cancelled)
    BY <1>10, WorkerIs DEF Owes
  <2>2. calls'[b].ranks[v[1]] = calls[b].ranks[v[1]]
    BY <1>7, <1>10, <2>1, WorkerIs DEF Owes
  <2> QED BY <1>7, <1>10, <2>2 DEF Owes
<1>11. Keeps(Tasks, boxes, mailbox') /\ Keeps(Ends, boxes, mailbox')
  BY <1>6, KeepsParts
<1>12. PartsKept'
  <2>1. ASSUME NEW v \in Worker, running'[v] # 0 PROVE Owes(calls', running'[v], v)
    <3>1. Owes(calls, running[v], v) /\ ~(v \in cancelled /\ running[v] = c)
      BY <1>1, <1>3, <2>1 DEF Inv, PartsKept
    <3>2. Owes(calls', running[v], v)
      BY <1>10, <3>1
    <3> QED BY <1>1, <3>2
  <2>2. ASSUME NEW v \in Worker, NEW b \in Nat \ {0}, NEW a \in Key \cup {<<>>},
               In(mailbox'[v], Task(b, a))
        PROVE  /\ Owes(calls', b, v) /\ running'[v] # b /\ ~Lt(mailbox'[v], Task(b, a), Task(b, a))
               /\ \A x \in Key \cup {<<>>} : In(mailbox'[v], Task(b, x)) => x = a
    <3>1. \A x \in Key \cup {<<>>} :
            /\ In(boxes[v], Task(b, x)) <=> In(mailbox'[v], Task(b, x))
            /\ Lt(boxes[v], Task(b, x), Task(b, x)) <=> Lt(mailbox'[v], Task(b, x), Task(b, x))
      BY <1>11, OtherMessages DEF Keeps
    <3>2. \A x \in Key \cup {<<>>} : In(boxes[v], Task(b, x)) =>
            /\ In(mailbox[v], Task(b, x)) /\ ~(v \in cancelled /\ b = c)
            /\ ~Lt(boxes[v], Task(b, x), Task(b, x))
      BY <1>3 DEF Without
    <3>3. /\ In(mailbox[v], Task(b, a)) /\ ~(v \in cancelled /\ b = c)
          /\ ~Lt(mailbox'[v], Task(b, a), Task(b, a))
      BY <2>2, <3>1, <3>2
    <3>4. /\ Owes(calls, b, v) /\ running[v] # b
          /\ \A x \in Key \cup {<<>>} : In(mailbox[v], Task(b, x)) => x = a
      BY <3>3 DEF Inv, PartsKept
    <3>5. Owes(calls', b, v)
      BY <1>10, <3>3, <3>4
    <3>6. \A x \in Key \cup {<<>>} : In(mailbox'[v], Task(b, x)) => x = a
      BY <3>1, <3>2, <3>4
    <3> QED BY <1>1, <3>3, <3>4, <3>5, <3>6
  <2> QED BY <2>1, <2>2 DEF PartsKept
<1>13. LeasesKept'
  BY <1>1 DEF LeasesKept
<1>14. FrameKept'
  <2>1. Owned(mid, Launching)
    BY <1>2, <1>4
  <2>2. Holds(Launching)
    BY <1>6, <2>1, OwnedHolds
  <2> QED BY <1>1, <2>2, SameFrame DEF Inv
<1>15. EndsKept'
  <2>1. Keeps(Ends, mailbox, mailbox')
    BY <1>3, <1>11 DEF Keeps
  <2> QED BY <1>1, <2>1, SameEnds DEF Inv
<1>16. TensorsThere'
  BY <1>1 DEF TensorsThere
<1>17. Types'
  BY <1>1, <1>6, <1>7 DEF Inv, Types
<1>18. Ledger(home, handles', mailbox', count', puts', copies', Unbound(calls'))
  BY <1>1, <1>6, <1>8
<1>19. home \in [Key -> Worker]
  BY InvHandles
<1> QED BY <1>9, <1>12, <1>13, <1>14, <1>15, <1>16, <1>17, <1>18, <1>19 DEF Inv

LEMMA CallSteps ==
  ASSUME NEW home, Inv(home), NEW c \in DOMAIN calls, Result(c) \/ Raise(c) \/ Discard(c) \/ OnDone(c)
  PROVE  Inv(home)'
<1>1. CASE Result(c)
  BY <1>1, ResultStep
<1>2. CASE Raise(c)
  <2>1. calls[c].state \in {"pending", "discarding"} /\ Fail(c)
    BY <1>2 DEF Raise
  <2> QED BY <2>1, FailStep
<1>3. CASE Discard(c)
  BY <1>3, DiscardStep
<1>4. CASE OnDone(c)
  <2>1. calls[c].state = "discarding"
    BY <1>4 DEF OnDone
  <2>2. CASE Fail(c)
    BY <2>1, <2>2, FailStep
  <2>3. CASE /\ AllOk(c)
             /\ Collect(Disown(handles, c) \cup Rebound(c, {}), mailbox)
             /\ calls' = [calls EXCEPT ![c].state = "collected"]
             /\ UNCHANGED <<poisoned, frame, running, storeVars, copies, failures, missed>>
    <3>1. UNCHANGED <<poisoned, frame, running, count, puts, copies, failures, missed>>
      BY <2>3 DEF storeVars
    <3> QED BY <2>1, <2>3, <3>1, LetGoStep
  <2> QED BY <1>4, <2>2, <2>3 DEF OnDone
<1> QED BY <1>1, <1>2, <1>3, <1>4

\* A tensor is put that is not of a call.
LEMMA CallsPut ==
  ASSUME NEW home, NEW home2, NEW k, NEW w, CallsKept(home), Types,
         Placed(home, home2, puts, puts', k, w),
         UNCHANGED calls, poisoned => poisoned'
  PROVE  CallsKept(home2)' /\ k \notin Unbound(calls)
<1> USE DEF Placed
<1>1. ASSUME NEW b \in DOMAIN calls, NEW e \in Devices, calls[b].outs[e] # <<>>
      PROVE  /\ calls[b].outs[e] \in Key /\ calls[b].outs[e] # k
             /\ MadeKey(puts', calls[b].outs[e])
  <2>1. calls[b].outs[e] \in Key /\ MadeKey(puts, calls[b].outs[e])
    BY <1>1, CallsIs DEF CallsKept
  <2> QED BY <2>1
<1>2. k \notin Unbound(calls)
  <2> SUFFICES ASSUME k \in Unbound(calls) PROVE FALSE
    OBVIOUS
  <2>1. PICK b \in DOMAIN calls : calls[b].outs[k[1]] = k
    BY DEF Unbound
  <2> QED BY <1>1, <2>1, NoKey
<1>3. \A b \in DOMAIN calls' : /\ calls'[b].state = "failed" => poisoned'
                               /\ calls'[b].state = "collected" => AllOk(b)'
  BY DEF CallsKept, AllOk
<1>4. ASSUME NEW b \in DOMAIN calls', NEW e \in Devices
      PROVE  LET l == calls'[b].outs[e]
             IN  /\ l # <<>> <=> calls'[b].ranks[e] = "ok"
                 /\ l # <<>> =>
                      /\ l[1] = e /\ MadeKey(puts', l) /\ home2[l] = <<e, calls'[b].slot>>
                      /\ \A a \in DOMAIN calls' : calls'[a].outs[e] = l => a = b
  <2>1. calls[b].outs[e] # <<>> <=> calls[b].ranks[e] = "ok"
    BY DEF CallsKept
  <2> SUFFICES ASSUME NEW l, l = calls[b].outs[e], l # <<>>
               PROVE  /\ l[1] = e /\ MadeKey(puts', l) /\ home2[l] = <<e, calls[b].slot>>
                      /\ \A a \in DOMAIN calls : calls[a].outs[e] = l => a = b
    BY <2>1
  <2>2. /\ l[1] = e /\ home[l] = <<e, calls[b].slot>>
        /\ \A a \in DOMAIN calls : calls[a].outs[e] = l => a = b
    BY DEF CallsKept
  <2> QED BY <1>1, <2>2
<1>5. CallsKept(home2)'
  BY <1>3, <1>4, Zenon DEF CallsKept
<1> QED BY <1>2, <1>5

\* Both ends of a move are taken: they were the only ones.
LEMMA EndsTaken ==
  ASSUME NEW home, Inv(home), NEW g \in Devices \X Devices, NEW src \in Worker, NEW dst \in Worker,
         src # dst, NEW mid,
         TakenFrom(mailbox, mid, src, Send(g)), TakenFrom(mid, mailbox', dst, Receive(g))
  PROVE  /\ frame.waiting /\ g = First(frame.groups)
         /\ \A x \in Ends : \A w \in Worker : ~In(mailbox'[w], x)
<1>1. mid[dst] = mailbox[dst] /\ mailbox'[src] = mid[src]
  BY DEF TakenFrom
<1>2. In(mailbox[src], Send(g)) /\ In(mailbox[dst], Receive(g))
  BY <1>1 DEF TakenFrom
<1>3. frame.waiting /\ g = First(frame.groups)
  BY <1>2 DEF Inv, EndsKept, EndsApart
<1>4. ~In(mailbox'[src], Send(g)) /\ ~In(mailbox'[dst], Receive(g))
  <2>1. ~Lt(mailbox[src], Send(g), Send(g)) /\ ~Lt(mailbox[dst], Receive(g), Receive(g))
    BY DEF Inv, EndsKept, EndsApart
  <2> QED BY <1>1, <2>1 DEF TakenFrom
<1>5. \A w \in Worker : \A x : In(mailbox'[w], x) => In(mailbox[w], x)
  BY DEF TakenFrom
<1>6. ASSUME NEW x \in Ends, NEW w \in Worker, In(mailbox'[w], x) PROVE FALSE
  <2>1. In(mailbox[w], x)
    BY <1>5, <1>6
  <2>2. PICK f \in Devices \X Devices : x = Receive(f) \/ x = Send(f)
    BY DEF Ends
  <2>3. f = g
    BY <1>3, <2>1, <2>2 DEF Inv, EndsKept, EndsApart
  <2>4. CASE x = Receive(g)
    <3>1. w = dst
      BY <1>2, <2>1, <2>4 DEF Inv, EndsKept, EndsApart
    <3> QED BY <1>4, <1>6, <2>4, <3>1
  <2>5. CASE x = Send(g)
    <3>1. w = src
      BY <1>2, <2>1, <2>5 DEF Inv, EndsKept, EndsApart
    <3> QED BY <1>4, <1>6, <2>5, <3>1
  <2> QED BY <2>2, <2>3, <2>4, <2>5
<1> QED BY <1>3, <1>6

LEMMA TransferStep ==
  ASSUME NEW home, Inv(home), NEW g \in Devices \X Devices, Transfer(g)
  PROVE  \E h2 \in [Key -> Worker] : Inv(h2)'
<1>0. PICK d, src, dst, k, moved, mid, home2, unb :
        /\ d = g[2] /\ src = <<g[1], 0>> /\ dst = <<g[2], 0>> /\ k = NewKey(g[2])
        /\ moved = [key |-> k, worker |-> dst, copy |-> 0, owners |-> {Launching}]
        /\ mid = [mailbox EXCEPT ![src] = Tail(@)]
        /\ home2 = [home EXCEPT ![k] = dst]
        /\ unb = Unbound(calls) \cup {k}
  OBVIOUS
<1>1. d \in Devices /\ src \in Worker /\ dst \in Worker
  BY <1>0 DEF Worker, Slot
<1>2. /\ mailbox[src] # <<>> /\ Head(mailbox[src]) = Send(g)
      /\ mailbox[dst] # <<>> /\ Head(mailbox[dst]) = Receive(g)
      /\ mailbox' = [mailbox EXCEPT ![src] = Tail(@), ![dst] = Tail(@)]
      /\ PutIn(d, k, puts, puts', count, count')
      /\ handles' = handles \cup {moved}
      /\ frame' = [frame EXCEPT !.shards[d] = moved, !.groups = @ \ {g}, !.waiting = FALSE]
      /\ missed' = (missed \/ frame.shards[d].key \notin DOMAIN count)
      /\ UNCHANGED <<poisoned, calls, running, copies, failures>>
  BY <1>0 DEF Transfer, Free, Next1, Stored, PutIn, NewKey, NewHandle
<1>3. src # dst
  BY <1>2, EndMessages
<1>4. /\ mid \in [Worker -> Seq(Message)] /\ TakenFrom(mailbox, mid, src, Send(g))
      /\ mailbox' \in [Worker -> Seq(Message)] /\ TakenFrom(mid, mailbox', dst, Receive(g))
  <2>1. mid \in [Worker -> Seq(Message)] /\ TakenFrom(mailbox, mid, src, Send(g))
    BY <1>0, <1>1, <1>2, InvHandles, TakesHead
  <2>2. /\ mid[dst] # <<>> /\ Head(mid[dst]) = Receive(g)
        /\ mailbox' = [mid EXCEPT ![dst] = Tail(@)]
    BY <1>0, <1>1, <1>2, <1>3, InvHandles
  <2>3. mailbox' \in [Worker -> Seq(Message)] /\ TakenFrom(mid, mailbox', dst, Receive(g))
    BY <1>1, <2>1, <2>2, TakesHead
  <2> QED BY <2>1, <2>3
<1>5. /\ frame.waiting /\ g = First(frame.groups)
      /\ \A x \in Ends : \A w \in Worker : ~In(mailbox'[w], x)
  BY <1>1, <1>3, <1>4, EndsTaken
<1>6. /\ frame \in Frames /\ frame # Idle /\ g \in frame.groups /\ frame.shards[d] # None
      /\ frame.groups \in SUBSET (Devices \X Devices)
  <2>1. frame.groups # {} /\ frame # Idle /\ frame \in Frames
    BY <1>5 DEF Inv, FrameKept, Idle
  <2>2. frame.groups \in SUBSET (Devices \X Devices)
    BY <2>1 DEF Frames
  <2>3. g \in frame.groups
    BY <1>5, <2>1, <2>2, FirstGroup
  <2> QED BY <1>0, <2>1, <2>2, <2>3 DEF Inv, FrameKept
<1>7. Agree(mailbox, mailbox') /\ Keeps(Tasks, mailbox, mailbox')
  <2>1. /\ Send(g) \notin Counts /\ Receive(g) \notin Counts
        /\ Send(g) \notin Tasks /\ Receive(g) \notin Tasks
    <3>1. Send(g) \notin Counts /\ Receive(g) \notin Counts
      BY OtherMessages
    <3>2. \A c, a : Task(c, a) # Send(g) /\ Task(c, a) # Receive(g)
      BY EndMessages
    <3> QED BY <3>1, <3>2 DEF Tasks
  <2>2. Agree(mailbox, mid) /\ Keeps(Tasks, mailbox, mid)
    BY <1>1, <1>4, <2>1, TakenKeeps
  <2>3. Agree(mid, mailbox') /\ Keeps(Tasks, mid, mailbox')
    BY <1>1, <1>4, <2>1, TakenKeeps
  <2>4. Agree(mailbox, mailbox')
    BY <2>2, <2>3 DEF Agree
  <2>5. Keeps(Tasks, mailbox, mailbox')
    BY <2>2, <2>3 DEF Keeps
  <2> QED BY <2>4, <2>5
<1>8. /\ Placed(home, home2, puts, puts', k, dst)
      /\ Ledger(home2, handles, mailbox', count', puts', copies, unb)
  <2>1. Alike(handles, handles)
    BY InvHandles DEF Alike, Unique, Same
  <2>2. Ledger(home, handles, mailbox', count, puts, copies, Unbound(calls))
    BY <1>7, <2>1, InvHandles, LedgerAgrees
  <2>3. /\ home \in [Key -> Worker] /\ handles \in SUBSET Handles /\ puts \in [Devices -> Nat]
        /\ Unbound(calls) \in SUBSET Key /\ HomeOf(home, home2, k, dst)
        /\ PutIn(d, k, puts, puts', count, count')
    BY <1>0, <1>2, InvHandles DEF HomeOf, Inv, Types
  <2>4. /\ Placed(home, home2, puts, puts', k, dst)
        /\ Ledger(home2, handles, mailbox', count', puts', copies, Unbound(calls) \cup {k})
    BY <1>1, <2>2, <2>3, LedgerPut
  <2> QED BY <1>0, <2>4
<1>9. /\ home2 \in [Key -> Worker] /\ home2[k] = dst /\ k \in Key
      /\ CallsKept(home2)' /\ k \notin Unbound(calls)
  <2>1. CallsKept(home2)' /\ k \notin Unbound(calls)
    BY <1>2, <1>8, CallsPut DEF Inv
  <2> QED BY <1>8, <2>1 DEF Placed
<1>10. /\ moved \in Handles /\ moved.key = k /\ moved.copy = 0 /\ moved.worker = dst
       /\ Launching \in moved.owners /\ moved # None
  <2>1. /\ moved.key = k /\ moved.copy = 0 /\ moved.worker = dst /\ Launching \in moved.owners
        /\ moved \in Handles
    BY <1>0, <1>1, <1>9 DEF Handles, Launching
  <2>2. None.key = <<>> /\ k # <<>>
    BY <1>9, NoKey DEF None
  <2> QED BY <2>1, <2>2
<1>11. Ledger(home2, handles', mailbox', count', puts', copies', Unbound(calls'))
  <2>1. PICK new : new = {moved}
    OBVIOUS
  <2>2. \A h \in new : h.key \in unb /\ h.copy = 0 /\ h.worker = home2[h.key]
    BY <1>0, <1>9, <1>10, <2>1
  <2>3. \A h, f \in new : h.key = f.key => h = f
    BY <2>1
  <2>4. Unbound(calls) = unb \ {h.key : h \in new}
    BY <1>0, <1>9, <1>10, <2>1
  <2>5. copies \in Nat /\ unb \in SUBSET Key
    <3>1. copies \in Nat
      BY CallsAssumption DEF Inv, Types
    <3>2. Unbound(calls) \in SUBSET Key
      BY InvHandles
    <3> QED BY <1>0, <1>9, <3>1, <3>2
  <2>6. Ledger(home2, handles \cup new, mailbox', count', puts', copies, Unbound(calls))
    BY <1>8, <1>9, <2>2, <2>3, <2>4, <2>5, LedgerBind
  <2> QED BY <1>2, <2>1, <2>6
<1>12. \A o : Holds(o)
  BY <1>2 DEF Holds, Same
<1>13. PartsKept'
  BY <1>2, <1>7, SameParts DEF Inv
<1>14. LeasesKept'
  BY <1>2, <1>7, <1>12, SameLeases DEF Inv
<1>15. FrameKept'
  <2>1. /\ frame' \in Frames /\ frame'.waiting = FALSE /\ frame'.groups = frame.groups \ {g}
        /\ frame'.shards[d] = moved
        /\ \A e \in Devices : e # d => frame'.shards[e] = frame.shards[e]
    <3>1. \A gs \in SUBSET (Devices \X Devices) :
            [frame EXCEPT !.shards[d] = moved, !.groups = gs, !.waiting = FALSE] \in Frames
      BY <1>6, <1>10 DEF Frames
    <3>2. frame.groups \ {g} \in SUBSET (Devices \X Devices)
      BY <1>6
    <3>3. frame' \in Frames
      BY <1>2, <3>1, <3>2
    <3>4. frame.shards \in [Devices -> Handles \cup {None}]
      BY <1>6 DEF Frames
    <3>5. /\ frame'.waiting = FALSE /\ frame'.groups = frame.groups \ {g}
          /\ frame'.shards = [frame.shards EXCEPT ![d] = moved]
      BY <1>2, <1>6 DEF Frames
    <3> QED BY <1>1, <3>3, <3>4, <3>5
  <2>2. ASSUME NEW e \in Devices, frame'.shards[e] # None
        PROVE  \E h \in handles' : Same(h, frame'.shards[e]) /\ Launching \in h.owners
    <3>1. CASE e = d
      BY <1>2, <1>10, <2>1, <3>1 DEF Same
    <3>2. CASE e # d
      BY <1>2, <1>6, <2>1, <2>2, <3>2 DEF Inv, FrameKept
    <3> QED BY <3>1, <3>2
  <2>3. \A f \in frame'.groups : frame'.shards[f[2]] # None /\ f[1] # f[2]
    <3> SUFFICES ASSUME NEW f \in frame.groups PROVE frame'.shards[f[2]] # None /\ f[1] # f[2]
      BY <2>1
    <3>1. f[2] \in Devices /\ frame.shards[f[2]] # None /\ f[1] # f[2]
      BY <1>6 DEF Inv, FrameKept
    <3> QED BY <1>10, <2>1, <3>1
  <2> QED BY <2>1, <2>2, <2>3 DEF FrameKept
<1>16. EndsKept'
  <2>1. ~frame'.waiting
    BY <1>2, <1>6 DEF Frames
  <2> QED BY <1>5, <2>1, EndsFree
<1>17. TensorsThere'
  <2>1. PICK h \in handles : Same(h, frame.shards[d])
    BY <1>1, <1>6 DEF Inv, FrameKept
  <2>2. h.key \in DOMAIN count
    <3>1. Len(mailbox[home[h.key]]) \in Nat /\ copies \in 0 .. MaxCopies
      BY InvHandles, HandleFields, MailboxIs DEF Inv, Types
    <3> QED BY <3>1, InvHandles, LedgerUse
  <2>3. missed' => missed
    BY <1>2, <2>1, <2>2 DEF Same
  <2> QED BY <1>2, <2>3 DEF Inv, TensorsThere
<1>18. Types'
  <2>1. handles' \in SUBSET Handles /\ IsFiniteSet(handles')
    BY <1>2, <1>10, InvHandles, FS_AddElement
  <2>2. puts' \in [Devices -> Nat]
    <3>1. puts \in [Devices -> Nat] /\ puts[d] + 1 \in Nat
      BY <1>1 DEF Inv, Types
    <3>2. puts' = [puts EXCEPT ![d] = puts[d] + 1]
      BY <1>2, Zenon DEF PutIn
    <3> QED BY <3>1, <3>2
  <2>3. missed' \in BOOLEAN
    BY <1>2, Zenon DEF Inv, Types
  <2> QED BY <1>2, <1>4, <2>1, <2>2, <2>3 DEF Inv, Types
<1>19. Inv(home2)'
  BY <1>9, <1>11, <1>13, <1>14, <1>15, <1>16, <1>17, <1>18 DEF Inv
<1> QED BY <1>9, <1>19

-----------------------------------------------------------------------------
(***************************************************************************)
(* The invariant: keys have homes such that the ledger is kept.            *)
(***************************************************************************)
LedgerKept == \E home \in [Key -> Worker] : Inv(home)

LEMMA InitKept ==
  ASSUME Init
  PROVE  LedgerKept
<1>1. PICK home : home = [k \in Key |-> <<k[1], 0>>]
  OBVIOUS
<1>2. home \in [Key -> Worker]
  BY <1>1 DEF Key, Worker, Slot
<1>3. Types
  <2>1. handles \in SUBSET Handles /\ IsFiniteSet(handles)
    BY FS_EmptySet DEF Init
  <2>2. copies \in 0 .. MaxCopies
    BY CallsAssumption DEF Init
  <2>3. calls \in Seq(Record) /\ mailbox \in [Worker -> Seq(Message)] /\ running \in [Worker -> Nat]
    BY DEF Init
  <2>4. puts \in [Devices -> Nat] /\ failures \in Nat /\ poisoned \in BOOLEAN /\ missed \in BOOLEAN
    BY DEF Init
  <2> QED BY <2>1, <2>2, <2>3, <2>4 DEF Types
<1>4. Unbound(calls) = {}
  BY DEF Init, Unbound
<1>5. \A w \in Worker : \A x, y : ~In(mailbox[w], x) /\ ~Lt(mailbox[w], x, y)
  BY InNothing DEF Init
<1>6. \A k, c : ~Alive(handles, k, c)
  BY DEF Init, Alive
<1>7. \A k \in Key : home[k] \in Worker
  BY <1>2
<1>8. Ledger(home, handles, mailbox, count, puts, copies, Unbound(calls))
  <2>1. HandlesKept(home, handles, puts, copies)
    BY DEF Init, HandlesKept
  <2>2. CountsKept(home, mailbox, puts, copies)
    BY <1>5 DEF CountsKept
  <2>3. CopiesKept(home, handles, mailbox)
    BY <1>5, <1>7 DEF CopiesKept
  <2>4. UnboundKept(home, handles, mailbox, puts, Unbound(calls))
    BY <1>4 DEF UnboundKept
  <2>5. StoreKept(home, handles, mailbox, count, Unbound(calls))
    <3>1. DOMAIN count = {}
      BY DEF Init
    <3>2. ASSUME NEW k \in Key PROVE Units(home, handles, mailbox, Unbound(calls), k) = {}
      BY <1>4, <1>5, <1>6, <1>7 DEF Units, InStore
    <3> QED BY <3>1, <3>2 DEF StoreKept
  <2> QED BY <2>1, <2>2, <2>3, <2>4, <2>5 DEF Ledger
<1>9. PartsKept
  BY <1>5 DEF PartsKept, Init
<1>10. CallsKept(home)
  BY DEF CallsKept, Init
<1>11. LeasesKept
  BY <1>5 DEF LeasesKept
<1>12. FrameKept
  BY DEF FrameKept, Init, Idle
<1>13. EndsKept
  BY <1>5 DEF EndsKept, EndsApart, EndsPosted, Init, Idle
<1>14. TensorsThere
  BY DEF TensorsThere, Init
<1>15. Inv(home)
  BY <1>2, <1>3, <1>8, <1>9, <1>10, <1>11, <1>12, <1>13, <1>14 DEF Inv
<1> QED BY <1>2, <1>15 DEF LedgerKept

LEMMA StutterStep ==
  ASSUME NEW home, Inv(home), UNCHANGED vars
  PROVE  Inv(home)'
<1>1. UNCHANGED <<poisoned, frame, handles, calls, mailbox, running, count, puts, copies, failures,
                  missed>>
  BY DEF vars, storeVars
<1>2. Types'
  BY <1>1 DEF Inv, Types
<1>3. Ledger(home, handles', mailbox', count', puts', copies', Unbound(calls'))
  BY <1>1 DEF Inv
<1>4. PartsKept'
  BY <1>1 DEF Inv, PartsKept
<1>5. CallsKept(home)'
  BY <1>1, SamePuts DEF Inv
<1>6. LeasesKept'
  BY <1>1 DEF Inv, LeasesKept
<1>7. FrameKept'
  BY <1>1 DEF Inv, FrameKept
<1>8. EndsKept'
  BY <1>1 DEF Inv, EndsKept, EndsApart, EndsPosted
<1>9. TensorsThere'
  BY <1>1 DEF Inv, TensorsThere
<1>10. home \in [Key -> Worker]
  BY DEF Inv
<1> QED BY <1>2, <1>3, <1>4, <1>5, <1>6, <1>7, <1>8, <1>9, <1>10 DEF Inv

LEMMA StepKept ==
  ASSUME LedgerKept, [Next]_vars
  PROVE  LedgerKept'
<1>0. PICK home \in [Key -> Worker] : Inv(home)
  BY DEF LedgerKept
<1> SUFFICES \E h2 \in [Key -> Worker] : Inv(h2)'
  BY DEF LedgerKept
<1>1. SUFFICES Inv(home)' \/ \E h2 \in [Key -> Worker] : Inv(h2)'
  BY <1>0
<1>2. CASE UNCHANGED vars
  BY <1>0, <1>2, StutterStep
<1>3. CASE Workers
  <2>1. ASSUME NEW w \in Worker, Resolve(w) PROVE Inv(home)'
    BY <1>0, <2>1, ResolveStep
  <2>2. ASSUME NEW w \in Worker, Return(w) PROVE \E h2 \in [Key -> Worker] : Inv(h2)'
    BY <1>0, <2>2, ReturnStep
  <2>3. ASSUME NEW w \in Worker, Counted(w) PROVE Inv(home)'
    BY <1>0, <2>3, CountedStep
  <2>4. ASSUME NEW g \in Devices \X Devices, Transfer(g)
        PROVE  \E h2 \in [Key -> Worker] : Inv(h2)'
    BY <1>0, <2>4, TransferStep
  <2> QED BY <1>3, <2>1, <2>2, <2>3, <2>4 DEF Workers
<1>4. CASE Driver
  <2>1. ASSUME NEW slot \in Slot, Start(slot) PROVE Inv(home)'
    BY <1>0, <2>1, StartStep
  <2>2. ASSUME NEW c \in DOMAIN calls, Result(c) \/ Raise(c) \/ Discard(c) \/ OnDone(c)
        PROVE  Inv(home)'
    BY <1>0, <2>2, CallSteps
  <2>3. ASSUME NEW h \in Held, Copy(h) PROVE Inv(home)'
    BY <1>0, <2>3, CopyStep
  <2>4. ASSUME NEW h \in Held, Drop(h) PROVE Inv(home)'
    BY <1>0, <2>4, DropStep
  <2> QED BY <1>4, <2>1, <2>2, <2>3, <2>4 DEF Driver
<1>5. CASE Move
  BY <1>0, <1>5, MoveStep
<1>6. CASE Launch
  BY <1>0, <1>6, LaunchStep
<1> QED BY <1>2, <1>3, <1>4, <1>5, <1>6 DEF Next

LEMMA LedgerInvariant == Spec => []LedgerKept
<1>1. Init => LedgerKept
  BY InitKept
<1>2. LedgerKept /\ [Next]_vars => LedgerKept'
  BY StepKept
<1> QED BY <1>1, <1>2, PTL DEF Spec

(***************************************************************************)
(* Until a rank has failed and the pool is poisoned, every rank and every  *)
(* move finds the tensor it was passed in the store, whatever the program  *)
(* copies, drops or discards while calls are on their way: the leases of a *)
(* call keep a handle of each argument alive until the call is settled,    *)
(* and a live handle keeps its tensor counted, although increments and     *)
(* decrements are not awaited and go through another mailbox than the      *)
(* call.                                                                   *)
(***************************************************************************)
THEOREM TensorsAreThere == Spec => []TensorsThere
<1>1. LedgerKept => TensorsThere
  BY DEF LedgerKept, Inv
<1> QED BY <1>1, LedgerInvariant, PTL

-----------------------------------------------------------------------------
(***************************************************************************)
(* The counts, from the ledger.                                            *)
(***************************************************************************)
LEMMA OneToOne ==
  ASSUME NEW S, NEW T, IsFiniteSet(T), NEW f \in [S -> T],
         \A x, y \in S : f[x] = f[y] => x = y,
         \A t \in T : \E x \in S : f[x] = t
  PROVE  Cardinality(S) = Cardinality(T)
<1>1. f \in Injection(S, T)
  BY DEF Injection, IsInjective
<1>2. f \in Surjection(S, T)
  BY DEF Surjection
<1> QED BY <1>1, <1>2, FS_Injection

LEMMA Balance ==
  ASSUME NEW A, NEW D, NEW U, NEW I, IsFiniteSet(A), IsFiniteSet(D), IsFiniteSet(U),
         A \cap D = {}, (A \cup D) \cap U = {}, I \subseteq A \cup D
  PROVE  Cardinality(((A \cup D) \cup U) \ I) + Cardinality(I) - Cardinality(D)
           = Cardinality(A) + Cardinality(U)
<1> DEFINE R == (A \cup D) \cup U
<1>1. IsFiniteSet(A \cup D) /\ Cardinality(A \cup D) = Cardinality(A) + Cardinality(D) - 0
  BY FS_Union, FS_EmptySet
<1>2. IsFiniteSet(R) /\ Cardinality(R) = Cardinality(A \cup D) + Cardinality(U) - 0
  BY <1>1, FS_Union, FS_EmptySet
<1>3. I \subseteq R /\ R \cap I = I
  OBVIOUS
<1>4. IsFiniteSet(I)
  BY <1>2, <1>3, FS_Subset
<1>5. Cardinality(R \ I) = Cardinality(R) - Cardinality(I)
  BY <1>2, <1>3, FS_Difference
<1>6. Cardinality(A) \in Nat /\ Cardinality(D) \in Nat /\ Cardinality(U) \in Nat
      /\ Cardinality(I) \in Nat /\ Cardinality(R) \in Nat
  BY <1>2, <1>4, FS_CardinalityType
<1> HIDE DEF R
<1>7. Cardinality(R \ I) + Cardinality(I) - Cardinality(D) = Cardinality(A) + Cardinality(U)
  BY <1>1, <1>2, <1>5, <1>6
<1> QED BY <1>7 DEF R

Change(op, k, c) == [op |-> op, key |-> k, copy |-> c]
Changed(box, op, k) == {c \in 0 .. MaxCopies : In(box, Change(op, k, c))}

\* A position of a change names one of the copies changed.
LEMMA ChangeAt ==
  ASSUME Types, NEW home, CountsKept(home, mailbox, puts, copies), NEW k \in Key,
         NEW op \in {"incref", "decref"}, NEW p \in Changes(op, k)
  PROVE  /\ p[1] = home[k] /\ p[2] \in 1 .. Len(mailbox[p[1]]) /\ p = <<p[1], p[2]>>
         /\ mailbox[p[1]][p[2]].copy \in 0 .. MaxCopies
         /\ mailbox[p[1]][p[2]] = Change(op, k, mailbox[p[1]][p[2]].copy)
<1>0. PICK w \in Worker :
        \E i \in DOMAIN mailbox[w] : p = <<w, i>> /\ mailbox[w][i].op = op /\ mailbox[w][i].key = k
  BY DEF Changes
<1>1. PICK i \in DOMAIN mailbox[w] :
        p = <<w, i>> /\ mailbox[w][i].op = op /\ mailbox[w][i].key = k
  BY <1>0
<1>2. mailbox[w] \in Seq(Message)
  BY DEF Types
<1> PICK m : m = mailbox[w][i]
  OBVIOUS
<1>3. i \in 1 .. Len(mailbox[w]) /\ m \in Message
  BY <1>2
<1>4. m \in Counts
  <2>1. m \notin Tasks
    BY <1>1 DEF Tasks, Task
  <2>2. m \notin Ends
    BY <1>1 DEF Ends, Receive, Send
  <2> QED BY <1>3, <2>1, <2>2 DEF Message
<1>5. m.copy \in Nat /\ m = Change(op, k, m.copy)
  BY <1>1, <1>4 DEF Counts, Inc, Dec, Change
<1>6. In(mailbox[w], m)
  BY <1>3 DEF In
<1>7. m = Inc(k, m.copy) \/ m = Dec(k, m.copy)
  BY <1>5 DEF Inc, Dec, Change
<1>8. w = home[k] /\ m.copy <= copies
  BY <1>5, <1>6, <1>7 DEF CountsKept
<1>9. m.copy \in 0 .. MaxCopies
  BY <1>5, <1>8, CallsAssumption DEF Types
<1> QED BY <1>1, <1>3, <1>5, <1>8, <1>9

LEMMA ChangesCounted ==
  ASSUME Types, NEW home \in [Key -> Worker], CountsKept(home, mailbox, puts, copies), NEW k \in Key,
         NEW op \in {"incref", "decref"}
  PROVE  Cardinality(Changes(op, k)) = Cardinality(Changed(mailbox[home[k]], op, k))
<1> DEFINE S == Changes(op, k)
           w == home[k]
           T == Changed(mailbox[w], op, k)
           f == [p \in S |-> mailbox[p[1]][p[2]].copy]
<1>0. w \in Worker /\ mailbox[w] \in Seq(Message)
  BY DEF Types
<1>1. \A p \in S : /\ p[1] = w /\ p[2] \in 1 .. Len(mailbox[w]) /\ p = <<p[1], p[2]>>
                   /\ mailbox[w][p[2]].copy \in 0 .. MaxCopies
                   /\ mailbox[w][p[2]] = Change(op, k, mailbox[w][p[2]].copy)
                   /\ f[p] = mailbox[w][p[2]].copy
  BY ChangeAt
<1>2. \A p \in S : f[p] \in T
  BY <1>1 DEF Changed, In
<1>3. f \in [S -> T]
  BY <1>2
<1>4. ASSUME NEW p \in S, NEW q \in S, f[p] = f[q] PROVE p = q
  <2> PICK c : c = f[p]
    OBVIOUS
  <2> PICK i, j : i = p[2] /\ j = q[2]
    OBVIOUS
  <2>1. /\ i \in 1 .. Len(mailbox[w]) /\ j \in 1 .. Len(mailbox[w]) /\ c \in Nat
        /\ mailbox[w][i] = Change(op, k, c) /\ mailbox[w][j] = Change(op, k, c)
        /\ p = <<w, i>> /\ q = <<w, j>>
    BY <1>1, <1>4
  <2>2. ~Lt(mailbox[w], Change(op, k, c), Change(op, k, c))
    BY <1>0, <2>1 DEF CountsKept, Inc, Dec, Change
  <2>3. ~(i < j) /\ ~(j < i)
    BY <2>1, <2>2 DEF Lt
  <2>4. i = j
    BY <2>1, <2>3
  <2> QED BY <2>1, <2>4
<1>5. ASSUME NEW c \in T PROVE \E p \in S : f[p] = c
  <2>1. PICK i \in 1 .. Len(mailbox[w]) : mailbox[w][i] = Change(op, k, c)
    BY DEF Changed, In
  <2>2. <<w, i>> \in S
    BY <1>0, <2>1 DEF Changes, Change
  <2>3. f[<<w, i>>] = c
    BY <2>1, <2>2 DEF Change
  <2> QED BY <2>2, <2>3
<1>6. IsFiniteSet(T)
  <2>1. IsFiniteSet(0 .. MaxCopies)
    BY CallsAssumption, FS_Interval
  <2>2. T \in SUBSET (0 .. MaxCopies)
    BY DEF Changed
  <2> QED BY <2>1, <2>2, FS_Subset
<1> HIDE DEF S, T, f
<1>7. Cardinality(S) = Cardinality(T)
  BY <1>3, <1>4, <1>5, <1>6, OneToOne
<1> QED BY <1>7 DEF S, T

Copies(hs, k) == {c \in 0 .. MaxCopies : Alive(hs, k, c)}

LEMMA ReferencesCounted ==
  ASSUME Types, NEW home, HandlesKept(home, handles, puts, copies), NEW k \in Key
  PROVE  Cardinality(References(k)) = Cardinality(Copies(handles, k))
<1> DEFINE S == References(k)
           T == Copies(handles, k)
           f == [h \in S |-> h.copy]
<1>1. \A h \in S : h \in handles /\ h.key = k /\ h.copy \in 0 .. MaxCopies
  <2> SUFFICES ASSUME NEW h \in S PROVE h \in handles /\ h.key = k /\ h.copy \in 0 .. MaxCopies
    OBVIOUS
  <2>1. h \in handles /\ h.key = k
    BY DEF References
  <2>2. h.copy \in Nat
    BY <2>1 DEF Types, Handles
  <2>3. h.copy <= copies /\ copies \in 0 .. MaxCopies
    BY <2>1 DEF Types, HandlesKept
  <2> QED BY <2>1, <2>2, <2>3, CallsAssumption
<1>2. \A h \in S : f[h] \in T
  BY <1>1 DEF Copies, Alive
<1>3. f \in [S -> T]
  BY <1>2
<1>4. ASSUME NEW h \in S, NEW g \in S, f[h] = f[g] PROVE h = g
  BY <1>1, <1>4 DEF HandlesKept, Same
<1>5. ASSUME NEW c \in T PROVE \E h \in S : f[h] = c
  BY DEF Copies, Alive, References
<1>6. IsFiniteSet(T)
  <2>1. IsFiniteSet(0 .. MaxCopies)
    BY CallsAssumption, FS_Interval
  <2>2. T \in SUBSET (0 .. MaxCopies)
    BY DEF Copies
  <2> QED BY <2>1, <2>2, FS_Subset
<1> HIDE DEF S, T, f
<1>7. Cardinality(S) = Cardinality(T)
  BY <1>3, <1>4, <1>5, <1>6, OneToOne
<1> QED BY <1>7 DEF S, T

Kept(cs, k) == IF k \in Unbound(cs) THEN {0} ELSE {}

LEMMA UncollectedCounted ==
  ASSUME NEW home, CallsKept(home), NEW k \in Key
  PROVE  Cardinality(Uncollected(k)) = Cardinality(Kept(calls, k))
<1> DEFINE S == Uncollected(k)
<1>0. k[1] \in Devices /\ k # <<>>
  BY NoKey
<1>1. \A c \in S : c \in DOMAIN calls /\ calls[c].outs[k[1]] = k
  BY DEF Uncollected
<1>2. \A c, b \in S : b = c
  <2> SUFFICES ASSUME NEW c \in S, NEW b \in S PROVE b = c
    OBVIOUS
  <2>1. c \in DOMAIN calls /\ b \in DOMAIN calls /\ calls[c].outs[k[1]] = k /\ calls[b].outs[k[1]] = k
    BY <1>1
  <2> QED BY <1>0, <2>1 DEF CallsKept
<1>3. k \in Unbound(calls) <=> S # {}
  BY DEF Unbound, Uncollected
<1>4. CASE S = {}
  BY <1>3, <1>4, FS_EmptySet DEF Kept
<1>5. CASE S # {}
  <2>1. PICK c : c \in S
    BY <1>5
  <2>2. S = {c}
    BY <1>2, <2>1
  <2>3. Kept(calls, k) = {0}
    BY <1>3, <1>5 DEF Kept
  <2> QED BY <2>2, <2>3, FS_Singleton
<1> QED BY <1>4, <1>5

LEMMA CountIs ==
  ASSUME NEW home, StoreKept(home, handles, mailbox, count, Unbound(calls)), NEW k \in Key
  PROVE  CountOf(k) = Cardinality(Units(home, handles, mailbox, Unbound(calls), k))
<1>1. CASE k \in DOMAIN count
  BY <1>1 DEF StoreKept, CountOf
<1>2. CASE k \notin DOMAIN count
  <2>1. Units(home, handles, mailbox, Unbound(calls), k) = {}
    BY <1>2 DEF StoreKept
  <2> QED BY <1>2, <2>1, FS_EmptySet DEF CountOf
<1> QED BY <1>1, <1>2

LEMMA CountBalances ==
  ASSUME NEW home, Inv(home), NEW k \in Key
  PROVE  CountOf(k) + Cardinality(Changes("incref", k)) - Cardinality(Changes("decref", k))
           = Cardinality(References(k)) + Cardinality(Uncollected(k))
<1> DEFINE box == mailbox[home[k]]
           unb == Unbound(calls)
           A == Copies(handles, k)
           D == Changed(box, "decref", k)
           I == Changed(box, "incref", k)
           U == Kept(calls, k)
<1>1. /\ Types /\ home \in [Key -> Worker] /\ CallsKept(home)
      /\ HandlesKept(home, handles, puts, copies) /\ CountsKept(home, mailbox, puts, copies)
      /\ CopiesKept(home, handles, mailbox) /\ UnboundKept(home, handles, mailbox, puts, unb)
      /\ StoreKept(home, handles, mailbox, count, unb)
  BY DEF Inv, Ledger
<1>2. IsFiniteSet(0 .. MaxCopies)
  BY CallsAssumption, FS_Interval
<1>3. IsFiniteSet(A) /\ IsFiniteSet(D)
  <2>1. A \in SUBSET (0 .. MaxCopies) /\ D \in SUBSET (0 .. MaxCopies)
    BY DEF Copies, Changed
  <2> QED BY <1>2, <2>1, FS_Subset
<1>4. IsFiniteSet(U)
  BY FS_EmptySet, FS_Singleton DEF Kept
<1>5. \A c : Change("incref", k, c) = Inc(k, c) /\ Change("decref", k, c) = Dec(k, c)
  BY DEF Change, Inc, Dec
<1>6. \A c : /\ c \in A <=> c \in 0 .. MaxCopies /\ Alive(handles, k, c)
             /\ c \in D <=> c \in 0 .. MaxCopies /\ In(box, Dec(k, c))
             /\ c \in I <=> c \in 0 .. MaxCopies /\ In(box, Inc(k, c))
  BY <1>5 DEF Copies, Changed
<1>7. A \cap D = {}
  BY <1>1, <1>6 DEF CopiesKept
<1>8. (A \cup D) \cap U = {}
  BY <1>1, <1>6 DEF UnboundKept, Kept
<1>9. I \subseteq A \cup D
  <2> SUFFICES ASSUME NEW c \in I PROVE c \in A \cup D
    OBVIOUS
  <2>1. c \in 0 .. MaxCopies /\ c \in Nat /\ In(box, Inc(k, c))
    BY <1>6, CallsAssumption
  <2>2. Alive(handles, k, c) \/ Lt(box, Inc(k, c), Dec(k, c))
    BY <1>1, <2>1 DEF CopiesKept
  <2>3. Lt(box, Inc(k, c), Dec(k, c)) => In(box, Dec(k, c))
    BY DEF Lt, In
  <2> QED BY <1>6, <2>1, <2>2, <2>3
<1>10. Units(home, handles, mailbox, unb, k) = ((A \cup D) \cup U) \ I
  <2>1. \A c : c \in Units(home, handles, mailbox, unb, k)
                 <=> c \in 0 .. MaxCopies /\ InStore(home, handles, mailbox, unb, k, c)
    BY DEF Units
  <2>2. \A c : c \in U <=> c = 0 /\ k \in unb
    BY DEF Kept
  <2>3. 0 \in 0 .. MaxCopies
    BY CallsAssumption
  <2>4. \A c : InStore(home, handles, mailbox, unb, k, c) <=>
                 /\ Alive(handles, k, c) \/ In(box, Dec(k, c)) \/ (c = 0 /\ k \in unb)
                 /\ ~In(box, Inc(k, c))
    BY DEF InStore
  <2> HIDE DEF A, D, I, U, unb, box
  <2> QED BY <1>6, <2>1, <2>2, <2>3, <2>4
<1>11. CountOf(k) = Cardinality(((A \cup D) \cup U) \ I)
  BY <1>1, <1>10, CountIs
<1>12. /\ Cardinality(Changes("incref", k)) = Cardinality(I)
       /\ Cardinality(Changes("decref", k)) = Cardinality(D)
  BY <1>1, ChangesCounted
<1>13. Cardinality(References(k)) = Cardinality(A)
  BY <1>1, ReferencesCounted
<1>14. Cardinality(Uncollected(k)) = Cardinality(U)
  BY <1>1, UncollectedCounted
<1> HIDE DEF A, D, I, U, unb, box
<1>15. Cardinality(((A \cup D) \cup U) \ I) + Cardinality(I) - Cardinality(D)
         = Cardinality(A) + Cardinality(U)
  BY <1>3, <1>4, <1>7, <1>8, <1>9, Balance
<1> QED BY <1>11, <1>12, <1>13, <1>14, <1>15

(***************************************************************************)
(* The count that the store keeps of a tensor, with the changes that are   *)
(* still in the mailboxes, is the number of handles alive and of results   *)
(* not yet bound: nothing is freed while it is referred to, and nothing    *)
(* stays that is not, except the results of a failed call, whose pool has  *)
(* been given up.                                                          *)
(***************************************************************************)
THEOREM CountsAreExact == Spec => []CountsExact
<1>1. ASSUME LedgerKept PROVE CountsExact
  <2>1. PICK home : Inv(home)
    BY <1>1 DEF LedgerKept
  <2>2. Types /\ CallsKept(home)
    BY <2>1 DEF Inv
  <2> SUFFICES ASSUME NEW d \in Devices, NEW n \in 1 .. puts[d], NEW k, k = <<d, n>>
               PROVE  /\ CountOf(k) + Cardinality(Changes("incref", k)) - Cardinality(Changes("decref", k))
                           = Cardinality(References(k)) + Cardinality(Uncollected(k))
                      /\ ~poisoned => \A c \in Uncollected(k) : calls[c].state # "failed"
    BY DEF CountsExact
  <2>3. puts[d] \in Nat
    BY <2>2 DEF Types
  <2>4. k \in Key
    BY <2>3 DEF Key
  <2>5. CountOf(k) + Cardinality(Changes("incref", k)) - Cardinality(Changes("decref", k))
          = Cardinality(References(k)) + Cardinality(Uncollected(k))
    BY <2>1, <2>4, CountBalances
  <2>6. \A c \in Uncollected(k) : calls[c].state = "failed" => poisoned
    BY <2>2 DEF Uncollected, CallsKept
  <2> QED BY <2>5, <2>6
<1> QED BY <1>1, LedgerInvariant, PTL

-----------------------------------------------------------------------------
(***************************************************************************)
(* The ends of a transfer.                                                 *)
(***************************************************************************)
\* Of the messages, the ends are those that receive or send.
LEMMA EndsAre ==
  ASSUME NEW m \in Message, m.op \in {"recv", "send"}
  PROVE  \E g \in Devices \X Devices : m = Receive(g) \/ m = Send(g)
<1>1. \A k, c : Inc(k, c).op = "incref" /\ Dec(k, c).op = "decref" /\ Task(k, c).op = "call"
  BY DEF Inc, Dec, Task
<1>2. m \notin Counts \cup Tasks
  BY <1>1 DEF Counts, Tasks
<1>3. m \in Ends
  BY <1>2 DEF Message
<1> QED BY <1>3 DEF Ends

\* What the ends in a mailbox are, as long as the invariant holds.
LEMMA EndsIn ==
  ASSUME NEW home, Inv(home), NEW w \in Worker, NEW m,
         NEW group, group = First(frame.groups)
  PROVE  m \in ToSet(mailbox[w]) /\ m.op \in {"recv", "send"} <=>
           /\ frame.waiting
           /\ \/ w = <<group[2], 0>> /\ m = Receive(group)
              \/ w = <<group[1], 0>> /\ m = Send(group)
<1>1. m \in ToSet(mailbox[w]) <=> In(mailbox[w], m)
  <2>1. DOMAIN mailbox[w] = 1 .. Len(mailbox[w])
    BY DEF Inv, Types
  <2> QED BY <2>1 DEF ToSet, In
<1>2. Receive(group).op = "recv" /\ Send(group).op = "send"
  BY DEF Receive, Send
<1>3. ASSUME frame.waiting
      PROVE  \E src, dst \in Worker :
               /\ src = <<group[1], 0>> /\ In(mailbox[src], Send(group))
               /\ dst = <<group[2], 0>> /\ In(mailbox[dst], Receive(group))
               /\ group \in Devices \X Devices
  <2>1. PICK src \in Worker, dst \in Worker, g \in Devices \X Devices :
          /\ src = <<g[1], 0>> /\ In(mailbox[src], Send(g))
          /\ dst = <<g[2], 0>> /\ In(mailbox[dst], Receive(g))
    BY <1>3 DEF Inv, EndsKept, EndsPosted
  <2>2. g = group
    BY <2>1 DEF Inv, EndsKept, EndsApart
  <2> QED BY <2>1, <2>2
<1>4. ASSUME In(mailbox[w], m), m.op \in {"recv", "send"}
      PROVE  /\ frame.waiting
             /\ \/ w = <<group[2], 0>> /\ m = Receive(group)
                \/ w = <<group[1], 0>> /\ m = Send(group)
  <2>1. m \in Message
    BY <1>4 DEF Inv, Types, In
  <2>2. PICK f \in Devices \X Devices : m = Receive(f) \/ m = Send(f)
    BY <1>4, <2>1, EndsAre
  <2>3. frame.waiting /\ f = group
    BY <1>4, <2>2 DEF Inv, EndsKept, EndsApart
  <2>4. PICK src \in Worker, dst \in Worker :
          /\ src = <<group[1], 0>> /\ In(mailbox[src], Send(group))
          /\ dst = <<group[2], 0>> /\ In(mailbox[dst], Receive(group))
    BY <1>3, <2>3
  <2>5. CASE m = Receive(group)
    <3>1. w = dst
      BY <1>4, <2>2, <2>3, <2>4, <2>5 DEF Inv, EndsKept, EndsApart
    <3> QED BY <2>3, <2>4, <2>5, <3>1
  <2>6. CASE m = Send(group)
    <3>1. w = src
      BY <1>4, <2>2, <2>3, <2>4, <2>6 DEF Inv, EndsKept, EndsApart
    <3> QED BY <2>3, <2>4, <2>6, <3>1
  <2> QED BY <2>2, <2>3, <2>5, <2>6
<1> QED BY <1>1, <1>2, <1>3, <1>4

(***************************************************************************)
(* Only the two ends of the transfer that the driver waits for make a      *)
(* worker wait for another, and while the driver waits both are posted: as *)
(* everything before them in the two mailboxes is served without waiting,  *)
(* the transfer comes to pass, however the tensors of a call lie on the    *)
(* devices.                                                                *)
(***************************************************************************)
THEOREM TransfersMeet == Spec => []EndsMeet
<1>1. ASSUME LedgerKept PROVE EndsMeet
  <2>1. PICK home : Inv(home)
    BY <1>1 DEF LedgerKept
  <2>2. PICK group : group = First(frame.groups)
    OBVIOUS
  <2>3. frame.waiting => group[1] # group[2]
    <3> SUFFICES ASSUME frame.waiting PROVE group[1] # group[2]
      OBVIOUS
    <3>1. frame \in Frames /\ frame # Idle /\ frame.groups # {}
      BY <2>1 DEF Inv, FrameKept, Idle
    <3>2. group \in frame.groups
      BY <2>2, <3>1, FirstGroup DEF Frames
    <3> QED BY <2>1, <3>1, <3>2 DEF Inv, FrameKept
  <2>4. ASSUME NEW w \in Worker
        PROVE  {m \in ToSet(mailbox[w]) : m.op \in {"recv", "send"}} =
                 IF frame.waiting /\ w = <<group[2], 0>> THEN {Receive(group)}
                 ELSE IF frame.waiting /\ w = <<group[1], 0>> THEN {Send(group)}
                 ELSE {}
    <3>1. \A m : m \in ToSet(mailbox[w]) /\ m.op \in {"recv", "send"} <=>
             /\ frame.waiting
             /\ \/ w = <<group[2], 0>> /\ m = Receive(group)
                \/ w = <<group[1], 0>> /\ m = Send(group)
      BY <2>1, <2>2, EndsIn
    <3>2. ~(w = <<group[2], 0>> /\ w = <<group[1], 0>> /\ frame.waiting)
      BY <2>3
    <3> QED BY <3>1, <3>2
  <2> QED BY <2>2, <2>4 DEF EndsMeet
<1> QED BY <1>1, LedgerInvariant, PTL
=============================================================================
