------------------------- MODULE QueuePlayerProofs -------------------------
(***************************************************************************)
(* What the abstract player promises holds of it, for any number of songs: *)
(* and with it, of everything that implements it.                          *)
(***************************************************************************)
EXTENDS QueuePlayer, SequenceTheorems, TLAPS

-----------------------------------------------------------------------------
(***************************************************************************)
(* Sequences.                                                              *)
(***************************************************************************)
\* RemoveAt takes one element out and keeps the order of the others.
LEMMA RemoveAtProperties ==
  ASSUME NEW S, NEW s \in Seq(S), NEW k \in 1..Len(s)
  PROVE  /\ RemoveAt(s, k) \in Seq(S)
         /\ Len(RemoveAt(s, k)) = Len(s) - 1
         /\ \A j \in 1..(Len(s) - 1) : RemoveAt(s, k)[j] = IF j < k THEN s[j] ELSE s[j + 1]
<1> DEFINE n == Len(s)
           a == SubSeq(s, 1, k - 1)
           b == SubSeq(s, k + 1, n)
<1>1. n \in Nat /\ k \in 1..n /\ \A j \in 1..n : s[j] \in S
  BY LenProperties, ElementOfSeq
<1> HIDE DEF n
<1>2. a \in Seq(S) /\ Len(a) = k - 1 /\ \A j \in 1..(k - 1) : a[j] = s[j]
  <2>1. \A j \in 1..(k - 1) : s[j] \in S
    BY <1>1
  <2>2. /\ a \in Seq(S) /\ Len(a) = IF 1 <= k - 1 THEN (k - 1) - 1 + 1 ELSE 0
        /\ \A j \in 1..((k - 1) - 1 + 1) : a[j] = s[1 + j - 1]
    BY <2>1, <1>1, SubSeqProperties
  <2> QED
    BY <2>2, <1>1
<1>3. b \in Seq(S) /\ Len(b) = n - k /\ \A j \in 1..(n - k) : b[j] = s[k + j]
  <2>1. \A j \in (k + 1)..n : s[j] \in S
    BY <1>1
  <2>2. /\ b \in Seq(S) /\ Len(b) = IF k + 1 <= n THEN n - (k + 1) + 1 ELSE 0
        /\ \A j \in 1..(n - (k + 1) + 1) : b[j] = s[(k + 1) + j - 1]
    BY <2>1, <1>1, SubSeqProperties
  <2> HIDE DEF b
  <2>3. ASSUME NEW j \in 1..(n - k) PROVE b[j] = s[k + j]
    <3>1. j \in 1..(n - (k + 1) + 1) /\ (k + 1) + j - 1 = k + j
      BY <1>1
    <3> QED
      BY <3>1, <2>2
  <2>4. Len(b) = n - k
    BY <2>2, <1>1
  <2> QED
    BY <2>2, <2>3, <2>4
<1> HIDE DEF a, b
<1>4. /\ a \o b \in Seq(S) /\ Len(a \o b) = Len(a) + Len(b)
      /\ \A j \in 1..(Len(a) + Len(b)) : (a \o b)[j] = IF j <= Len(a) THEN a[j] ELSE b[j - Len(a)]
  BY <1>2, <1>3, ConcatProperties
<1> DEFINE u == a \o b
<1>5. /\ u \in Seq(S) /\ Len(u) = n - 1
      /\ \A j \in 1..(n - 1) : u[j] = IF j <= k - 1 THEN a[j] ELSE b[j - (k - 1)]
  <2>1. Len(a) + Len(b) = n - 1
    BY <1>1, <1>2, <1>3
  <2> QED
    BY <2>1, <1>2, <1>4
<1> HIDE DEF u
<1>6. ASSUME NEW j \in 1..(n - 1) PROVE u[j] = IF j < k THEN s[j] ELSE s[j + 1]
  <2>1. CASE j < k
    <3>1. j \in 1..(k - 1) /\ j <= k - 1
      BY <2>1, <1>1
    <3> QED
      BY <3>1, <2>1, <1>2, <1>5
  <2>2. CASE ~(j < k)
    <3>1. j - (k - 1) \in 1..(n - k) /\ k + (j - (k - 1)) = j + 1 /\ ~(j <= k - 1)
      BY <2>2, <1>1
    <3> QED
      BY <3>1, <2>2, <1>3, <1>5
  <2> QED
    BY <2>1, <2>2
<1>7. RemoveAt(s, k) = u
  BY DEF RemoveAt, a, b, n, u
<1> QED
  BY <1>5, <1>6, <1>7 DEF n

\* To take the first element is to remove it.
LEMMA TailIsRemoveAt ==
  ASSUME NEW S, NEW s \in Seq(S), s # <<>> PROVE Tail(s) = RemoveAt(s, 1)
<1>1. SubSeq(s, 1, 0) = <<>>
  BY SubSeqEmpty
<1>2. Tail(s) = SubSeq(s, 2, Len(s)) /\ Tail(s) \in Seq(S)
  BY TailIsSubSeq, HeadTailProperties
<1>3. RemoveAt(s, 1) = <<>> \o Tail(s)
  BY <1>1, <1>2 DEF RemoveAt
<1> QED
  BY <1>2, <1>3, ConcatEmptySeq

\* No element comes twice.
Distinct(s) == \A i, j \in DOMAIN s : s[i] = s[j] => i = j

\* Two sequences without a common element, one after the other.
LEMMA ConcatOnce ==
  ASSUME NEW s \in Seq(Nat), NEW t \in Seq(Nat), Distinct(s), Distinct(t), In(s) \cap In(t) = {}
  PROVE  s \o t \in Seq(Nat) /\ Distinct(s \o t) /\ In(s \o t) = In(s) \cup In(t)
<1>1. /\ s \o t \in Seq(Nat) /\ Len(s \o t) = Len(s) + Len(t)
      /\ \A i \in 1..(Len(s) + Len(t)) : (s \o t)[i] = IF i <= Len(s) THEN s[i] ELSE t[i - Len(s)]
  BY ConcatProperties
<1>2. /\ Len(s) \in Nat /\ DOMAIN s = 1..Len(s) /\ Len(t) \in Nat /\ DOMAIN t = 1..Len(t)
      /\ DOMAIN (s \o t) = 1..(Len(s) + Len(t))
  BY <1>1, LenProperties
<1> DEFINE u == s \o t
<1>3. \A i \in DOMAIN u : \/ i \in DOMAIN s /\ u[i] = s[i]
                          \/ i - Len(s) \in DOMAIN t /\ u[i] = t[i - Len(s)]
  BY <1>1, <1>2
<1>4. /\ \A i \in DOMAIN s : i \in DOMAIN u /\ u[i] = s[i]
      /\ \A i \in DOMAIN t : i + Len(s) \in DOMAIN u /\ u[i + Len(s)] = t[i]
  BY <1>1, <1>2
<1> HIDE DEF u
<1>5. \A i \in DOMAIN s, j \in DOMAIN t : s[i] # t[j]
  BY DEF In
<1>6. Distinct(u)
  <2> SUFFICES ASSUME NEW i \in DOMAIN u, NEW j \in DOMAIN u, u[i] = u[j] PROVE i = j
    BY DEF Distinct
  <2> i \in Int /\ j \in Int /\ Len(s) \in Int
    BY <1>2 DEF u
  <2>1. CASE i \in DOMAIN s /\ u[i] = s[i] /\ j \in DOMAIN s /\ u[j] = s[j]
    BY <2>1 DEF Distinct
  <2>2. CASE /\ i - Len(s) \in DOMAIN t /\ u[i] = t[i - Len(s)]
             /\ j - Len(s) \in DOMAIN t /\ u[j] = t[j - Len(s)]
    <3>1. i - Len(s) = j - Len(s)
      BY <2>2 DEF Distinct
    <3> QED
      BY <3>1
  <2> QED
    BY <2>1, <2>2, <1>3, <1>5
<1>7. In(u) = In(s) \cup In(t)
  BY <1>3, <1>4 DEF In
<1> QED
  BY <1>1, <1>6, <1>7 DEF u

\* One element less.
LEMMA RemoveOnce ==
  ASSUME NEW s \in Seq(Nat), NEW k \in DOMAIN s, Distinct(s)
  PROVE  /\ RemoveAt(s, k) \in Seq(Nat) /\ Distinct(RemoveAt(s, k))
         /\ In(RemoveAt(s, k)) = In(s) \ {s[k]}
<1> DEFINE u == RemoveAt(s, k)
           n == Len(s)
<1>1. n \in Nat /\ DOMAIN s = 1..n /\ k \in 1..n
  BY LenProperties
<1>2. /\ u \in Seq(Nat) /\ Len(u) = n - 1
      /\ \A j \in 1..(n - 1) : u[j] = IF j < k THEN s[j] ELSE s[j + 1]
  BY <1>1, RemoveAtProperties
<1> HIDE DEF u, n
<1>3. DOMAIN u = 1..(n - 1)
  BY <1>1, <1>2, LenProperties
<1>4. ASSUME NEW i \in DOMAIN u, NEW j \in DOMAIN u, u[i] = u[j] PROVE i = j
  <2> DEFINE f(m) == IF m < k THEN m ELSE m + 1
  <2>1. ASSUME NEW m \in DOMAIN u PROVE f(m) \in DOMAIN s /\ u[m] = s[f(m)]
    <3>1. f(m) \in 1..n
      BY <1>1, <1>3
    <3>2. u[m] = IF m < k THEN s[m] ELSE s[m + 1]
      BY <1>2, <1>3
    <3> QED
      BY <3>1, <3>2, <1>1
  <2>2. f(i) = f(j)
    <3> HIDE DEF f
    <3> QED
      BY <2>1, <1>4 DEF Distinct
  <2> QED
    BY <2>2, <1>1, <1>3
<1>5. In(u) \subseteq In(s) \ {s[k]}
  <2> SUFFICES ASSUME NEW j \in DOMAIN u PROVE u[j] \in In(s) \ {s[k]}
    BY DEF In
  <2>1. PICK m \in DOMAIN s : m # k /\ u[j] = s[m]
    <3>1. CASE j < k
      BY <3>1, <1>1, <1>2, <1>3
    <3>2. CASE j >= k
      <4>1. j + 1 \in DOMAIN s /\ j + 1 # k /\ u[j] = s[j + 1]
        BY <3>2, <1>1, <1>2, <1>3
      <4> QED
        BY <4>1
    <3> QED
      BY <3>1, <3>2, <1>1, <1>3
  <2> QED
    BY <2>1 DEF In, Distinct
<1>6. In(s) \ {s[k]} \subseteq In(u)
  <2> SUFFICES ASSUME NEW m \in DOMAIN s, m # k PROVE s[m] \in In(u)
    BY DEF In
  <2>1. CASE m < k
    <3>1. m \in DOMAIN u /\ u[m] = s[m]
      BY <2>1, <1>1, <1>2, <1>3
    <3> QED
      BY <3>1 DEF In
  <2>2. CASE m > k
    <3>1. m - 1 \in DOMAIN u /\ u[m - 1] = s[m]
      BY <2>2, <1>1, <1>2, <1>3
    <3> QED
      BY <3>1 DEF In
  <2> QED
    BY <2>1, <2>2, <1>1
<1> QED
  BY <1>2, <1>4, <1>5, <1>6 DEF u, Distinct

-----------------------------------------------------------------------------
(***************************************************************************)
(* The player.                                                             *)
(***************************************************************************)
\* The inductive invariant: songs are numbers, and none is lost or doubled.
Kept == /\ waiting \in Seq(Nat) /\ playing \in Nat /\ arrived \in Nat
        /\ Conserved

LEMMA KeptInit == Init => Kept
<1> SUFFICES ASSUME Init PROVE Kept
  OBVIOUS
<1>1. DOMAIN waiting = {} /\ waiting \in Seq(Nat) /\ 1..0 = {}
  BY EmptySeq DEF Init
<1> QED
  BY <1>1 DEF Init, Kept, Conserved, In, Playing

LEMMA KeptArrive ==
  ASSUME Kept, NEW n \in Nat, NEW first \in BOOLEAN, Arrive(n, first) PROVE Kept'
<1> DEFINE new == [i \in 1..n |-> arrived + i]
<1>1. new \in Seq(Nat) /\ DOMAIN new = 1..n /\ Distinct(new)
  BY DEF Kept, Distinct
<1>2. In(new) = (arrived + 1)..(arrived + n)
  <2>1. ASSUME NEW m \in (arrived + 1)..(arrived + n) PROVE m \in In(new)
    <3>1. m - arrived \in 1..n /\ new[m - arrived] = m
      BY DEF Kept
    <3> QED
      BY <3>1, <1>1 DEF In
  <2>2. ASSUME NEW i \in 1..n PROVE new[i] \in (arrived + 1)..(arrived + n)
    BY DEF Kept
  <2> QED
    BY <2>1, <2>2, <1>1 DEF In
<1> HIDE DEF new
<1>3. 1..(arrived + n) = (1..arrived) \cup In(new) /\ (1..arrived) \cap In(new) = {}
  BY <1>2 DEF Kept
<1>4. In(waiting) \cap In(new) = {} /\ Distinct(waiting) /\ waiting \in Seq(Nat)
  BY <1>3 DEF Kept, Conserved, Distinct
<1>5. waiting' \in Seq(Nat) /\ Distinct(waiting') /\ In(waiting') = In(waiting) \cup In(new)
  <2>1. CASE waiting' = new \o waiting
    BY <2>1, <1>1, <1>4, ConcatOnce
  <2>2. CASE waiting' = waiting \o new
    BY <2>2, <1>1, <1>4, ConcatOnce
  <2> QED
    BY <2>1, <2>2 DEF Arrive, new
<1>6. playing \notin In(new)
  BY <1>2, <1>3 DEF Kept, Conserved, Playing
<1>7. arrived' = arrived + n /\ arrived' \in Nat /\ playing' = playing /\ out' = out
  BY DEF Arrive, Kept
<1>8. In(new) \cap out = {}
  BY <1>3 DEF Kept, Conserved
<1> QED
  BY <1>3, <1>5, <1>6, <1>7, <1>8 DEF Kept, Conserved, Distinct, In, Playing

LEMMA KeptShuffle == Kept /\ Shuffle => Kept'
<1> SUFFICES ASSUME Kept, Shuffle PROVE Kept'
  OBVIOUS
<1>1. PICK p \in Bijection(DOMAIN waiting, DOMAIN waiting) :
        waiting' = [i \in DOMAIN waiting |-> waiting[p[i]]]
  BY DEF Shuffle
<1>2. /\ p \in [DOMAIN waiting -> DOMAIN waiting]
      /\ \A i, j \in DOMAIN waiting : p[i] = p[j] => i = j
      /\ \A j \in DOMAIN waiting : \E i \in DOMAIN waiting : p[i] = j
  BY DEF Bijection, Injection, Surjection, IsInjective
<1>3. Len(waiting) \in Nat /\ DOMAIN waiting = 1..Len(waiting) /\ waiting \in [1..Len(waiting) -> Nat]
  BY LenProperties DEF Kept
<1>4. waiting' \in Seq(Nat)
  BY <1>1, <1>2, <1>3
<1>5. Distinct(waiting') /\ In(waiting') = In(waiting)
  <2>1. DOMAIN waiting' = DOMAIN waiting /\ \A i \in DOMAIN waiting : waiting'[i] = waiting[p[i]]
    BY <1>1
  <2>2. Distinct(waiting)
    BY DEF Kept, Conserved, Distinct
  <2>3. ASSUME NEW i \in DOMAIN waiting, NEW j \in DOMAIN waiting, waiting'[i] = waiting'[j]
        PROVE  i = j
    <3>1. p[i] \in DOMAIN waiting /\ p[j] \in DOMAIN waiting /\ waiting[p[i]] = waiting[p[j]]
      BY <2>1, <2>3, <1>2
    <3>2. p[i] = p[j]
      BY <3>1, <2>2 DEF Distinct
    <3> QED
      BY <3>2, <1>2
  <2>4. \A i \in DOMAIN waiting : waiting'[i] \in In(waiting) /\ waiting[i] \in In(waiting')
    BY <2>1, <1>2 DEF In
  <2> QED
    BY <2>1, <2>3, <2>4 DEF Distinct, In
<1> QED
  BY <1>4, <1>5 DEF Kept, Conserved, Shuffle, Distinct, Playing

LEMMA KeptTakeOut ==
  ASSUME Kept, NEW i \in DOMAIN waiting, TakeOut(i) PROVE Kept'
<1>1. waiting' \in Seq(Nat) /\ Distinct(waiting') /\ In(waiting') = In(waiting) \ {waiting[i]}
  BY RemoveOnce DEF Kept, Conserved, Distinct, TakeOut
<1>2. waiting[i] \in In(waiting)
  BY DEF In
<1> QED
  BY <1>1, <1>2 DEF Kept, Conserved, TakeOut, Distinct, Playing

LEMMA KeptPlay == Kept /\ Play => Kept'
<1> SUFFICES ASSUME Kept, Play PROVE Kept'
  OBVIOUS
<1>1. /\ waiting \in Seq(Nat) /\ waiting # <<>> /\ Len(waiting) \in Nat
      /\ DOMAIN waiting = 1..Len(waiting) /\ 1 \in DOMAIN waiting
  BY EmptySeq, LenProperties DEF Kept, Play
<1>2. Tail(waiting) = RemoveAt(waiting, 1)
  BY <1>1, TailIsRemoveAt
<1>3. waiting' \in Seq(Nat) /\ Distinct(waiting') /\ In(waiting') = In(waiting) \ {waiting[1]}
  <2>1. Distinct(waiting) /\ waiting' = RemoveAt(waiting, 1)
    BY <1>2 DEF Kept, Conserved, Distinct, Play
  <2> QED
    BY <2>1, <1>1, RemoveOnce
<1>4. playing' = waiting[1] /\ waiting[1] \in In(waiting) /\ playing = 0 /\ waiting[1] \in Nat
  BY <1>1, ElementOfSeq DEF In, Play
<1>5. waiting[1] # 0
  BY <1>4 DEF Kept, Conserved
<1> QED
  BY <1>3, <1>4, <1>5 DEF Kept, Conserved, Play, Distinct, Playing

LEMMA KeptFinish == Kept /\ Finish => Kept'
BY DEF Kept, Conserved, Finish, Playing, In

LEMMA KeptClose == Kept /\ Close => Kept'
<1> SUFFICES ASSUME Kept, Close PROVE Kept'
  OBVIOUS
<1>1. waiting' \in Seq(Nat) /\ DOMAIN waiting' = {}
  BY EmptySeq DEF Close
<1>2. In(waiting') = {}
  BY <1>1 DEF In
<1> QED
  BY <1>1, <1>2 DEF Kept, Conserved, Close, Playing

LEMMA KeptStep == ASSUME MaxBatch \in Nat PROVE Kept /\ [Next]_vars => Kept'
<1> SUFFICES ASSUME Kept, [Next]_vars PROVE Kept'
  OBVIOUS
<1>1. CASE UNCHANGED vars
  BY <1>1 DEF vars, Kept, Conserved, In, Playing
<1>2. ASSUME NEW n \in 0..MaxBatch, NEW first \in BOOLEAN, Arrive(n, first) PROVE Kept'
  BY <1>2, KeptArrive
<1>3. ASSUME NEW i \in DOMAIN waiting, TakeOut(i) PROVE Kept'
  BY <1>3, KeptTakeOut
<1> QED
  BY <1>1, <1>2, <1>3, KeptShuffle, KeptPlay, KeptFinish, KeptClose DEF Next

\* No song is lost, doubled or played again once it is out, however many arrive, and in
\* whatever order they are played, shuffled and taken out.
THEOREM NothingLost == ASSUME MaxBatch \in Nat PROVE Spec => []Conserved
<1>1. Init => Kept
  BY KeptInit
<1>2. Kept /\ [Next]_vars => Kept'
  BY KeptStep
<1>3. Kept => Conserved
  BY DEF Kept
<1> QED
  BY <1>1, <1>2, <1>3, PTL DEF Spec
=============================================================================
