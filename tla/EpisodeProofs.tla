--------------------------- MODULE EpisodeProofs ---------------------------
(***************************************************************************)
(* What the operators of module EpisodeBuild do, for every set of spans:   *)
(* sortSpans lists them in order, and Turns has the messages of the chats  *)
(* in their order, each the first time it occurs.                          *)
(*                                                                         *)
(* FlattenSeq is defined by recursion.  What it does is shown by looking   *)
(* at the least length for which it would not.                             *)
(***************************************************************************)
EXTENDS EpisodeBuild, FiniteSetTheorems, SequenceTheorems, WellFoundedInduction, TLAPS

LEMMA LeastNat ==
    ASSUME NEW T, T \subseteq Nat, T # {}
    PROVE  \E n \in T : \A m \in T : n <= m
  <1>1. IsWellFoundedOn(OpToRel(<,Nat), Nat)
    BY NatLessThanWellFounded
  <1>2. PICK n \in T : \A m \in T : <<m, n>> \notin OpToRel(<,Nat)
    BY <1>1, WFMin
  <1>3. \A m \in T : ~(m < n)
    <2> SUFFICES ASSUME NEW m \in T, m < n PROVE FALSE
      OBVIOUS
    <2>1. <<m, n>> \in Nat \X Nat
      OBVIOUS
    <2>2. <<m, n>>[1] = m /\ <<m, n>>[2] = n
      OBVIOUS
    <2>3. <<m, n>>[1] < <<m, n>>[2]
      BY <2>2, Zenon
    <2>4. <<m, n>> \in {ss \in Nat \X Nat : ss[1] < ss[2]}
      BY <2>1, <2>3
    <2>5. OpToRel(<,Nat) = {ss \in Nat \X Nat : ss[1] < ss[2]}
      BY Zenon DEF OpToRel
    <2>6. QED
      BY <1>2, <2>4, <2>5, Zenon
  <1>4. QED
    BY <1>3

-----------------------------------------------------------------------------
(* FlattenSeq.                                                             *)

\* f[i] is the first i sequences of ss, joined.
Joined(f, ss) == f = [i \in 1..Len(ss) |-> IF i = 1 THEN ss[i] ELSE f[i - 1] \o ss[i]]

LEMMA JoinExists ==
    ASSUME NEW T, NEW ss \in Seq(Seq(T))
    PROVE  \E f : Joined(f, ss)
  <1> DEFINE N == Len(ss)
             Step(f, i) == f[i] = IF i = 1 THEN ss[i] ELSE f[i - 1] \o ss[i]
             Upto(n) == \E f : f = [i \in 1..n |-> f[i]] /\ \A i \in 1..n : Step(f, i)
             Bad == {n \in 1..N : ~Upto(n)}
  <1>1. N \in Nat
    BY LenProperties
  <1>2. ASSUME Bad # {} PROVE FALSE
    <2>1. Bad \subseteq Nat
      BY <1>1
    <2>2. PICK n \in Bad : \A m \in Bad : n <= m
      BY <1>2, <2>1, LeastNat
    <2>3. n \in 1..N /\ ~Upto(n)
      OBVIOUS
    <2> HIDE DEF N
    <2>4. CASE n = 1
      <3> DEFINE f == [i \in 1..1 |-> ss[1]]
      <3>1. f = [i \in 1..1 |-> f[i]] /\ \A i \in 1..1 : Step(f, i)
        OBVIOUS
      <3>2. QED
        BY <2>3, <2>4, <3>1
    <2>5. CASE n # 1
      <3>1. n - 1 \in 1..N /\ n \in Nat /\ ~(n <= n - 1)
        BY <1>1, <2>3, <2>5
      <3>2. Upto(n - 1)
        BY <2>2, <3>1
      <3>3. PICK f : f = [i \in 1..(n - 1) |-> f[i]] /\ \A i \in 1..(n - 1) : Step(f, i)
        BY <3>2
      <3> DEFINE g == [i \in 1..n |-> IF i = n THEN f[n - 1] \o ss[n] ELSE f[i]]
      <3>4. g = [i \in 1..n |-> g[i]]
        OBVIOUS
      <3>5. ASSUME NEW i \in 1..n PROVE Step(g, i)
        <4>1. CASE i = n
          <5>1. i \in 1..n /\ n - 1 \in 1..n /\ n - 1 # n /\ i # 1
            BY <2>5, <3>1, <4>1
          <5>2. g[i] = f[n - 1] \o ss[n] /\ g[i - 1] = f[n - 1]
            BY <4>1, <5>1
          <5>3. QED
            BY <4>1, <5>1, <5>2
        <4>2. CASE i # n
          <5> i \in 1..(n - 1)
            BY <3>1, <4>2
          <5>1. i \in 1..(n - 1) /\ Step(f, i)
            BY <3>3
          <5>2. g[i] = f[i] /\ (i # 1 => i - 1 \in 1..n /\ i - 1 # n /\ g[i - 1] = f[i - 1])
            BY <3>1, <4>2
          <5>3. QED
            BY <5>1, <5>2
        <4>3. QED
          BY <4>1, <4>2
      <3> HIDE DEF g
      <3>6. QED
        BY <2>3, <3>4, <3>5
    <2>6. QED
      BY <2>4, <2>5
  <1>3. CASE N = 0
    <2>1. Joined([i \in 1..0 |-> 0], ss)
      BY <1>3 DEF Joined
    <2>2. QED
      BY <2>1
  <1>4. CASE N # 0
    <2>1. Upto(N)
      <3>1. N \in 1..N
        BY <1>1, <1>4
      <3> HIDE DEF N, Upto
      <3>2. QED
        BY <1>2, <3>1
    <2>2. PICK f : f = [i \in 1..N |-> f[i]] /\ \A i \in 1..N : Step(f, i)
      BY <2>1
    <2>3. Joined(f, ss)
      BY <2>2 DEF Joined
    <2>4. QED
      BY <2>3
  <1>5. QED
    BY <1>3, <1>4

LEMMA JoinedAre ==
    ASSUME NEW T, NEW ss \in Seq(Seq(T)), NEW f, Joined(f, ss)
    PROVE  \A n \in 1..Len(ss) : /\ f[n] \in Seq(T)
                                /\ f[n] = IF n = 1 THEN ss[n] ELSE f[n - 1] \o ss[n]
  <1> DEFINE Bad == {n \in 1..Len(ss) : f[n] \notin Seq(T)}
  <1>1. Len(ss) \in Nat /\ \A n \in 1..Len(ss) : ss[n] \in Seq(T)
    BY LenProperties, ElementOfSeq
  <1>2. \A n \in 1..Len(ss) : f[n] = IF n = 1 THEN ss[n] ELSE f[n - 1] \o ss[n]
    BY DEF Joined
  <1>3. ASSUME Bad # {} PROVE FALSE
    <2>1. Bad \subseteq Nat
      BY <1>1
    <2>2. PICK n \in Bad : \A m \in Bad : n <= m
      BY <1>3, <2>1, LeastNat
    <2>3. CASE n = 1
      BY <1>1, <1>2, <2>3
    <2>4. CASE n # 1
      <3>1. n - 1 \in 1..Len(ss) /\ ~(n <= n - 1)
        BY <1>1, <2>4
      <3>2. f[n - 1] \in Seq(T) /\ ss[n] \in Seq(T)
        BY <1>1, <2>2, <3>1
      <3>3. f[n - 1] \o ss[n] \in Seq(T)
        BY <3>2, ConcatProperties
      <3>4. QED
        BY <1>2, <2>4, <3>3
    <2>5. QED
      BY <2>3, <2>4
  <1>4. QED
    BY <1>2, <1>3

LEMMA FlattenIsJoined ==
    ASSUME NEW T, NEW ss \in Seq(Seq(T)), Len(ss) # 0
    PROVE  \E f : Joined(f, ss) /\ FlattenSeq(ss) = f[Len(ss)]
  <1> DEFINE f == CHOOSE f : Joined(f, ss)
  <1>1. Joined(f, ss)
    BY JoinExists
  <1>2. FlattenSeq(ss) = f[Len(ss)]
    BY DEF FlattenSeq, Joined
  <1>3. QED
    BY <1>1, <1>2

\* How much comes before the n-th sequence.
Offset(f, n) == IF n = 1 THEN 0 ELSE Len(f[n - 1])

LEMMA JoinOne ==
    ASSUME NEW T, NEW ss \in Seq(Seq(T)), NEW f, Joined(f, ss), NEW n \in 1..Len(ss)
    PROVE  /\ Len(f[n]) \in Nat /\ Offset(f, n) \in Nat /\ Len(ss[n]) \in Nat
           /\ Len(f[n]) = Offset(f, n) + Len(ss[n])
           /\ \A m \in 1..Len(ss[n]) : f[n][Offset(f, n) + m] = ss[n][m]
           /\ n # 1 => \A p \in 1..Len(f[n - 1]) : f[n][p] = f[n - 1][p]
  <1>1. Len(ss) \in Nat /\ ss[n] \in Seq(T) /\ f[n] \in Seq(T)
    BY LenProperties, ElementOfSeq, JoinedAre
  <1>2. Len(ss[n]) \in Nat /\ Len(f[n]) \in Nat
    BY <1>1, LenProperties
  <1>3. CASE n = 1
    <2>1. f[n] = ss[n] /\ Offset(f, n) = 0
      BY <1>3, JoinedAre DEF Offset
    <2>2. QED
      BY <1>2, <1>3, <2>1
  <1>4. CASE n # 1
    <2>1. n - 1 \in 1..Len(ss)
      BY <1>1, <1>4
    <2> DEFINE q == f[n - 1]
               r == ss[n]
    <2>2. q \in Seq(T) /\ f[n] = q \o r /\ Offset(f, n) = Len(q)
      <3>1. f[n - 1] \in Seq(T)
        BY <2>1, JoinedAre
      <3>2. f[n] = IF n = 1 THEN ss[n] ELSE f[n - 1] \o ss[n]
        BY JoinedAre
      <3>3. f[n] = f[n - 1] \o ss[n]
        BY <1>4, <3>2, Zenon
      <3>4. QED
        BY <1>4, <3>1, <3>3 DEF Offset
    <2>3. Len(q) \in Nat
      BY <2>2, LenProperties
    <2>4. /\ Len(q \o r) = Len(q) + Len(r)
          /\ \A i \in 1..(Len(q) + Len(r)) :
                (q \o r)[i] = IF i <= Len(q) THEN q[i] ELSE r[i - Len(q)]
      BY <1>1, <2>2, ConcatProperties
    <2>5. Len(r) \in Nat
      BY <1>2
    <2> HIDE DEF q, r
    <2>6. \A m \in 1..Len(r) : (q \o r)[Len(q) + m] = r[m]
      <3> TAKE m \in 1..Len(r)
      <3>1. /\ Len(q) + m \in 1..(Len(q) + Len(r)) /\ ~(Len(q) + m <= Len(q))
            /\ (Len(q) + m) - Len(q) = m
        BY <2>3, <2>5
      <3>2. QED
        BY <2>4, <3>1
    <2>7. \A p \in 1..Len(q) : (q \o r)[p] = q[p]
      BY <2>3, <2>4, <2>5
    <2>8. QED
      BY <1>2, <2>2, <2>3, <2>4, <2>6, <2>7 DEF q, r
  <1>5. QED
    BY <1>3, <1>4

LEMMA JoinPrefix ==
    ASSUME NEW T, NEW ss \in Seq(Seq(T)), NEW f, Joined(f, ss), NEW k \in 1..Len(ss),
           NEW n \in 1..Len(ss), k <= n
    PROVE  Len(f[k]) <= Len(f[n]) /\ \A p \in 1..Len(f[k]) : f[n][p] = f[k][p]
  <1> DEFINE Holds(i) == Len(f[k]) <= Len(f[i]) /\ \A p \in 1..Len(f[k]) : f[i][p] = f[k][p]
             Bad == {i \in k..Len(ss) : ~Holds(i)}
  <1>1. Len(ss) \in Nat /\ \A i \in 1..Len(ss) : Len(f[i]) \in Nat
    BY LenProperties, JoinOne
  <1>2. ASSUME Bad # {} PROVE FALSE
    <2>1. Bad \subseteq Nat
      BY <1>1
    <2>2. PICK i \in Bad : \A m \in Bad : i <= m
      BY <1>2, <2>1, LeastNat
    <2>3. i \in k..Len(ss) /\ ~Holds(i)
      OBVIOUS
    <2>4. CASE i = k
      <3>1. Holds(k)
        BY <1>1
      <3>2. QED
        BY <2>3, <2>4, <3>1
    <2>5. CASE i # k
      <3>1. i - 1 \in k..Len(ss) /\ ~(i <= i - 1) /\ i - 1 \in 1..Len(ss) /\ i \in 1..Len(ss) /\ i # 1
        BY <1>1, <2>3, <2>5
      <3>2. Holds(i - 1)
        BY <2>2, <3>1
      <3>3. Len(f[i - 1]) <= Len(f[i]) /\ \A p \in 1..Len(f[i - 1]) : f[i][p] = f[i - 1][p]
        <4>1. Offset(f, i) = Len(f[i - 1])
          BY <3>1 DEF Offset
        <4>2. Len(f[i]) = Offset(f, i) + Len(ss[i]) /\ Offset(f, i) \in Nat /\ Len(ss[i]) \in Nat
          BY <3>1, JoinOne
        <4>3. \A p \in 1..Len(f[i - 1]) : f[i][p] = f[i - 1][p]
          BY <3>1, JoinOne
        <4>4. Len(f[i - 1]) <= Len(f[i])
          <5>1. /\ Len(f[i - 1]) \in Nat /\ Len(ss[i]) \in Nat
                /\ Len(f[i]) = Len(f[i - 1]) + Len(ss[i])
            BY <4>1, <4>2, Zenon
          <5>2. \A a, b \in Nat : a <= a + b
            OBVIOUS
          <5>3. QED
            BY <5>1, <5>2, Zenon
        <4>5. QED
          BY <4>3, <4>4
      <3>4. Holds(i)
        <4>1. /\ Len(f[k]) \in Nat /\ Len(f[i - 1]) \in Nat /\ Len(f[i]) \in Nat
              /\ Len(f[k]) <= Len(f[i - 1])
          BY <1>1, <3>1, <3>2
        <4>2. Len(f[k]) <= Len(f[i])
          BY <3>3, <4>1
        <4>3. ASSUME NEW p \in 1..Len(f[k]) PROVE f[i][p] = f[k][p]
          <5>1. p \in 1..Len(f[i - 1])
            BY <4>1
          <5>2. f[i][p] = f[i - 1][p]
            BY <3>3, <5>1
          <5>3. f[i - 1][p] = f[k][p]
            BY <3>2
          <5>4. QED
            BY <5>2, <5>3
        <4>4. QED
          BY <4>2, <4>3
      <3>5. QED
        BY <2>3, <3>4
    <2>6. QED
      BY <2>4, <2>5
  <1>3. n \in k..Len(ss)
    BY <1>1
  <1> HIDE DEF Holds
  <1>4. Holds(n)
    BY <1>2, <1>3
  <1>5. QED
    BY <1>4 DEF Holds

\* Each sequence has its place in the joined one, in their order, and there is
\* nothing else: at gives what comes before each.
LEMMA FlattenPlaces ==
    ASSUME NEW T, NEW ss \in Seq(Seq(T))
    PROVE  \E at \in [1..Len(ss) -> Nat] :
             /\ FlattenSeq(ss) \in Seq(T)
             /\ \A k \in 1..Len(ss) : \A m \in 1..Len(ss[k]) :
                   /\ at[k] + m \in 1..Len(FlattenSeq(ss))
                   /\ FlattenSeq(ss)[at[k] + m] = ss[k][m]
             /\ \A p \in 1..Len(FlattenSeq(ss)) :
                   \E k \in 1..Len(ss) : \E m \in 1..Len(ss[k]) : p = at[k] + m
             /\ \A j, k \in 1..Len(ss) : j < k => at[j] + Len(ss[j]) <= at[k]
  <1>1. Len(ss) \in Nat
    BY LenProperties
  <1>2. CASE Len(ss) = 0
    <2>1. ss = <<>> /\ FlattenSeq(ss) = <<>>
      BY <1>2, EmptySeq DEF FlattenSeq
    <2>2. FlattenSeq(ss) \in Seq(T) /\ Len(FlattenSeq(ss)) = 0
      BY <2>1, EmptySeq
    <2>3. [k \in 1..0 |-> 0] \in [1..0 -> Nat]
      OBVIOUS
    <2>4. QED
      BY <1>2, <2>2, <2>3
  <1>3. CASE Len(ss) # 0
    <2>1. PICK f : Joined(f, ss) /\ FlattenSeq(ss) = f[Len(ss)]
      BY <1>3, FlattenIsJoined
    <2> DEFINE N == Len(ss)
               F == f[N]
               at == [k \in 1..N |-> Offset(f, k)]
    <2>2. N \in 1..N
      BY <1>1, <1>3
    <2>3. F \in Seq(T)
      BY <2>1, <2>2, JoinedAre
    <2>4. at \in [1..N -> Nat]
      BY <2>1, JoinOne
    <2>5. ASSUME NEW k \in 1..N
          PROVE  /\ at[k] \in Nat /\ Len(ss[k]) \in Nat /\ Len(f[k]) = at[k] + Len(ss[k])
                 /\ Len(f[k]) <= Len(F) /\ Len(F) \in Nat
                 /\ \A p \in 1..Len(f[k]) : F[p] = f[k][p]
                 /\ \A m \in 1..Len(ss[k]) : f[k][at[k] + m] = ss[k][m]
      <3>1. k <= N
        BY <1>1
      <3>2. Len(f[k]) <= Len(F) /\ \A p \in 1..Len(f[k]) : F[p] = f[k][p]
        BY <2>1, <2>2, <3>1, JoinPrefix
      <3>3. Len(F) \in Nat
        BY <2>3, LenProperties
      <3>4. at[k] = Offset(f, k)
        OBVIOUS
      <3>5. /\ Offset(f, k) \in Nat /\ Len(ss[k]) \in Nat /\ Len(f[k]) = Offset(f, k) + Len(ss[k])
            /\ \A m \in 1..Len(ss[k]) : f[k][Offset(f, k) + m] = ss[k][m]
        BY <2>1, JoinOne
      <3> HIDE DEF at, F, N
      <3>6. QED
        BY <3>2, <3>3, <3>4, <3>5
    <2>6. \A j, k \in 1..N : j < k => at[j] + Len(ss[j]) <= at[k]
      <3> SUFFICES ASSUME NEW j \in 1..N, NEW k \in 1..N, j < k
                   PROVE  at[j] + Len(ss[j]) <= at[k]
        OBVIOUS
      <3>1. k - 1 \in 1..N /\ j <= k - 1 /\ k # 1
        BY <1>1
      <3>2. Len(f[j]) <= Len(f[k - 1])
        BY <2>1, <3>1, JoinPrefix
      <3>3. at[k] = Len(f[k - 1])
        BY <3>1 DEF Offset
      <3>4. Len(f[j]) = at[j] + Len(ss[j])
        BY <2>5
      <3>5. QED
        BY <3>2, <3>3, <3>4
    <2>7. ASSUME NEW p \in 1..Len(F)
          PROVE  \E k \in 1..N : \E m \in 1..Len(ss[k]) : p = at[k] + m
      <3> DEFINE Long == {k \in 1..N : p <= Len(f[k])}
      <3>1. Long \subseteq Nat /\ N \in Long
        BY <1>1, <2>2, <2>5
      <3>2. PICK k \in Long : \A j \in Long : k <= j
        BY <3>1, LeastNat
      <3>3. k \in 1..N /\ p <= at[k] + Len(ss[k]) /\ at[k] \in Nat /\ Len(ss[k]) \in Nat
        BY <2>5
      <3>4. at[k] < p
        <4>1. CASE k = 1
          <5>1. at[k] = 0
            BY <4>1, <3>3 DEF Offset
          <5>2. QED
            BY <5>1, <2>5
        <4>2. CASE k # 1
          <5>1. k - 1 \in 1..N /\ ~(k <= k - 1)
            BY <1>1, <3>3, <4>2
          <5>2. ~(p <= Len(f[k - 1])) /\ at[k] = Len(f[k - 1])
            BY <3>2, <3>3, <4>2, <5>1 DEF Offset
          <5>3. Len(F) \in Nat
            BY <2>3, LenProperties
          <5> HIDE DEF at, F, N, Long
          <5>4. QED
            BY <5>2, <5>3, <3>3
        <4>3. QED
          BY <4>1, <4>2
      <3>5. Len(F) \in Nat
        BY <2>3, LenProperties
      <3> HIDE DEF at, F, N, Long
      <3>6. p - at[k] \in 1..Len(ss[k]) /\ p = at[k] + (p - at[k])
        BY <3>3, <3>4, <3>5
      <3>7. QED
        BY <3>3, <3>6
    <2>8. \A k \in 1..N : \A m \in 1..Len(ss[k]) :
             at[k] + m \in 1..Len(F) /\ F[at[k] + m] = ss[k][m]
      <3> TAKE k \in 1..N
      <3> TAKE m \in 1..Len(ss[k])
      <3> HIDE DEF at, F, N
      <3>1. /\ at[k] \in Nat /\ Len(ss[k]) \in Nat /\ Len(f[k]) = at[k] + Len(ss[k])
            /\ Len(f[k]) <= Len(F) /\ Len(F) \in Nat
        BY <2>5
      <3>2. at[k] + m \in 1..Len(f[k]) /\ at[k] + m \in 1..Len(F)
        BY <3>1
      <3>3. QED
        BY <2>5, <3>2
    <2>9. FlattenSeq(ss) = F
      BY <2>1
    <2> HIDE DEF at, F
    <2>10. QED
      BY <2>3, <2>4, <2>6, <2>7, <2>8, <2>9
  <1>4. QED
    BY <1>2, <1>3

-----------------------------------------------------------------------------
(* sortSpans.                                                              *)

\* Spans whose place is determined.
Sortable(S) ==
    /\ IsFiniteSet(S)
    /\ \A s \in S : s.start \in Nat /\ s.rank \in Nat
    /\ \A s, t \in S : s # t => s.rank # t.rank

Preceding(S, s) == {t \in S : Precedes(t, s)}

LEMMA PrecedesIsOrder ==
    ASSUME NEW S, Sortable(S), NEW a \in S, NEW b \in S, NEW c \in S
    PROVE  /\ ~Precedes(a, a)
           /\ a # b => Precedes(a, b) \/ Precedes(b, a)
           /\ Precedes(a, b) /\ Precedes(b, c) => Precedes(a, c)
  <1>1. /\ a.start \in Nat /\ b.start \in Nat /\ c.start \in Nat
        /\ a.rank \in Nat /\ b.rank \in Nat /\ c.rank \in Nat
        /\ a # b => a.rank # b.rank
    BY DEF Sortable
  <1>2. QED
    BY <1>1 DEF Precedes

LEMMA MorePrecede ==
    ASSUME NEW S, Sortable(S), NEW s \in S, NEW t \in S, Precedes(s, t)
    PROVE  /\ Cardinality(Preceding(S, s)) \in Nat /\ Cardinality(Preceding(S, t)) \in Nat
           /\ Cardinality(Preceding(S, s)) < Cardinality(Preceding(S, t))
  <1> DEFINE A == Preceding(S, s)
             B == Preceding(S, t)
  <1>1. A \subseteq B
    BY PrecedesIsOrder DEF Preceding
  <1>2. s \in B /\ s \notin A
    BY PrecedesIsOrder DEF Preceding
  <1>3. A \in SUBSET S /\ B \in SUBSET S /\ IsFiniteSet(S)
    BY DEF Preceding, Sortable
  <1>4. IsFiniteSet(A) /\ IsFiniteSet(B)
    BY <1>3, FS_Subset
  <1> HIDE DEF A, B
  <1>5. Cardinality(A) \in Nat /\ Cardinality(B) \in Nat
    BY <1>4, FS_CardinalityType
  <1>6. Cardinality(A) <= Cardinality(B) /\ (Cardinality(B) = Cardinality(A) => B = A)
    BY <1>1, <1>4, FS_Subset
  <1>7. Cardinality(A) # Cardinality(B)
    BY <1>2, <1>6
  <1>8. QED
    BY <1>5, <1>6, <1>7 DEF A, B

LEMMA PlaceOfSpan ==
    ASSUME NEW S, Sortable(S), NEW s \in S
    PROVE  /\ Cardinality(S) \in Nat /\ Cardinality(Preceding(S, s)) \in Nat
           /\ Cardinality(Preceding(S, s)) < Cardinality(S)
  <1>1. IsFiniteSet(S)
    BY DEF Sortable
  <1>2. Cardinality(S) \in Nat
    BY <1>1, FS_CardinalityType
  <1>3. IsFiniteSet(S \ {s}) /\ Cardinality(S \ {s}) = Cardinality(S) - 1
    BY <1>1, FS_RemoveElement
  <1>4. Preceding(S, s) \in SUBSET (S \ {s})
    BY PrecedesIsOrder DEF Preceding
  <1>5. /\ IsFiniteSet(Preceding(S, s))
        /\ Cardinality(Preceding(S, s)) <= Cardinality(S \ {s})
    BY <1>3, <1>4, FS_Subset
  <1>6. Cardinality(Preceding(S, s)) \in Nat
    BY <1>5, FS_CardinalityType
  <1>7. QED
    BY <1>2, <1>3, <1>5, <1>6

\* sortSpans loses no span and repeats none: all are there, in order.
THEOREM SpansSorted ==
    ASSUME NEW S, Sortable(S)
    PROVE  /\ sortSpans(S) \in Seq(S)
           /\ Len(sortSpans(S)) = Cardinality(S)
           /\ \A s \in S : \E k \in 1..Len(sortSpans(S)) : sortSpans(S)[k] = s
           /\ \A j, k \in 1..Len(sortSpans(S)) : j < k => Precedes(sortSpans(S)[j], sortSpans(S)[k])
  <1> DEFINE N == Cardinality(S)
             before(s) == Cardinality(Preceding(S, s))
             place == [s \in S |-> before(s) + 1]
             q == [k \in 1..N |-> CHOOSE s \in S : before(s) = k - 1]
  <1>1. sortSpans(S) = q
    BY DEF sortSpans, Preceding
  <1>2. IsFiniteSet(S) /\ N \in Nat
    BY FS_CardinalityType DEF Sortable
  <1>3. \A s \in S : before(s) \in Nat /\ before(s) < N
    BY PlaceOfSpan
  <1>4. \A s, t \in S : Precedes(s, t) => before(s) < before(t)
    BY MorePrecede
  <1>5. \A s, t \in S : before(s) = before(t) => s = t
    <2> TAKE s, t \in S
    <2>1. s # t => Precedes(s, t) \/ Precedes(t, s)
      BY PrecedesIsOrder
    <2> HIDE DEF before
    <2>2. QED
      BY <1>3, <1>4, <2>1
  <1> HIDE DEF before, N
  <1>6. place \in Injection(S, 1..N)
    <2>1. place \in [S -> 1..N]
      BY <1>2, <1>3
    <2>2. \A s, t \in S : place[s] = place[t] => s = t
      BY <1>3, <1>5
    <2>3. QED
      BY <2>1, <2>2 DEF Injection, IsInjective
  <1>7. IsFiniteSet(1..N) /\ Cardinality(1..N) = N
    BY <1>2, FS_Interval
  <1>8. place \in Surjection(S, 1..N)
    BY <1>6, <1>7, FS_Injection DEF N
  <1>9. ASSUME NEW k \in 1..N
        PROVE  q[k] \in S /\ before(q[k]) = k - 1
    <2>1. PICK s \in S : place[s] = k
      BY <1>8 DEF Surjection
    <2>2. before(s) = k - 1
      BY <1>2, <1>3, <2>1
    <2>3. QED
      BY <2>2
  <1>10. q \in [1..N -> S]
    BY <1>9
  <1> HIDE DEF q, place
  <1>11. q \in Seq(S) /\ Len(q) = N
    BY <1>2, <1>10, IsASeq, LenProperties
  <1>12. ASSUME NEW s \in S PROVE \E k \in 1..N : q[k] = s
    <2>1. before(s) + 1 \in 1..N /\ (before(s) + 1) - 1 = before(s)
      BY <1>2, <1>3
    <2>2. q[before(s) + 1] \in S /\ before(q[before(s) + 1]) = before(s)
      BY <1>9, <2>1
    <2>3. q[before(s) + 1] = s
      BY <1>5, <2>2
    <2>4. QED
      BY <2>1, <2>3
  <1>13. ASSUME NEW j \in 1..N, NEW k \in 1..N, j < k PROVE Precedes(q[j], q[k])
    <2>1. /\ q[j] \in S /\ q[k] \in S /\ before(q[j]) = j - 1 /\ before(q[k]) = k - 1
      BY <1>9
    <2>2. ~(k - 1 < j - 1) /\ j - 1 # k - 1
      <3>1. j \in Nat /\ k \in Nat /\ j < k
        BY <1>2, <1>13
      <3>2. QED
        BY <3>1
    <2>3. q[j] # q[k] /\ ~(before(q[k]) < before(q[j]))
      BY <2>1, <2>2, Zenon
    <2>4. ~Precedes(q[k], q[j])
      BY <1>4, <2>1, <2>3
    <2>5. QED
      BY <2>1, <2>3, <2>4, PrecedesIsOrder
  <1>14. QED
    BY <1>1, <1>11, <1>12, <1>13 DEF N

-----------------------------------------------------------------------------
(* Turns.                                                                  *)

\* Message m of chat k is at place at[k] + m of the conversation: every turn is a
\* message in its place, every captured message with a role is a turn there or earlier, and
\* none that is the same as a turn comes before it.
PlacesOfTurns(chats, at) ==
    /\ at \in [1..Len(chats) -> Nat]
    /\ \A p \in DOMAIN Turns(chats) : \E k \in 1..Len(chats) : \E m \in 1..Len(ChatTurns(chats[k])) :
          p = at[k] + m /\ Turns(chats)[p] = ChatTurns(chats[k])[m]
    /\ \A k \in 1..Len(chats) : \A m \in 1..Len(ChatTurns(chats[k])) :
          /\ ChatTurns(chats[k])[m].captured /\ ChatTurns(chats[k])[m].role # "" =>
                \E p \in DOMAIN Turns(chats) :
                    p <= at[k] + m /\ Same(Turns(chats)[p], ChatTurns(chats[k])[m])
          /\ \A p \in DOMAIN Turns(chats) :
                at[k] + m < p => ~Same(ChatTurns(chats[k])[m], Turns(chats)[p])
    /\ \A j, k \in 1..Len(chats) : j < k => at[j] + Len(ChatTurns(chats[j])) <= at[k]

\* The turns of an Episode are the chats' messages in their order, each told once.
THEOREM TurnsPlaced ==
    ASSUME NEW S, NEW chats \in Seq(S), NEW U, \A k \in 1..Len(chats) : ChatTurns(chats[k]) \in Seq(U)
    PROVE  \E at : PlacesOfTurns(chats, at)
  <1> DEFINE ss == [k \in DOMAIN chats |-> ChatTurns(chats[k])]
             all == FlattenSeq(ss)
             new == {k \in DOMAIN all :
                        all[k].role # "" /\ \A j \in 1..(k - 1) : ~Same(all[j], all[k])}
  <1>1. Len(chats) \in Nat /\ DOMAIN chats = 1..Len(chats)
    BY LenProperties
  <1>2. ss \in Seq(Seq(U)) /\ Len(ss) = Len(chats)
    <2>1. ss \in [1..Len(chats) -> Seq(U)]
      BY <1>1
    <2>2. QED
      BY <1>1, <2>1, IsASeq, LenProperties
  <1>3. \A k \in 1..Len(chats) : ss[k] = ChatTurns(chats[k])
    BY <1>1
  <1>4. Turns(chats) = [k \in new |-> all[k]]
    BY DEF Turns
  <1> HIDE DEF ss
  <1>5. PICK at \in [1..Len(ss) -> Nat] :
             /\ all \in Seq(U)
             /\ \A k \in 1..Len(ss) : \A m \in 1..Len(ss[k]) :
                   /\ at[k] + m \in 1..Len(all)
                   /\ all[at[k] + m] = ss[k][m]
             /\ \A p \in 1..Len(all) :
                   \E k \in 1..Len(ss) : \E m \in 1..Len(ss[k]) : p = at[k] + m
             /\ \A j, k \in 1..Len(ss) : j < k => at[j] + Len(ss[j]) <= at[k]
    BY <1>2, FlattenPlaces
  <1> HIDE DEF all
  <1>6. Len(all) \in Nat /\ DOMAIN all = 1..Len(all)
    BY <1>5, LenProperties
  <1>7. ASSUME NEW p \in new PROVE p \in 1..Len(all) /\ \A j \in 1..(p - 1) : ~Same(all[j], all[p])
    BY <1>6
  <1>8. ASSUME NEW p \in 1..Len(all), all[p].captured, all[p].role # ""
        PROVE  \E q \in new : q <= p /\ Same(all[q], all[p])
    <2> DEFINE Q == {q \in 1..p : Same(all[q], all[p])}
    <2>1. p \in Q /\ Q \subseteq Nat
      <3>1. Same(all[p], all[p])
        BY <1>8 DEF Same
      <3>2. p \in 1..p /\ 1..p \subseteq Nat
        BY <1>6
      <3>3. QED
        BY <3>1, <3>2
    <2>2. PICK q \in Q : \A j \in Q : q <= j
      BY <2>1, LeastNat
    <2>3. q \in 1..p /\ Same(all[q], all[p]) /\ q \in 1..Len(all) /\ q <= p
      BY <1>6
    <2>4. ASSUME NEW j \in 1..(q - 1), Same(all[j], all[q]) PROVE FALSE
      <3>1. j \in 1..p /\ ~(q <= j)
        BY <1>6, <2>3
      <3>2. Same(all[j], all[p])
        BY <2>3, <2>4 DEF Same
      <3>3. QED
        BY <2>2, <3>1, <3>2
    <2>5. all[q].role # ""
      BY <1>8, <2>3 DEF Same
    <2>6. q \in new
      BY <1>6, <2>3, <2>4, <2>5
    <2>7. QED
      BY <2>3, <2>6
  <1>9. ASSUME NEW p \in new
        PROVE  \E k \in 1..Len(chats) : \E m \in 1..Len(ChatTurns(chats[k])) :
                   p = at[k] + m /\ all[p] = ChatTurns(chats[k])[m]
    <2>1. PICK k \in 1..Len(ss) : \E m \in 1..Len(ss[k]) : p = at[k] + m
      BY <1>5, <1>7
    <2>2. PICK m \in 1..Len(ss[k]) : p = at[k] + m
      BY <2>1
    <2>3. all[p] = ss[k][m]
      BY <1>5, <2>2
    <2>4. QED
      BY <1>2, <1>3, <2>2, <2>3
  <1>10. ASSUME NEW k \in 1..Len(chats), NEW m \in 1..Len(ChatTurns(chats[k]))
         PROVE  at[k] + m \in 1..Len(all) /\ all[at[k] + m] = ChatTurns(chats[k])[m]
    BY <1>2, <1>3, <1>5
  <1>11. ASSUME NEW k \in 1..Len(chats), NEW m \in 1..Len(ChatTurns(chats[k])), NEW p \in new,
                at[k] + m < p
         PROVE  ~Same(ChatTurns(chats[k])[m], all[p])
    <2> DEFINE o == at[k] + m
    <2>1. o \in 1..Len(all) /\ p \in 1..Len(all) /\ o < p
      BY <1>7, <1>10, <1>11
    <2> HIDE DEF o, new
    <2>2. o \in 1..(p - 1)
      BY <1>6, <2>1
    <2>3. all[o] = ChatTurns(chats[k])[m]
      BY <1>10 DEF o
    <2>4. ~Same(all[o], all[p])
      BY <1>7, <2>2
    <2>5. QED
      BY <2>3, <2>4
  <1>12. \A j, k \in 1..Len(chats) : j < k => at[j] + Len(ChatTurns(chats[j])) <= at[k]
    BY <1>2, <1>3, <1>5
  <1> HIDE DEF new
  <1>13. DOMAIN Turns(chats) = new /\ \A p \in new : Turns(chats)[p] = all[p]
    BY <1>4
  <1>14. PlacesOfTurns(chats, at)
    <2>1. at \in [1..Len(chats) -> Nat]
      BY <1>2, <1>5
    <2>2. ASSUME NEW k \in 1..Len(chats), NEW m \in 1..Len(ChatTurns(chats[k])),
                 ChatTurns(chats[k])[m].captured, ChatTurns(chats[k])[m].role # ""
          PROVE  \E p \in new : p <= at[k] + m /\ Same(all[p], ChatTurns(chats[k])[m])
      <3>1. at[k] + m \in 1..Len(all) /\ all[at[k] + m] = ChatTurns(chats[k])[m]
        BY <1>10
      <3>2. QED
        BY <1>8, <2>2, <3>1
    <2>3. /\ \A p \in new : \E k \in 1..Len(chats) : \E m \in 1..Len(ChatTurns(chats[k])) :
                p = at[k] + m /\ all[p] = ChatTurns(chats[k])[m]
          /\ \A k \in 1..Len(chats) : \A m \in 1..Len(ChatTurns(chats[k])) : \A p \in new :
                at[k] + m < p => ~Same(ChatTurns(chats[k])[m], all[p])
      BY <1>9, <1>11
    <2>4. \A p \in DOMAIN Turns(chats) :
             \E k \in 1..Len(chats) : \E m \in 1..Len(ChatTurns(chats[k])) :
                p = at[k] + m /\ Turns(chats)[p] = ChatTurns(chats[k])[m]
      BY <1>13, <2>3
    <2>5. \A k \in 1..Len(chats) : \A m \in 1..Len(ChatTurns(chats[k])) :
             /\ ChatTurns(chats[k])[m].captured /\ ChatTurns(chats[k])[m].role # "" =>
                   \E p \in DOMAIN Turns(chats) :
                       p <= at[k] + m /\ Same(Turns(chats)[p], ChatTurns(chats[k])[m])
             /\ \A p \in DOMAIN Turns(chats) :
                   at[k] + m < p => ~Same(ChatTurns(chats[k])[m], Turns(chats)[p])
      BY <1>13, <2>2, <2>3
    <2>6. QED
      BY <2>1, <2>4, <2>5, <1>12 DEF PlacesOfTurns
  <1>15. QED
    BY <1>14
=============================================================================
