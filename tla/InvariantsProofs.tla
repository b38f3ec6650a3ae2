-------------------------- MODULE InvariantsProofs --------------------------
(***************************************************************************)
(* Theorems about module Invariants, for all contracts, calls and traces:  *)
(* what a pass and a failure of an invariant clause mean.                  *)
(***************************************************************************)
EXTENDS Invariants, EpisodeProofs

-----------------------------------------------------------------------------
(* The two matchers of module NameMatch differ in two ways.  The one in Go *)
(* takes the first case that applies, the one in Rego any rule: only one   *)
(* of the rules with a wildcard can apply.  And the one in Rego lets a     *)
(* pattern match itself, wildcards included, which the rules with a        *)
(* wildcard do too.                                                        *)

LEMMA SubSeqIs ==
    ASSUME NEW S, NEW s \in Seq(S), NEW i \in Nat, NEW j \in Nat, i >= 1, j <= Len(s)
    PROVE  /\ SubSeq(s, i, j) \in Seq(S)
           /\ Len(SubSeq(s, i, j)) = IF i <= j THEN j - i + 1 ELSE 0
           /\ \A k \in 1..(j - i + 1) : SubSeq(s, i, j)[k] = s[i + k - 1]
  <1>1. \A k \in i..j : s[k] \in S
    BY ElementOfSeq, LenProperties
  <1>2. QED
    BY <1>1, SubSeqProperties

\* What is left of a pattern without its wildcards is where they say it is.
LEMMA RestIsSuffix ==
    ASSUME NEW S, NEW s \in Seq(S), Len(s) >= 1
    PROVE  HasSuffix(s, SubSeq(s, 2, Len(s)))
  <1>1. Len(s) \in Nat
    BY LenProperties
  <1>2. Len(SubSeq(s, 2, Len(s))) = IF 2 <= Len(s) THEN Len(s) - 2 + 1 ELSE 0
    BY <1>1, SubSeqIs
  <1>3. Len(SubSeq(s, 2, Len(s))) = Len(s) - 1
    <2>1. \A n \in Nat : n >= 1 => (IF 2 <= n THEN n - 2 + 1 ELSE 0) = n - 1
      OBVIOUS
    <2>2. QED
      BY <1>1, <1>2, <2>1, Zenon
  <1>4. Len(s) - (Len(s) - 1) + 1 = 2 /\ Len(s) - 1 <= Len(s)
    BY <1>1
  <1> DEFINE rest == SubSeq(s, 2, Len(s))
  <1>5. SubSeq(s, Len(s) - Len(rest) + 1, Len(s)) = rest
    BY <1>3, <1>4
  <1>6. Len(rest) <= Len(s)
    BY <1>3, <1>4
  <1> HIDE DEF rest
  <1>7. HasSuffix(s, rest)
    BY <1>5, <1>6 DEF HasSuffix
  <1>8. QED
    BY <1>7 DEF rest

LEMMA FrontIsPrefix ==
    ASSUME NEW S, NEW s \in Seq(S), Len(s) >= 1
    PROVE  HasPrefix(s, SubSeq(s, 1, Len(s) - 1))
  <1>1. Len(s) \in Nat
    BY LenProperties
  <1>2. Len(s) - 1 \in Nat /\ Len(s) - 1 <= Len(s)
    BY <1>1
  <1>3. Len(SubSeq(s, 1, Len(s) - 1)) = IF 1 <= Len(s) - 1 THEN (Len(s) - 1) - 1 + 1 ELSE 0
    BY <1>2, SubSeqIs
  <1>4. Len(SubSeq(s, 1, Len(s) - 1)) = Len(s) - 1
    <2>1. \A n \in Nat : n >= 1 => (IF 1 <= n - 1 THEN (n - 1) - 1 + 1 ELSE 0) = n - 1
      OBVIOUS
    <2>2. QED
      BY <1>1, <1>3, <2>1, Zenon
  <1>5. QED
    BY <1>1, <1>4 DEF HasPrefix

LEMMA CoreIsPart ==
    ASSUME NEW S, NEW s \in Seq(S), Len(s) > 2
    PROVE  HasPart(s, SubSeq(s, 2, Len(s) - 1))
  <1> DEFINE n    == Len(s)
             core == SubSeq(s, 2, n - 1)
             rest == SubSeq(s, 2, n)
  <1>1. n \in Nat /\ n > 2
    BY LenProperties
  <1> HIDE DEF n
  <1>2. /\ core \in Seq(S) /\ Len(core) = n - 2
        /\ \A k \in 1..(n - 2) : core[k] = s[2 + k - 1]
    BY <1>1, SubSeqIs DEF n
  <1>3. /\ rest \in Seq(S) /\ Len(rest) = n - 1
        /\ \A k \in 1..(n - 1) : rest[k] = s[2 + k - 1]
    BY <1>1, SubSeqIs DEF n
  <1> HIDE DEF core, rest
  <1>4. /\ SubSeq(rest, 1, n - 2) \in Seq(S) /\ Len(SubSeq(rest, 1, n - 2)) = n - 2
        /\ \A k \in 1..(n - 2) : SubSeq(rest, 1, n - 2)[k] = rest[1 + k - 1]
    BY <1>1, <1>3, SubSeqIs
  <1>5. \A k \in 1..(n - 2) : SubSeq(rest, 1, n - 2)[k] = core[k]
    BY <1>1, <1>2, <1>3, <1>4
  <1>6. SubSeq(rest, 1, n - 2) = core
    BY <1>2, <1>4, <1>5, SeqEqual
  <1>7. HasPrefix(rest, core)
    BY <1>1, <1>2, <1>3, <1>6 DEF HasPrefix
  <1>8. 1 \in 0..Len(s) /\ rest = SubSeq(s, 1 + 1, Len(s))
    BY <1>1 DEF n, rest
  <1>9. QED
    BY <1>7, <1>8 DEF HasPart, core, n

\* A pattern of one or two wildcards is told by its first and last characters.
LEMMA Wildcards ==
    ASSUME NEW S, NEW p \in Seq(S), p # <<>>
    PROVE  /\ Len(p) \in Nat /\ Len(p) >= 1
           /\ HasPrefix(p, <<Star>>) <=> p[1] = Star
           /\ HasSuffix(p, <<Star>>) <=> p[Len(p)] = Star
  <1>1. Len(p) \in Nat /\ Len(p) >= 1
    BY EmptySeq
  <1>2. /\ SubSeq(p, 1, 1) \in Seq(S) /\ Len(SubSeq(p, 1, 1)) = 1
        /\ SubSeq(p, 1, 1)[1] = p[1]
    BY <1>1, SubSeqIs
  <1>3. /\ SubSeq(p, Len(p), Len(p)) \in Seq(S) /\ Len(SubSeq(p, Len(p), Len(p))) = 1
        /\ SubSeq(p, Len(p), Len(p))[1] = p[Len(p)]
    BY <1>1, SubSeqIs
  <1>4. \A q \in Seq(S) : Len(q) = 1 => (q = <<Star>> <=> q[1] = Star)
    OBVIOUS
  <1>5. Len(<<Star>>) = 1
    OBVIOUS
  <1>6. HasPrefix(p, <<Star>>) <=> p[1] = Star
    BY <1>1, <1>2, <1>4, <1>5 DEF HasPrefix
  <1>7. HasSuffix(p, <<Star>>) <=> p[Len(p)] = Star
    <2>1. Len(p) - 1 + 1 = Len(p)
      BY <1>1
    <2>2. QED
      BY <1>1, <1>3, <1>4, <1>5, <2>1 DEF HasSuffix
  <1>8. QED
    BY <1>1, <1>6, <1>7

\* A clause means the same whichever engine evaluates it: the matchers of registry.go
\* and match.rego agree on every name, for every pattern but "" (any name in Go, none
\* in Rego) and "**" (names that end with a star in Go, the name "**" in Rego).
THEOREM MatchersAgree ==
    ASSUME NEW S, NEW pattern \in Seq(S), NEW name \in Seq(S),
           pattern # <<>>, pattern # <<Star, Star>>
    PROVE  matchName(pattern, name) <=> matches(pattern, name)
  <1> DEFINE n      == Len(pattern)
             leads  == HasPrefix(pattern, <<Star>>)
             trails == HasSuffix(pattern, <<Star>>)
  <1>1. CASE pattern = <<Star>>
    BY <1>1 DEF matchName, matches
  <1>2. CASE pattern # <<Star>>
    <2>1. n \in Nat /\ n >= 1
      BY Wildcards
    <2>2. n = 1 => ~leads /\ ~trails
      BY <1>2, Wildcards
    <2>3. leads /\ trails /\ n = 2 => pattern = <<Star, Star>>
      <3>1. SUFFICES ASSUME leads, trails, n = 2 PROVE pattern = <<Star, Star>>
        OBVIOUS
      <3>2. pattern[1] = Star /\ pattern[n] = Star
        BY <3>1, Wildcards
      <3>3. QED
        BY <3>1, <3>2
    <2>4. CASE leads /\ trails
      <3>1. n # 1 /\ n # 2
        BY <2>2, <2>3, <2>4, Zenon
      <3>2. n > 2
        <4> HIDE DEF n
        <4>1. QED
          BY <2>1, <3>1
      <3>3. QED
        BY <1>2, <2>4, <3>2, CoreIsPart DEF matchName, matches
    <2>5. CASE leads /\ ~trails
      BY <1>2, <2>1, <2>5, RestIsSuffix DEF matchName, matches
    <2>6. CASE ~leads /\ trails
      BY <1>2, <2>1, <2>6, FrontIsPrefix DEF matchName, matches
    <2>7. CASE ~leads /\ ~trails
      BY <1>2, <2>7 DEF matchName, matches
    <2>8. QED
      BY <2>4, <2>5, <2>6, <2>7
  <1>3. QED
    BY <1>1, <1>2

-----------------------------------------------------------------------------
(* Texts hold one document or none, and so do the paths into them.         *)

LEMMA NoneOrOne ==
    ASSUME NEW S, AtMostOne(S)
    PROVE  S = {} \/ \E v : S = {v}
  BY DEF AtMostOne

\* found[k] is what is left of a text after k keys of the path.
Resolves(found, text, path, m) ==
    found = [k \in 0..m |-> IF k = 0 THEN text
                            ELSE UNION {Child(tree, path[k]) : tree \in found[k - 1]}]

LEMMA ResolvesExists == ASSUME NEW text, NEW path, NEW m \in Nat PROVE \E f : Resolves(f, text, path, m)
  <1> DEFINE Step(f, k) == f[k] = IF k = 0 THEN text ELSE UNION {Child(tree, path[k]) : tree \in f[k - 1]}
             Upto(n) == \E f : f = [k \in 0..n |-> f[k]] /\ \A k \in 0..n : Step(f, k)
             Bad == {n \in 0..m : ~Upto(n)}
  <1>1. ASSUME Bad # {} PROVE FALSE
    <2>1. PICK n \in Bad : \A i \in Bad : n <= i
      <3>1. Bad \subseteq Nat
        OBVIOUS
      <3> HIDE DEF Bad
      <3>2. QED
        BY <1>1, <3>1, LeastNat
    <2>2. n \in 0..m /\ ~Upto(n)
      OBVIOUS
    <2>3. CASE n = 0
      <3> DEFINE f == [k \in 0..0 |-> text]
      <3>1. f = [k \in 0..0 |-> f[k]] /\ \A k \in 0..0 : Step(f, k)
        OBVIOUS
      <3>2. QED
        BY <2>2, <2>3, <3>1
    <2>4. CASE n # 0
      <3>1. n - 1 \in 0..m /\ n \in Nat /\ ~(n <= n - 1)
        BY <2>2, <2>4
      <3>2. Upto(n - 1)
        BY <2>1, <3>1
      <3>3. PICK f : f = [k \in 0..(n - 1) |-> f[k]] /\ \A k \in 0..(n - 1) : Step(f, k)
        BY <3>2
      <3> DEFINE g == [k \in 0..n |-> IF k = n THEN UNION {Child(tree, path[n]) : tree \in f[n - 1]} ELSE f[k]]
      <3>4. g = [k \in 0..n |-> g[k]]
        OBVIOUS
      <3>5. ASSUME NEW k \in 0..n PROVE Step(g, k)
        <4>1. CASE k = n
          <5>1. k \in 0..n /\ n - 1 \in 0..n /\ n - 1 # n /\ k # 0
            BY <2>4, <3>1, <4>1
          <5>2. g[k] = UNION {Child(tree, path[n]) : tree \in f[n - 1]} /\ g[k - 1] = f[n - 1]
            BY <4>1, <5>1
          <5>3. QED
            BY <4>1, <5>1, <5>2
        <4>2. CASE k # n
          <5>1. k \in 0..(n - 1)
            BY <3>1, <4>2
          <5>2. Step(f, k)
            BY <3>3, <5>1
          <5>3. g[k] = f[k] /\ (k # 0 => k - 1 \in 0..n /\ k - 1 # n /\ g[k - 1] = f[k - 1])
            BY <3>1, <4>2
          <5>4. QED
            BY <5>2, <5>3
        <4>3. QED
          BY <4>1, <4>2
      <3> HIDE DEF g
      <3>6. QED
        BY <2>2, <3>4, <3>5
    <2>5. QED
      BY <2>3, <2>4
  <1>2. Upto(m)
    <2>1. m \in 0..m
      OBVIOUS
    <2> HIDE DEF Upto
    <2>2. QED
      BY <1>1, <2>1
  <1>3. PICK f : f = [k \in 0..m |-> f[k]] /\ \A k \in 0..m : Step(f, k)
    BY <1>2
  <1>4. Resolves(f, text, path, m)
    BY <1>3 DEF Resolves
  <1>5. QED
    BY <1>4

LEMMA ChildIsOne == ASSUME NEW tree, NEW key PROVE AtMostOne(Child(tree, key))
  BY DEF Child, AtMostOne

LEMMA PathFindsOne ==
    ASSUME NEW text, AtMostOne(text), NEW path, NEW m \in Nat, NEW f, Resolves(f, text, path, m)
    PROVE  AtMostOne(f[m])
  <1> DEFINE Bad == {k \in 0..m : ~AtMostOne(f[k])}
  <1>1. \A k \in 0..m : f[k] = IF k = 0 THEN text
                              ELSE UNION {Child(tree, path[k]) : tree \in f[k - 1]}
    BY DEF Resolves
  <1>2. ASSUME Bad # {} PROVE FALSE
    <2>1. PICK k \in Bad : \A i \in Bad : k <= i
      <3>1. Bad \subseteq Nat
        OBVIOUS
      <3> HIDE DEF Bad
      <3>2. QED
        BY <1>2, <3>1, LeastNat
    <2>2. k \in 0..m /\ ~AtMostOne(f[k])
      OBVIOUS
    <2>3. k # 0
      BY <1>1, <2>2
    <2>4. k - 1 \in 0..m /\ ~(k <= k - 1)
      BY <2>2, <2>3
    <2>5. AtMostOne(f[k - 1])
      BY <2>1, <2>4
    <2>6. f[k] = UNION {Child(tree, path[k]) : tree \in f[k - 1]}
      BY <1>1, <2>2, <2>3
    <2> HIDE DEF Bad
    <2>7. AtMostOne(f[k])
      <3>1. CASE f[k - 1] = {}
        BY <2>6, <3>1 DEF AtMostOne
      <3>2. CASE \E v : f[k - 1] = {v}
        <4>1. PICK v : f[k - 1] = {v}
          BY <3>2
        <4>2. f[k] = Child(v, path[k])
          BY <2>6, <4>1
        <4>3. QED
          BY <4>2, ChildIsOne
      <3>3. QED
        BY <2>5, <3>1, <3>2, NoneOrOne
    <2>8. QED
      BY <2>2, <2>7
  <1>3. QED
    BY <1>2

LEMMA ResolvedIsOne ==
    ASSUME NEW text, AtMostOne(text), NEW path \in Seq(Keys)
    PROVE  AtMostOne(resolvePath(text, path))
  <1> DEFINE f == CHOOSE f : Resolves(f, text, path, Len(path))
  <1>1. Len(path) \in Nat
    BY LenProperties
  <1>2. Resolves(f, text, path, Len(path))
    BY <1>1, ResolvesExists
  <1>3. resolvePath(text, path) = f[Len(path)]
    BY DEF resolvePath, Resolves
  <1>4. QED
    BY <1>1, <1>2, <1>3, PathFindsOne

-----------------------------------------------------------------------------
(* Sets as sequences.                                                      *)

LEMMA FunctionIsSeq ==
    ASSUME NEW S, NEW n \in Nat, NEW f \in [1..n -> S]
    PROVE  f \in Seq(S) /\ Len(f) = n /\ DOMAIN f = 1..n
  <1>1. f \in Seq(S)
    BY SeqDef
  <1>2. DOMAIN f = 1..n
    OBVIOUS
  <1>3. QED
    BY <1>1, <1>2, LenProperties

LEMMA BoundsAre ==
    ASSUME NEW V, AtMostOne(V), NEW span
    PROVE  /\ V = {} => Bounds(V, span) = <<>>
           /\ \A v \in V : Bounds(V, span) = <<[value |-> v, span |-> span]>>
  <1> DEFINE W == {[value |-> v, span |-> span] : v \in V}
  <1>1. Bounds(V, span) = CHOOSE f \in [1..Cardinality(W) -> W] : IsInjective(f)
    BY DEF Bounds, SetToSeq
  <1>2. ASSUME V = {} PROVE Bounds(V, span) = <<>>
    <2>1. W = {} /\ Cardinality(W) = 0
      BY <1>2, FS_EmptySet
    <2> HIDE DEF W
    <2>2. [i \in 1..0 |-> 0] \in [1..0 -> {}] /\ IsInjective([i \in 1..0 |-> 0])
      BY DEF IsInjective
    <2>3. Bounds(V, span) \in [1..0 -> {}]
      BY <1>1, <2>1, <2>2
    <2>4. Bounds(V, span) \in Seq({}) /\ Len(Bounds(V, span)) = 0
      BY <2>3, FunctionIsSeq
    <2>5. QED
      BY <2>4, EmptySeq
  <1>3. ASSUME NEW v \in V PROVE Bounds(V, span) = <<[value |-> v, span |-> span]>>
    <2> DEFINE w == [value |-> v, span |-> span]
    <2>1. W = {w}
      BY <1>3 DEF AtMostOne
    <2> HIDE DEF W, w
    <2>2. Cardinality(W) = 1
      BY <2>1, FS_Singleton
    <2>3. [i \in 1..1 |-> w] \in [1..1 -> W] /\ IsInjective([i \in 1..1 |-> w])
      BY <2>1 DEF IsInjective
    <2>4. Bounds(V, span) \in [1..1 -> W]
      BY <1>1, <2>2, <2>3
    <2>5. /\ Bounds(V, span) \in Seq(W) /\ Len(Bounds(V, span)) = 1
          /\ Bounds(V, span)[1] = w
      <3>1. Bounds(V, span)[1] \in W
        BY <2>4
      <3>2. QED
        BY <2>1, <2>4, <3>1, FunctionIsSeq
    <2>6. <<w>> \in Seq(W) /\ Len(<<w>>) = 1 /\ <<w>>[1] = w
      BY <2>1
    <2>7. QED
      BY <2>5, <2>6, SeqEqual DEF w
  <1>4. QED
    BY <1>2, <1>3

\* A finite set has more than one element if two are different.
LEMMA MoreThanOne ==
    ASSUME NEW S, IsFiniteSet(S)
    PROVE  /\ Cardinality(S) \in Nat
           /\ Cardinality(S) > 1 <=> \E x, y \in S : x # y
  <1>1. Cardinality(S) \in Nat
    BY FS_CardinalityType
  <1>2. ASSUME NEW x \in S, NEW y \in S, x # y PROVE Cardinality(S) > 1
    <2>1. Cardinality(S) # 0
      BY FS_EmptySet
    <2>2. Cardinality(S) # 1
      BY <1>2, FS_Singleton
    <2>3. QED
      BY <1>1, <2>1, <2>2
  <1>3. ASSUME Cardinality(S) > 1, \A x, y \in S : x = y PROVE FALSE
    <2>1. S = {} \/ \E x : S = {x}
      BY <1>3
    <2>2. Cardinality(S) = 0 \/ Cardinality(S) = 1
      BY <2>1, FS_EmptySet, FS_Singleton
    <2>3. QED
      BY <1>3, <2>2
  <1>4. QED
    BY <1>1, <1>2, <1>3

-----------------------------------------------------------------------------
(* What a declaration finds in the calls, in their order.                  *)

Recorded == {[c EXCEPT !.span = k] : c \in Calls, k \in Nat}

LEMMA RecordedFields ==
    ASSUME NEW tc \in Recorded
    PROVE  tc.span \in Nat /\ tc.name \in Seq(STRING) /\ AtMostOne(tc.args) /\ AtMostOne(tc.result)
  <1>1. PICK c \in Calls, k \in Nat : tc = [c EXCEPT !.span = k]
    BY DEF Recorded
  <1>2. c = [span |-> c.span, name |-> c.name, args |-> c.args, argsCaptured |-> c.argsCaptured,
             result |-> c.result, resultCaptured |-> c.resultCaptured, error |-> c.error]
    BY CallsAssumption
  <1>3. tc.span = k /\ tc.name = c.name /\ tc.args = c.args /\ tc.result = c.result
    BY <1>1, <1>2
  <1>4. QED
    BY <1>3, CallsAssumption

\* What the i-th call holds for a declaration, and the calls that hold something.
Held(s, cs, i) == IF matchName(s.tool, cs[i].name) THEN Extracted(s, cs[i]) ELSE {}

Holding(s, cs) == {i \in DOMAIN cs : Held(s, cs, i) # {}}

LEMMA HeldIsOne ==
    ASSUME NEW s, s.path \in Seq(Keys), NEW cs \in Seq(Recorded), NEW i \in DOMAIN cs
    PROVE  AtMostOne(Held(s, cs, i))
  <1>1. cs[i] \in Recorded
    BY LenProperties, ElementOfSeq
  <1>2. AtMostOne(cs[i].args) /\ AtMostOne(cs[i].result)
    BY <1>1, RecordedFields
  <1>3. /\ AtMostOne(resolvePath(cs[i].args, s.path))
        /\ AtMostOne(resolvePath(cs[i].result, s.path))
    BY <1>2, ResolvedIsOne
  <1>4. AtMostOne({})
    BY DEF AtMostOne
  <1>5. QED
    BY <1>3, <1>4 DEF Held, Extracted, extractFrom

\* place gives the call of each binding.
Places(raw, s, cs, place) ==
    /\ place \in [1..Len(raw) -> Holding(s, cs)]
    /\ \A p, q \in 1..Len(raw) : p < q => place[p] < place[q]
    /\ \A i \in Holding(s, cs) : \E p \in 1..Len(raw) : place[p] = i
    /\ \A p \in 1..Len(raw) : /\ raw[p].span = cs[place[p]].span
                              /\ Held(s, cs, place[p]) = {raw[p].value}

LEMMA RawPlaces ==
    ASSUME NEW s, s.path \in Seq(Keys), s.from \in {"tool_call", "tool_result"},
           NEW cs \in Seq(Recorded), NEW raw, NEW m,
           raw = Raw([tool_calls |-> cs, metrics |-> m], s)
    PROVE  (\E U : raw \in Seq(U)) /\ \E place : Places(raw, s, cs, place)
  <1> DEFINE H(i) == Held(s, cs, i)
             N    == Len(cs)
             A    == UNION {H(i) : i \in 1..N}
             B    == {cs[i].span : i \in 1..N}
             T    == [value : A, span : B]
             ss   == [i \in 1..N |-> Bounds(H(i), cs[i].span)]
  <1>1. N \in Nat /\ DOMAIN cs = 1..N
    BY LenProperties
  <1>2. raw = FlattenSeq(ss)
    <2>1. raw = FlattenSeq([i \in DOMAIN cs |-> Bounds(H(i), cs[i].span)])
      BY DEF Raw, Held
    <2>2. QED
      BY <1>1, <2>1
  <1>3. \A i \in 1..N : AtMostOne(H(i))
    BY <1>1, HeldIsOne
  <1>a. \A i \in 1..N : \A v \in H(i) : v \in A /\ cs[i].span \in B
    OBVIOUS
  <1> HIDE DEF N, H, A, B
  <1>4. ASSUME NEW i \in 1..N
        PROVE  /\ ss[i] \in Seq(T)
               /\ H(i) = {} => Len(ss[i]) = 0
               /\ H(i) # {} => \E v \in H(i) : /\ H(i) = {v} /\ Len(ss[i]) = 1
                                               /\ ss[i][1] = [value |-> v, span |-> cs[i].span]
    <2>1. ss[i] = Bounds(H(i), cs[i].span)
      OBVIOUS
    <2>2. CASE H(i) = {}
      <3>1. ss[i] = <<>>
        BY <1>3, <2>1, <2>2, BoundsAre
      <3> HIDE DEF ss, T
      <3>2. <<>> \in Seq(T) /\ Len(<<>>) = 0
        OBVIOUS
      <3>3. QED
        BY <2>2, <3>1, <3>2
    <2>3. CASE H(i) # {}
      <3>1. PICK v \in H(i) : H(i) = {v}
        BY <1>3, <2>3, NoneOrOne
      <3> DEFINE w == [value |-> v, span |-> cs[i].span]
      <3>2. ss[i] = <<w>>
        BY <1>3, <2>1, BoundsAre
      <3>3. w \in T
        BY <1>a, <3>1
      <3> HIDE DEF T, w, ss
      <3>4. <<w>> \in Seq(T) /\ Len(<<w>>) = 1 /\ <<w>>[1] = w
        BY <3>3
      <3>5. ss[i] \in Seq(T) /\ Len(ss[i]) = 1 /\ ss[i][1] = w
        BY <3>2, <3>4
      <3>6. QED
        BY <2>3, <3>1, <3>5 DEF w
    <2>4. QED
      BY <2>2, <2>3
  <1>5. ss \in Seq(Seq(T)) /\ Len(ss) = N
    <2>1. ss \in [1..N -> Seq(T)]
      BY <1>4
    <2> HIDE DEF ss, T
    <2>2. QED
      BY <1>1, <2>1, FunctionIsSeq
  <1> HIDE DEF ss, T
  <1>6. PICK at \in [1..N -> Nat] :
             /\ raw \in Seq(T)
             /\ \A k \in 1..N : \A j \in 1..Len(ss[k]) :
                   /\ at[k] + j \in 1..Len(raw)
                   /\ raw[at[k] + j] = ss[k][j]
             /\ \A p \in 1..Len(raw) : \E k \in 1..N : \E j \in 1..Len(ss[k]) : p = at[k] + j
             /\ \A j, k \in 1..N : j < k => at[j] + Len(ss[j]) <= at[k]
    <2>1. PICK at \in [1..Len(ss) -> Nat] :
             /\ FlattenSeq(ss) \in Seq(T)
             /\ \A k \in 1..Len(ss) : \A j \in 1..Len(ss[k]) :
                   /\ at[k] + j \in 1..Len(FlattenSeq(ss))
                   /\ FlattenSeq(ss)[at[k] + j] = ss[k][j]
             /\ \A p \in 1..Len(FlattenSeq(ss)) :
                   \E k \in 1..Len(ss) : \E j \in 1..Len(ss[k]) : p = at[k] + j
             /\ \A j, k \in 1..Len(ss) : j < k => at[j] + Len(ss[j]) <= at[k]
      BY <1>5, FlattenPlaces
    <2>2. Len(ss) = N /\ FlattenSeq(ss) = raw
      BY <1>2, <1>5
    <2>3. /\ at \in [1..N -> Nat] /\ raw \in Seq(T)
          /\ \A k \in 1..N : \A j \in 1..Len(ss[k]) :
                at[k] + j \in 1..Len(raw) /\ raw[at[k] + j] = ss[k][j]
          /\ \A j, k \in 1..N : j < k => at[j] + Len(ss[j]) <= at[k]
      BY <2>1, <2>2
    <2>4. \A p \in 1..Len(raw) : \E k \in 1..N : \E j \in 1..Len(ss[k]) : p = at[k] + j
      BY <2>1, <2>2
    <2>5. QED
      BY <2>3, <2>4
  <1>7. Holding(s, cs) = {k \in 1..N : H(k) # {}}
    BY <1>1 DEF Holding, H
  <1>8. ASSUME NEW k \in Holding(s, cs)
        PROVE  /\ k \in 1..N /\ at[k] \in Nat
               /\ at[k] + 1 \in 1..Len(raw)
               /\ raw[at[k] + 1].span = cs[k].span /\ H(k) = {raw[at[k] + 1].value}
    <2>1. k \in 1..N /\ H(k) # {} /\ at[k] \in Nat
      BY <1>7
    <2>2. PICK v \in H(k) : H(k) = {v} /\ Len(ss[k]) = 1 /\ ss[k][1] = [value |-> v, span |-> cs[k].span]
      BY <1>4, <2>1
    <2>3. 1 \in 1..Len(ss[k])
      BY <2>2
    <2>4. at[k] + 1 \in 1..Len(raw) /\ raw[at[k] + 1] = ss[k][1]
      BY <1>6, <2>1, <2>3
    <2>5. QED
      BY <2>1, <2>2, <2>4
  <1>9. \A j, k \in Holding(s, cs) : j < k => at[j] + 1 <= at[k]
    <2> SUFFICES ASSUME NEW j \in Holding(s, cs), NEW k \in Holding(s, cs), j < k PROVE at[j] + 1 <= at[k]
      OBVIOUS
    <2>1. j \in 1..N /\ k \in 1..N /\ H(j) # {}
      BY <1>7
    <2>2. Len(ss[j]) = 1
      BY <1>4, <2>1
    <2>3. QED
      BY <1>6, <2>1, <2>2
  <1>10. ASSUME NEW p \in 1..Len(raw) PROVE \E k \in Holding(s, cs) : p = at[k] + 1
    <2>1. PICK k \in 1..N : \E j \in 1..Len(ss[k]) : p = at[k] + j
      BY <1>6
    <2>2. PICK j \in 1..Len(ss[k]) : p = at[k] + j
      BY <2>1
    <2>3. H(k) # {}
      <3>1. Len(ss[k]) # 0
        BY <2>2
      <3>2. QED
        BY <1>4, <3>1
    <2>4. Len(ss[k]) = 1
      BY <1>4, <2>3
    <2>5. j = 1
      BY <2>2, <2>4
    <2>6. QED
      BY <1>7, <2>2, <2>3, <2>5
  <1> DEFINE place == [p \in 1..Len(raw) |-> CHOOSE k \in Holding(s, cs) : p = at[k] + 1]
  <1>11. \A p \in 1..Len(raw) : place[p] \in Holding(s, cs) /\ p = at[place[p]] + 1
    BY <1>10
  <1>12. place \in [1..Len(raw) -> Holding(s, cs)]
    BY <1>11
  <1> HIDE DEF place
  <1>13. ASSUME NEW p \in 1..Len(raw), NEW q \in 1..Len(raw), p < q PROVE place[p] < place[q]
    <2>1. /\ place[p] \in 1..N /\ place[q] \in 1..N /\ at[place[p]] \in Nat /\ at[place[q]] \in Nat
          /\ p = at[place[p]] + 1 /\ q = at[place[q]] + 1
      BY <1>8, <1>11
    <2>2. place[p] # place[q]
      BY <1>13, <2>1
    <2>3. ~(place[q] < place[p])
      <3>1. place[q] < place[p] => at[place[q]] + 1 <= at[place[p]]
        BY <1>9, <1>11
      <3>2. QED
        BY <1>13, <2>1, <3>1
    <2>4. place[p] \in Nat /\ place[q] \in Nat
      BY <1>1, <2>1
    <2>5. QED
      BY <2>2, <2>3, <2>4
  <1>14. ASSUME NEW i \in Holding(s, cs) PROVE \E p \in 1..Len(raw) : place[p] = i
    <2> DEFINE p == at[i] + 1
    <2>1. p \in 1..Len(raw) /\ i \in 1..N /\ at[i] \in Nat
      BY <1>8
    <2> HIDE DEF p
    <2>2. place[p] \in Holding(s, cs) /\ p = at[place[p]] + 1
      BY <1>11, <2>1
    <2>3. place[p] \in 1..N /\ at[place[p]] \in Nat
      BY <1>8, <2>2
    <2>4. ~(place[p] < i) /\ ~(i < place[p])
      <3>1. /\ place[p] < i => at[place[p]] + 1 <= at[i]
            /\ i < place[p] => at[i] + 1 <= at[place[p]]
        BY <1>9, <2>2
      <3>2. at[place[p]] + 1 = at[i] + 1
        BY <2>2 DEF p
      <3>3. QED
        BY <2>1, <2>3, <3>1, <3>2
    <2>5. place[p] = i
      BY <1>1, <2>1, <2>3, <2>4
    <2>6. QED
      BY <2>1, <2>5
  <1>15. \A p \in 1..Len(raw) : /\ raw[p].span = cs[place[p]].span
                               /\ Held(s, cs, place[p]) = {raw[p].value}
    BY <1>8, <1>11 DEF H
  <1>16. Places(raw, s, cs, place)
    BY <1>12, <1>13, <1>14, <1>15 DEF Places
  <1>17. QED
    BY <1>6, <1>16

-----------------------------------------------------------------------------
(* What a name is bound to, and what it may stand for.                     *)

StateTypes ==
    /\ DOMAIN specs = Names
    /\ \A n \in Names : specs[n] \in Specs[n] /\ validateValueSpec(specs[n])
    /\ calls \in Seq(Recorded) /\ Len(calls) <= MaxCalls
    /\ {calls[i].span : i \in DOMAIN calls} = 1..Len(calls)

Inv == StateTypes /\ result = Evaluated(calls, measured)

\* A binding is what the contract means by the declaration of n.
Right(n, b) ==
    /\ \E U : b.values \in Seq(U)
    /\ b.missing <=> Operands(n) = {}
    /\ b.missing <=> b.values = <<>>
    /\ b.violated <=> n \in Overcounted
    /\ b.varies <=> specs[n].cardinality = "any"
    /\ ~b.violated => {b.values[j].value : j \in DOMAIN b.values} = Operands(n)
    /\ Holders(n) # {} =>
          \A j \in DOMAIN b.values : \E i \in Holders(n) :
              b.values[j].span = calls[i].span /\ b.values[j].value \in Extracted(specs[n], calls[i])

LEMMA SpecFields ==
    ASSUME StateTypes, NEW n \in Names
    PROVE  /\ specs[n].tool \in Seq(STRING) /\ specs[n].path \in Seq(Keys)
           /\ AtMostOne(specs[n].literal) /\ AtMostOne(specs[n].default)
           /\ specs[n].cardinality \in Cardinalities
           /\ specs[n].from \in {"tool_call", "tool_result", "metric", "literal"}
  <1>1. n \in DOMAIN Specs /\ specs[n] \in Specs[n] /\ validateValueSpec(specs[n])
    BY RefsAssumption DEF StateTypes, Names
  <1>2. /\ specs[n].tool \in Seq(STRING) /\ specs[n].path \in Seq(Keys)
        /\ AtMostOne(specs[n].literal) /\ AtMostOne(specs[n].default)
    BY <1>1, SpecsAssumption
  <1>3. QED
    BY <1>1, <1>2 DEF validateValueSpec

LEMMA OneBound ==
    ASSUME NEW v, NEW span, NEW raw, raw = <<[value |-> v, span |-> span]>>
    PROVE  /\ \E U : raw \in Seq(U)
           /\ Len(raw) = 1 /\ DOMAIN raw = 1..1 /\ raw # <<>>
           /\ raw[1].value = v /\ raw[1].span = span
           /\ {raw[j].value : j \in DOMAIN raw} = {v}
           /\ <<Head(raw)>> = raw /\ <<Last(raw)>> = raw
  <1> DEFINE w == [value |-> v, span |-> span]
  <1>1. w.value = v /\ w.span = span
    OBVIOUS
  <1> HIDE DEF w
  <1>2. raw \in Seq({w}) /\ Len(raw) = 1 /\ raw[1] = w /\ Head(raw) = w /\ DOMAIN raw = 1..1
    BY DEF w
  <1>3. raw # <<>>
    BY <1>2, EmptySeq
  <1>4. Last(raw) = w
    BY <1>2 DEF Last
  <1>5. {raw[j].value : j \in DOMAIN raw} = {w.value}
    BY <1>2
  <1>6. QED
    BY <1>1, <1>2, <1>3, <1>4, <1>5 DEF w

\* A literal or a metric is one value, whatever the calls.
LEMMA GivenBinds ==
    ASSUME StateTypes, NEW n \in Names, ~FromCalls(n)
    PROVE  Right(n, bindOne(Episode(calls, measured), specs[n]))
  <1> DEFINE s   == specs[n]
             raw == Raw(Episode(calls, measured), s)
             V   == IF s.from = "metric" THEN {Number(MetricsOf(calls, measured)[s.metric])}
                    ELSE IF s.literal = {} THEN {Null} ELSE s.literal
             b   == bindOne(Episode(calls, measured), s)
  <1>1. s.from \in {"metric", "literal"}
    BY SpecFields DEF FromCalls
  <1>2. PICK v : V = {v}
    BY SpecFields, NoneOrOne
  <1>3. raw = Bounds(V, NoSpan)
    BY <1>1 DEF Raw, Episode
  <1>4. AtMostOne(V) /\ v \in V
    BY <1>2 DEF AtMostOne
  <1>5. raw = <<[value |-> v, span |-> NoSpan]>>
    BY <1>3, <1>4, BoundsAre
  <1>6. Operands(n) = V
    <2>1. Operands(n) = IF V = {} THEN s.default ELSE V
      BY <1>1 DEF Operands, Found, Given, FromCalls
    <2>2. QED
      BY <1>4, <2>1
  <1>7. Holders(n) = {} /\ n \notin Overcounted
    <2>1. Holders(n) = {}
      BY DEF Holders
    <2>2. QED
      BY <2>1, FS_EmptySet DEF Overcounted
  <1> HIDE DEF raw, V
  <1>8. b = Binding(s, raw, FALSE, FALSE)
    <2>1. Len(raw) = 1 /\ raw # <<>> /\ <<Head(raw)>> = raw /\ <<Last(raw)>> = raw
      BY <1>5, OneBound
    <2>2. Cut(s, raw) = raw
      BY <2>1 DEF Cut
    <2>3. ~(Len(raw) > 1)
      BY <2>1
    <2>4. QED
      BY <2>1, <2>2, <2>3 DEF bindOne, raw
  <1> HIDE DEF b, s
  <1>9. b.values = raw /\ ~b.missing /\ ~b.violated /\ (b.varies <=> s.cardinality = "any")
    BY <1>8 DEF Binding
  <1>10. /\ \E U : raw \in Seq(U)
         /\ raw # <<>>
         /\ {raw[j].value : j \in DOMAIN raw} = {v}
    BY <1>5, OneBound
  <1>11. QED
    BY <1>2, <1>6, <1>7, <1>9, <1>10 DEF Right, b, s

\* The first and the last binding are those of the first and the last call.
LEMMA FirstAndLast ==
    ASSUME NEW cs \in Seq(Recorded), NEW s, NEW U, NEW raw \in Seq(U), raw # <<>>,
           NEW place, Places(raw, s, cs, place)
    PROVE  /\ Len(raw) \in Nat /\ Len(raw) >= 1
           /\ \A i \in Holding(s, cs) : place[1] <= i /\ i <= place[Len(raw)]
  <1>1. Len(raw) \in Nat /\ Len(raw) >= 1
    BY EmptySeq
  <1>2. Holding(s, cs) \subseteq Nat
    BY LenProperties DEF Holding
  <1>3. ASSUME NEW i \in Holding(s, cs) PROVE place[1] <= i /\ i <= place[Len(raw)]
    <2>1. PICK p \in 1..Len(raw) : place[p] = i
      BY DEF Places
    <2>2. 1 \in 1..Len(raw) /\ Len(raw) \in 1..Len(raw)
      BY <1>1
    <2>3. place[1] \in Nat /\ place[Len(raw)] \in Nat /\ i \in Nat
      BY <1>2, <2>2 DEF Places
    <2>4. p = 1 \/ 1 < p
      OBVIOUS
    <2>5. p = Len(raw) \/ p < Len(raw)
      BY <1>1
    <2>6. place[1] <= i
      BY <2>1, <2>2, <2>3, <2>4 DEF Places
    <2>7. i <= place[Len(raw)]
      BY <2>1, <2>2, <2>3, <2>5 DEF Places
    <2>8. QED
      BY <2>6, <2>7
  <1>4. QED
    BY <1>1, <1>3

LEMMA CallsBind ==
    ASSUME StateTypes, NEW n \in Names, FromCalls(n)
    PROVE  Right(n, bindOne(Episode(calls, measured), specs[n]))
  <1> DEFINE s    == specs[n]
             raw  == Raw(Episode(calls, measured), s)
             b    == bindOne(Episode(calls, measured), s)
             H    == Holders(n)
             E(i) == Extracted(s, calls[i])
             chosen == {i \in H : \A j \in H : /\ s.cardinality = "first" => i <= j
                                               /\ s.cardinality = "last" => j <= i}
             found  == UNION {E(i) : i \in chosen}
  <1>1. /\ s.path \in Seq(Keys) /\ s.from \in {"tool_call", "tool_result"}
        /\ AtMostOne(s.default) /\ s.cardinality \in Cardinalities
    BY SpecFields DEF FromCalls
  <1>2. calls \in Seq(Recorded) /\ Len(calls) \in Nat /\ DOMAIN calls = 1..Len(calls)
    BY LenProperties DEF StateTypes
  <1>3. (\E U : raw \in Seq(U)) /\ \E place : Places(raw, s, calls, place)
    BY <1>1, <1>2, RawPlaces DEF Episode
  <1>4. PICK U : raw \in Seq(U)
    BY <1>3
  <1>5. PICK place : Places(raw, s, calls, place)
    BY <1>3
  <1>6. H = Holding(s, calls) /\ \A i \in H : Held(s, calls, i) = E(i)
    BY DEF Holders, Holding, Held, FromCalls
  <1>7. Operands(n) = IF found = {} THEN s.default ELSE found
    <2>1. chosen = Chosen(n)
      BY DEF Chosen
    <2>2. Found(n) = UNION {E(i) : i \in Chosen(n)}
      BY DEF Found
    <2>3. QED
      BY <2>1, <2>2 DEF Operands
  <1>8. n \in Overcounted <=> s.cardinality = "exactly_one" /\ Cardinality(H) > 1
    BY DEF Overcounted
  <1>9. b = IF s.cardinality = "exactly_one" /\ Len(raw) > 1 THEN Binding(s, <<Head(raw)>>, FALSE, TRUE)
            ELSE IF raw = <<>> THEN Binding(s, Bounds(s.default, NoSpan), s.default = {}, FALSE)
            ELSE Binding(s, Cut(s, raw), FALSE, FALSE)
    BY DEF bindOne
  <1>10. H \subseteq 1..Len(calls) /\ H \subseteq Nat /\ \A i \in H : E(i) # {}
    BY <1>2 DEF Holders
  <1> SUFFICES Right(n, b)
    OBVIOUS
  <1> HIDE DEF s, raw, b, H, E
  <1>11. Len(raw) \in Nat
    BY <1>4, LenProperties
  <1>12. Cardinality(H) > 1 <=> Len(raw) > 1
    <2>1. IsFiniteSet(H)
      <3>1. IsFiniteSet(1..Len(calls))
        BY <1>2, FS_Interval
      <3>2. QED
        BY <1>10, <3>1, FS_Subset
    <2>2. Cardinality(H) > 1 <=> \E x, y \in H : x # y
      BY <2>1, MoreThanOne
    <2>3. ASSUME Len(raw) > 1 PROVE \E x, y \in H : x # y
      <3>1. 1 \in 1..Len(raw) /\ 2 \in 1..Len(raw)
        BY <1>11, <2>3
      <3>2. place[1] \in H /\ place[2] \in H /\ place[1] < place[2]
        BY <1>5, <1>6, <3>1 DEF Places
      <3>3. place[1] # place[2]
        <4>1. place[1] \in Nat
          BY <1>10, <3>2
        <4>2. QED
          BY <3>2, <4>1
      <3>4. QED
        BY <3>2, <3>3
    <2>4. ASSUME NEW x \in H, NEW y \in H, x # y PROVE Len(raw) > 1
      <3>1. PICK p \in 1..Len(raw) : place[p] = x
        BY <1>5, <1>6 DEF Places
      <3>2. PICK q \in 1..Len(raw) : place[q] = y
        BY <1>5, <1>6 DEF Places
      <3>3. p # q
        BY <2>4, <3>1, <3>2
      <3>4. QED
        BY <1>11, <3>3
    <2>5. QED
      BY <2>2, <2>3, <2>4
  <1>13. raw = <<>> <=> H = {}
    <2>1. raw = <<>> <=> Len(raw) = 0
      BY <1>4, EmptySeq
    <2>2. ASSUME Len(raw) # 0 PROVE H # {}
      <3>1. 1 \in 1..Len(raw)
        BY <1>11, <2>2
      <3>2. place[1] \in H
        BY <1>5, <1>6, <3>1 DEF Places
      <3>3. QED
        BY <3>2
    <2>3. ASSUME H # {} PROVE Len(raw) # 0
      <3>1. \E p \in 1..Len(raw) : TRUE
        BY <1>5, <1>6, <2>3 DEF Places
      <3>2. QED
        BY <3>1
    <2>4. QED
      BY <2>1, <2>2, <2>3
  <1>14. \A p \in 1..Len(raw) : /\ place[p] \in H /\ raw[p].span = calls[place[p]].span
                               /\ E(place[p]) = {raw[p].value}
    BY <1>5, <1>6 DEF Places
  <1>15. CASE H = {}
    <2>1. raw = <<>> /\ ~(Len(raw) > 1)
      <3>1. raw = <<>>
        BY <1>13, <1>15
      <3>2. Len(raw) = 0
        BY <3>1, <1>4, EmptySeq
      <3>3. QED
        BY <3>1, <3>2
    <2>2. b = Binding(s, Bounds(s.default, NoSpan), s.default = {}, FALSE)
      BY <1>9, <2>1, Zenon
    <2>3. /\ b.values = Bounds(s.default, NoSpan) /\ ~b.violated
          /\ b.missing <=> s.default = {}
          /\ b.varies <=> s.cardinality = "any"
      BY <2>2 DEF Binding
    <2>4. Operands(n) = s.default
      <3>1. found = {}
        BY <1>15
      <3>2. QED
        BY <1>7, <3>1
    <2>5. n \notin Overcounted
      BY <1>8, <1>12, <2>1
    <2>6. CASE s.default = {}
      <3>1. b.values = <<>>
        BY <1>1, <2>3, <2>6, BoundsAre
      <3>2. b.values \in Seq({}) /\ {b.values[j].value : j \in DOMAIN b.values} = {}
        BY <3>1
      <3>3. QED
        BY <1>15, <2>3, <2>4, <2>5, <2>6, <3>1, <3>2 DEF Right, s, H
    <2>7. CASE s.default # {}
      <3>1. PICK v : s.default = {v}
        BY <1>1, <2>7, NoneOrOne
      <3>2. b.values = <<[value |-> v, span |-> NoSpan]>>
        BY <1>1, <2>3, <3>1, BoundsAre
      <3>3. /\ \E W : b.values \in Seq(W)
            /\ b.values # <<>> /\ {b.values[j].value : j \in DOMAIN b.values} = {v}
        BY <3>2, OneBound
      <3>4. QED
        BY <1>15, <2>3, <2>4, <2>5, <2>7, <3>1, <3>3 DEF Right, s, H
    <2>8. QED
      BY <2>6, <2>7
  <1>16. CASE H # {}
    <2>1. Len(raw) >= 1 /\ \A i \in H : place[1] <= i /\ i <= place[Len(raw)]
      BY <1>2, <1>4, <1>5, <1>6, <1>13, <1>16, FirstAndLast
    <2>2. 1 \in 1..Len(raw) /\ Len(raw) \in 1..Len(raw)
      BY <1>11, <2>1
    <2>3. chosen # {}
      <3>1. place[1] \in H /\ place[Len(raw)] \in H
        BY <1>14, <2>2
      <3>2. CASE s.cardinality = "first"
        BY <2>1, <3>1, <3>2
      <3>3. CASE s.cardinality = "last"
        BY <2>1, <3>1, <3>3
      <3>4. CASE s.cardinality # "first" /\ s.cardinality # "last"
        BY <3>1, <3>4
      <3>5. QED
        BY <3>2, <3>3, <3>4
    <2>4. found # {} /\ Operands(n) = found
      <3>1. PICK i \in chosen : E(i) # {}
        BY <1>10, <2>3
      <3>2. found # {}
        BY <3>1
      <3>3. QED
        BY <1>7, <3>2
    <2>5. raw # <<>>
      BY <1>13, <1>16
    <2>6. CASE s.cardinality = "exactly_one" /\ Len(raw) > 1
      <3>1. b = Binding(s, <<Head(raw)>>, FALSE, TRUE)
        BY <1>9, <2>6, Zenon
      <3>2. /\ b.values = <<Head(raw)>> /\ b.violated /\ ~b.missing
            /\ b.varies <=> s.cardinality = "any"
        BY <3>1 DEF Binding
      <3>3. Head(raw) = raw[1]
        BY <1>4, <2>5
      <3>4. /\ b.values \in Seq({raw[1]}) /\ b.values # <<>>
            /\ DOMAIN b.values = 1..1 /\ b.values[1] = raw[1]
        BY <3>2, <3>3
      <3>5. n \in Overcounted
        BY <1>8, <1>12, <2>6
      <3>6. \A j \in DOMAIN b.values : \E i \in H : /\ b.values[j].span = calls[i].span
                                                    /\ b.values[j].value \in E(i)
        <4>1. /\ place[1] \in H /\ raw[1].span = calls[place[1]].span /\ raw[1].value \in E(place[1])
          BY <1>14, <2>2
        <4>2. QED
          BY <3>4, <4>1
      <3>7. QED
        BY <2>4, <3>2, <3>4, <3>5, <3>6 DEF Right, s, H, E
    <2>7. CASE ~(s.cardinality = "exactly_one" /\ Len(raw) > 1)
      <3>1. b = Binding(s, Cut(s, raw), FALSE, FALSE)
        BY <1>9, <2>5, <2>7, Zenon
      <3>2. /\ b.values = Cut(s, raw) /\ ~b.violated /\ ~b.missing
            /\ b.varies <=> s.cardinality = "any"
        BY <3>1 DEF Binding
      <3>3. n \notin Overcounted
        BY <1>8, <1>12, <2>7
      <3>4. ASSUME NEW p \in 1..Len(raw), b.values = <<raw[p]>>, chosen = {place[p]}
            PROVE  Right(n, b)
        <4>1. place[p] \in H /\ raw[p].span = calls[place[p]].span /\ E(place[p]) = {raw[p].value}
          BY <1>14
        <4>2. /\ b.values \in Seq({raw[p]}) /\ b.values # <<>>
              /\ DOMAIN b.values = 1..1 /\ b.values[1] = raw[p]
          BY <3>4
        <4>3. {b.values[j].value : j \in DOMAIN b.values} = {raw[p].value}
          BY <4>2
        <4>4. found = {raw[p].value}
          BY <3>4, <4>1
        <4>5. (\E W : b.values \in Seq(W)) /\ Operands(n) # {} /\ Operands(n) = {raw[p].value}
          BY <2>4, <4>2, <4>4
        <4>6. \A j \in DOMAIN b.values : \E i \in H : /\ b.values[j].span = calls[i].span
                                                      /\ b.values[j].value \in E(i)
          BY <4>1, <4>2
        <4> HIDE DEF found, chosen
        <4>7. QED
          BY <3>2, <3>3, <4>2, <4>3, <4>5, <4>6 DEF Right, s, H, E
      <3>5. CASE s.cardinality = "first"
        <4>1. b.values = <<Head(raw)>> /\ Head(raw) = raw[1]
          BY <1>4, <2>5, <3>2, <3>5 DEF Cut
        <4>2. chosen = {place[1]}
          <5>1. place[1] \in H /\ \A j \in H : place[1] <= j
            BY <1>14, <2>1, <2>2
          <5>2. ASSUME NEW i \in chosen PROVE i = place[1]
            <6>1. i \in H /\ i <= place[1] /\ place[1] <= i
              BY <3>5, <5>1
            <6>2. i \in Nat /\ place[1] \in Nat
              BY <1>10, <5>1, <6>1
            <6>3. QED
              BY <6>1, <6>2
          <5>3. place[1] \in chosen
            BY <3>5, <5>1
          <5>4. QED
            BY <5>2, <5>3
        <4>3. QED
          BY <2>2, <3>4, <4>1, <4>2
      <3>6. CASE s.cardinality = "last"
        <4>1. b.values = <<Last(raw)>> /\ Last(raw) = raw[Len(raw)]
          BY <1>4, <2>5, <3>2, <3>6 DEF Cut, Last
        <4>2. chosen = {place[Len(raw)]}
          <5>1. place[Len(raw)] \in H /\ \A j \in H : j <= place[Len(raw)]
            BY <1>14, <2>1, <2>2
          <5>2. ASSUME NEW i \in chosen PROVE i = place[Len(raw)]
            <6>1. i \in H /\ i <= place[Len(raw)] /\ place[Len(raw)] <= i
              BY <3>6, <5>1
            <6>2. i \in Nat /\ place[Len(raw)] \in Nat
              BY <1>10, <5>1, <6>1
            <6>3. QED
              BY <6>1, <6>2
          <5>3. place[Len(raw)] \in chosen
            BY <3>6, <5>1
          <5>4. QED
            BY <5>2, <5>3
        <4>3. QED
          BY <2>2, <3>4, <4>1, <4>2
      <3>7. CASE s.cardinality # "first" /\ s.cardinality # "last"
        <4>1. b.values = raw /\ chosen = H
          BY <3>2, <3>7 DEF Cut
        <4>2. DOMAIN raw = 1..Len(raw)
          BY <1>4, LenProperties
        <4>3. {raw[j].value : j \in DOMAIN raw} = found
          <5>1. ASSUME NEW j \in DOMAIN raw PROVE raw[j].value \in found
            <6>1. place[j] \in chosen /\ raw[j].value \in E(place[j])
              BY <1>14, <4>1, <4>2, <5>1
            <6>2. QED
              BY <6>1
          <5>2. ASSUME NEW v \in found PROVE \E j \in DOMAIN raw : v = raw[j].value
            <6>1. PICK i \in H : v \in E(i)
              BY <4>1
            <6>2. PICK p \in 1..Len(raw) : place[p] = i
              BY <1>5, <1>6 DEF Places
            <6>3. v = raw[p].value
              BY <1>14, <6>1, <6>2
            <6>4. QED
              BY <4>2, <6>3
          <5> HIDE DEF found
          <5>3. QED
            BY <5>1, <5>2
        <4>4. \A j \in DOMAIN raw : \E i \in H : raw[j].span = calls[i].span /\ raw[j].value \in E(i)
          BY <1>14, <4>2
        <4>5. QED
          BY <1>4, <2>4, <2>5, <3>2, <3>3, <4>1, <4>3, <4>4 DEF Right, s, H, E
      <3>8. QED
        BY <3>5, <3>6, <3>7
    <2>8. QED
      BY <2>6, <2>7
  <1>17. QED
    BY <1>15, <1>16

LEMMA BindsRight ==
    ASSUME StateTypes, NEW n \in Names
    PROVE  Right(n, bindOne(Episode(calls, measured), specs[n]))
  BY GivenBinds, CallsBind

-----------------------------------------------------------------------------
(* The combinations are all the ways to pick a value for each name.        *)

Values(b, m) == {b[m].values[j].value : j \in DOMAIN b[m].values}

Picks(b, N) == {f \in [N -> UNION {Values(b, m) : m \in N}] : \A m \in N : f[m] \in Values(b, m)}

\* c with the j-th value of n.
With(b, n, c, j) ==
    [vars |-> Bound(c.vars, n, b[n].values[j].value),
     span |-> IF b[n].varies \/ c.span = NoSpan THEN b[n].values[j].span ELSE c.span]

LEMMA ExtendIs ==
    ASSUME NEW b, NEW n, NEW V, b[n].values \in Seq(V), NEW C, NEW out \in Seq(C)
    PROVE  /\ \E T : Extend(b, out, n) \in Seq(T)
           /\ \A c \in ToSet(out) : \A j \in DOMAIN b[n].values : With(b, n, c, j) \in ToSet(Extend(b, out, n))
           /\ \A x \in ToSet(Extend(b, out, n)) :
                 \E c \in ToSet(out) : \E j \in DOMAIN b[n].values : x = With(b, n, c, j)
  <1> DEFINE L    == Len(out)
             M    == Len(b[n].values)
             T    == {With(b, n, c, j) : c \in ToSet(out), j \in 1..M}
             row(i) == [j \in 1..M |-> With(b, n, out[i], j)]
             ss   == [i \in 1..L |-> row(i)]
             all  == Extend(b, out, n)
  <1>1. /\ L \in Nat /\ DOMAIN out = 1..L
        /\ M \in Nat /\ DOMAIN b[n].values = 1..M
    BY LenProperties
  <1>2. all = FlattenSeq(ss)
    BY <1>1 DEF Extend, With
  <1>3. ASSUME NEW i \in 1..L PROVE out[i] \in ToSet(out)
    BY <1>1 DEF ToSet
  <1>4. ASSUME NEW i \in 1..L, NEW j \in 1..M PROVE With(b, n, out[i], j) \in T
    BY <1>3
  <1> HIDE DEF T, L, M
  <1>5. ASSUME NEW i \in 1..L
        PROVE  ss[i] \in Seq(T) /\ Len(ss[i]) = M /\ \A j \in 1..M : ss[i][j] = With(b, n, out[i], j)
    <2>1. ss[i] = row(i)
      OBVIOUS
    <2>2. row(i) \in [1..M -> T]
      BY <1>4
    <2> HIDE DEF ss
    <2>3. QED
      BY <1>1, <2>1, <2>2, FunctionIsSeq
  <1>6. ss \in Seq(Seq(T)) /\ Len(ss) = L
    <2>1. ss \in [1..L -> Seq(T)]
      BY <1>5
    <2> HIDE DEF ss
    <2>2. QED
      BY <1>1, <2>1, FunctionIsSeq
  <1> HIDE DEF ss, all
  <1>7. PICK at \in [1..Len(ss) -> Nat] :
             /\ FlattenSeq(ss) \in Seq(T)
             /\ \A k \in 1..Len(ss) : \A j \in 1..Len(ss[k]) :
                   /\ at[k] + j \in 1..Len(FlattenSeq(ss))
                   /\ FlattenSeq(ss)[at[k] + j] = ss[k][j]
             /\ \A p \in 1..Len(FlattenSeq(ss)) :
                   \E k \in 1..Len(ss) : \E j \in 1..Len(ss[k]) : p = at[k] + j
             /\ \A j, k \in 1..Len(ss) : j < k => at[j] + Len(ss[j]) <= at[k]
    BY <1>6, FlattenPlaces
  <1>8. all \in Seq(T) /\ DOMAIN all = 1..Len(all)
    BY <1>2, <1>7, LenProperties
  <1>9. ASSUME NEW c \in ToSet(out), NEW j \in 1..M PROVE With(b, n, c, j) \in ToSet(all)
    <2>1. PICK i \in 1..L : c = out[i]
      BY <1>1 DEF ToSet
    <2>2. /\ at[i] + j \in DOMAIN all /\ all[at[i] + j] = With(b, n, c, j)
      BY <1>2, <1>5, <1>6, <1>7, <1>8, <2>1
    <2>3. QED
      BY <2>2 DEF ToSet
  <1>10. ASSUME NEW x \in ToSet(all) PROVE \E c \in ToSet(out) : \E j \in 1..M : x = With(b, n, c, j)
    <2>1. PICK p \in 1..Len(all) : x = all[p]
      BY <1>8 DEF ToSet
    <2>2. PICK i \in 1..L : \E j \in 1..Len(ss[i]) : p = at[i] + j
      BY <1>2, <1>6, <1>7
    <2>3. PICK j \in 1..M : p = at[i] + j
      BY <1>5, <2>2
    <2>4. all[p] = With(b, n, out[i], j)
      BY <1>2, <1>5, <1>6, <1>7, <2>3
    <2>5. QED
      BY <1>3, <2>1, <2>4
  <1>11. QED
    BY <1>1, <1>8, <1>9, <1>10 DEF all

\* out[k] is the combinations of the first k names.
Combines(out, b, names, m) ==
    out = [k \in 0..m |->
              IF k = 0 THEN <<[vars |-> <<>>, span |-> NoSpan]>>
              ELSE LET next == Extend(b, out[k - 1], names[k])
                   IN  IF Len(next) > maxCombinations THEN <<>> ELSE next]

LEMMA CombinesExists ==
    ASSUME NEW b, NEW names, NEW m \in Nat PROVE \E out : Combines(out, b, names, m)
  <1> DEFINE S(out, k) == LET next == Extend(b, out[k - 1], names[k])
                          IN  IF Len(next) > maxCombinations THEN <<>> ELSE next
             Z == <<[vars |-> <<>>, span |-> NoSpan]>>
             Step(f, k) == f[k] = IF k = 0 THEN Z ELSE S(f, k)
             Upto(n) == \E f : f = [k \in 0..n |-> f[k]] /\ \A k \in 0..n : Step(f, k)
             Bad == {n \in 0..m : ~Upto(n)}
  <1>0. \A f, g : \A k \in Nat : f[k - 1] = g[k - 1] => S(f, k) = S(g, k)
    OBVIOUS
  <1>1. ASSUME Bad # {} PROVE FALSE
    <2>1. PICK n \in Bad : \A i \in Bad : n <= i
      <3>1. Bad \subseteq Nat
        OBVIOUS
      <3> HIDE DEF Bad
      <3>2. QED
        BY <1>1, <3>1, LeastNat
    <2>2. n \in 0..m /\ ~Upto(n)
      OBVIOUS
    <2> HIDE DEF Z, S
    <2>3. CASE n = 0
      <3> DEFINE f == [k \in 0..0 |-> Z]
      <3>1. f = [k \in 0..0 |-> f[k]] /\ \A k \in 0..0 : Step(f, k)
        OBVIOUS
      <3>2. QED
        BY <2>2, <2>3, <3>1
    <2>4. CASE n # 0
      <3>1. n - 1 \in 0..m /\ n \in Nat /\ ~(n <= n - 1)
        BY <2>2, <2>4
      <3>2. Upto(n - 1)
        BY <2>1, <3>1
      <3>3. PICK f : f = [k \in 0..(n - 1) |-> f[k]] /\ \A k \in 0..(n - 1) : Step(f, k)
        BY <3>2
      <3> DEFINE g == [k \in 0..n |-> IF k = n THEN S(f, n) ELSE f[k]]
      <3>4. g = [k \in 0..n |-> g[k]]
        OBVIOUS
      <3>5. ASSUME NEW k \in 0..n PROVE Step(g, k)
        <4>1. CASE k = n
          <5>1. k \in 0..n /\ n - 1 \in 0..n /\ n - 1 # n /\ k # 0
            BY <2>4, <3>1, <4>1
          <5>2. g[k] = S(f, n) /\ g[n - 1] = f[n - 1]
            BY <4>1, <5>1
          <5>3. S(f, n) = S(g, n)
            BY <1>0, <3>1, <5>2
          <5>4. QED
            BY <4>1, <5>1, <5>2, <5>3
        <4>2. CASE k # n
          <5>1. k \in 0..(n - 1)
            BY <3>1, <4>2
          <5>2. Step(f, k)
            BY <3>3, <5>1
          <5>3. g[k] = f[k] /\ (k # 0 => k - 1 \in 0..n /\ k - 1 # n /\ g[k - 1] = f[k - 1])
            BY <3>1, <4>2
          <5>4. k # 0 => S(f, k) = S(g, k)
            BY <1>0, <5>3
          <5>5. QED
            BY <5>2, <5>3, <5>4
        <4>3. QED
          BY <4>1, <4>2
      <3> HIDE DEF g
      <3>6. QED
        BY <2>2, <3>4, <3>5
    <2>5. QED
      BY <2>3, <2>4
  <1>2. Upto(m)
    <2>1. m \in 0..m
      OBVIOUS
    <2> HIDE DEF Upto
    <2>2. QED
      BY <1>1, <2>1
  <1>3. PICK f : f = [k \in 0..m |-> f[k]] /\ \A k \in 0..m : Step(f, k)
    BY <1>2
  <1>4. Combines(f, b, names, m)
    BY <1>3 DEF Combines
  <1>5. QED
    BY <1>4

\* The first k names.
First(names, k) == {names[i] : i \in 1..k}

\* Either there are too many, or they are all there.
Crossed(b, N, combos) ==
    /\ \E C : combos \in Seq(C)
    /\ combos # <<>> => {c.vars : c \in ToSet(combos)} = Picks(b, N)

LEMMA ExtendCrosses ==
    ASSUME NEW b, NEW n, NEW V, b[n].values \in Seq(V), NEW N, NEW combos, Crossed(b, N, combos)
    PROVE  Crossed(b, N \cup {n}, Extend(b, combos, n))
  <1> DEFINE next == Extend(b, combos, n)
             P    == Picks(b, N)
             Q    == Picks(b, N \cup {n})
  <1>1. PICK C : combos \in Seq(C)
    BY DEF Crossed
  <1>2. /\ \E T : next \in Seq(T)
        /\ \A c \in ToSet(combos) : \A j \in DOMAIN b[n].values : With(b, n, c, j) \in ToSet(next)
        /\ \A x \in ToSet(next) : \E c \in ToSet(combos) : \E j \in DOMAIN b[n].values : x = With(b, n, c, j)
    BY <1>1, ExtendIs
  <1>3. ASSUME NEW c, NEW j PROVE With(b, n, c, j).vars = Bound(c.vars, n, b[n].values[j].value)
    BY DEF With
  <1>4. \A v : v \in Values(b, n) <=> \E j \in DOMAIN b[n].values : v = b[n].values[j].value
    BY DEF Values
  <1>5. ASSUME NEW f \in P, NEW v \in Values(b, n) PROVE Bound(f, n, v) \in Q
    <2>1. f \in [N -> UNION {Values(b, m) : m \in N}] /\ \A m \in N : f[m] \in Values(b, m)
      BY DEF Picks
    <2>a. DOMAIN f = N
      BY <2>1
    <2>2. /\ DOMAIN Bound(f, n, v) = N \cup {n}
          /\ Bound(f, n, v)[n] = v
          /\ \A m \in N : m # n => Bound(f, n, v)[m] = f[m]
      BY <2>a DEF Bound
    <2>3. Bound(f, n, v) = [m \in N \cup {n} |-> Bound(f, n, v)[m]]
      BY <2>1 DEF Bound
    <2>4. \A m \in N \cup {n} : Bound(f, n, v)[m] \in Values(b, m)
      BY <2>1, <2>2
    <2> DEFINE g == Bound(f, n, v)
    <2> HIDE DEF g
    <2>5. \A m \in N \cup {n} : g[m] \in UNION {Values(b, k) : k \in N \cup {n}}
      BY <2>4 DEF g
    <2>6. g \in [N \cup {n} -> UNION {Values(b, m) : m \in N \cup {n}}]
      BY <2>3, <2>5 DEF g
    <2>7. QED
      BY <2>4, <2>6 DEF Picks, g
  <1>6. ASSUME NEW g \in Q PROVE g[n] \in Values(b, n) /\ \E f \in P : g = Bound(f, n, g[n])
    <2>1. g \in [N \cup {n} -> UNION {Values(b, m) : m \in N \cup {n}}] /\ \A m \in N \cup {n} : g[m] \in Values(b, m)
      BY DEF Picks
    <2> DEFINE f == [m \in N |-> g[m]]
    <2>2. \A m \in N : f[m] \in UNION {Values(b, k) : k \in N} /\ f[m] \in Values(b, m)
      BY <2>1
    <2>3. f \in P
      BY <2>2 DEF Picks
    <2>4. g = Bound(f, n, g[n])
      BY <2>1 DEF Bound
    <2>5. QED
      BY <2>1, <2>3, <2>4
  <1> HIDE DEF next, P, Q
  <1>7. ASSUME next # <<>> PROVE {c.vars : c \in ToSet(next)} = Q
    <2>1. combos # <<>>
      <3> SUFFICES ASSUME combos = <<>> PROVE FALSE
        OBVIOUS
      <3>1. ToSet(combos) = {}
        BY DEF ToSet
      <3>2. ToSet(next) = {}
        BY <1>2, <3>1
      <3>3. DOMAIN next = {}
        BY <3>2 DEF ToSet
      <3>4. Len(next) = 0
        <4>1. Len(next) \in Nat /\ DOMAIN next = 1..Len(next)
          BY <1>2, LenProperties
        <4>2. QED
          BY <3>3, <4>1
      <3>5. QED
        BY <1>2, <1>7, <3>4, EmptySeq
    <2>2. {c.vars : c \in ToSet(combos)} = P
      BY <2>1 DEF Crossed, P
    <2>3. ASSUME NEW x \in ToSet(next) PROVE x.vars \in Q
      <3>1. PICK c \in ToSet(combos) : \E j \in DOMAIN b[n].values : x = With(b, n, c, j)
        BY <1>2
      <3>2. PICK j \in DOMAIN b[n].values : x = With(b, n, c, j)
        BY <3>1
      <3>3. c.vars \in P /\ b[n].values[j].value \in Values(b, n)
        BY <1>4, <2>2
      <3>4. QED
        BY <1>3, <1>5, <3>2, <3>3
    <2>4. ASSUME NEW g \in Q PROVE \E x \in ToSet(next) : g = x.vars
      <3>1. PICK f \in P : g = Bound(f, n, g[n])
        BY <1>6
      <3>2. PICK c \in ToSet(combos) : f = c.vars
        BY <2>2
      <3>3. PICK j \in DOMAIN b[n].values : g[n] = b[n].values[j].value
        BY <1>4, <1>6
      <3>4. With(b, n, c, j) \in ToSet(next) /\ With(b, n, c, j).vars = g
        BY <1>2, <1>3, <3>1, <3>2, <3>3
      <3>5. QED
        BY <3>4
    <2>5. QED
      BY <2>3, <2>4
  <1>8. QED
    BY <1>2, <1>7 DEF Crossed, next, Q

LEMMA StartCrosses ==
    ASSUME NEW b
    PROVE  Crossed(b, {}, <<[vars |-> <<>>, span |-> NoSpan]>>)
  <1> DEFINE r == [vars |-> <<>>, span |-> NoSpan]
  <1>1. r.vars = <<>>
    OBVIOUS
  <1> HIDE DEF r
  <1>2. <<r>> \in Seq({r}) /\ DOMAIN <<r>> = 1..1 /\ <<r>>[1] = r
    OBVIOUS
  <1>3. ToSet(<<r>>) = {r}
    BY <1>2 DEF ToSet
  <1>4. Picks(b, {}) = {<<>>}
    <2>1. <<>> \in Picks(b, {})
      BY DEF Picks
    <2>2. ASSUME NEW f \in Picks(b, {}) PROVE f = <<>>
      <3>1. f \in [{} -> UNION {Values(b, m) : m \in {}}]
        BY DEF Picks
      <3>2. f \in [1..0 -> {}]
        BY <3>1
      <3>3. f \in Seq({}) /\ Len(f) = 0
        BY <3>2, FunctionIsSeq
      <3>4. QED
        BY <3>3, EmptySeq
    <2>3. QED
      BY <2>1, <2>2
  <1>5. {c.vars : c \in {r}} = {r.vars}
    OBVIOUS
  <1>6. QED
    BY <1>1, <1>2, <1>3, <1>4, <1>5 DEF Crossed, r

LEMMA FirstNames ==
    ASSUME NEW names, NEW k \in Nat
    PROVE  /\ First(names, 0) = {}
           /\ k # 0 => First(names, k) = First(names, k - 1) \cup {names[k]}
  BY DEF First

\* There are too many, or each way to pick values for the names is there.
LEMMA CombinationsCross ==
    ASSUME NEW b, NEW S, NEW names \in Seq(S), \A n \in ToSet(names) : \E V : b[n].values \in Seq(V),
           NEW out, Combines(out, b, names, Len(names)), NEW m \in 0..Len(names)
    PROVE  Crossed(b, First(names, m), out[m])
  <1> DEFINE Bad == {k \in 0..Len(names) : ~Crossed(b, First(names, k), out[k])}
  <1>1. Len(names) \in Nat /\ \A k \in 1..Len(names) : names[k] \in ToSet(names)
    BY LenProperties DEF ToSet
  <1>2. \A k \in 0..Len(names) :
           out[k] = IF k = 0 THEN <<[vars |-> <<>>, span |-> NoSpan]>>
                    ELSE LET next == Extend(b, out[k - 1], names[k])
                         IN  IF Len(next) > maxCombinations THEN <<>> ELSE next
    BY DEF Combines
  <1>3. ASSUME Bad # {} PROVE FALSE
    <2>1. PICK k \in Bad : \A i \in Bad : k <= i
      <3>1. Bad \subseteq Nat
        BY <1>1
      <3> HIDE DEF Bad
      <3>2. QED
        BY <1>3, <3>1, LeastNat
    <2>2. k \in 0..Len(names) /\ ~Crossed(b, First(names, k), out[k])
      OBVIOUS
    <2>3. CASE k = 0
      BY <1>2, <2>2, <2>3, StartCrosses, FirstNames
    <2>4. CASE k # 0
      <3>1. k - 1 \in 0..Len(names) /\ ~(k <= k - 1) /\ k \in 1..Len(names) /\ k \in Nat
        BY <1>1, <2>2, <2>4
      <3>2. Crossed(b, First(names, k - 1), out[k - 1])
        BY <2>1, <3>1
      <3> DEFINE next == Extend(b, out[k - 1], names[k])
      <3>3. Crossed(b, First(names, k), next)
        <4>1. \E V : b[names[k]].values \in Seq(V)
          BY <1>1, <3>1
        <4>2. First(names, k) = First(names, k - 1) \cup {names[k]}
          BY <2>4, <3>1, FirstNames
        <4>3. QED
          BY <3>2, <4>1, <4>2, ExtendCrosses
      <3>4. out[k] = next \/ out[k] = <<>>
        BY <1>2, <2>2, <2>4
      <3> HIDE DEF next
      <3>5. Crossed(b, First(names, k), <<>>)
        <4>1. <<>> \in Seq({})
          OBVIOUS
        <4>2. QED
          BY <4>1 DEF Crossed
      <3>6. QED
        BY <2>2, <3>3, <3>4, <3>5
    <2>5. QED
      BY <2>3, <2>4
  <1>4. QED
    BY <1>3

\* The operand at place p varies, its values are those of spans, and none that comes
\* after it varies: its span is the one that is blamed.
Decides(b, names, p) ==
    /\ b[names[p]].varies
    /\ \A j \in DOMAIN b[names[p]].values : b[names[p]].values[j].span # NoSpan
    /\ \A i \in (p + 1)..Len(names) : ~b[names[i]].varies /\ names[i] # names[p]

Blames(b, n, combos) ==
    \A c \in ToSet(combos) :
        /\ n \in DOMAIN c.vars
        /\ \E j \in DOMAIN b[n].values : c.vars[n] = b[n].values[j].value /\ c.span = b[n].values[j].span

LEMMA CombinationsBlame ==
    ASSUME NEW b, NEW S, NEW names \in Seq(S), \A n \in ToSet(names) : \E V : b[n].values \in Seq(V),
           NEW out, Combines(out, b, names, Len(names)), NEW p \in 1..Len(names), Decides(b, names, p)
    PROVE  Blames(b, names[p], out[Len(names)])
  <1> DEFINE n == names[p]
             Bad == {k \in p..Len(names) : ~Blames(b, n, out[k])}
  <1>1. Len(names) \in Nat /\ \A k \in 1..Len(names) : names[k] \in ToSet(names)
    BY LenProperties DEF ToSet
  <1>2. \A k \in 0..Len(names) :
           out[k] = IF k = 0 THEN <<[vars |-> <<>>, span |-> NoSpan]>>
                    ELSE LET next == Extend(b, out[k - 1], names[k])
                         IN  IF Len(next) > maxCombinations THEN <<>> ELSE next
    BY DEF Combines
  <1>3. ASSUME Bad # {} PROVE FALSE
    <2>1. PICK k \in Bad : \A i \in Bad : k <= i
      <3>1. Bad \subseteq Nat
        BY <1>1
      <3> HIDE DEF Bad
      <3>2. QED
        BY <1>3, <3>1, LeastNat
    <2>2. k \in p..Len(names) /\ ~Blames(b, n, out[k])
      OBVIOUS
    <2>3. k \in 1..Len(names) /\ k - 1 \in 0..Len(names) /\ k \in 0..Len(names) /\ k # 0
      BY <1>1, <2>2
    <2> DEFINE m    == names[k]
               next == Extend(b, out[k - 1], m)
    <2>4. PICK C : out[k - 1] \in Seq(C)
      <3>1. Crossed(b, First(names, k - 1), out[k - 1])
        BY <2>3, CombinationsCross
      <3>2. QED
        BY <3>1 DEF Crossed
    <2>5. \A x \in ToSet(next) : \E c \in ToSet(out[k - 1]) : \E j \in DOMAIN b[m].values : x = With(b, m, c, j)
      <3>1. PICK V : b[m].values \in Seq(V)
        BY <1>1, <2>3
      <3> DEFINE o == out[k - 1]
      <3>2. o \in Seq(C)
        BY <2>4
      <3> HIDE DEF m, o, n, Bad
      <3>3. \A x \in ToSet(Extend(b, o, m)) :
               \E c \in ToSet(o) : \E j \in DOMAIN b[m].values : x = With(b, m, c, j)
        BY <3>1, <3>2, ExtendIs
      <3>4. QED
        BY <3>3 DEF o
    <2>6. out[k] = next \/ ToSet(out[k]) = {}
      <3>1. ToSet(<<>>) = {}
        BY DEF ToSet
      <3>2. out[k] = next \/ out[k] = <<>>
        BY <1>2, <2>3
      <3>3. QED
        BY <3>1, <3>2
    <2> HIDE DEF next, m, n, Bad
    <2>7. ASSUME NEW c, NEW j
          PROVE  /\ DOMAIN With(b, m, c, j).vars = DOMAIN c.vars \cup {m}
                 /\ With(b, m, c, j).vars[m] = b[m].values[j].value
                 /\ \A i \in DOMAIN c.vars : i # m => With(b, m, c, j).vars[i] = c.vars[i]
                 /\ With(b, m, c, j).span = IF b[m].varies \/ c.span = NoSpan THEN b[m].values[j].span ELSE c.span
      BY DEF With, Bound
    <2>8. CASE k = p
      <3>1. m = n /\ b[m].varies
        BY <2>8 DEF m, n, Decides
      <3>2. Blames(b, n, next)
        <4> SUFFICES ASSUME NEW x \in ToSet(next)
                     PROVE  /\ n \in DOMAIN x.vars
                            /\ \E j \in DOMAIN b[n].values :
                                  x.vars[n] = b[n].values[j].value /\ x.span = b[n].values[j].span
          BY DEF Blames
        <4>1. PICK c \in ToSet(out[k - 1]) : \E j \in DOMAIN b[m].values : x = With(b, m, c, j)
          BY <2>5
        <4>2. PICK j \in DOMAIN b[m].values : x = With(b, m, c, j)
          BY <4>1
        <4>3. QED
          BY <2>7, <3>1, <4>2
      <3>3. QED
        BY <2>2, <2>6, <3>2 DEF Blames
    <2>9. CASE k # p
      <3>1. k - 1 \in p..Len(names) /\ k \in (p + 1)..Len(names) /\ ~(k <= k - 1)
        BY <1>1, <2>2, <2>9
      <3>2. Blames(b, n, out[k - 1])
        BY <2>1, <3>1 DEF Bad
      <3>3. m # n /\ ~b[m].varies
        BY <3>1 DEF m, n, Decides
      <3>4. Blames(b, n, next)
        <4> SUFFICES ASSUME NEW x \in ToSet(next)
                     PROVE  /\ n \in DOMAIN x.vars
                            /\ \E j \in DOMAIN b[n].values :
                                  x.vars[n] = b[n].values[j].value /\ x.span = b[n].values[j].span
          BY DEF Blames
        <4>1. PICK c \in ToSet(out[k - 1]) : \E j \in DOMAIN b[m].values : x = With(b, m, c, j)
          BY <2>5
        <4>2. PICK j \in DOMAIN b[m].values : x = With(b, m, c, j)
          BY <4>1
        <4>3. n \in DOMAIN c.vars /\ \E i \in DOMAIN b[n].values :
                  c.vars[n] = b[n].values[i].value /\ c.span = b[n].values[i].span
          BY <3>2 DEF Blames
        <4>4. c.span # NoSpan
          BY <4>3 DEF Decides, n
        <4>5. n \in DOMAIN x.vars /\ x.vars[n] = c.vars[n] /\ x.span = c.span
          BY <2>7, <3>3, <4>2, <4>3, <4>4
        <4>6. QED
          BY <4>3, <4>5
      <3>5. QED
        BY <2>2, <2>6, <3>4 DEF Blames
    <2>10. QED
      BY <2>8, <2>9
  <1>4. Len(names) \in p..Len(names)
    BY <1>1
  <1>5. QED
    BY <1>3, <1>4

-----------------------------------------------------------------------------
(* What the clause comes to.                                               *)

Come(combos, to) == {c \in combos : Constraint(Expr, c.vars) = to}

\* What evalInvariant makes of the combinations, in the order of its returns.
Concludes(combos) ==
    LET skips == \E n \in Names : Operands(n) = {}
        wrong == Overcounted # {}
        errs  == combos = {} \/ Come(combos, "true") \cup Come(combos, "false") # combos
        fails == Come(combos, "false") # {}
    IN  /\ skips => result.status = "skipped"
        /\ ~skips /\ wrong => result.status = "fail"
        /\ ~skips /\ ~wrong /\ errs => result.status = "errored"
        /\ ~skips /\ ~wrong /\ ~errs /\ fails =>
              result.status = "fail" /\ result.blamed = {c.span : c \in Come(combos, "false")}
        /\ ~skips /\ ~wrong /\ ~errs /\ ~fails => result.status = "pass"

\* The combinations are the readings, each blamed on its last operand that varies.
Reads(combos) ==
    Overcounted = {} =>
        /\ combos # {} => {c.vars : c \in combos} = Readings
        /\ \A n \in LastVarying : Holders(n) # {} =>
              \A c \in combos : \E i \in Holders(n) :
                  c.span = calls[i].span /\ c.vars[n] \in Extracted(specs[n], calls[i])

LEMMA NamesOfRefs ==
    /\ Refs \in Seq(STRING) /\ Len(Refs) \in Nat /\ DOMAIN Refs = 1..Len(Refs)
    /\ Names = DOMAIN Specs /\ Names = ToSet(Refs) /\ First(Refs, Len(Refs)) = Names
    /\ \A i, j \in 1..Len(Refs) : Refs[i] = Refs[j] => i = j
  <1>1. Refs \in Seq(STRING) /\ Len(Refs) \in Nat /\ DOMAIN Refs = 1..Len(Refs)
    BY RefsAssumption, LenProperties
  <1>2. First(Refs, Len(Refs)) = ToSet(Refs)
    BY <1>1 DEF First, ToSet
  <1>3. QED
    BY <1>1, <1>2, RefsAssumption DEF Names

LEMMA ReadingsArePicks ==
    ASSUME StateTypes, Overcounted = {}, NEW b, \A n \in Names : Right(n, b[n])
    PROVE  Picks(b, Names) = Readings
  <1>1. \A n \in Names : Values(b, n) = Operands(n)
    BY DEF Right, Values
  <1>2. UNION {Values(b, n) : n \in Names} = UNION {Operands(n) : n \in Names}
    BY <1>1
  <1>3. QED
    BY <1>1, <1>2 DEF Picks, Readings

LEMMA LastDecides ==
    ASSUME StateTypes, NEW b, \A n \in Names : Right(n, b[n]),
           NEW n \in LastVarying, Holders(n) # {}
    PROVE  \E p \in 1..Len(Refs) : Refs[p] = n /\ Decides(b, Refs, p)
  <1>1. n \in Varying /\ n \in Names /\ specs[n].cardinality = "any"
    BY DEF LastVarying, Varying
  <1>2. PICK p \in 1..Len(Refs) : Refs[p] = n
    BY <1>1, NamesOfRefs DEF ToSet
  <1>3. b[n].varies
    BY <1>1 DEF Right
  <1>4. \A j \in DOMAIN b[n].values : b[n].values[j].span # NoSpan
    <2>1. \A i \in Holders(n) : calls[i].span \in 1..Len(calls)
      BY DEF Holders, StateTypes
    <2>2. Len(calls) \in Nat
      BY LenProperties DEF StateTypes
    <2>3. \A i \in Holders(n) : calls[i].span # NoSpan
      BY <2>1, <2>2 DEF NoSpan
    <2>4. QED
      BY <1>1, <2>3 DEF Right
  <1>5. ASSUME NEW i \in (p + 1)..Len(Refs) PROVE ~b[Refs[i]].varies /\ Refs[i] # n
    <2>1. i \in 1..Len(Refs) /\ i # p /\ ~(i <= p)
      BY NamesOfRefs
    <2>2. Refs[i] # n
      BY <1>2, <2>1, NamesOfRefs
    <2>3. Refs[i] \in Names
      BY <2>1, NamesOfRefs DEF ToSet
    <2>4. Refs[i] \notin Varying
      <3> SUFFICES ASSUME Refs[i] \in Varying PROVE FALSE
        OBVIOUS
      <3>1. PICK k, l \in DOMAIN Refs : Refs[k] = Refs[i] /\ Refs[l] = n /\ k <= l
        BY DEF LastVarying
      <3>2. k = i /\ l = p
        BY <1>2, <2>1, <3>1, NamesOfRefs
      <3>3. QED
        BY <2>1, <3>1, <3>2
    <2>5. ~b[Refs[i]].varies
      BY <2>3, <2>4 DEF Varying, Right
    <2>6. QED
      BY <2>2, <2>5
  <1>6. Decides(b, Refs, p)
    BY <1>2, <1>3, <1>4, <1>5 DEF Decides
  <1>7. QED
    BY <1>2, <1>6

LEMMA ClauseConcludes ==
    ASSUME Inv
    PROVE  \E combos : Concludes(combos) /\ Reads(combos)
  <1> DEFINE b      == Bind(Episode(calls, measured), specs)
             out    == CHOOSE f : Combines(f, b, Refs, Len(Refs))
             all    == Combinations(b, Refs)
             combos == ToSet(all)
             wrong  == {n \in ToSet(Refs) : b[n].violated}
  <1>1. StateTypes /\ result = Evaluated(calls, measured)
    BY DEF Inv
  <1>2. \A n \in Names : Right(n, b[n])
    <2>1. \A n \in Names : b[n] = bindOne(Episode(calls, measured), specs[n])
      BY <1>1 DEF Bind, StateTypes
    <2>2. QED
      BY <1>1, <2>1, BindsRight
  <1>3. all = out[Len(Refs)] /\ Combines(out, b, Refs, Len(Refs))
    <2>1. Combines(out, b, Refs, Len(Refs))
      BY CombinesExists, NamesOfRefs
    <2>2. all = out[Len(Refs)]
      BY DEF Combinations, Combines
    <2>3. QED
      BY <2>1, <2>2
  <1>4. /\ result = IF \E n \in ToSet(Refs) : b[n].missing THEN Conclusion("skipped", {})
                     ELSE IF wrong # {} THEN Conclusion("fail", {b[n].values[1].span : n \in wrong})
                     ELSE IF combos = {} \/ Come(combos, "true") \cup Come(combos, "false") # combos
                          THEN Conclusion("errored", {})
                     ELSE IF Come(combos, "false") # {}
                          THEN Conclusion("fail", {c.span : c \in Come(combos, "false")})
                     ELSE Conclusion("pass", {})
    BY <1>1 DEF Evaluated, evalInvariant, Come
  <1> HIDE DEF b, out, all
  <1>5. \A n \in ToSet(Refs) : \E V : b[n].values \in Seq(V)
    BY <1>2, NamesOfRefs DEF Right
  <1>6. Crossed(b, Names, all)
    <2>1. Len(Refs) \in 0..Len(Refs)
      BY NamesOfRefs
    <2>2. Crossed(b, First(Refs, Len(Refs)), out[Len(Refs)])
      BY <1>3, <1>5, <2>1, NamesOfRefs, CombinationsCross
    <2>3. QED
      BY <1>3, <2>2, NamesOfRefs
  <1>7. Reads(combos)
    <2>1. ASSUME Overcounted = {}, combos # {} PROVE {c.vars : c \in combos} = Readings
      <3>1. all # <<>>
        BY <2>1 DEF ToSet
      <3>2. {c.vars : c \in combos} = Picks(b, Names)
        BY <1>6, <3>1 DEF Crossed
      <3>3. QED
        BY <1>1, <1>2, <2>1, <3>2, ReadingsArePicks
    <2>2. ASSUME NEW n \in LastVarying, Holders(n) # {}, NEW c \in combos
          PROVE  \E i \in Holders(n) : c.span = calls[i].span /\ c.vars[n] \in Extracted(specs[n], calls[i])
      <3>1. PICK p \in 1..Len(Refs) : Refs[p] = n /\ Decides(b, Refs, p)
        BY <1>1, <1>2, <2>2, LastDecides
      <3>2. Blames(b, Refs[p], out[Len(Refs)])
        BY <1>3, <1>5, <3>1, NamesOfRefs, CombinationsBlame
      <3>3. PICK j \in DOMAIN b[n].values : c.vars[n] = b[n].values[j].value /\ c.span = b[n].values[j].span
        BY <1>3, <3>1, <3>2 DEF Blames
      <3>4. n \in Names
        BY DEF LastVarying, Varying
      <3>5. QED
        BY <1>2, <2>2, <3>3, <3>4 DEF Right
    <2>3. QED
      BY <2>1, <2>2 DEF Reads
  <1>8. /\ wrong # {} <=> Overcounted # {}
        /\ (\E n \in ToSet(Refs) : b[n].missing) <=> \E n \in Names : Operands(n) = {}
    <2>1. wrong = Overcounted
      BY <1>2, NamesOfRefs DEF Right, Overcounted
    <2>2. \A n \in Names : b[n].missing <=> Operands(n) = {}
      BY <1>2 DEF Right
    <2>3. QED
      BY <2>1, <2>2, NamesOfRefs
  <1>9. \A st, bl : Conclusion(st, bl).status = st /\ Conclusion(st, bl).blamed = bl
    BY DEF Conclusion
  <1> HIDE DEF wrong, combos
  <1>10. Concludes(combos)
    BY <1>4, <1>8, <1>9 DEF Concludes
  <1>11. QED
    BY <1>7, <1>10

-----------------------------------------------------------------------------
(* A call that is recorded takes its place among the others.               *)

LEMMA Inserted ==
    ASSUME NEW S, NEW cs \in Seq(S), NEW e \in S, NEW k \in 1..(Len(cs) + 1)
    PROVE  /\ InsertAt(cs, k, e) \in Seq(S)
           /\ Len(InsertAt(cs, k, e)) = Len(cs) + 1
           /\ InsertAt(cs, k, e)[k] = e
           /\ \A i \in 1..(k - 1) : InsertAt(cs, k, e)[i] = cs[i]
           /\ \A i \in k..Len(cs) : InsertAt(cs, k, e)[i + 1] = cs[i]
  <1> DEFINE a == SubSeq(cs, 1, k - 1)
             m == <<e>>
             z == SubSeq(cs, k, Len(cs))
             N == Len(cs)
  <1>1. N \in Nat /\ k \in Nat /\ k >= 1 /\ k - 1 \in Nat /\ k - 1 <= N
    BY LenProperties
  <1>2. a \in Seq(S) /\ Len(a) = k - 1 /\ \A i \in 1..(k - 1) : a[i] = cs[i]
    <2>1. /\ a \in Seq(S)
          /\ Len(a) = IF 1 <= k - 1 THEN k - 1 - 1 + 1 ELSE 0
          /\ \A i \in 1..(k - 1 - 1 + 1) : a[i] = cs[1 + i - 1]
      BY <1>1, SubSeqIs
    <2> HIDE DEF a
    <2>2. QED
      BY <1>1, <2>1
  <1>3. z \in Seq(S) /\ Len(z) = N - k + 1 /\ \A i \in 1..(N - k + 1) : z[i] = cs[k + i - 1]
    <2>1. /\ z \in Seq(S)
          /\ Len(z) = IF k <= N THEN N - k + 1 ELSE 0
          /\ \A i \in 1..(N - k + 1) : z[i] = cs[k + i - 1]
      BY <1>1, SubSeqIs
    <2> HIDE DEF z, N
    <2>2. QED
      BY <1>1, <2>1
  <1>4. m \in Seq(S) /\ Len(m) = 1 /\ m[1] = e
    OBVIOUS
  <1>5. InsertAt(cs, k, e) = (a \o m) \o z
    BY DEF InsertAt
  <1> HIDE DEF a, m, z, N
  <1>6. /\ a \o m \in Seq(S) /\ Len(a \o m) = k
        /\ (a \o m)[k] = e /\ \A i \in 1..(k - 1) : (a \o m)[i] = cs[i]
    <2>1. /\ a \o m \in Seq(S) /\ Len(a \o m) = Len(a) + Len(m)
          /\ \A i \in 1..(Len(a) + Len(m)) : (a \o m)[i] = IF i <= Len(a) THEN a[i] ELSE m[i - Len(a)]
      BY <1>2, <1>4, ConcatProperties
    <2> HIDE DEF m
    <2>2. QED
      BY <1>1, <1>2, <1>4, <2>1
  <1> DEFINE am  == a \o m
             all == am \o z
  <1>7. am \in Seq(S) /\ Len(am) = k /\ am[k] = e /\ \A i \in 1..(k - 1) : am[i] = cs[i]
    BY <1>6
  <1>8. InsertAt(cs, k, e) = all
    BY <1>5
  <1> HIDE DEF am
  <1>9. /\ all \in Seq(S) /\ Len(all) = Len(am) + Len(z)
        /\ \A i \in 1..(Len(am) + Len(z)) : all[i] = IF i <= Len(am) THEN am[i] ELSE z[i - Len(am)]
    BY <1>3, <1>7, ConcatProperties
  <1> HIDE DEF all
  <1>10. /\ Len(all) = N + 1 /\ all[k] = e
         /\ \A i \in 1..(k - 1) : all[i] = cs[i]
    BY <1>1, <1>3, <1>7, <1>9
  <1>11. ASSUME NEW i \in k..N PROVE all[i + 1] = cs[i]
    <2>1. i + 1 \in 1..(Len(am) + Len(z)) /\ ~(i + 1 <= Len(am)) /\ i + 1 - Len(am) = i - k + 1
      BY <1>1, <1>3, <1>7
    <2>2. i - k + 1 \in 1..(N - k + 1) /\ k + (i - k + 1) - 1 = i
      BY <1>1
    <2>3. all[i + 1] = z[i - k + 1]
      <3> DEFINE j == i + 1
      <3>1. all[j] = IF j <= Len(am) THEN am[j] ELSE z[j - Len(am)]
        <4>1. j \in 1..(Len(am) + Len(z))
          BY <2>1
        <4> HIDE DEF j
        <4>2. QED
          BY <1>9, <4>1
      <3>2. QED
        BY <2>1, <3>1
    <2>4. QED
      BY <1>3, <2>2, <2>3
  <1>12. QED
    BY <1>8, <1>9, <1>10, <1>11 DEF N

\* Where a call is once another has taken place k.
Moved(k, i) == IF i < k THEN i ELSE i + 1

\* The step that records c at place k.
Recording(c, k) ==
    /\ c \in Calls /\ k \in 1..(Len(calls) + 1)
    /\ calls' = InsertAt(calls, k, [c EXCEPT !.span = Len(calls) + 1])
    /\ result' = Evaluated(calls, measured)'
    /\ UNCHANGED specs

\* The step that measures something else.
Measuring ==
    /\ result' = Evaluated(calls, measured)'
    /\ UNCHANGED <<specs, calls>>

LEMMA Records ==
    ASSUME StateTypes, NEW c, NEW k, Recording(c, k)
    PROVE  /\ Len(calls) \in Nat /\ DOMAIN calls = 1..Len(calls)
           /\ calls' \in Seq(Recorded)
           /\ Len(calls') = Len(calls) + 1 /\ DOMAIN calls' = 1..(Len(calls) + 1)
           /\ calls'[k].span = Len(calls) + 1
           /\ \A i \in DOMAIN calls : Moved(k, i) \in DOMAIN calls' /\ calls'[Moved(k, i)] = calls[i]
           /\ \A j \in DOMAIN calls' : j = k \/ \E i \in DOMAIN calls : j = Moved(k, i)
           /\ \A i, j \in DOMAIN calls : Moved(k, i) = Moved(k, j) => i = j
  <1> DEFINE N == Len(calls)
             e == [c EXCEPT !.span = N + 1]
  <1>1. calls \in Seq(Recorded) /\ N \in Nat /\ DOMAIN calls = 1..N
    BY LenProperties DEF StateTypes
  <1>2. e \in Recorded /\ e.span = N + 1
    <2>1. e \in Recorded
      <3>1. N + 1 \in Nat
        BY <1>1
      <3> HIDE DEF N
      <3>2. QED
        BY <3>1 DEF Recorded, Recording
    <2>2. c = [span |-> c.span, name |-> c.name, args |-> c.args, argsCaptured |-> c.argsCaptured,
               result |-> c.result, resultCaptured |-> c.resultCaptured, error |-> c.error]
      BY CallsAssumption DEF Recording
    <2> HIDE DEF N
    <2>3. e.span = N + 1
      BY <2>2
    <2>4. QED
      BY <2>1, <2>3
  <1>3. calls' = InsertAt(calls, k, e) /\ k \in 1..(N + 1)
    BY DEF Recording
  <1> HIDE DEF e
  <1>4. /\ calls' \in Seq(Recorded)
        /\ Len(calls') = N + 1
        /\ calls'[k] = e
        /\ \A i \in 1..(k - 1) : calls'[i] = calls[i]
        /\ \A i \in k..N : calls'[i + 1] = calls[i]
    <2>1. calls \in Seq(Recorded) /\ e \in Recorded /\ k \in 1..(Len(calls) + 1)
      BY <1>1, <1>2, <1>3
    <2>2. /\ InsertAt(calls, k, e) \in Seq(Recorded)
          /\ Len(InsertAt(calls, k, e)) = Len(calls) + 1
          /\ InsertAt(calls, k, e)[k] = e
          /\ \A i \in 1..(k - 1) : InsertAt(calls, k, e)[i] = calls[i]
          /\ \A i \in k..Len(calls) : InsertAt(calls, k, e)[i + 1] = calls[i]
      BY <2>1, Inserted
    <2>3. QED
      BY <1>3, <2>2
  <1>5. DOMAIN calls' = 1..(N + 1)
    <2>1. DOMAIN calls' = 1..Len(calls')
      BY <1>4, LenProperties
    <2>2. QED
      BY <1>4, <2>1
  <1> HIDE DEF N
  <1>6. ASSUME NEW i \in 1..N PROVE Moved(k, i) \in 1..(N + 1) /\ calls'[Moved(k, i)] = calls[i]
    <2>1. CASE i < k
      <3>1. i \in 1..(k - 1) /\ i \in 1..(N + 1) /\ Moved(k, i) = i
        BY <1>1, <1>3, <2>1 DEF Moved
      <3>2. QED
        BY <1>4, <3>1
    <2>2. CASE ~(i < k)
      <3>1. i \in k..N /\ i + 1 \in 1..(N + 1) /\ Moved(k, i) = i + 1
        BY <1>1, <1>3, <2>2 DEF Moved
      <3>2. QED
        BY <1>4, <3>1
    <2>3. QED
      BY <2>1, <2>2
  <1>7. ASSUME NEW j \in 1..(N + 1), j # k PROVE \E i \in 1..N : j = Moved(k, i)
    <2>1. CASE j < k
      <3>1. j \in 1..N /\ j = Moved(k, j)
        BY <1>1, <1>3, <2>1 DEF Moved
      <3>2. QED
        BY <3>1
    <2>2. CASE ~(j < k)
      <3>1. j - 1 \in 1..N /\ ~(j - 1 < k) /\ j = (j - 1) + 1
        BY <1>1, <1>3, <1>7, <2>2
      <3>2. j = Moved(k, j - 1)
        BY <3>1 DEF Moved
      <3>3. QED
        BY <3>1, <3>2
    <2>3. QED
      BY <2>1, <2>2
  <1>8. \A i, j \in 1..N : Moved(k, i) = Moved(k, j) => i = j
    BY <1>1, <1>3 DEF Moved
  <1>9. QED
    BY <1>1, <1>2, <1>4, <1>5, <1>6, <1>7, <1>8 DEF N

LEMMA InitInv == Init => Inv
  <1> SUFFICES ASSUME Init PROVE Inv
    OBVIOUS
  <1>1. DOMAIN specs = Names /\ \A n \in Names : specs[n] \in Specs[n] /\ validateValueSpec(specs[n])
    BY NamesOfRefs DEF Init
  <1>2. calls = <<>> /\ result = Evaluated(<<>>, measured)
    BY DEF Init
  <1>3. calls \in Seq(Recorded) /\ Len(calls) = 0 /\ DOMAIN calls = {}
    BY <1>2
  <1>4. {calls[i].span : i \in DOMAIN calls} = 1..Len(calls) /\ Len(calls) <= MaxCalls
    BY <1>3, BoundAssumption
  <1>5. result = Evaluated(calls, measured)
    BY <1>2
  <1>6. QED
    BY <1>1, <1>3, <1>4, <1>5 DEF Inv, StateTypes

LEMMA RecordingKeeps ==
    ASSUME StateTypes, NEW c, NEW k, Recording(c, k), Len(calls) < MaxCalls
    PROVE  StateTypes'
  <1> DEFINE N == Len(calls)
  <1>1. /\ N \in Nat /\ DOMAIN calls = 1..N
        /\ calls' \in Seq(Recorded)
        /\ Len(calls') = N + 1 /\ DOMAIN calls' = 1..(N + 1)
        /\ calls'[k].span = N + 1
        /\ \A i \in DOMAIN calls : Moved(k, i) \in DOMAIN calls' /\ calls'[Moved(k, i)] = calls[i]
        /\ \A j \in DOMAIN calls' : j = k \/ \E i \in DOMAIN calls : j = Moved(k, i)
    BY Records
  <1>2. k \in 1..(N + 1) /\ specs' = specs
    BY DEF Recording
  <1>3. {calls[i].span : i \in 1..N} = 1..N
    BY <1>1 DEF StateTypes
  <1>4. N + 1 <= MaxCalls
    BY <1>1, BoundAssumption
  <1> HIDE DEF N
  <1>5. {calls'[j].span : j \in 1..(N + 1)} = 1..(N + 1)
    <2>1. ASSUME NEW j \in 1..(N + 1) PROVE calls'[j].span \in 1..(N + 1)
      <3>1. CASE j = k
        BY <1>1, <3>1
      <3>2. CASE j # k
        <4>1. PICK i \in 1..N : j = Moved(k, i)
          BY <1>1, <3>2
        <4>2. calls'[j].span = calls[i].span
          BY <1>1, <4>1
        <4>3. calls[i].span \in 1..N
          BY <1>3
        <4>4. QED
          BY <1>1, <4>2, <4>3
      <3>3. QED
        BY <3>1, <3>2
    <2>2. ASSUME NEW x \in 1..(N + 1) PROVE \E j \in 1..(N + 1) : calls'[j].span = x
      <3>1. CASE x = N + 1
        BY <1>1, <1>2, <3>1
      <3>2. CASE x # N + 1
        <4>1. x \in 1..N
          BY <1>1, <3>2
        <4>2. PICK i \in 1..N : calls[i].span = x
          BY <1>3, <4>1
        <4>3. Moved(k, i) \in 1..(N + 1) /\ calls'[Moved(k, i)] = calls[i]
          BY <1>1
        <4>4. QED
          BY <4>2, <4>3
      <3>3. QED
        BY <3>1, <3>2
    <2>3. QED
      BY <2>1, <2>2
  <1>6. \A n \in Names : specs[n] \in Specs[n] /\ validateValueSpec(specs[n])
    BY DEF StateTypes
  <1>7. DOMAIN specs = Names
    BY DEF StateTypes
  <1>8. QED
    BY <1>1, <1>2, <1>4, <1>5, <1>6, <1>7 DEF StateTypes, Names

LEMMA TypesStay ==
    ASSUME StateTypes, UNCHANGED <<specs, calls>>
    PROVE  StateTypes'
  BY DEF StateTypes, Names

LEMMA RecordRecords ==
    ASSUME Record PROVE Len(calls) < MaxCalls /\ \E c, k : Recording(c, k)
  <1> DEFINE cs(c, k) == InsertAt(calls, k, [c EXCEPT !.span = Len(calls) + 1])
  <1>1. /\ Len(calls) < MaxCalls /\ UNCHANGED specs
        /\ \E c \in Calls, k \in 1..(Len(calls) + 1), m \in Later :
              calls' = cs(c, k) /\ measured' = m /\ result' = Evaluated(cs(c, k), m)
    BY DEF Record
  <1>2. PICK c \in Calls : \E k \in 1..(Len(calls) + 1), m \in Later :
              calls' = cs(c, k) /\ measured' = m /\ result' = Evaluated(cs(c, k), m)
    BY <1>1
  <1>3. PICK k \in 1..(Len(calls) + 1) : \E m \in Later :
              calls' = cs(c, k) /\ measured' = m /\ result' = Evaluated(cs(c, k), m)
    BY <1>2
  <1>4. calls' = cs(c, k) /\ result' = Evaluated(cs(c, k), measured')
    BY <1>3
  <1>5. Evaluated(cs(c, k), measured') = Evaluated(calls, measured)'
    <2> HIDE DEF cs
    <2>1. QED
      BY <1>1, <1>4 DEF Evaluated, Episode, MetricsOf
  <1>6. Recording(c, k)
    BY <1>1, <1>4, <1>5 DEF Recording
  <1>7. QED
    BY <1>1, <1>6

LEMMA MeasureMeasures == ASSUME Measure PROVE Measuring
  <1>1. result' = Evaluated(calls, measured') /\ UNCHANGED <<specs, calls>>
    BY DEF Measure
  <1>2. Evaluated(calls, measured') = Evaluated(calls, measured)'
    BY <1>1 DEF Evaluated, Episode, MetricsOf
  <1>3. QED
    BY <1>1, <1>2 DEF Measuring

LEMMA Inductive == Spec => []Inv
  <1>1. Inv /\ [Next]_vars => Inv'
    <2> SUFFICES ASSUME Inv, [Next]_vars PROVE Inv'
      OBVIOUS
    <2>1. CASE Record
      <3>1. PICK c : \E k : Recording(c, k)
        BY <2>1, RecordRecords
      <3>2. PICK k : Recording(c, k)
        BY <3>1
      <3>3. StateTypes'
        BY <2>1, <3>2, RecordRecords, RecordingKeeps DEF Inv
      <3>4. result' = Evaluated(calls, measured)'
        BY <3>2 DEF Recording
      <3>5. QED
        BY <3>3, <3>4 DEF Inv
    <2>2. CASE Measure
      <3>1. Measuring
        BY <2>2, MeasureMeasures
      <3>2. StateTypes'
        BY <3>1, TypesStay DEF Inv, Measuring
      <3>3. QED
        BY <3>1, <3>2 DEF Inv, Measuring
    <2>3. CASE UNCHANGED vars
      <3>1. StateTypes'
        BY <2>3, TypesStay DEF Inv, vars
      <3>2. Evaluated(calls, measured)' = Evaluated(calls, measured)
        BY <2>3 DEF vars, Evaluated, Episode, MetricsOf
      <3>3. QED
        BY <2>3, <3>1, <3>2 DEF Inv, vars
    <2>4. QED
      BY <2>1, <2>2, <2>3 DEF Next
  <1>2. QED
    BY <1>1, InitInv, PTL DEF Spec

-----------------------------------------------------------------------------
(* What the clause comes to, in every state.                               *)

LEMMA TypeFollows == Inv => TypeOK
  <1> SUFFICES ASSUME Inv PROVE TypeOK
    OBVIOUS
  <1>1. StateTypes
    BY DEF Inv
  <1>2. PICK combos : Concludes(combos)
    BY ClauseConcludes
  <1>3. result.status \in {"pass", "fail", "skipped", "errored"}
    BY <1>2 DEF Concludes
  <1>4. \A n \in Names : LET b == bindOne(Episode(calls, measured), specs[n])
                         IN  b.missing <=> b.values = <<>>
    BY <1>1, BindsRight DEF Right
  <1>5. QED
    BY <1>1, <1>3, <1>4 DEF StateTypes, TypeOK

LEMMA PassFollows == Inv => PassHoldsThroughout
  <1> SUFFICES ASSUME Inv PROVE PassHoldsThroughout
    OBVIOUS
  <1>1. PICK combos : Concludes(combos) /\ Reads(combos)
    BY ClauseConcludes
  <1>2. result.status = "skipped" <=> \E n \in Names : Operands(n) = {}
    BY <1>1 DEF Concludes
  <1>3. ASSUME result.status = "pass"
        PROVE  Overcounted = {} /\ \A f \in Readings : Constraint(Expr, f) = "true"
    <2>1. /\ Overcounted = {} /\ combos # {} /\ Come(combos, "false") = {}
          /\ Come(combos, "true") \cup Come(combos, "false") = combos
      BY <1>1, <1>3 DEF Concludes
    <2>2. {c.vars : c \in combos} = Readings
      BY <1>1, <2>1 DEF Reads
    <2>3. \A c \in combos : Constraint(Expr, c.vars) = "true"
      BY <2>1 DEF Come
    <2>4. QED
      BY <2>1, <2>2, <2>3
  <1>4. QED
    BY <1>2, <1>3 DEF PassHoldsThroughout

LEMMA FailureFollows == Inv => FailureIsBlamedRightly
  <1> SUFFICES ASSUME Inv, result.status = "fail", Overcounted = {}
               PROVE  /\ Broken # {} /\ result.blamed # {}
                      /\ \A span \in result.blamed : \A n \in LastVarying :
                            Holders(n) # {} =>
                                \E i \in Holders(n) : /\ calls[i].span = span
                                                      /\ \E f \in Broken : f[n] \in Extracted(specs[n], calls[i])
    BY DEF FailureIsBlamedRightly
  <1>1. PICK combos : Concludes(combos) /\ Reads(combos)
    BY ClauseConcludes
  <1>2. /\ combos # {} /\ Come(combos, "false") # {}
        /\ result.blamed = {c.span : c \in Come(combos, "false")}
    BY <1>1 DEF Concludes
  <1>3. {c.vars : c \in combos} = Readings
    BY <1>1, <1>2 DEF Reads
  <1>4. \A c \in Come(combos, "false") : c \in combos /\ c.vars \in Broken
    BY <1>3 DEF Come, Broken
  <1>5. ASSUME NEW span \in result.blamed, NEW n \in LastVarying, Holders(n) # {}
        PROVE  \E i \in Holders(n) : /\ calls[i].span = span
                                     /\ \E f \in Broken : f[n] \in Extracted(specs[n], calls[i])
    <2>1. PICK c \in Come(combos, "false") : c.span = span
      BY <1>2
    <2>2. c \in combos /\ c.vars \in Broken
      BY <1>4
    <2>3. PICK i \in Holders(n) : c.span = calls[i].span /\ c.vars[n] \in Extracted(specs[n], calls[i])
      BY <1>1, <1>5, <2>2 DEF Reads
    <2>4. QED
      BY <2>1, <2>2, <2>3
  <1>6. QED
    BY <1>2, <1>4, <1>5

\* A state of an Episode has types: a binding lacks a value exactly if it is missing,
\* the spans of the calls are as many numbers, and the clause comes to one of four ends.
THEOREM TypeCorrect == Spec => []TypeOK
  BY Inductive, TypeFollows, PTL

\* A clause is skipped exactly when a name has nothing to stand for, and it passes only
\* if its constraint holds for every choice of values that the cardinalities admit, and
\* no value that must be the only one has company: for every contract, expression and
\* trace, and wherever the limit on combinations lies.
THEOREM PassIsWhole == Spec => []PassHoldsThroughout
  BY Inductive, PassFollows, PTL

\* A clause fails only for a value that should be the only one, or for a reading that
\* breaks the constraint, and then every finding points at a call whose value of the
\* last name that varies takes part in such a reading.
THEOREM BlameIsRight == Spec => []FailureIsBlamedRightly
  BY Inductive, FailureFollows, PTL

-----------------------------------------------------------------------------
(* What a further call can change.                                         *)

LEMMA HoldersStay ==
    ASSUME StateTypes, NEW c, NEW k, Recording(c, k), NEW n \in Names, NEW i \in Holders(n)
    PROVE  Moved(k, i) \in Holders(n)' /\ calls'[Moved(k, i)] = calls[i]
  <1>1. /\ i \in DOMAIN calls /\ FromCalls(n) /\ matchName(specs[n].tool, calls[i].name)
        /\ Extracted(specs[n], calls[i]) # {}
    BY DEF Holders
  <1>2. Moved(k, i) \in DOMAIN calls' /\ calls'[Moved(k, i)] = calls[i]
    BY <1>1, Records
  <1>3. specs' = specs /\ FromCalls(n)'
    BY <1>1 DEF Recording, FromCalls
  <1>4. QED
    BY <1>1, <1>2, <1>3 DEF Holders

LEMMA LiteralStays ==
    ASSUME UNCHANGED specs, Cumulative, NEW n \in Names, ~FromCalls(n)
    PROVE  Operands(n)' = Operands(n)
  <1>1. specs[n].from = "literal"
    BY DEF Cumulative
  <1>2. Operands(n) = (IF Given(n) = {} THEN specs[n].default ELSE Given(n)) /\ ~FromCalls(n)'
    BY DEF Operands, Found, FromCalls
  <1>3. Operands(n)' = IF Given(n)' = {} THEN specs'[n].default ELSE Given(n)'
    BY <1>2 DEF Operands, Found
  <1>4. /\ Given(n) = IF specs[n].literal = {} THEN {Null} ELSE specs[n].literal
        /\ Given(n)' = IF specs[n].literal = {} THEN {Null} ELSE specs[n].literal
    BY <1>1 DEF Given
  <1>5. QED
    BY <1>2, <1>3, <1>4

LEMMA OperandsStay ==
    ASSUME StateTypes, NEW c, NEW k, Recording(c, k), Cumulative, NEW n \in Names
    PROVE  Operands(n) \subseteq Operands(n)'
  <1>1. specs' = specs
    BY DEF Recording
  <1>2. CASE ~FromCalls(n)
    BY <1>1, <1>2, LiteralStays
  <1>3. CASE FromCalls(n)
    <2>1. specs[n].cardinality \in {"any", "exactly_one"} /\ specs[n].default = {} /\ FromCalls(n)'
      BY <1>1, <1>3 DEF Cumulative, FromCalls
    <2>2. Chosen(n) = Holders(n) /\ Chosen(n)' = Holders(n)'
      <3>1. Chosen(n) = Holders(n)
        BY <2>1 DEF Chosen
      <3>2. Chosen(n)' = Holders(n)'
        BY <1>1, <2>1 DEF Chosen
      <3>3. QED
        BY <3>1, <3>2
    <2>3. Operands(n) \subseteq UNION {Extracted(specs[n], calls[i]) : i \in Holders(n)}
      BY <1>3, <2>1, <2>2 DEF Operands, Found
    <2>4. Operands(n)' = Found(n)'
      <3>1. Operands(n)' = IF Found(n)' = {} THEN specs'[n].default ELSE Found(n)'
        BY DEF Operands
      <3>2. QED
        BY <1>1, <2>1, <3>1
    <2>5. Found(n)' = UNION {Extracted(specs'[n], calls'[i]) : i \in Holders(n)'}
      BY <2>1, <2>2 DEF Found
    <2>6. ASSUME NEW v \in Operands(n) PROVE v \in Operands(n)'
      <3>1. PICK i \in Holders(n) : v \in Extracted(specs[n], calls[i])
        BY <2>3
      <3>2. Moved(k, i) \in Holders(n)' /\ calls'[Moved(k, i)] = calls[i]
        BY HoldersStay
      <3>3. v \in Extracted(specs'[n], calls'[Moved(k, i)])
        BY <1>1, <3>1, <3>2
      <3>4. QED
        BY <2>4, <2>5, <3>2, <3>3
    <2>7. QED
      BY <2>6
  <1>4. QED
    BY <1>2, <1>3

LEMMA OvercountStays ==
    ASSUME StateTypes, StateTypes', NEW c, NEW k, Recording(c, k), NEW n \in Overcounted
    PROVE  n \in Overcounted'
  <1>1. n \in Names /\ specs[n].cardinality = "exactly_one" /\ Cardinality(Holders(n)) > 1 /\ specs' = specs
    BY DEF Overcounted, Recording
  <1>2. /\ Len(calls) \in Nat /\ DOMAIN calls = 1..Len(calls)
        /\ DOMAIN calls' = 1..(Len(calls) + 1)
        /\ \A i, j \in DOMAIN calls : Moved(k, i) = Moved(k, j) => i = j
    BY Records
  <1>3. IsFiniteSet(Holders(n)) /\ IsFiniteSet(Holders(n)')
    <2>1. IsFiniteSet(DOMAIN calls) /\ IsFiniteSet(DOMAIN calls')
      BY <1>2, FS_Interval
    <2>2. Holders(n) \subseteq DOMAIN calls /\ Holders(n)' \subseteq DOMAIN calls'
      BY DEF Holders
    <2>3. QED
      BY <2>1, <2>2, FS_Subset
  <1>4. PICK x, y \in Holders(n) : x # y
    BY <1>1, <1>3, MoreThanOne
  <1>5. Moved(k, x) \in Holders(n)' /\ Moved(k, y) \in Holders(n)'
    BY <1>1, HoldersStay
  <1>6. Moved(k, x) # Moved(k, y)
    <2>1. x \in DOMAIN calls /\ y \in DOMAIN calls
      BY DEF Holders
    <2>2. QED
      BY <1>2, <1>4, <2>1
  <1>7. Cardinality(Holders(n)') > 1
    BY <1>3, <1>5, <1>6, MoreThanOne
  <1>8. QED
    BY <1>1, <1>7 DEF Overcounted, Names

LEMMA BrokenStays ==
    ASSUME \A n \in Names : Operands(n) \subseteq Operands(n)', NEW f \in Broken
    PROVE  f \in Broken'
  <1>1. /\ f \in [Names -> UNION {Operands(n) : n \in Names}]
        /\ \A n \in Names : f[n] \in Operands(n)
        /\ Constraint(Expr, f) = "false"
    BY DEF Broken, Readings
  <1>2. \A n \in Names : f[n] \in Operands(n)'
    BY <1>1
  <1>3. f \in [Names -> UNION {Operands(n)' : n \in Names}]
    BY <1>1, <1>2
  <1>4. Readings' = {g \in [Names -> UNION {Operands(n)' : n \in Names}] :
                        \A n \in Names : g[n] \in Operands(n)'}
    BY DEF Readings, Names
  <1>5. QED
    BY <1>1, <1>2, <1>3, <1>4 DEF Broken

\* Nothing that an operand may stand for is lost, and none that had company is alone.
Grows ==
    /\ \A n \in Names : Operands(n) \subseteq Operands(n)'
    /\ Overcounted \subseteq Overcounted'

LEMMA RecordingGrows ==
    ASSUME StateTypes, StateTypes', NEW c, NEW k, Recording(c, k), Cumulative
    PROVE  Grows
  BY OperandsStay, OvercountStays DEF Grows

LEMMA MeasuringGrows ==
    ASSUME Measuring, Cumulative
    PROVE  Grows
  <1>1. UNCHANGED <<specs, calls>>
    BY DEF Measuring
  <1>2. ASSUME NEW n \in Names PROVE Holders(n)' = Holders(n)
    BY <1>1 DEF Holders, FromCalls
  <1>3. Overcounted' = Overcounted
    BY <1>1, <1>2 DEF Overcounted, Names
  <1>4. ASSUME NEW n \in Names PROVE Operands(n)' = Operands(n)
    <2>1. CASE ~FromCalls(n)
      BY <1>1, <2>1, LiteralStays
    <2>2. CASE FromCalls(n)
      <3>1. FromCalls(n)'
        BY <1>1, <2>2 DEF FromCalls
      <3>2. Chosen(n)' = Chosen(n)
        BY <1>1, <1>2 DEF Chosen
      <3>3. Found(n)' = Found(n)
        BY <1>1, <2>2, <3>1, <3>2 DEF Found
      <3>4. QED
        BY <1>1, <3>3 DEF Operands
    <2>3. QED
      BY <2>1, <2>2
  <1>5. QED
    BY <1>3, <1>4 DEF Grows

LEMMA FailureHolds ==
    ASSUME TypeOK', PassHoldsThroughout, PassHoldsThroughout', FailureIsBlamedRightly,
           Grows, result.status = "fail"
    PROVE  result'.status \in {"fail", "errored"}
  <1>1. result'.status \in {"pass", "fail", "skipped", "errored"}
    BY DEF TypeOK
  <1>2. result'.status # "skipped"
    <2>1. \A n \in Names : Operands(n) # {}
      BY DEF PassHoldsThroughout
    <2>2. \A n \in Names : Operands(n)' # {}
      BY <2>1 DEF Grows
    <2>3. QED
      BY <2>2 DEF PassHoldsThroughout, Names
  <1>3. result'.status # "pass"
    <2>1. CASE Overcounted # {}
      <3>1. Overcounted' # {}
        BY <2>1 DEF Grows
      <3>2. QED
        BY <3>1 DEF PassHoldsThroughout
    <2>2. CASE Broken # {}
      <3>1. PICK f : f \in Broken /\ f \in Broken'
        BY <2>2, BrokenStays DEF Grows
      <3>2. f \in Readings' /\ Constraint(Expr, f) = "false"
        BY <3>1 DEF Broken
      <3>3. QED
        BY <3>2 DEF PassHoldsThroughout
    <2>3. QED
      BY <2>1, <2>2 DEF FailureIsBlamedRightly
  <1>4. QED
    BY <1>1, <1>2, <1>3

\* An invariant whose names are literals, or come from calls and admit every value or one
\* only and have no default, blocks for good once it fails: whatever is recorded later and
\* wherever it belongs, it does not pass and is not skipped.
THEOREM FailuresStand == Spec => FailureStands
  <1>1. /\ Inv /\ TypeOK /\ PassHoldsThroughout /\ FailureIsBlamedRightly
        /\ Inv' /\ TypeOK' /\ PassHoldsThroughout' /\ [Next]_vars
        => [Cumulative /\ result.status = "fail" => result'.status \in {"fail", "errored"}]_vars
    <2> SUFFICES ASSUME Inv, TypeOK', PassHoldsThroughout, PassHoldsThroughout', FailureIsBlamedRightly,
                        Inv', Next, Cumulative, result.status = "fail"
                 PROVE  result'.status \in {"fail", "errored"}
      OBVIOUS
    <2>1. CASE Record
      <3>1. PICK c : \E k : Recording(c, k)
        BY <2>1, RecordRecords
      <3>2. PICK k : Recording(c, k)
        BY <3>1
      <3>3. Grows
        BY <3>2, RecordingGrows DEF Inv
      <3>4. QED
        BY <3>3, FailureHolds
    <2>2. CASE Measure
      BY <2>2, MeasureMeasures, MeasuringGrows, FailureHolds
    <2>3. QED
      BY <2>1, <2>2 DEF Next
  <1>2. QED
    BY <1>1, Inductive, TypeCorrect, PassIsWhole, BlameIsRight, PTL DEF Spec, FailureStands

-----------------------------------------------------------------------------
(* What a pattern matches.                                                 *)

LEMMA PartOfRest ==
    ASSUME NEW S, NEW s \in Seq(S), NEW i \in Nat, NEW m \in Nat, i + m <= Len(s)
    PROVE  /\ Len(SubSeq(s, i + 1, Len(s))) = Len(s) - i
           /\ SubSeq(SubSeq(s, i + 1, Len(s)), 1, m) = SubSeq(s, i + 1, i + m)
  <1> DEFINE L == Len(s)
             r == SubSeq(s, i + 1, L)
             x == SubSeq(r, 1, m)
             y == SubSeq(s, i + 1, i + m)
  <1>1. L \in Nat /\ i + 1 \in Nat /\ i + m \in Nat /\ i + 1 >= 1 /\ i + m <= L
    BY LenProperties
  <1>2. r \in Seq(S) /\ Len(r) = L - i /\ \A k \in 1..(L - i) : r[k] = s[i + k]
    <2>1. /\ r \in Seq(S) /\ Len(r) = IF i + 1 <= L THEN L - (i + 1) + 1 ELSE 0
          /\ \A k \in 1..(L - (i + 1) + 1) : r[k] = s[i + 1 + k - 1]
      BY <1>1, SubSeqIs
    <2> HIDE DEF L, r
    <2>2. /\ (IF i + 1 <= L THEN L - (i + 1) + 1 ELSE 0) = L - i
          /\ L - (i + 1) + 1 = L - i
      BY <1>1
    <2>3. \A k \in 1..(L - i) : i + 1 + k - 1 = i + k
      BY <1>1
    <2>4. QED
      BY <2>1, <2>2, <2>3
  <1>3. y \in Seq(S) /\ Len(y) = m /\ \A k \in 1..m : y[k] = s[i + k]
    <2>1. /\ y \in Seq(S) /\ Len(y) = IF i + 1 <= i + m THEN i + m - (i + 1) + 1 ELSE 0
          /\ \A k \in 1..(i + m - (i + 1) + 1) : y[k] = s[i + 1 + k - 1]
      BY <1>1, SubSeqIs
    <2> HIDE DEF L, y
    <2>2. /\ (IF i + 1 <= i + m THEN i + m - (i + 1) + 1 ELSE 0) = m
          /\ i + m - (i + 1) + 1 = m
      BY <1>1
    <2>3. \A k \in 1..m : i + 1 + k - 1 = i + k
      BY <1>1
    <2>4. QED
      BY <2>1, <2>2, <2>3
  <1> HIDE DEF r, y
  <1>4. x \in Seq(S) /\ Len(x) = m /\ \A k \in 1..m : x[k] = r[k]
    <2>0. m <= Len(r)
      <3> HIDE DEF L
      <3>1. QED
        BY <1>1, <1>2
    <2>1. /\ x \in Seq(S) /\ Len(x) = IF 1 <= m THEN m - 1 + 1 ELSE 0
          /\ \A k \in 1..(m - 1 + 1) : x[k] = r[1 + k - 1]
      BY <1>2, <2>0, SubSeqIs
    <2> HIDE DEF x
    <2>2. QED
      BY <2>1
  <1> HIDE DEF x, L
  <1>5. ASSUME NEW k \in 1..m PROVE x[k] = y[k]
    <2>1. k \in 1..(L - i)
      BY <1>1
    <2>2. x[k] = r[k] /\ r[k] = s[i + k] /\ y[k] = s[i + k]
      BY <1>2, <1>3, <1>4, <2>1
    <2>3. QED
      BY <2>2
  <1>6. x = y
    BY <1>3, <1>4, <1>5, SeqEqual
  <1>7. QED
    BY <1>2, <1>6 DEF x, y, r, L

\* c is found in name after i characters.
FoundAt(name, c, i) == i \in 0..(Len(name) - Len(c)) /\ SubSeq(name, i + 1, i + Len(c)) = c

LEMMA AffixesAre ==
    ASSUME NEW S, NEW name \in Seq(S), NEW c \in Seq(S)
    PROVE  /\ HasPrefix(name, c) <=> FoundAt(name, c, 0)
           /\ HasSuffix(name, c) <=> FoundAt(name, c, Len(name) - Len(c))
           /\ HasPart(name, c) <=> \E i : FoundAt(name, c, i)
  <1> DEFINE L == Len(name)
             m == Len(c)
  <1>1. L \in Nat /\ m \in Nat
    BY LenProperties
  <1>2. HasPrefix(name, c) <=> FoundAt(name, c, 0)
    <2>1. m <= L <=> 0 \in 0..(L - m)
      <3> HIDE DEF L, m
      <3>1. QED
        BY <1>1
    <2>2. 0 + 1 = 1 /\ 0 + m = m
      BY <1>1
    <2>3. QED
      BY <2>1, <2>2 DEF HasPrefix, FoundAt
  <1>3. HasSuffix(name, c) <=> FoundAt(name, c, L - m)
    <2>1. /\ m <= L <=> L - m \in 0..(L - m)
          /\ L - m + m = L
      <3> HIDE DEF L, m
      <3>1. QED
        BY <1>1
    <2>2. QED
      BY <2>1 DEF HasSuffix, FoundAt
  <1>4. ASSUME NEW i \in 0..L PROVE HasPrefix(SubSeq(name, i + 1, L), c) <=> FoundAt(name, c, i)
    <2> DEFINE r == SubSeq(name, i + 1, L)
    <2>1. Len(r) = L - i
      <3>1. i \in Nat /\ 0 \in Nat /\ i + 0 <= L
        BY <1>1
      <3>2. QED
        BY <3>1, PartOfRest
    <2>2. m <= L - i <=> i \in 0..(L - m)
      <3> HIDE DEF L, m
      <3>1. QED
        BY <1>1
    <2>3. CASE i \in 0..(L - m)
      <3>1. i \in Nat /\ i + m <= L
        <4> HIDE DEF L, m
        <4>1. QED
          BY <1>1, <2>3
      <3>2. SubSeq(r, 1, m) = SubSeq(name, i + 1, i + m)
        BY <1>1, <3>1, PartOfRest
      <3>3. QED
        BY <2>1, <2>2, <2>3, <3>2 DEF HasPrefix, FoundAt
    <2>4. CASE i \notin 0..(L - m)
      BY <2>1, <2>2, <2>4 DEF HasPrefix, FoundAt
    <2>5. QED
      BY <2>3, <2>4
  <1>5. \A i \in 0..(L - m) : i \in 0..L
    <2> HIDE DEF L, m
    <2>1. QED
      BY <1>1
  <1>6. HasPart(name, c) <=> \E i : FoundAt(name, c, i)
    BY <1>4, <1>5 DEF HasPart, FoundAt
  <1>7. QED
    BY <1>2, <1>3, <1>6

LEMMA GlobMatches ==
    ASSUME NEW S, NEW p \in Seq(S), NEW name \in Seq(S), p # <<>>, p # <<Star, Star>>
    PROVE  matchName(p, name) <=> Glob(p, name)
  <1> DEFINE n      == Len(p)
             from   == IF Head(p) = Star THEN 2 ELSE 1
             to     == n - (IF Last(p) = Star THEN 1 ELSE 0)
             core   == SubSeq(p, from, to)
             leads  == HasPrefix(p, <<Star>>)
             trails == HasSuffix(p, <<Star>>)
             m      == Len(core)
             L      == Len(name)
  <1>1. n \in Nat /\ n >= 1 /\ L \in Nat
    BY Wildcards, LenProperties
  <1>2. /\ leads <=> Head(p) = Star
        /\ trails <=> Last(p) = Star
    <2>1. Head(p) = p[1] /\ Last(p) = p[n]
      BY DEF Last
    <2>2. QED
      BY <2>1, Wildcards
  <1>3. /\ leads => from = 2
        /\ ~leads => from = 1
        /\ trails => to = n - 1
        /\ ~trails => to = n
    <2>1. n - 0 = n
      BY <1>1
    <2> HIDE DEF leads, trails, n
    <2>2. QED
      BY <1>2, <2>1
  <1>4. Glob(p, name) <=> \E i : FoundAt(name, core, i) /\ (from = 1 => i = 0) /\ (to = n => i = L - m)
    <2>1. Glob(p, name) <=> \E i \in 0..(L - m) :
                               SubSeq(name, i + 1, i + m) = core /\ (from = 1 => i = 0) /\ (to = n => i = L - m)
      BY Zenon DEF Glob
    <2> HIDE DEF L, m, from, to, n, core
    <2>2. \A i : FoundAt(name, core, i) <=> i \in 0..(L - m) /\ SubSeq(name, i + 1, i + m) = core
      BY DEF FoundAt, L, m
    <2>3. QED
      BY <2>1, <2>2, Zenon
  <1>5. core \in Seq(S)
    <2>1. from \in Nat /\ to \in Nat /\ from >= 1 /\ to <= n
      <3> HIDE DEF n
      <3>1. QED
        BY <1>1
    <2>2. QED
      BY <2>1, SubSeqIs
  <1>6. n - 1 # n
    BY <1>1
  <1>7. CASE p = <<Star>>
    <2>1. n = 1 /\ leads /\ trails
      BY <1>2, <1>7 DEF Last
    <2>2. from = 2 /\ to = 0 /\ to # n
      BY <1>3, <2>1
    <2>3. core = <<>>
      BY <1>7, <2>2
    <2>4. FoundAt(name, <<>>, 0)
      BY <1>1 DEF FoundAt
    <2>5. QED
      BY <1>4, <1>7, <2>2, <2>3, <2>4 DEF matchName
  <1>8. CASE p # <<Star>>
    <2>1. n = 1 => ~leads /\ ~trails
      <3>1. SUFFICES ASSUME n = 1, leads \/ trails PROVE FALSE
        OBVIOUS
      <3>2. p[1] = Star
        BY <3>1, Wildcards
      <3>3. QED
        BY <1>8, <3>1, <3>2
    <2>2. leads /\ trails => n > 2
      <3>1. SUFFICES ASSUME leads, trails, ~(n > 2) PROVE FALSE
        OBVIOUS
      <3>2. n = 2
        <4> HIDE DEF n, leads, trails
        <4>1. QED
          BY <1>1, <2>1, <3>1
      <3>3. p[1] = Star /\ p[2] = Star
        BY <3>1, <3>2, Wildcards
      <3>4. QED
        BY <3>2, <3>3
    <2>3. /\ HasPrefix(name, core) <=> FoundAt(name, core, 0)
          /\ HasSuffix(name, core) <=> FoundAt(name, core, L - m)
          /\ HasPart(name, core) <=> \E i : FoundAt(name, core, i)
      BY <1>5, AffixesAre
    <2> HIDE DEF from, to
    <2>4. CASE leads /\ trails
      <3>1. core = SubSeq(p, 2, n - 1) /\ from # 1 /\ to # n
        BY <1>3, <1>6, <2>4
      <3>2. matchName(p, name) <=> HasPart(name, core)
        BY <1>8, <2>2, <2>4, <3>1 DEF matchName
      <3>3. QED
        <4> HIDE DEF core, L, m, n
        <4>1. QED
          BY <1>4, <2>3, <3>1, <3>2
    <2>5. CASE leads /\ ~trails
      <3>1. core = SubSeq(p, 2, n) /\ from # 1 /\ to = n
        BY <1>3, <2>5
      <3>2. matchName(p, name) <=> HasSuffix(name, core)
        BY <1>8, <2>5, <3>1 DEF matchName
      <3>3. QED
        <4> HIDE DEF core, L, m, n
        <4>1. QED
          BY <1>4, <2>3, <3>1, <3>2
    <2>6. CASE ~leads /\ trails
      <3>1. core = SubSeq(p, 1, n - 1) /\ from = 1 /\ to # n
        BY <1>3, <1>6, <2>6
      <3>2. matchName(p, name) <=> HasPrefix(name, core)
        BY <1>8, <2>6, <3>1 DEF matchName
      <3>3. QED
        <4> HIDE DEF core, L, m, n
        <4>1. QED
          BY <1>4, <2>3, <3>1, <3>2
    <2>7. CASE ~leads /\ ~trails
      <3>1. core = SubSeq(p, 1, n) /\ from = 1 /\ to = n
        BY <1>3, <2>7
      <3>2. core = p /\ m = n
        <4>1. /\ core \in Seq(S) /\ Len(core) = IF 1 <= n THEN n - 1 + 1 ELSE 0
              /\ \A k \in 1..(n - 1 + 1) : core[k] = p[1 + k - 1]
          BY <1>1, <3>1, SubSeqIs
        <4> HIDE DEF core
        <4>2. Len(core) = n /\ \A k \in 1..n : core[k] = p[k]
          <5> HIDE DEF n
          <5>1. QED
            BY <1>1, <4>1
        <4>3. QED
          BY <4>1, <4>2, SeqEqual
      <3>3. matchName(p, name) <=> p = name
        BY <1>8, <2>7 DEF matchName
      <3>4. Glob(p, name) <=> L = n /\ FoundAt(name, p, 0)
        <4>1. Glob(p, name) <=> \E i : FoundAt(name, p, i) /\ i = 0 /\ i = L - n
          <5> HIDE DEF core, L, m, n
          <5>1. QED
            BY <1>4, <3>1, <3>2
        <4> HIDE DEF L, n
        <4>2. 0 = L - n <=> L = n
          BY <1>1
        <4>3. QED
          BY <4>1, <4>2
      <3>5. L = n => (FoundAt(name, p, 0) <=> p = name)
        <4>1. SUFFICES ASSUME L = n PROVE FoundAt(name, p, 0) <=> p = name
          OBVIOUS
        <4>2. SubSeq(name, 1, n) = name
          <5>1. /\ SubSeq(name, 1, n) \in Seq(S)
                /\ Len(SubSeq(name, 1, n)) = IF 1 <= n THEN n - 1 + 1 ELSE 0
                /\ \A k \in 1..(n - 1 + 1) : SubSeq(name, 1, n)[k] = name[1 + k - 1]
            BY <1>1, <4>1, SubSeqIs
          <5> DEFINE z == SubSeq(name, 1, n)
          <5> HIDE DEF z
          <5>2. z \in Seq(S) /\ Len(z) = n /\ \A k \in 1..n : z[k] = name[k]
            <6>1. /\ z \in Seq(S) /\ Len(z) = IF 1 <= n THEN n - 1 + 1 ELSE 0
                  /\ \A k \in 1..(n - 1 + 1) : z[k] = name[1 + k - 1]
              BY <5>1 DEF z
            <6> HIDE DEF n
            <6>2. QED
              BY <1>1, <6>1
          <5>3. z = name
            BY <4>1, <5>2, SeqEqual
          <5>4. QED
            BY <5>3 DEF z
        <4>3. 0 \in 0..(L - n) /\ 0 + 1 = 1 /\ 0 + n = n
          <5> HIDE DEF L, n
          <5>1. QED
            BY <1>1, <4>1
        <4>4. FoundAt(name, p, 0) <=> SubSeq(name, 1, n) = p
          BY <4>3 DEF FoundAt
        <4>5. QED
          BY <4>2, <4>4
      <3>6. p = name => L = n
        OBVIOUS
      <3>7. QED
        BY <3>3, <3>4, <3>5, <3>6
    <2>8. QED
      BY <2>4, <2>5, <2>6, <2>7
  <1>9. QED
    BY <1>7, <1>8

\* The two matchers, kept in sync by hand, both match what the documentation says a
\* pattern matches, whatever it is and whatever a call is named; "" and "**" apart.
THEOREM PatternsAgree == Spec => []EnginesAgree
  <1>1. Inv => EnginesAgree
    <2> SUFFICES ASSUME Inv, NEW i \in DOMAIN calls, NEW p \in Patterns, p # <<>>, p # <<Star, Star>>
                 PROVE  /\ matchName(p, calls[i].name) <=> Glob(p, calls[i].name)
                        /\ matches(p, calls[i].name) <=> Glob(p, calls[i].name)
      BY DEF EnginesAgree
    <2>1. p \in Seq(STRING)
      BY PatternsAssumption
    <2>2. calls[i].name \in Seq(STRING)
      <3>1. calls[i] \in Recorded
        BY LenProperties, ElementOfSeq DEF Inv, StateTypes
      <3>2. QED
        BY <3>1, RecordedFields
    <2>3. QED
      BY <2>1, <2>2, GlobMatches, MatchersAgree
  <1>2. QED
    BY <1>1, Inductive, PTL
=============================================================================
