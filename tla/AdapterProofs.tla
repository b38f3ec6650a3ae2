--------------------------- MODULE AdapterProofs ---------------------------
(***************************************************************************)
(* Theorems about internal/adapter, on top of those of EpisodeProofs.      *)
(*                                                                         *)
(* SpanOrder, for every set of spans, every assignment of parents and      *)
(* every guard.  The memo is written over while a recursion runs into its  *)
(* own path, so a depth may change as long as it is being computed.  The   *)
(* argument: what is on the path was not in the memo, so it has not been   *)
(* answered yet; an answer is what the memo holds from then on.            *)
(*                                                                         *)
(* Pipeline, for all spans and records of a trace and every way in which   *)
(* they come.  The argument: each attribute of a span ends as what the     *)
(* span has of its own or else as what the record with the least key says  *)
(* (EnrichedTells), and that depends on the set of the records only.  What *)
(* is evaluated is always such a join, of the trace's own spans and        *)
(* records (Inv).                                                          *)
(***************************************************************************)
EXTENDS Pipeline, SpanOrder, EpisodeProofs

(* SpanOrder: the calls of the recursion.                                  *)

Calls == [id : Ids \cup {Missing}, guard : Nat]

ParentType == parent \in [Ids -> Ids \cup {Missing, ""}]

MemoType == DOMAIN depth \subseteq Ids \cup {Missing} /\ \A id \in DOMAIN depth : depth[id] \in Nat

Types ==
    /\ ParentType
    /\ MemoType
    /\ stack \in Seq(Calls)
    /\ value \subseteq Nat

\* The calls that wait for another are about spans without an answer; an answer is
\* what the memo holds; and so is a value on its way out of the first call.
Settled ==
    /\ DOMAIN asked \subseteq DOMAIN depth
    /\ \A id \in DOMAIN asked : asked[id] = {depth[id]}
    /\ \A i \in 1..(Len(stack) - 1) : stack[i].id \notin DOMAIN asked
    /\ stack # <<>> => stack[1].guard = 0
    /\ stack = <<>> => value = {}
    /\ Len(stack) = 1 /\ value # {} =>
          call.id \in DOMAIN depth /\ value = {depth[call.id]}

MemoInv == Types /\ Settled

LEMMA CallOfStack ==
    ASSUME Types, stack # <<>>
    PROVE  /\ call \in Calls /\ Len(stack) \in Nat /\ Len(stack) >= 1
           /\ call.id \in Ids \cup {Missing} /\ call.guard \in Nat
  <1>1. Len(stack) \in Nat /\ Len(stack) >= 1
    <2>1. stack \in Seq(Calls)
      BY DEF Types
    <2>2. Len(stack) \in Nat \ {0}
      BY <2>1, EmptySeq
    <2>3. QED
      BY <2>2
  <1>2. call \in Calls
    <2>1. Len(stack) \in 1..Len(stack)
      BY <1>1
    <2>2. QED
      BY <2>1, ElementOfSeq DEF Types, call
  <1>3. QED
    BY <1>1, <1>2 DEF Calls

LEMMA AskKeepsInv == ASSUME MemoInv, Ask PROVE MemoInv'
  <1>1. PICK id \in Ids : stack' = <<[id |-> id, guard |-> 0]>>
    BY DEF Ask
  <1>2. stack' \in Seq(Calls) /\ Len(stack') = 1 /\ stack'[1].guard = 0
    BY <1>1 DEF Calls
  <1>3. /\ UNCHANGED <<parent, depth, asked>>
        /\ value = {} /\ value' = {}
    BY DEF Ask, MemoInv, Settled
  <1>4. Types'
    BY <1>2, <1>3 DEF MemoInv, Types, ParentType, MemoType
  <1>5. Settled'
    BY <1>2, <1>3 DEF MemoInv, Settled
  <1>6. QED
    BY <1>4, <1>5 DEF MemoInv

LEMMA RecallKeepsInv == ASSUME MemoInv, Recall PROVE MemoInv'
  <1>1. /\ UNCHANGED <<parent, depth, stack, asked>> /\ stack # <<>>
        /\ call.id \in DOMAIN depth /\ value' = {depth[call.id]}
    BY DEF Recall, Active
  <1>2. call' = call
    BY <1>1 DEF call
  <1>3. Types'
    BY <1>1 DEF MemoInv, Types, ParentType, MemoType
  <1>4. Settled'
    BY <1>1, <1>2 DEF MemoInv, Settled
  <1>5. QED
    BY <1>3, <1>4 DEF MemoInv

\* The first call has not gone anywhere, so it is not the one that gives up.
LEMMA GiveUpKeepsInv == ASSUME MemoInv, GiveUp PROVE MemoInv'
  <1>1. /\ UNCHANGED <<parent, depth, stack, asked>> /\ stack # <<>>
        /\ call.guard > Guard /\ value' = {call.guard}
    BY DEF GiveUp, Active
  <1>2. call.guard \in Nat
    BY <1>1, CallOfStack DEF MemoInv
  <1>3. Len(stack) # 1
    <2>1. stack[1].guard = 0
      BY <1>1 DEF MemoInv, Settled
    <2>2. stack[Len(stack)].guard # 0
      BY <1>1, <1>2, GuardAssumption DEF call
    <2>3. QED
      BY <2>1, <2>2
  <1>4. Types'
    BY <1>1, <1>2 DEF MemoInv, Types, ParentType, MemoType
  <1>5. Settled'
    BY <1>1, <1>3 DEF MemoInv, Settled
  <1>6. QED
    BY <1>4, <1>5 DEF MemoInv

LEMMA RootKeepsInv == ASSUME MemoInv, Root PROVE MemoInv'
  <1>1. /\ UNCHANGED <<parent, stack, asked>> /\ stack # <<>>
        /\ call.id \notin DOMAIN depth
        /\ depth' = Bind(depth, call.id, 0) /\ value' = {0}
    BY DEF Root, Active
  <1>2. call' = call /\ call.id \in Ids \cup {Missing}
    BY <1>1, CallOfStack DEF MemoInv, call
  <1>3. /\ DOMAIN depth' = DOMAIN depth \cup {call.id} /\ depth'[call.id] = 0
        /\ \A y \in DOMAIN depth : depth'[y] = depth[y]
    BY <1>1 DEF Bind
  <1>4. Types'
    <2>1. MemoType'
      BY <1>2, <1>3 DEF MemoInv, Types, MemoType
    <2>2. ParentType'
      BY <1>1 DEF MemoInv, Types, ParentType
    <2>3. value' \subseteq Nat
      BY <1>1
    <2>4. QED
      BY <1>1, <2>1, <2>2, <2>3 DEF MemoInv, Types
  <1>5. Settled'
    BY <1>1, <1>2, <1>3 DEF MemoInv, Settled
  <1>6. QED
    BY <1>4, <1>5 DEF MemoInv

\* What goes on the path is not in the memo.
LEMMA RecurseKeepsInv == ASSUME MemoInv, Recurse PROVE MemoInv'
  <1> DEFINE next == [id |-> parent[call.id], guard |-> call.guard + 1]
             n == Len(stack)
  <1>1. /\ UNCHANGED <<parent, depth, value, asked>> /\ stack # <<>> /\ value = {}
        /\ call.id \notin DOMAIN depth /\ ~Top(call.id)
        /\ stack' = Append(stack, next)
    BY DEF Recurse, Active
  <1>2. /\ call.id \in Ids \cup {Missing} /\ call.guard \in Nat
        /\ stack \in Seq(Calls) /\ n \in Nat /\ n >= 1
    BY <1>1, CallOfStack DEF MemoInv, Types
  <1>3. next \in Calls
    <2>1. parent[call.id] \in Ids \cup {Missing}
      BY <1>1, <1>2 DEF Top, MemoInv, Types, ParentType
    <2>2. QED
      BY <1>2, <2>1 DEF Calls
  <1>4. /\ stack' \in Seq(Calls) /\ Len(stack') = n + 1
        /\ \A i \in 1..n : stack'[i] = stack[i]
    BY <1>1, <1>2, <1>3
  <1>5. Types'
    BY <1>1, <1>4 DEF MemoInv, Types, ParentType, MemoType
  <1>6. \A i \in 1..n : stack'[i].id \notin DOMAIN asked'
    <2>1. SUFFICES ASSUME NEW i \in 1..n PROVE stack[i].id \notin DOMAIN asked
      BY <1>1, <1>4
    <2>2. CASE i = n
      BY <1>1, <2>2 DEF MemoInv, Settled, call
    <2>3. CASE i # n
      BY <1>2, <2>3 DEF MemoInv, Settled
    <2>4. QED
      BY <2>2, <2>3
  <1>7. Settled'
    <2>1. stack'[1].guard = 0 /\ stack' # <<>>
      BY <1>1, <1>2, <1>4 DEF MemoInv, Settled
    <2>2. Len(stack') # 1 /\ Len(stack') - 1 = n
      BY <1>2, <1>4
    <2>3. QED
      BY <1>1, <1>6, <2>1, <2>2 DEF MemoInv, Settled
  <1>8. QED
    BY <1>5, <1>7 DEF MemoInv

LEMMA ReturnPops ==
    ASSUME Types, Return
    PROVE  /\ stack' \in Seq(Calls) /\ Len(stack') = Len(stack) - 1 /\ stack' # <<>>
           /\ \A i \in 1..(Len(stack) - 1) : stack'[i] = stack[i]
  <1> DEFINE n == Len(stack) - 1
  <1>1. stack \in Seq(Calls) /\ Len(stack) > 1 /\ stack' = SubSeq(stack, 1, n)
    BY DEF Return, Types
  <1>2. n \in Nat /\ n >= 1 /\ n <= Len(stack)
    BY <1>1
  <1>3. \A i \in 1..n : stack[i] \in Calls
    BY <1>1, <1>2, ElementOfSeq
  <1>4. /\ SubSeq(stack, 1, n) \in Seq(Calls) /\ Len(SubSeq(stack, 1, n)) = n
        /\ \A i \in 1..n : SubSeq(stack, 1, n)[i] = stack[i]
    BY <1>1, <1>2, <1>3, SubSeqProperties
  <1>5. stack' # <<>>
    <2>1. Len(stack') # 0
      BY <1>1, <1>2, <1>4
    <2>2. Len(<<>>) = 0
      BY EmptySeq
    <2>3. QED
      BY <2>1, <2>2, Zenon
  <1>6. QED
    BY <1>1, <1>4, <1>5

\* The one whose depth is written has been waiting, so it has not been answered.
LEMMA ReturnKeepsInv == ASSUME MemoInv, Return PROVE MemoInv'
  <1> DEFINE n == Len(stack) - 1
             id == stack[n].id
  <1>1. stack \in Seq(Calls) /\ n \in Nat /\ n >= 1 /\ UNCHANGED <<parent, asked>>
    <2>1. stack \in Seq(Calls) /\ Len(stack) > 1 /\ UNCHANGED <<parent, asked>>
      BY DEF Return, MemoInv, Types
    <2>2. Len(stack) \in Nat
      BY <2>1
    <2>3. QED
      BY <2>1, <2>2
  <1>2. PICK v \in value : depth' = Bind(depth, id, v + 1) /\ value' = {v + 1}
    BY DEF Return
  <1>3. v \in Nat /\ id \in Ids \cup {Missing}
    <2>1. n \in 1..Len(stack)
      BY <1>1
    <2>2. stack[n] \in Calls
      BY <1>1, <2>1, ElementOfSeq
    <2>3. v \in Nat
      BY <1>2 DEF MemoInv, Types
    <2>4. QED
      BY <2>2, <2>3 DEF Calls
  <1>4. id \notin DOMAIN asked
    BY <1>1 DEF MemoInv, Settled
  <1>5. /\ stack' \in Seq(Calls) /\ Len(stack') = n /\ stack' # <<>>
        /\ \A i \in 1..n : stack'[i] = stack[i]
    BY ReturnPops DEF MemoInv
  <1>6. /\ DOMAIN depth' = DOMAIN depth \cup {id} /\ depth'[id] = v + 1
        /\ \A y \in DOMAIN depth : y # id => depth'[y] = depth[y]
    BY <1>2 DEF Bind
  <1>7. Types'
    <2>1. MemoType'
      BY <1>3, <1>6 DEF MemoInv, Types, MemoType
    <2>2. ParentType'
      BY <1>1 DEF MemoInv, Types, ParentType
    <2>3. value' \subseteq Nat
      BY <1>2, <1>3
    <2>4. QED
      BY <1>5, <2>1, <2>2, <2>3 DEF MemoInv, Types
  <1>8. Settled'
    <2>1. DOMAIN asked \subseteq DOMAIN depth' /\ \A y \in DOMAIN asked : asked[y] = {depth'[y]}
      BY <1>4, <1>6 DEF MemoInv, Settled
    <2>2. \A i \in 1..(n - 1) : stack'[i].id \notin DOMAIN asked
      BY <1>1, <1>5 DEF MemoInv, Settled
    <2>3. stack'[1].guard = 0
      BY <1>1, <1>5 DEF MemoInv, Settled
    <2>4. n = 1 => call'.id = id
      BY <1>5 DEF call
    <2>5. n = 1 => call'.id \in DOMAIN depth' /\ value' = {depth'[call'.id]}
      BY <1>2, <1>6, <2>4
    <2>6. QED
      BY <1>1, <1>5, <2>1, <2>2, <2>3, <2>5 DEF Settled
  <1>9. QED
    BY <1>7, <1>8 DEF MemoInv

LEMMA AnswerKeepsInv == ASSUME MemoInv, Answer PROVE MemoInv'
  <1> DEFINE id == call.id
  <1>1. /\ UNCHANGED <<parent, depth>> /\ stack' = <<>> /\ value' = {}
        /\ Len(stack) = 1 /\ value # {}
        /\ asked' = Bind(asked, id, value \cup (IF id \in DOMAIN asked THEN asked[id] ELSE {}))
    BY DEF Answer
  <1>2. id \in DOMAIN depth /\ value = {depth[id]}
    BY <1>1 DEF MemoInv, Settled
  <1>3. value \cup (IF id \in DOMAIN asked THEN asked[id] ELSE {}) = {depth[id]}
    BY <1>2 DEF MemoInv, Settled
  <1>4. /\ DOMAIN asked' = DOMAIN asked \cup {id} /\ asked'[id] = {depth[id]}
        /\ \A y \in DOMAIN asked : y # id => asked'[y] = asked[y]
    BY <1>1, <1>3 DEF Bind
  <1>5. stack' \in Seq(Calls) /\ Len(stack') = 0
    BY <1>1, EmptySeq
  <1>6. Types'
    <2>1. ParentType' /\ MemoType'
      BY <1>1 DEF MemoInv, Types, ParentType, MemoType
    <2>2. value' \subseteq Nat
      BY <1>1
    <2>3. QED
      BY <1>5, <2>1, <2>2 DEF Types
  <1>7. Settled'
    <2>1. DOMAIN asked' \subseteq DOMAIN depth' /\ \A y \in DOMAIN asked' : asked'[y] = {depth'[y]}
      BY <1>1, <1>2, <1>4 DEF MemoInv, Settled
    <2>2. \A i \in 1..(Len(stack') - 1) : stack'[i].id \notin DOMAIN asked'
      BY <1>5
    <2>3. QED
      BY <1>1, <1>5, <2>1, <2>2 DEF Settled
  <1>8. QED
    BY <1>6, <1>7 DEF MemoInv

LEMMA InvInductive == SortSpec => []MemoInv
  <1>1. SortInit => MemoInv
    <2> SUFFICES ASSUME SortInit PROVE MemoInv
      OBVIOUS
    <2>1. /\ DOMAIN depth = {} /\ DOMAIN asked = {} /\ stack = <<>> /\ value = {}
          /\ stack \in Seq(Calls) /\ Len(stack) = 0
      <3>1. /\ depth = <<>> /\ asked = <<>> /\ stack = <<>> /\ value = {}
        BY DEF SortInit
      <3>2. DOMAIN <<>> = {}
        OBVIOUS
      <3>3. stack \in Seq(Calls) /\ Len(stack) = 0
        BY <3>1, EmptySeq
      <3>4. QED
        BY <3>1, <3>2, <3>3, Zenon
    <2>2. ParentType /\ MemoType
      BY <2>1 DEF SortInit, ParentType, MemoType
    <2>3. Settled
      BY <2>1 DEF Settled
    <2>4. QED
      BY <2>1, <2>2, <2>3 DEF MemoInv, Types
  <1>2. MemoInv /\ [SortNext]_sortVars => MemoInv'
    <2> SUFFICES ASSUME MemoInv, [SortNext]_sortVars PROVE MemoInv'
      OBVIOUS
    <2>1. CASE Ask
      BY <2>1, AskKeepsInv
    <2>2. CASE Step
      BY <2>2, RecallKeepsInv, GiveUpKeepsInv, RootKeepsInv, RecurseKeepsInv, ReturnKeepsInv,
         AnswerKeepsInv DEF Step
    <2>3. CASE UNCHANGED sortVars
      BY <2>3 DEF sortVars, MemoInv, Types, ParentType, MemoType, Settled, call
    <2>4. QED
      BY <2>1, <2>2, <2>3 DEF SortNext
  <1>3. QED
    BY <1>1, <1>2, PTL DEF SortSpec

\* The memo never takes an answer back, whatever the parents, the guard and the order
\* of the questions: the comparison of the sort is an order of the spans.
THEOREM AnswersStand == SortSpec => []OneAnswer
  <1>1. MemoInv => OneAnswer
    <2> SUFFICES ASSUME MemoInv, NEW id \in DOMAIN asked PROVE Cardinality(asked[id]) = 1
      BY DEF OneAnswer
    <2>1. asked[id] = {depth[id]}
      BY DEF MemoInv, Settled
    <2>2. QED
      BY <2>1, FS_Singleton
  <1>2. QED
    BY <1>1, InvInductive, PTL

-----------------------------------------------------------------------------
(* The way up from a span.                                                 *)

Highest == Cardinality(Ids) + 1

Climbs(id, f, m) ==
    f = [n \in 0..m |-> IF n = 0 THEN id ELSE IF Top(f[n - 1]) THEN f[n - 1] ELSE parent[f[n - 1]]]

LEMMA HighestType == Highest \in Nat \ {0}
  <1>1. Cardinality(Ids) \in Nat
    BY IdsAssumption, FS_CardinalityType
  <1>2. QED
    BY <1>1 DEF Highest

LEMMA ClimbExists == ASSUME NEW id, NEW m \in Nat PROVE \E f : Climbs(id, f, m)
  <1> DEFINE T == {k \in Nat : ~\E f : Climbs(id, f, k)}
  <1> SUFFICES ASSUME T # {} PROVE FALSE
    OBVIOUS
  <1>1. PICK k \in T : \A j \in T : k <= j
    BY LeastNat
  <1>2. k # 0
    <2>1. Climbs(id, [n \in 0..0 |-> id], 0)
      BY DEF Climbs
    <2>2. QED
      BY <2>1
  <1>3. k - 1 \in Nat /\ ~(k <= k - 1)
    BY <1>2
  <1>4. PICK f : Climbs(id, f, k - 1)
    BY <1>1, <1>3
  <1> DEFINE next == IF Top(f[k - 1]) THEN f[k - 1] ELSE parent[f[k - 1]]
             g == [n \in 0..k |-> IF n = k THEN next ELSE f[n]]
  <1>5. /\ f[0] = id
        /\ \A n \in 1..(k - 1) : f[n] = IF Top(f[n - 1]) THEN f[n - 1] ELSE parent[f[n - 1]]
    BY <1>3, <1>4 DEF Climbs
  <1>6. ASSUME NEW n \in 0..k
        PROVE  g[n] = IF n = 0 THEN id ELSE IF Top(g[n - 1]) THEN g[n - 1] ELSE parent[g[n - 1]]
    <2>1. CASE n = 0
      BY <1>2, <1>5, <2>1
    <2>2. CASE n = k
      <3>1. n - 1 \in 0..k /\ n - 1 # k
        BY <1>3, <2>2
      <3>2. g[n] = next /\ g[n - 1] = f[k - 1]
        BY <2>2, <3>1
      <3>3. QED
        BY <1>2, <2>2, <3>2
    <2>3. CASE n # 0 /\ n # k
      <3>1. n \in 1..(k - 1) /\ n - 1 \in 0..k /\ n - 1 # k
        BY <1>3, <2>3
      <3>2. g[n] = f[n] /\ g[n - 1] = f[n - 1]
        BY <2>3, <3>1
      <3>3. QED
        BY <1>5, <2>3, <3>1, <3>2
    <2>4. QED
      BY <2>1, <2>2, <2>3
  <1>7. g = [n \in 0..k |-> IF n = 0 THEN id
                            ELSE IF Top(g[n - 1]) THEN g[n - 1] ELSE parent[g[n - 1]]]
    BY <1>6
  <1> HIDE DEF g
  <1>8. Climbs(id, g, k)
    BY <1>7 DEF Climbs
  <1>9. QED
    BY <1>8

LEMMA AboveSteps ==
    ASSUME NEW id
    PROVE  /\ DOMAIN Above(id) = 0..Highest
           /\ Above(id)[0] = id
           /\ \A n \in 1..Highest :
                 Above(id)[n] = IF Top(Above(id)[n - 1]) THEN Above(id)[n - 1]
                                                          ELSE parent[Above(id)[n - 1]]
  <1> DEFINE a == CHOOSE f : Climbs(id, f, Highest)
  <1>1. Climbs(id, a, Highest)
    BY ClimbExists, HighestType
  <1>2. Above(id) = a
    BY DEF Above, Climbs, Highest
  <1> HIDE DEF a
  <1>3. QED
    BY <1>1, <1>2, HighestType DEF Climbs

LEMMA LeastIsMin == ASSUME NEW S, S \subseteq Nat, S # {}
                    PROVE  Min(S) \in S /\ \A n \in S : Min(S) <= n
  <1>1. \E m \in S : \A n \in S : m <= n
    BY LeastNat
  <1>2. QED
    BY <1>1 DEF Min

LEMMA HeightsType == ASSUME NEW id PROVE Heights(id) \subseteq 0..Highest /\ Heights(id) \subseteq Nat
  BY AboveSteps, HighestType DEF Heights

LEMMA HeightOfTop == ASSUME NEW id, Top(id) PROVE Min(Heights(id)) = 0
  <1>1. 0 \in Heights(id)
    BY AboveSteps, HighestType DEF Heights
  <1>2. Min(Heights(id)) \in Nat /\ Min(Heights(id)) <= 0
    BY <1>1, HeightsType, LeastIsMin
  <1>3. QED
    BY <1>2

\* A child is one higher than its parent.
LEMMA HeightOfChild ==
    ASSUME NEW id, ~Top(id), Heights(id) # {}
    PROVE  /\ Heights(parent[id]) # {}
           /\ Min(Heights(parent[id])) \in Nat
           /\ Min(Heights(id)) = Min(Heights(parent[id])) + 1
  <1> DEFINE a == Above(id)
             b == Above(parent[id])
             N == Highest
             h == Min(Heights(id))
  <1>1. N \in Nat \ {0}
    BY HighestType
  <1>2. /\ a[0] = id
        /\ \A n \in 1..N : a[n] = IF Top(a[n - 1]) THEN a[n - 1] ELSE parent[a[n - 1]]
    BY AboveSteps
  <1>3. /\ b[0] = parent[id]
        /\ \A n \in 1..N : b[n] = IF Top(b[n - 1]) THEN b[n - 1] ELSE parent[b[n - 1]]
    BY AboveSteps
  <1>4. /\ \A n \in 0..N : n \in Heights(id) <=> Top(a[n])
        /\ \A n \in 0..N : n \in Heights(parent[id]) <=> Top(b[n])
    BY AboveSteps DEF Heights
  <1>5. h \in 0..N /\ Top(a[h]) /\ \A n \in Heights(id) : h <= n
    BY <1>4, HeightsType, LeastIsMin
  <1> HIDE DEF a, b, N, h
  <1>6. \A n \in 0..(N - 1) : b[n] = a[n + 1]
    <2> DEFINE T == {n \in 0..(N - 1) : b[n] # a[n + 1]}
    <2> SUFFICES ASSUME T # {} PROVE FALSE
      OBVIOUS
    <2>1. PICK n \in T : \A m \in T : n <= m
      <3>1. T \subseteq Nat
        BY <1>1
      <3> HIDE DEF T
      <3>2. QED
        BY <3>1, LeastNat
    <2>2. CASE n = 0
      <3>1. 1 \in 1..N /\ 1 - 1 = 0 /\ 0 + 1 = 1
        BY <1>1
      <3>2. a[1] = parent[id]
        BY <1>2, <3>1
      <3>3. QED
        BY <1>3, <2>1, <2>2, <3>1, <3>2
    <2>3. CASE n # 0
      <3>1. /\ n \in 1..N /\ n + 1 \in 1..N /\ n - 1 \in 0..(N - 1) /\ ~(n <= n - 1)
            /\ (n - 1) + 1 = n /\ (n + 1) - 1 = n
        BY <1>1, <2>3
      <3>2. b[n - 1] = a[n]
        <4>1. n - 1 \notin T
          BY <2>1, <3>1
        <4>2. QED
          BY <3>1, <4>1
      <3>3. b[n] = IF Top(a[n]) THEN a[n] ELSE parent[a[n]]
        BY <1>3, <3>1, <3>2
      <3>4. a[n + 1] = IF Top(a[n]) THEN a[n] ELSE parent[a[n]]
        <4>1. a[n + 1] = IF Top(a[(n + 1) - 1]) THEN a[(n + 1) - 1] ELSE parent[a[(n + 1) - 1]]
          BY <1>2, <3>1
        <4>2. QED
          BY <3>1, <4>1
      <3>5. QED
        BY <2>1, <3>3, <3>4
    <2>4. QED
      BY <2>2, <2>3
  <1>7. h # 0
    BY <1>2, <1>5
  <1>8. h - 1 \in 0..(N - 1) /\ h - 1 \in 0..N /\ (h - 1) + 1 = h
    BY <1>1, <1>5, <1>7
  <1>9. h - 1 \in Heights(parent[id])
    <2>1. b[h - 1] = a[h]
      BY <1>6, <1>8
    <2>2. QED
      BY <1>4, <1>5, <1>8, <2>1
  <1>10. ASSUME NEW m \in Heights(parent[id]) PROVE h - 1 <= m
    <2>1. m \in 0..N /\ Top(b[m])
      BY <1>4, HeightsType DEF N
    <2>2. CASE m \in 0..(N - 1)
      <3>1. m + 1 \in 0..N /\ b[m] = a[m + 1]
        BY <1>1, <1>6, <2>2
      <3>2. h <= m + 1
        BY <1>4, <1>5, <2>1, <3>1
      <3>3. QED
        BY <1>5, <2>1, <3>2
    <2>3. CASE m \notin 0..(N - 1)
      BY <1>1, <1>5, <2>1, <2>3
    <2>4. QED
      BY <2>2, <2>3
  <1>11. Min(Heights(parent[id])) = h - 1
    <2> DEFINE j == Min(Heights(parent[id]))
    <2>1. j \in Heights(parent[id]) /\ j <= h - 1 /\ j \in Nat
      BY <1>9, HeightsType, LeastIsMin
    <2>2. h - 1 <= j
      BY <1>10, <2>1
    <2> HIDE DEF j
    <2>3. j = h - 1
      BY <1>8, <2>1, <2>2
    <2>4. QED
      BY <2>3 DEF j
  <1>12. QED
    BY <1>5, <1>8, <1>9, <1>11 DEF h

\* Parents do not change.
LEMMA HeightsKept ==
    ASSUME parent' = parent
    PROVE  /\ \A id : Top(id)' <=> Top(id)
           /\ \A id : Heights(id)' = Heights(id)
           /\ Families' = Families
           /\ \A F : Shallow(F)' <=> Shallow(F)
  <1>1. \A id : Top(id)' <=> Top(id)
    BY DEF Top
  <1>2. \A id : Heights(id)' = Heights(id)
    BY DEF Heights, Above, Top
  <1>3. Families' = Families
    BY DEF Families
  <1>4. QED
    BY <1>1, <1>2, <1>3 DEF Shallow

-----------------------------------------------------------------------------
(* Depths are true.                                                        *)

\* The calls in progress go up from the first one, a parent each.
Path ==
    /\ \A k \in 1..Len(stack) : stack[k].guard = k - 1
    /\ \A k \in 1..(Len(stack) - 1) : ~Top(stack[k].id) /\ stack[k + 1].id = parent[stack[k].id]

\* In a family without too deep a chain, what is remembered and what is returned is true.
True(F) ==
    /\ \A id \in F \cap DOMAIN depth : depth[id] = Min(Heights(id))
    /\ value # {} /\ call.id \in F => value = {Min(Heights(call.id))}

Truth == \A F \in Families : Shallow(F) => True(F)

DepthInv == Path /\ Truth

LEMMA ChildOfFamily ==
    ASSUME NEW F \in Families, NEW id, ~Top(id)
    PROVE  id \in F <=> parent[id] \in F
  BY DEF Families, Top

\* A recursion into such a family does not get to the guard.
LEMMA GuardNotReached ==
    ASSUME MemoInv, Path, stack # <<>>, NEW F \in Families, Shallow(F), call.id \in F
    PROVE  ~(call.guard > Guard)
  <1> DEFINE L == Len(stack)
             r == stack[1].id
             h == Min(Heights(r))
  <1> SUFFICES ASSUME call.guard > Guard PROVE FALSE
    OBVIOUS
  <1>1. L \in Nat /\ L >= 1 /\ L \in 1..L
    BY CallOfStack DEF MemoInv
  <1>2. L - 1 > Guard /\ L - 1 \in Nat
    BY <1>1 DEF Path, call
  <1>3. stack[1].id \in F
    <2> DEFINE T == {k \in 1..L : stack[k].id \in F}
    <2>1. L \in T /\ T \subseteq Nat
      BY <1>1 DEF call
    <2>2. PICK k \in T : \A j \in T : k <= j
      <3> HIDE DEF T
      <3>1. QED
        BY <2>1, LeastNat
    <2>3. CASE k = 1
      BY <2>2, <2>3
    <2>4. CASE k # 1
      <3>1. k - 1 \in 1..(L - 1) /\ k - 1 \in 1..L /\ (k - 1) + 1 = k /\ ~(k <= k - 1)
        BY <1>1, <2>2, <2>4
      <3>2. ~Top(stack[k - 1].id) /\ stack[k].id = parent[stack[k - 1].id]
        BY <3>1 DEF Path
      <3>3. stack[k - 1].id \in F
        BY <2>2, <3>2, ChildOfFamily
      <3>4. QED
        BY <2>2, <3>1, <3>3
    <2>5. QED
      BY <2>3, <2>4
  <1>4. 1 \in 1..(L - 1) /\ ~Top(r)
    BY <1>1, <1>2, GuardAssumption DEF Path
  <1>5. r \in F \cap Ids
    BY <1>3, <1>4 DEF Top
  <1>6. h \in Heights(r) /\ h \in Nat /\ h <= Guard
    BY <1>5, HeightsType, LeastIsMin DEF Shallow
  <1>7. h \in 0..Highest /\ Top(Above(r)[h])
    BY <1>6, HeightsType DEF Heights
  <1>8. /\ Above(r)[0] = r
        /\ \A n \in 1..Highest : Above(r)[n] = IF Top(Above(r)[n - 1]) THEN Above(r)[n - 1]
                                                                      ELSE parent[Above(r)[n - 1]]
    BY AboveSteps
  <1>9. h + 1 \in 1..(L - 1)
    BY <1>2, <1>6, GuardAssumption
  <1> HIDE DEF L, h
  <1>10. \A n \in 0..h : Above(r)[n] = stack[n + 1].id
    <2> DEFINE T == {n \in 0..h : Above(r)[n] # stack[n + 1].id}
    <2> SUFFICES ASSUME T # {} PROVE FALSE
      OBVIOUS
    <2>1. PICK n \in T : \A m \in T : n <= m
      <3>1. T \subseteq Nat
        BY <1>6
      <3> HIDE DEF T
      <3>2. QED
        BY <3>1, LeastNat
    <2>2. n # 0
      BY <1>8, <2>1
    <2>3. /\ n \in 1..Highest /\ n - 1 \in 0..h /\ ~(n <= n - 1)
          /\ n \in 1..(L - 1) /\ (n - 1) + 1 = n
      <3>1. Highest \in Nat /\ L \in Nat /\ n \in 0..h
        BY <1>1, <2>1, HighestType DEF L
      <3> HIDE DEF T
      <3>2. QED
        BY <1>6, <1>7, <1>9, <2>2, <3>1
    <2>4. Above(r)[n - 1] = stack[n].id
      <3>1. n - 1 \notin T
        BY <2>1, <2>3
      <3>2. QED
        BY <2>3, <3>1
    <2>5. ~Top(stack[n].id) /\ stack[n + 1].id = parent[stack[n].id]
      BY <2>3 DEF Path, L
    <2>6. QED
      BY <1>8, <2>1, <2>3, <2>4, <2>5
  <1>11. Top(stack[h + 1].id)
    BY <1>6, <1>7, <1>10
  <1>12. QED
    BY <1>9, <1>11 DEF Path, L

LEMMA AskKeepsDepths == ASSUME MemoInv, DepthInv, Ask PROVE DepthInv'
  <1>1. /\ UNCHANGED <<parent, depth, value>> /\ value = {}
        /\ \E id \in Ids : stack' = <<[id |-> id, guard |-> 0]>>
    BY DEF Ask, MemoInv, Settled
  <1>2. Len(stack') = 1 /\ stack'[1].guard = 0
    BY <1>1
  <1>3. Path'
    BY <1>2 DEF Path
  <1>4. Truth'
    BY <1>1, HeightsKept DEF DepthInv, Truth, True
  <1>5. QED
    BY <1>3, <1>4 DEF DepthInv

\* Steps that go no further up.
LEMMA StayKeepsDepths ==
    ASSUME MemoInv, DepthInv, Recall \/ GiveUp \/ Root
    PROVE  DepthInv'
  <1>1. /\ UNCHANGED <<parent, stack>> /\ stack # <<>> /\ call' = call
    BY DEF Recall, GiveUp, Root, Active, call
  <1>2. Path'
    BY <1>1, HeightsKept DEF DepthInv, Path
  <1>3. ASSUME NEW F \in Families, Shallow(F), True(F) PROVE True(F)'
    <2>1. \A id : Heights(id)' = Heights(id)
      BY <1>1, HeightsKept
    <2>2. CASE Recall
      <3>1. UNCHANGED depth /\ call.id \in DOMAIN depth /\ value' = {depth[call.id]}
        BY <2>2 DEF Recall
      <3>2. QED
        BY <1>1, <1>3, <2>1, <3>1 DEF True
    <2>3. CASE GiveUp
      <3>1. UNCHANGED depth /\ call.guard > Guard
        BY <2>3 DEF GiveUp
      <3>2. call.id \notin F
        BY <1>1, <1>3, <3>1, GuardNotReached DEF DepthInv
      <3>3. QED
        BY <1>1, <1>3, <2>1, <3>1, <3>2 DEF True
    <2>4. CASE Root
      <3>1. Top(call.id) /\ depth' = Bind(depth, call.id, 0) /\ value' = {0}
        BY <2>4 DEF Root
      <3>2. /\ DOMAIN depth' = DOMAIN depth \cup {call.id} /\ depth'[call.id] = 0
            /\ \A y \in DOMAIN depth : y # call.id => depth'[y] = depth[y]
        BY <3>1 DEF Bind
      <3>3. Min(Heights(call.id)) = 0
        BY <3>1, HeightOfTop
      <3>4. QED
        BY <1>1, <1>3, <2>1, <3>1, <3>2, <3>3 DEF True
    <2>5. QED
      BY <2>2, <2>3, <2>4
  <1>4. Truth'
    BY <1>1, <1>3, HeightsKept DEF DepthInv, Truth
  <1>5. QED
    BY <1>2, <1>4 DEF DepthInv

LEMMA RecurseKeepsDepths == ASSUME MemoInv, DepthInv, Recurse PROVE DepthInv'
  <1> DEFINE next == [id |-> parent[call.id], guard |-> call.guard + 1]
             n == Len(stack)
  <1>1. /\ UNCHANGED <<parent, depth, value>> /\ stack # <<>> /\ value = {}
        /\ ~Top(call.id) /\ stack' = Append(stack, next)
    BY DEF Recurse, Active
  <1>2. stack \in Seq(Calls) /\ n \in Nat /\ n >= 1
    BY <1>1, CallOfStack DEF MemoInv, Types
  <1>3. Len(stack') = n + 1 /\ stack'[n + 1] = next /\ \A i \in 1..n : stack'[i] = stack[i]
    BY <1>1, <1>2
  <1>4. Path'
    <2>1. ASSUME NEW k \in 1..(n + 1) PROVE stack'[k].guard = k - 1
      <3>1. CASE k \in 1..n
        BY <1>3, <3>1 DEF DepthInv, Path
      <3>2. CASE k = n + 1
        <4>1. call.guard = n - 1
          BY <1>2 DEF DepthInv, Path, call
        <4>2. QED
          BY <1>2, <1>3, <3>2, <4>1
      <3>3. QED
        BY <1>2, <3>1, <3>2
    <2>2. ASSUME NEW k \in 1..n
          PROVE  ~Top(stack'[k].id) /\ stack'[k + 1].id = parent[stack'[k].id]
      <3>1. CASE k \in 1..(n - 1)
        <4>1. k + 1 \in 1..n
          BY <1>2, <3>1
        <4>2. ~Top(stack[k].id) /\ stack[k + 1].id = parent[stack[k].id]
          BY <3>1 DEF DepthInv, Path
        <4>3. QED
          BY <1>3, <4>1, <4>2
      <3>2. CASE k = n
        BY <1>1, <1>3, <3>2 DEF call
      <3>3. QED
        BY <1>2, <3>1, <3>2
    <2>3. (n + 1) - 1 = n
      BY <1>2
    <2> HIDE DEF next, n
    <2>4. /\ \A k \in 1..Len(stack') : stack'[k].guard = k - 1
          /\ \A k \in 1..(Len(stack') - 1) :
                ~Top(stack'[k].id) /\ stack'[k + 1].id = parent[stack'[k].id]
      BY <1>3, <2>1, <2>2, <2>3
    <2>5. QED
      BY <1>1, <2>4, HeightsKept DEF Path
  <1>5. Truth'
    BY <1>1, HeightsKept DEF DepthInv, Truth, True
  <1>6. QED
    BY <1>4, <1>5 DEF DepthInv

LEMMA ReturnKeepsDepths == ASSUME MemoInv, DepthInv, Return PROVE DepthInv'
  <1> DEFINE n == Len(stack) - 1
             id == stack[n].id
  <1>1. stack \in Seq(Calls) /\ n \in Nat /\ n >= 1 /\ UNCHANGED parent /\ value # {}
    <2>1. stack \in Seq(Calls) /\ Len(stack) > 1 /\ UNCHANGED parent /\ value # {}
      BY DEF Return, MemoInv, Types
    <2>2. Len(stack) \in Nat
      BY <2>1
    <2>3. QED
      BY <2>1, <2>2
  <1>2. PICK v \in value : depth' = Bind(depth, id, v + 1) /\ value' = {v + 1}
    BY DEF Return
  <1>3. Len(stack') = n /\ \A i \in 1..n : stack'[i] = stack[i]
    BY ReturnPops DEF MemoInv
  <1>4. /\ DOMAIN depth' = DOMAIN depth \cup {id} /\ depth'[id] = v + 1
        /\ \A y \in DOMAIN depth : y # id => depth'[y] = depth[y]
    BY <1>2 DEF Bind
  <1>5. call'.id = id
    BY <1>1, <1>3 DEF call
  <1>6. ~Top(id) /\ call.id = parent[id]
    <2>1. n \in 1..(Len(stack) - 1) /\ n + 1 = Len(stack)
      BY <1>1
    <2>2. ~Top(stack[n].id) /\ stack[n + 1].id = parent[stack[n].id]
      BY <2>1 DEF DepthInv, Path
    <2>3. QED
      BY <2>1, <2>2 DEF call
  <1>7. Path'
    <2>1. ASSUME NEW k \in 1..n PROVE stack'[k].guard = k - 1
      <3>1. k \in 1..Len(stack)
        BY <1>1
      <3>2. QED
        BY <1>3, <3>1 DEF DepthInv, Path
    <2>2. ASSUME NEW k \in 1..(n - 1)
          PROVE  ~Top(stack'[k].id) /\ stack'[k + 1].id = parent[stack'[k].id]
      <3>1. k \in 1..n /\ k + 1 \in 1..n /\ k \in 1..(Len(stack) - 1)
        BY <1>1
      <3>2. QED
        BY <1>3, <3>1 DEF DepthInv, Path
    <2> HIDE DEF n
    <2>3. /\ \A k \in 1..Len(stack') : stack'[k].guard = k - 1
          /\ \A k \in 1..(Len(stack') - 1) :
                ~Top(stack'[k].id) /\ stack'[k + 1].id = parent[stack'[k].id]
      BY <1>3, <2>1, <2>2
    <2>4. QED
      BY <1>1, <2>3, HeightsKept DEF Path
  <1> HIDE DEF n, id
  <1>8. ASSUME NEW F \in Families, Shallow(F), True(F) PROVE True(F)'
    <2>1. \A y : Heights(y)' = Heights(y)
      BY <1>1, HeightsKept
    <2>2. id \in F => v + 1 = Min(Heights(id))
      <3> SUFFICES ASSUME id \in F PROVE v + 1 = Min(Heights(id))
        OBVIOUS
      <3>1. call.id \in F /\ id \in Ids
        BY <1>6, ChildOfFamily DEF Top
      <3>2. v = Min(Heights(parent[id]))
        BY <1>1, <1>2, <1>6, <1>8, <3>1 DEF True
      <3>3. Heights(id) # {}
        BY <1>8, <3>1 DEF Shallow
      <3>4. QED
        BY <1>6, <3>2, <3>3, HeightOfChild
    <2>3. QED
      BY <1>2, <1>4, <1>5, <1>8, <2>1, <2>2 DEF True
  <1>9. Truth'
    BY <1>1, <1>8, HeightsKept DEF DepthInv, Truth
  <1>10. QED
    BY <1>7, <1>9 DEF DepthInv

LEMMA AnswerKeepsDepths == ASSUME MemoInv, DepthInv, Answer PROVE DepthInv'
  <1>1. UNCHANGED <<parent, depth>> /\ stack' = <<>> /\ value' = {}
    BY DEF Answer
  <1>2. Len(stack') = 0
    BY <1>1, EmptySeq
  <1>3. Path'
    BY <1>2 DEF Path
  <1>4. Truth'
    BY <1>1, HeightsKept DEF DepthInv, Truth, True
  <1>5. QED
    BY <1>3, <1>4 DEF DepthInv

\* The depth of a span is the number of its ancestors, for every number of spans, every
\* guard and every order of the questions, if no chain of its family is too deep.
THEOREM DepthsAreTrue == SortSpec => []DepthIsTrue
  <1>1. SortInit => DepthInv
    <2> SUFFICES ASSUME SortInit PROVE DepthInv
      OBVIOUS
    <2>1. depth = <<>> /\ stack = <<>> /\ value = {}
      BY DEF SortInit
    <2>2. Len(stack) = 0
      BY <2>1, EmptySeq
    <2>3. DOMAIN depth = {}
      <3>1. DOMAIN <<>> = {}
        OBVIOUS
      <3>2. QED
        BY <2>1, <3>1, Zenon
    <2>4. Path
      BY <2>2 DEF Path
    <2>5. QED
      BY <2>1, <2>3, <2>4 DEF DepthInv, Truth, True
  <1>2. MemoInv /\ DepthInv /\ [SortNext]_sortVars => DepthInv'
    <2> SUFFICES ASSUME MemoInv, DepthInv, [SortNext]_sortVars PROVE DepthInv'
      OBVIOUS
    <2>1. CASE Ask
      BY <2>1, AskKeepsDepths
    <2>2. CASE Step
      BY <2>2, StayKeepsDepths, RecurseKeepsDepths, ReturnKeepsDepths, AnswerKeepsDepths DEF Step
    <2>3. CASE UNCHANGED sortVars
      <3>1. UNCHANGED <<parent, depth, stack, value>> /\ call' = call
        BY <2>3 DEF sortVars, call
      <3>2. Path' /\ Truth'
        BY <3>1, HeightsKept DEF DepthInv, Path, Truth, True
      <3>3. QED
        BY <3>2 DEF DepthInv
    <2>4. QED
      BY <2>1, <2>2, <2>3 DEF SortNext
  <1>3. MemoInv /\ DepthInv => DepthIsTrue
    BY DEF MemoInv, Settled, DepthInv, Truth, True, DepthIsTrue
  <1>4. QED
    BY <1>1, <1>2, <1>3, InvInductive, PTL DEF SortSpec

-----------------------------------------------------------------------------
(* Pipeline: sequences.                                                    *)

LEMMA SequenceIs ==
    ASSUME NEW s, IsSequence(s)
    PROVE  /\ Len(s) \in Nat /\ DOMAIN s = 1..Len(s)
           /\ s \in Seq(ToSet(s))
           /\ ToSet(s) = {s[i] : i \in 1..Len(s)}
  BY LenProperties DEF IsSequence, ToSet

LEMMA MemberIs ==
    ASSUME NEW T, NEW s \in Seq(T)
    PROVE  IsSequence(s)
  <1>1. Len(s) \in Nat /\ s \in [1..Len(s) -> T]
    BY LenProperties
  <1>2. \A i \in 1..Len(s) : s[i] \in ToSet(s)
    BY <1>1 DEF ToSet
  <1>3. [i \in 1..Len(s) |-> s[i]] \in Seq(ToSet(s))
    BY <1>1, <1>2, IsASeq
  <1>4. QED
    BY <1>1, <1>3 DEF IsSequence

-----------------------------------------------------------------------------
(* One record and one span.                                                *)

\* A record's inputs and outputs, and what may be told of them.
IsRecord(r) ==
    /\ r.key \in Nat /\ r.rekey \in Nat
    /\ IsSequence(r.input) /\ IsSequence(r.output)
    /\ \A m \in ToSet(r.input) \cup ToSet(r.output) : IsText(m.payload)

LEMMA PayloadIs ==
    ASSUME NEW w, IsSequence(w), \A m \in ToSet(w) : IsText(m.payload)
    PROVE  Payload(w) = {} \/ \E text : text # {} /\ Payload(w) = {text}
  <1> DEFINE whole == {i \in DOMAIN w : w[i].payload # {}}
  <1>1. CASE whole = {}
    BY <1>1 DEF Payload
  <1>2. CASE whole # {}
    <2>1. DOMAIN w \subseteq Nat /\ \A i \in DOMAIN w : w[i] \in ToSet(w)
      <3>1. Len(w) \in Nat /\ DOMAIN w = 1..Len(w)
        BY SequenceIs
      <3>2. \A i \in DOMAIN w : w[i] \in ToSet(w)
        BY DEF ToSet
      <3>3. DOMAIN w \subseteq Nat
        BY <3>1
      <3>4. QED
        BY <3>2, <3>3
    <2>2. PICK i \in whole : \A j \in whole : i <= j
      <3>1. whole \subseteq Nat
        BY <2>1
      <3> HIDE DEF whole
      <3>2. QED
        BY <1>2, <3>1, LeastNat
    <2>3. Min(whole) \in whole
      BY <2>2 DEF Min
    <2>4. Payload(w) = w[Min(whole)].payload
      BY <1>2 DEF Payload
    <2>5. Payload(w) # {} /\ \A text, other \in Payload(w) : text = other /\ text # {}
      <3>1. Min(whole) \in DOMAIN w /\ w[Min(whole)].payload # {}
        BY <2>3
      <3> HIDE DEF whole
      <3>2. w[Min(whole)] \in ToSet(w)
        BY <2>1, <3>1
      <3>3. QED
        BY <2>4, <3>1, <3>2 DEF IsText
    <2>6. PICK text \in Payload(w) : TRUE
      BY <2>5
    <2>7. Payload(w) = {text} /\ text # {}
      BY <2>5, <2>6
    <2>8. QED
      BY <2>7
  <1>3. QED
    BY <1>1, <1>2

Selects(f, w) ==
    f = [n \in 0..Len(w) |->
            IF n = 0 THEN <<>>
            ELSE IF w[n].role = "" \/ w[n].payload = {} THEN f[n - 1]
            ELSE Append(f[n - 1], [role |-> w[n].role, text |-> UNION w[n].payload])]

LEMMA SelectsExists ==
    ASSUME NEW w, IsSequence(w)
    PROVE  \E f : Selects(f, w)
  <1> DEFINE L == Len(w)
             Z == <<>>
             S(f, k) == IF w[k].role = "" \/ w[k].payload = {} THEN f[k - 1]
                        ELSE Append(f[k - 1], [role |-> w[k].role, text |-> UNION w[k].payload])
             Follows(f, k) == f[k] = IF k = 0 THEN Z ELSE S(f, k)
             Upto(n) == \E f : f = [k \in 0..n |-> f[k]] /\ \A k \in 0..n : Follows(f, k)
             Bad == {n \in 0..L : ~Upto(n)}
  <1>1. L \in Nat
    BY SequenceIs
  <1>2. \A f, g : \A k : f[k - 1] = g[k - 1] => S(f, k) = S(g, k)
    OBVIOUS
  <1> HIDE DEF L, Z, S
  <1>3. ASSUME Bad # {} PROVE FALSE
    <2>1. PICK n \in Bad : \A i \in Bad : n <= i
      <3>1. Bad \subseteq Nat
        BY <1>1
      <3> HIDE DEF Bad
      <3>2. QED
        BY <1>3, <3>1, LeastNat
    <2>2. n \in 0..L /\ ~Upto(n)
      OBVIOUS
    <2>3. CASE n = 0
      <3> DEFINE f == [k \in 0..0 |-> Z]
      <3>1. f = [k \in 0..0 |-> f[k]] /\ \A k \in 0..0 : Follows(f, k)
        OBVIOUS
      <3>2. QED
        BY <2>2, <2>3, <3>1
    <2>4. CASE n # 0
      <3>1. n - 1 \in 0..L /\ n \in Nat /\ ~(n <= n - 1)
        BY <1>1, <2>2, <2>4
      <3>2. Upto(n - 1)
        BY <2>1, <3>1
      <3>3. PICK f : f = [k \in 0..(n - 1) |-> f[k]] /\ \A k \in 0..(n - 1) : Follows(f, k)
        BY <3>2
      <3> DEFINE g == [k \in 0..n |-> IF k = n THEN S(f, n) ELSE f[k]]
      <3>4. g = [k \in 0..n |-> g[k]]
        OBVIOUS
      <3>5. ASSUME NEW k \in 0..n PROVE Follows(g, k)
        <4>1. CASE k = n
          <5>1. k \in 0..n /\ n - 1 \in 0..n /\ n - 1 # n /\ k # 0
            BY <2>4, <3>1, <4>1
          <5>2. g[k] = S(f, n) /\ g[n - 1] = f[n - 1]
            BY <4>1, <5>1
          <5>3. S(f, n) = S(g, n)
            BY <1>2, <5>2
          <5>4. QED
            BY <4>1, <5>1, <5>2, <5>3
        <4>2. CASE k # n
          <5>1. k \in 0..(n - 1) /\ k \in 0..n
            BY <3>1, <4>2
          <5>2. Follows(f, k)
            BY <3>3, <5>1
          <5>3. g[k] = f[k] /\ (k # 0 => g[k - 1] = f[k - 1])
            BY <3>1, <4>2, <5>1
          <5>4. k # 0 => S(f, k) = S(g, k)
            BY <1>2, <5>3
          <5>5. QED
            BY <5>2, <5>3, <5>4
        <4>3. QED
          BY <4>1, <4>2
      <3> HIDE DEF g
      <3>6. QED
        BY <2>2, <3>4, <3>5
    <2>5. QED
      BY <2>3, <2>4
  <1>4. Upto(L)
    <2>1. L \in 0..L
      BY <1>1
    <2>2. QED
      BY <1>3, <2>1
  <1>5. PICK f : f = [k \in 0..L |-> f[k]] /\ \A k \in 0..L : Follows(f, k)
    BY <1>4
  <1>6. Selects(f, w)
    BY <1>5 DEF Selects, L, Z, S
  <1>7. QED
    BY <1>6

LEMMA MessagesAre ==
    ASSUME NEW w, IsSequence(w)
    PROVE  IsSequence(Messages(w))
  <1> DEFINE T == {[role |-> m.role, text |-> UNION m.payload] : m \in ToSet(w)}
             f == CHOOSE f : Selects(f, w)
             Bad == {n \in 0..Len(w) : f[n] \notin Seq(T)}
  <1>1. Len(w) \in Nat /\ \A n \in 1..Len(w) : w[n] \in ToSet(w)
    BY SequenceIs
  <1>2. Selects(f, w)
    BY SelectsExists
  <1>3. Messages(w) = f[Len(w)]
    BY DEF Messages, Selects
  <1> HIDE DEF f
  <1>4. \A n \in 0..Len(w) : f[n] = IF n = 0 THEN <<>>
            ELSE IF w[n].role = "" \/ w[n].payload = {} THEN f[n - 1]
            ELSE Append(f[n - 1], [role |-> w[n].role, text |-> UNION w[n].payload])
    BY <1>2 DEF Selects
  <1>5. \A n \in 1..Len(w) : [role |-> w[n].role, text |-> UNION w[n].payload] \in T
    BY <1>1
  <1> HIDE DEF T
  <1>6. ASSUME Bad # {} PROVE FALSE
    <2>1. PICK n \in Bad : \A i \in Bad : n <= i
      <3>1. Bad \subseteq Nat
        BY <1>1
      <3> HIDE DEF Bad
      <3>2. QED
        BY <1>6, <3>1, LeastNat
    <2>2. n \in 0..Len(w) /\ f[n] \notin Seq(T)
      OBVIOUS
    <2>3. n # 0
      BY <1>4, <2>2, EmptySeq
    <2>4. n \in 1..Len(w) /\ n - 1 \in 0..Len(w) /\ ~(n <= n - 1)
      BY <1>1, <2>2, <2>3
    <2>5. f[n - 1] \in Seq(T)
      BY <2>1, <2>4
    <2>6. Append(f[n - 1], [role |-> w[n].role, text |-> UNION w[n].payload]) \in Seq(T)
      BY <1>5, <2>4, <2>5, AppendProperties
    <2>7. QED
      BY <1>4, <2>2, <2>3, <2>5, <2>6
  <1>7. f[Len(w)] \in Seq(T)
    <2>1. Len(w) \in 0..Len(w)
      BY <1>1
    <2>2. QED
      BY <1>6, <2>1
  <1>8. QED
    BY <1>3, <1>7, MemberIs

\* Span s with other messages, arguments and result.
Having(s, i, o, a, r, ac, rc) ==
    [id |-> s.id, op |-> s.op, name |-> s.name, nested |-> s.nested, start |-> s.start,
     end |-> s.end, rank |-> s.rank, in |-> i, out |-> o, opaque |-> s.opaque, prompt |-> s.prompt,
     completion |-> s.completion, args |-> a, result |-> r, argsCaptured |-> ac,
     resultCaptured |-> rc, error |-> s.error, source |-> s.source]

\* What an attribute holds: one thing or none.
Carries(s, attr) ==
    CASE attr = "args"   -> IF s.argsCaptured THEN {s.args} ELSE {}
      [] attr = "result" -> IF s.resultCaptured THEN {s.result} ELSE {}
      [] attr = "in"     -> {s.in} \ {<<>>}
      [] attr = "out"    -> {s.out} \ {<<>>}

\* A span as a record of it may change it: what it has of its own is kept.
Rewrites(s, x) ==
    /\ x = Having(s, x.in, x.out, x.args, x.result, x.argsCaptured, x.resultCaptured)
    /\ {x.argsCaptured, x.resultCaptured} \subseteq BOOLEAN
    /\ IsSequence(x.in) /\ IsSequence(x.out)
    /\ s.op = "execute_tool" =>
          /\ x.in = s.in /\ x.out = s.out
          /\ ~x.argsCaptured => x.args = s.args
          /\ ~x.resultCaptured => x.result = s.result
    /\ s.op # "execute_tool" =>
          /\ x.args = s.args /\ x.argsCaptured = s.argsCaptured
          /\ x.result = s.result /\ x.resultCaptured = s.resultCaptured

\* A span is what its attributes carry.
LEMMA CarriedIsAll ==
    ASSUME NEW s, NEW x, NEW y, Rewrites(s, x), Rewrites(s, y),
           \A attr \in Attributes(s) : Carries(x, attr) = Carries(y, attr)
    PROVE  x = y
  <1>1. CASE s.op = "execute_tool"
    <2>1. Carries(x, "args") = Carries(y, "args") /\ Carries(x, "result") = Carries(y, "result")
      BY <1>1 DEF Attributes
    <2>2. (IF x.argsCaptured THEN {x.args} ELSE {}) = IF y.argsCaptured THEN {y.args} ELSE {}
      BY <2>1 DEF Carries
    <2>3. (IF x.resultCaptured THEN {x.result} ELSE {}) = IF y.resultCaptured THEN {y.result} ELSE {}
      BY <2>1 DEF Carries
    <2>4. x.argsCaptured = y.argsCaptured /\ x.args = y.args
      BY <1>1, <2>2 DEF Rewrites
    <2>5. x.resultCaptured = y.resultCaptured /\ x.result = y.result
      BY <1>1, <2>3 DEF Rewrites
    <2>6. QED
      BY <1>1, <2>4, <2>5 DEF Rewrites
  <1>2. CASE s.op # "execute_tool"
    <2>1. Carries(x, "in") = Carries(y, "in") /\ Carries(x, "out") = Carries(y, "out")
      BY <1>2 DEF Attributes
    <2>2. {x.in} \ {<<>>} = {y.in} \ {<<>>} /\ {x.out} \ {<<>>} = {y.out} \ {<<>>}
      BY <2>1 DEF Carries
    <2>3. x.in = y.in /\ x.out = y.out
      BY <2>2
    <2>4. QED
      BY <1>2, <2>3 DEF Rewrites
  <1>3. QED
    BY <1>1, <1>2

\* A record fills in what is not there yet, and changes nothing else.
LEMMA ApplyTells ==
    ASSUME NEW s, NEW x, Rewrites(s, x), NEW r, IsRecord(r)
    PROVE  /\ Rewrites(s, applyContent(x, r))
           /\ \A attr \in Attributes(s) :
                 /\ Carries(applyContent(x, r), attr) =
                       IF Present(x, attr) \/ Says(r, attr) = {} THEN Carries(x, attr) ELSE Says(r, attr)
                 /\ Present(applyContent(x, r), attr) <=> Present(x, attr) \/ Says(r, attr) # {}
  <1> DEFINE y == applyContent(x, r)
             I == Says(r, "args")
             O == Says(r, "result")
             M == Says(r, "in")
             N == Says(r, "out")
  <1>1. /\ I = {} \/ \E text : text # {} /\ I = {text}
        /\ O = {} \/ \E text : text # {} /\ O = {text}
    BY PayloadIs DEF IsRecord, Says
  <1>2. /\ M = {} \/ \E m : M = {m} /\ m # <<>> /\ IsSequence(m)
        /\ N = {} \/ \E m : N = {m} /\ m # <<>> /\ IsSequence(m)
    <2> DEFINE m == Messages(r.input)
               n == Messages(r.output)
    <2>1. IsSequence(m) /\ IsSequence(n)
      BY MessagesAre DEF IsRecord
    <2>2. M = {m} \ {<<>>} /\ N = {n} \ {<<>>}
      BY DEF Says
    <2> HIDE DEF m, n, M, N
    <2>3. QED
      BY <2>1, <2>2
  <1>3. /\ x = Having(s, x.in, x.out, x.args, x.result, x.argsCaptured, x.resultCaptured)
        /\ x.op = s.op /\ x.opaque = s.opaque
    <2>1. x = Having(s, x.in, x.out, x.args, x.result, x.argsCaptured, x.resultCaptured)
      BY DEF Rewrites
    <2>2. x.op = s.op /\ x.opaque = s.opaque
      BY <2>1 DEF Having
    <2>3. QED
      BY <2>1, <2>2
  <1> HIDE DEF I, O, M, N
  <1>4. CASE s.op = "execute_tool"
    <2> DEFINE a == setAttrIfAbsent(Present(x, "args"), x.args, I)
               b == setAttrIfAbsent(Present(x, "result"), x.result, O)
               ac == x.argsCaptured \/ I # {}
               bc == x.resultCaptured \/ O # {}
    <2>1. y = [x EXCEPT !.args = a, !.argsCaptured = ac, !.result = b, !.resultCaptured = bc]
      BY <1>3, <1>4 DEF applyContent, I, O
    <2>2. /\ Present(x, "args") \/ I = {} => a = x.args
          /\ ~Present(x, "args") /\ I # {} => I = {a} /\ a # {}
          /\ Present(x, "result") \/ O = {} => b = x.result
          /\ ~Present(x, "result") /\ O # {} => O = {b} /\ b # {}
          /\ {ac, bc} \subseteq BOOLEAN
          /\ ac <=> x.argsCaptured \/ I # {}
          /\ bc <=> x.resultCaptured \/ O # {}
      BY <1>1 DEF setAttrIfAbsent
    <2>3. /\ Present(x, "args") <=> x.argsCaptured /\ x.args # {}
          /\ Present(x, "result") <=> x.resultCaptured /\ x.result # {}
      BY DEF Present
    <2> HIDE DEF y, a, b, ac, bc
    <2>4. y = Having(s, x.in, x.out, a, b, ac, bc)
      <3> DEFINE x1 == [x EXCEPT !.args = a]
                 x2 == [x1 EXCEPT !.argsCaptured = ac]
                 x3 == [x2 EXCEPT !.result = b]
                 x4 == [x3 EXCEPT !.resultCaptured = bc]
      <3>1. y = x4
        BY <2>1
      <3>2. x1 = Having(s, x.in, x.out, a, x.result, x.argsCaptured, x.resultCaptured)
        BY <1>3 DEF Having
      <3> HIDE DEF x1
      <3>3. x2 = Having(s, x.in, x.out, a, x.result, ac, x.resultCaptured)
        BY <3>2 DEF Having
      <3> HIDE DEF x2
      <3>4. x3 = Having(s, x.in, x.out, a, b, ac, x.resultCaptured)
        BY <3>3 DEF Having
      <3> HIDE DEF x3
      <3>5. x4 = Having(s, x.in, x.out, a, b, ac, bc)
        BY <3>4 DEF Having
      <3> HIDE DEF x4
      <3>6. QED
        BY <3>1, <3>5, Zenon
    <2>5. /\ y.in = x.in /\ y.out = x.out /\ y.args = a /\ y.result = b
          /\ y.argsCaptured = ac /\ y.resultCaptured = bc
      BY <2>4 DEF Having
    <2>6. Rewrites(s, y)
      <3>1. y = Having(s, y.in, y.out, y.args, y.result, y.argsCaptured, y.resultCaptured)
        BY <2>4, <2>5
      <3>2. IsSequence(x.in) /\ IsSequence(x.out) /\ x.in = s.in /\ x.out = s.out
        BY <1>4 DEF Rewrites
      <3>3. (~ac => a = s.args) /\ (~bc => b = s.result)
        BY <1>4, <2>2 DEF Rewrites
      <3>4. QED
        BY <1>4, <2>2, <2>5, <3>1, <3>2, <3>3 DEF Rewrites
    <2>7. /\ Carries(y, "args") =
                IF Present(x, "args") \/ I = {} THEN Carries(x, "args") ELSE I
          /\ Present(y, "args") <=> Present(x, "args") \/ I # {}
      <3>1. Carries(y, "args") = (IF ac THEN {a} ELSE {}) /\ (Present(y, "args") <=> ac /\ a # {})
        BY <2>5 DEF Carries, Present
      <3>2. Carries(x, "args") = IF x.argsCaptured THEN {x.args} ELSE {}
        BY DEF Carries
      <3>3. QED
        BY <2>2, <2>3, <3>1, <3>2
    <2>8. /\ Carries(y, "result") =
                IF Present(x, "result") \/ O = {} THEN Carries(x, "result") ELSE O
          /\ Present(y, "result") <=> Present(x, "result") \/ O # {}
      <3>1. Carries(y, "result") = (IF bc THEN {b} ELSE {}) /\ (Present(y, "result") <=> bc /\ b # {})
        BY <2>5 DEF Carries, Present
      <3>2. Carries(x, "result") = IF x.resultCaptured THEN {x.result} ELSE {}
        BY DEF Carries
      <3>3. QED
        BY <2>2, <2>3, <3>1, <3>2
    <2>9. QED
      BY <1>4, <2>6, <2>7, <2>8 DEF Attributes, y, I, O
  <1>5. CASE s.op # "execute_tool"
    <2> DEFINE a == setAttrIfAbsent(Present(x, "in"), x.in, M)
               b == setAttrIfAbsent(Present(x, "out"), x.out, N)
    <2>1. y = [x EXCEPT !.in = a, !.out = b]
      BY <1>3, <1>5 DEF applyContent, M, N
    <2>2. /\ Present(x, "in") \/ M = {} => a = x.in
          /\ ~Present(x, "in") /\ M # {} => M = {a} /\ a # <<>> /\ IsSequence(a)
          /\ Present(x, "out") \/ N = {} => b = x.out
          /\ ~Present(x, "out") /\ N # {} => N = {b} /\ b # <<>> /\ IsSequence(b)
      BY <1>2 DEF setAttrIfAbsent
    <2>3. /\ Present(x, "in") <=> x.in # <<>> \/ "in" \in s.opaque
          /\ Present(x, "out") <=> x.out # <<>> \/ "out" \in s.opaque
      BY <1>3 DEF Present
    <2> HIDE DEF y, a, b
    <2>4. y = Having(s, a, b, x.args, x.result, x.argsCaptured, x.resultCaptured)
      <3> DEFINE x1 == [x EXCEPT !.in = a]
                 x2 == [x1 EXCEPT !.out = b]
      <3>1. y = x2
        BY <2>1
      <3>2. x1 = Having(s, a, x.out, x.args, x.result, x.argsCaptured, x.resultCaptured)
        BY <1>3 DEF Having
      <3> HIDE DEF x1
      <3>3. x2 = Having(s, a, b, x.args, x.result, x.argsCaptured, x.resultCaptured)
        BY <3>2 DEF Having
      <3> HIDE DEF x2
      <3>4. QED
        BY <3>1, <3>3, Zenon
    <2>5. /\ y.in = a /\ y.out = b /\ y.args = x.args /\ y.result = x.result
          /\ y.argsCaptured = x.argsCaptured /\ y.resultCaptured = x.resultCaptured
          /\ y.opaque = s.opaque
      BY <2>4 DEF Having
    <2>6. Rewrites(s, y)
      <3>1. y = Having(s, y.in, y.out, y.args, y.result, y.argsCaptured, y.resultCaptured)
        BY <2>4, <2>5
      <3>2. IsSequence(y.in) /\ IsSequence(y.out)
        BY <2>2, <2>5 DEF Rewrites
      <3>3. QED
        BY <1>5, <2>5, <3>1, <3>2 DEF Rewrites
    <2>7. /\ Carries(y, "in") = IF Present(x, "in") \/ M = {} THEN Carries(x, "in") ELSE M
          /\ Present(y, "in") <=> Present(x, "in") \/ M # {}
      <3>1. Carries(y, "in") = {a} \ {<<>>} /\ (Present(y, "in") <=> a # <<>> \/ "in" \in s.opaque)
        BY <2>5 DEF Carries, Present
      <3>2. Carries(x, "in") = {x.in} \ {<<>>}
        BY DEF Carries
      <3>3. QED
        BY <2>2, <2>3, <3>1, <3>2
    <2>8. /\ Carries(y, "out") = IF Present(x, "out") \/ N = {} THEN Carries(x, "out") ELSE N
          /\ Present(y, "out") <=> Present(x, "out") \/ N # {}
      <3>1. Carries(y, "out") = {b} \ {<<>>} /\ (Present(y, "out") <=> b # <<>> \/ "out" \in s.opaque)
        BY <2>5 DEF Carries, Present
      <3>2. Carries(x, "out") = {x.out} \ {<<>>}
        BY DEF Carries
      <3>3. QED
        BY <2>2, <2>3, <3>1, <3>2
    <2>9. QED
      BY <1>5, <2>6, <2>7, <2>8 DEF Attributes, y, M, N
  <1>6. QED
    BY <1>4, <1>5

-----------------------------------------------------------------------------
(* All records.                                                            *)

\* Record r is joined to span s.
Reaches(s, r) == HasBody(r) /\ Joins(s, r)

Enriches(f, s, bodies) ==
    f = [n \in 0..Len(bodies) |->
            IF n = 0 THEN s
            ELSE IF HasBody(bodies[n]) /\ Joins(s, bodies[n]) THEN applyContent(f[n - 1], bodies[n])
            ELSE f[n - 1]]

LEMMA EnrichesExists ==
    ASSUME NEW s, NEW bodies, IsSequence(bodies)
    PROVE  \E f : Enriches(f, s, bodies)
  <1> DEFINE L == Len(bodies)
             Z == s
             S(f, k) == IF HasBody(bodies[k]) /\ Joins(s, bodies[k]) THEN applyContent(f[k - 1], bodies[k])
                        ELSE f[k - 1]
             Follows(f, k) == f[k] = IF k = 0 THEN Z ELSE S(f, k)
             Upto(n) == \E f : f = [k \in 0..n |-> f[k]] /\ \A k \in 0..n : Follows(f, k)
             Bad == {n \in 0..L : ~Upto(n)}
  <1>1. L \in Nat
    BY SequenceIs
  <1>2. \A f, g : \A k : f[k - 1] = g[k - 1] => S(f, k) = S(g, k)
    OBVIOUS
  <1> HIDE DEF L, Z, S
  <1>3. ASSUME Bad # {} PROVE FALSE
    <2>1. PICK n \in Bad : \A i \in Bad : n <= i
      <3>1. Bad \subseteq Nat
        BY <1>1
      <3> HIDE DEF Bad
      <3>2. QED
        BY <1>3, <3>1, LeastNat
    <2>2. n \in 0..L /\ ~Upto(n)
      OBVIOUS
    <2>3. CASE n = 0
      <3> DEFINE f == [k \in 0..0 |-> Z]
      <3>1. f = [k \in 0..0 |-> f[k]] /\ \A k \in 0..0 : Follows(f, k)
        OBVIOUS
      <3>2. QED
        BY <2>2, <2>3, <3>1
    <2>4. CASE n # 0
      <3>1. n - 1 \in 0..L /\ n \in Nat /\ ~(n <= n - 1)
        BY <1>1, <2>2, <2>4
      <3>2. Upto(n - 1)
        BY <2>1, <3>1
      <3>3. PICK f : f = [k \in 0..(n - 1) |-> f[k]] /\ \A k \in 0..(n - 1) : Follows(f, k)
        BY <3>2
      <3> DEFINE g == [k \in 0..n |-> IF k = n THEN S(f, n) ELSE f[k]]
      <3>4. g = [k \in 0..n |-> g[k]]
        OBVIOUS
      <3>5. ASSUME NEW k \in 0..n PROVE Follows(g, k)
        <4>1. CASE k = n
          <5>1. k \in 0..n /\ n - 1 \in 0..n /\ n - 1 # n /\ k # 0
            BY <2>4, <3>1, <4>1
          <5>2. g[k] = S(f, n) /\ g[n - 1] = f[n - 1]
            BY <4>1, <5>1
          <5>3. S(f, n) = S(g, n)
            BY <1>2, <5>2
          <5>4. QED
            BY <4>1, <5>1, <5>2, <5>3
        <4>2. CASE k # n
          <5>1. k \in 0..(n - 1) /\ k \in 0..n
            BY <3>1, <4>2
          <5>2. Follows(f, k)
            BY <3>3, <5>1
          <5>3. g[k] = f[k] /\ (k # 0 => g[k - 1] = f[k - 1])
            BY <3>1, <4>2, <5>1
          <5>4. k # 0 => S(f, k) = S(g, k)
            BY <1>2, <5>3
          <5>5. QED
            BY <5>2, <5>3, <5>4
        <4>3. QED
          BY <4>1, <4>2
      <3> HIDE DEF g
      <3>6. QED
        BY <2>2, <3>4, <3>5
    <2>5. QED
      BY <2>3, <2>4
  <1>4. Upto(L)
    <2>1. L \in 0..L
      BY <1>1
    <2>2. QED
      BY <1>3, <2>1
  <1>5. PICK f : f = [k \in 0..L |-> f[k]] /\ \A k \in 0..L : Follows(f, k)
    BY <1>4
  <1>6. Enriches(f, s, bodies)
    BY <1>5 DEF Enriches, L, Z, S
  <1>7. QED
    BY <1>6

\* The records up to the n-th that are joined to s and say something of an attribute.
Voices(s, bodies, attr, n) == {k \in 1..n : Reaches(s, bodies[k]) /\ Says(bodies[k], attr) # {}}

\* What s and the first n records carry of an attribute: what the first of those records
\* says, if there is one and s has nothing there, or else what s has; and whether there
\* is anything.
Heard(s, bodies, attr, n, v, there) ==
    LET voices == Voices(s, bodies, attr, n)
    IN  /\ there <=> Present(s, attr) \/ voices # {}
        /\ \/ (Present(s, attr) \/ voices = {}) /\ v = Carries(s, attr)
           \/ /\ ~Present(s, attr)
              /\ \E k \in voices : (\A j \in voices : k <= j) /\ v = Says(bodies[k], attr)

LEMMA HearingStarts ==
    ASSUME NEW s, NEW bodies, NEW attr
    PROVE  Heard(s, bodies, attr, 0, Carries(s, attr), Present(s, attr))
  <1>1. Voices(s, bodies, attr, 0) = {}
    BY DEF Voices
  <1>2. QED
    BY <1>1 DEF Heard

LEMMA HearingGoesOn ==
    ASSUME NEW s, NEW bodies, NEW attr, NEW n \in Nat, n # 0, NEW v, NEW w, NEW there, NEW here,
           Heard(s, bodies, attr, n - 1, v, there),
           w = IF ~Reaches(s, bodies[n]) \/ there \/ Says(bodies[n], attr) = {}
               THEN v ELSE Says(bodies[n], attr),
           here <=> there \/ (Reaches(s, bodies[n]) /\ Says(bodies[n], attr) # {})
    PROVE  Heard(s, bodies, attr, n, w, here)
  <1> DEFINE U == Voices(s, bodies, attr, n - 1)
             W == Voices(s, bodies, attr, n)
             speaks == Reaches(s, bodies[n]) /\ Says(bodies[n], attr) # {}
             own == Present(s, attr)
  <1>1. 1..n = 1..(n - 1) \cup {n} /\ n \notin 1..(n - 1) /\ \A k \in 1..(n - 1) : k <= n
    OBVIOUS
  <1>2. n <= n /\ U \subseteq 1..(n - 1)
    BY DEF Voices
  <1>3. W = U \cup (IF speaks THEN {n} ELSE {})
    BY <1>1 DEF Voices
  <1>4. /\ there <=> own \/ U # {}
        /\ \/ (own \/ U = {}) /\ v = Carries(s, attr)
           \/ ~own /\ \E k \in U : (\A j \in U : k <= j) /\ v = Says(bodies[k], attr)
    BY DEF Heard
  <1>5. w = (IF ~speaks \/ there THEN v ELSE Says(bodies[n], attr)) /\ (here <=> there \/ speaks)
    OBVIOUS
  <1> HIDE DEF U, W, speaks, own
  <1>6. here <=> own \/ W # {}
    BY <1>3, <1>4, <1>5
  <1>7. \/ (own \/ W = {}) /\ w = Carries(s, attr)
        \/ ~own /\ \E k \in W : (\A j \in W : k <= j) /\ w = Says(bodies[k], attr)
    <2>1. CASE own
      BY <1>4, <1>5, <2>1
    <2>2. CASE ~own /\ U = {} /\ speaks
      <3>1. W = {n} /\ w = Says(bodies[n], attr)
        BY <1>3, <1>4, <1>5, <2>2
      <3>2. QED
        BY <1>2, <2>2, <3>1
    <2>3. CASE ~own /\ U = {} /\ ~speaks
      BY <1>3, <1>4, <1>5, <2>3
    <2>4. CASE ~own /\ U # {}
      <3>1. PICK k \in U : (\A j \in U : k <= j) /\ v = Says(bodies[k], attr)
        BY <1>4, <2>4
      <3>2. w = v
        BY <1>4, <1>5, <2>4
      <3>3. k \in W /\ \A j \in W : k <= j
        BY <1>1, <1>2, <1>3, <3>1
      <3>4. QED
        BY <2>4, <3>1, <3>2, <3>3
    <2>5. QED
      BY <2>1, <2>2, <2>3, <2>4
  <1>8. QED
    BY <1>6, <1>7 DEF Heard, W, own

\* After the records a span carries what it carried, or what the first to say anything
\* says.
LEMMA EnrichedHears ==
    ASSUME NEW s, Rewrites(s, s), NEW bodies, IsSequence(bodies),
           \A r \in ToSet(bodies) : IsRecord(r)
    PROVE  /\ Rewrites(s, Enriched(s, bodies))
           /\ \A attr \in Attributes(s) :
                 Heard(s, bodies, attr, Len(bodies), Carries(Enriched(s, bodies), attr),
                       Present(Enriched(s, bodies), attr))
  <1> DEFINE f == CHOOSE f : Enriches(f, s, bodies)
             Good(n) == /\ Rewrites(s, f[n])
                        /\ \A attr \in Attributes(s) :
                              Heard(s, bodies, attr, n, Carries(f[n], attr), Present(f[n], attr))
             Bad == {n \in 0..Len(bodies) : ~Good(n)}
  <1>1. Len(bodies) \in Nat /\ \A n \in 1..Len(bodies) : bodies[n] \in ToSet(bodies)
    BY SequenceIs
  <1>2. Enriches(f, s, bodies)
    BY EnrichesExists
  <1>3. Enriched(s, bodies) = f[Len(bodies)]
    BY DEF Enriched, Enriches
  <1> HIDE DEF f
  <1>4. \A n \in 0..Len(bodies) : f[n] =
           IF n = 0 THEN s
           ELSE IF Reaches(s, bodies[n]) THEN applyContent(f[n - 1], bodies[n])
           ELSE f[n - 1]
    BY <1>2 DEF Enriches, Reaches
  <1>5. 0 \in 0..Len(bodies) => Good(0)
    <2> SUFFICES ASSUME 0 \in 0..Len(bodies) PROVE Good(0)
      OBVIOUS
    <2>1. f[0] = s
      BY <1>4
    <2>2. \A attr \in Attributes(s) :
             Heard(s, bodies, attr, 0, Carries(f[0], attr), Present(f[0], attr))
      BY <2>1, HearingStarts, Zenon
    <2>3. QED
      BY <2>1, <2>2
  <1>6. ASSUME NEW n \in 1..Len(bodies), Good(n - 1) PROVE Good(n)
    <2> DEFINE r == bodies[n]
    <2>1. n \in Nat /\ n # 0 /\ n \in 0..Len(bodies) /\ IsRecord(r)
      BY <1>1
    <2>2. f[n] = IF Reaches(s, r) THEN applyContent(f[n - 1], r) ELSE f[n - 1]
      BY <1>4, <2>1
    <2>3. Rewrites(s, f[n - 1])
      BY <1>6
    <2>4. /\ Rewrites(s, applyContent(f[n - 1], r))
          /\ \A attr \in Attributes(s) :
                /\ Carries(applyContent(f[n - 1], r), attr) =
                      IF Present(f[n - 1], attr) \/ Says(r, attr) = {}
                      THEN Carries(f[n - 1], attr) ELSE Says(r, attr)
                /\ Present(applyContent(f[n - 1], r), attr)
                      <=> Present(f[n - 1], attr) \/ Says(r, attr) # {}
      BY <2>1, <2>3, ApplyTells
    <2>5. Rewrites(s, f[n])
      BY <2>2, <2>3, <2>4, Zenon
    <2>6. ASSUME NEW attr \in Attributes(s)
          PROVE  Heard(s, bodies, attr, n, Carries(f[n], attr), Present(f[n], attr))
      <3> DEFINE v == Carries(f[n - 1], attr)
                 w == Carries(f[n], attr)
                 there == Present(f[n - 1], attr)
                 here == Present(f[n], attr)
      <3>1. /\ w = IF ~Reaches(s, r) \/ there \/ Says(r, attr) = {} THEN v ELSE Says(r, attr)
            /\ here <=> there \/ (Reaches(s, r) /\ Says(r, attr) # {})
        <4>1. CASE Reaches(s, r)
          <5>1. /\ w = Carries(applyContent(f[n - 1], r), attr)
                /\ here = Present(applyContent(f[n - 1], r), attr)
            BY <2>2, <4>1
          <5>2. /\ w = IF there \/ Says(r, attr) = {} THEN v ELSE Says(r, attr)
                /\ here <=> there \/ Says(r, attr) # {}
            BY <2>4, <2>6, <5>1
          <5> HIDE DEF w, v, r, there, here
          <5>3. QED
            BY <4>1, <5>2
        <4>2. CASE ~Reaches(s, r)
          <5>1. w = v /\ here = there
            BY <2>2, <4>2
          <5> HIDE DEF w, v, r, there, here
          <5>2. QED
            BY <4>2, <5>1
        <4>3. QED
          BY <4>1, <4>2
      <3>2. Heard(s, bodies, attr, n - 1, v, there)
        BY <1>6
      <3> HIDE DEF v, w, there, here
      <3>3. Heard(s, bodies, attr, n, w, here)
        BY <2>1, <3>1, <3>2, HearingGoesOn
      <3>4. QED
        BY <3>3 DEF w, here
    <2>7. QED
      BY <2>5, <2>6
  <1> HIDE DEF Good
  <1>7. ASSUME Bad # {} PROVE FALSE
    <2>1. PICK n \in Bad : \A i \in Bad : n <= i
      <3>1. Bad \subseteq Nat
        BY <1>1
      <3> HIDE DEF Bad
      <3>2. QED
        BY <1>7, <3>1, LeastNat
    <2>2. n \in 0..Len(bodies) /\ ~Good(n)
      OBVIOUS
    <2>3. n # 0
      BY <1>5, <2>2
    <2>4. n \in 1..Len(bodies) /\ n - 1 \in 0..Len(bodies) /\ ~(n <= n - 1)
      BY <1>1, <2>2, <2>3
    <2>5. Good(n - 1)
      BY <2>1, <2>4
    <2>6. QED
      BY <1>6, <2>2, <2>4, <2>5
  <1>8. Good(Len(bodies))
    <2>1. Len(bodies) \in 0..Len(bodies)
      BY <1>1
    <2>2. QED
      BY <1>7, <2>1
  <1>9. QED
    BY <1>3, <1>8 DEF Good

-----------------------------------------------------------------------------
(* The order of the records.                                               *)

KeyOf(r, via) == IF via = "saved" THEN r.rekey ELSE r.key

LEMMA SortedIs ==
    ASSUME NEW records, IsSequence(records), NEW via, \A r \in ToSet(records) : KeyOf(r, via) \in Nat
    PROVE  LET b == Sorted(records, via)
           IN  /\ IsSequence(b) /\ ToSet(b) = ToSet(records)
               /\ \A j, k \in 1..Len(b) : j < k => KeyOf(b[j], via) <= KeyOf(b[k], via)
  <1> DEFINE entry(i) == [start |-> KeyOf(records[i], via), rank |-> i, record |-> records[i]]
             placed == {entry(i) : i \in 1..Len(records)}
             ordered == sortSpans(placed)
             b == Sorted(records, via)
             R == ToSet(records)
  <1>1. /\ Len(records) \in Nat /\ DOMAIN records = 1..Len(records)
        /\ R = {records[i] : i \in 1..Len(records)}
    BY SequenceIs
  <1>2. placed = {[start |-> IF via = "saved" THEN records[i].rekey ELSE records[i].key,
                   rank |-> i, record |-> records[i]] : i \in DOMAIN records}
    BY <1>1 DEF KeyOf
  <1> HIDE DEF placed
  <1>3. b = [k \in DOMAIN ordered |-> ordered[k].record]
    BY <1>2 DEF Sorted
  <1>4. IsFiniteSet(placed)
    <2> DEFINE e == [i \in 1..Len(records) |-> entry(i)]
    <2>1. IsFiniteSet(1..Len(records))
      BY <1>1, FS_Interval
    <2>2. e \in Surjection(1..Len(records), placed)
      BY DEF Surjection, placed
    <2> HIDE DEF e
    <2>3. QED
      BY <2>1, <2>2, FS_Surjection
  <1>5. ASSUME NEW i \in 1..Len(records)
        PROVE  /\ entry(i).start = KeyOf(records[i], via) /\ entry(i).start \in Nat
               /\ entry(i).rank = i /\ entry(i).record = records[i] /\ records[i] \in R
    BY <1>1
  <1> HIDE DEF entry
  <1>6. ASSUME NEW s \in placed
        PROVE  /\ s.start \in Nat /\ s.rank \in 1..Len(records) /\ s.record \in R
               /\ s.start = KeyOf(s.record, via) /\ s = entry(s.rank)
    <2>1. PICK i \in 1..Len(records) : s = entry(i)
      BY DEF placed
    <2>2. QED
      BY <1>5, <2>1, Zenon
  <1>7. Sortable(placed)
    <2>1. \A s \in placed : s.start \in Nat /\ s.rank \in Nat
      BY <1>1, <1>6
    <2>2. \A s, t \in placed : s # t => s.rank # t.rank
      BY <1>6, Zenon
    <2>3. QED
      BY <1>4, <2>1, <2>2 DEF Sortable
  <1>8. /\ ordered \in Seq(placed)
        /\ \A s \in placed : \E k \in 1..Len(ordered) : ordered[k] = s
        /\ \A j, k \in 1..Len(ordered) : j < k => Precedes(ordered[j], ordered[k])
    BY <1>7, SpansSorted
  <1> HIDE DEF ordered, R, b
  <1>9. /\ Len(ordered) \in Nat /\ DOMAIN ordered = 1..Len(ordered)
        /\ \A k \in 1..Len(ordered) : ordered[k] \in placed
    BY <1>8, LenProperties, ElementOfSeq
  <1>10. b = [k \in 1..Len(ordered) |-> ordered[k].record]
    BY <1>3, <1>9
  <1>11. \A k \in 1..Len(ordered) : ordered[k].record \in R
    BY <1>6, <1>9
  <1>12. b \in Seq(R)
    BY <1>9, <1>10, <1>11, IsASeq
  <1>13. Len(b) \in Nat /\ DOMAIN b = 1..Len(b) /\ DOMAIN b = 1..Len(ordered)
    <2>1. Len(b) \in Nat /\ DOMAIN b = 1..Len(b)
      BY <1>12, LenProperties
    <2>2. DOMAIN b = 1..Len(ordered)
      BY <1>10
    <2>3. QED
      BY <2>1, <2>2
  <1>14. ToSet(b) = R
    <2>1. ToSet(b) \subseteq R
      BY <1>10, <1>11, <1>13 DEF ToSet
    <2>2. ASSUME NEW r \in R PROVE r \in ToSet(b)
      <3>1. PICK i \in 1..Len(records) : r = records[i]
        BY <1>1 DEF R
      <3>2. entry(i) \in placed
        BY DEF placed
      <3>3. PICK k \in 1..Len(ordered) : ordered[k] = entry(i)
        BY <1>8, <3>2
      <3>4. b[k] = r
        BY <1>5, <1>10, <3>1, <3>3
      <3>5. QED
        BY <1>13, <3>4 DEF ToSet
    <2>3. QED
      BY <2>1, <2>2
  <1>15. ASSUME NEW j \in 1..Len(b), NEW k \in 1..Len(b), j < k
         PROVE  KeyOf(b[j], via) <= KeyOf(b[k], via)
    <2>1. j \in 1..Len(ordered) /\ k \in 1..Len(ordered)
      BY <1>13
    <2>2. Precedes(ordered[j], ordered[k])
      BY <1>8, <1>15, <2>1
    <2>3. /\ ordered[j].start \in Nat /\ ordered[k].start \in Nat
          /\ ordered[j].start = KeyOf(b[j], via) /\ ordered[k].start = KeyOf(b[k], via)
      BY <1>6, <1>9, <1>10, <2>1
    <2>4. ordered[j].start <= ordered[k].start
      BY <2>2, <2>3 DEF Precedes
    <2>5. QED
      BY <2>3, <2>4
  <1>16. IsSequence(b)
    BY <1>12, MemberIs
  <1>17. QED
    BY <1>14, <1>15, <1>16 DEF b, R

-----------------------------------------------------------------------------
(* What a span becomes.                                                    *)

\* The records of a set that are joined to span s and say something of an attribute.
Telling(s, R, attr) == {r \in R : Reaches(s, r) /\ Says(r, attr) # {}}

\* What s carries of an attribute once the records of R are joined: what it has of its
\* own, or what the record with the least key says.
TheFirstTells(s, R, via, attr, v) ==
    LET telling == Telling(s, R, attr)
    IN  \/ (Present(s, attr) \/ telling = {}) /\ v = Carries(s, attr)
        \/ /\ ~Present(s, attr)
           /\ \E r \in telling : (\A q \in telling : KeyOf(r, via) <= KeyOf(q, via)) /\ v = Says(r, attr)

\* A span may be joined with records, and these are records.
Joinable(s, records) == Rewrites(s, s) /\ IsSequence(records) /\ \A r \in ToSet(records) : IsRecord(r)

\* Whatever the order and the number of copies.
LEMMA EnrichedTells ==
    ASSUME NEW s, NEW records, Joinable(s, records), NEW via
    PROVE  LET e == Enriched(s, Sorted(records, via))
           IN  /\ Rewrites(s, e)
               /\ \A attr \in Attributes(s) :
                     TheFirstTells(s, ToSet(records), via, attr, Carries(e, attr))
  <1> DEFINE b == Sorted(records, via)
             e == Enriched(s, b)
             R == ToSet(records)
  <1>1. \A r \in R : KeyOf(r, via) \in Nat
    BY DEF Joinable, IsRecord, KeyOf
  <1>2. /\ IsSequence(b) /\ ToSet(b) = R
        /\ \A j, k \in 1..Len(b) : j < k => KeyOf(b[j], via) <= KeyOf(b[k], via)
    BY <1>1, SortedIs DEF Joinable
  <1> HIDE DEF b
  <1>3. /\ Rewrites(s, e)
        /\ \A attr \in Attributes(s) :
              Heard(s, b, attr, Len(b), Carries(e, attr), Present(e, attr))
    BY <1>2, EnrichedHears DEF Joinable
  <1>4. Len(b) \in Nat /\ R = {b[k] : k \in 1..Len(b)}
    BY <1>2, SequenceIs
  <1> HIDE DEF e, R
  <1>5. ASSUME NEW attr \in Attributes(s)
        PROVE  TheFirstTells(s, R, via, attr, Carries(e, attr))
    <2> DEFINE V == Voices(s, b, attr, Len(b))
               T == Telling(s, R, attr)
               v == Carries(e, attr)
    <2>1. T = {b[k] : k \in V} /\ V \subseteq 1..Len(b)
      BY <1>4 DEF Telling, Voices
    <2>2. \/ (Present(s, attr) \/ V = {}) /\ v = Carries(s, attr)
          \/ ~Present(s, attr) /\ \E k \in V : (\A j \in V : k <= j) /\ v = Says(b[k], attr)
      BY <1>3 DEF Heard
    <2> HIDE DEF V, T, v
    <2>3. CASE (Present(s, attr) \/ V = {}) /\ v = Carries(s, attr)
      <3>1. V = {} => T = {}
        BY <2>1
      <3>2. QED
        BY <2>3, <3>1 DEF TheFirstTells, T, v
    <2>4. ASSUME ~Present(s, attr), NEW k \in V, \A j \in V : k <= j, v = Says(b[k], attr)
          PROVE  TheFirstTells(s, R, via, attr, Carries(e, attr))
      <3>1. b[k] \in T /\ k \in 1..Len(b)
        BY <2>1
      <3>2. ASSUME NEW q \in T PROVE KeyOf(b[k], via) <= KeyOf(q, via)
        <4>1. PICK j \in V : q = b[j]
          BY <2>1
        <4>2. j \in 1..Len(b) /\ k <= j
          BY <2>1, <2>4
        <4>3. KeyOf(b[j], via) \in Nat /\ b[j] \in R
          BY <1>1, <1>4, <4>2 DEF R
        <4>4. j # k => k < j
          BY <1>4, <3>1, <4>2
        <4>5. j # k => KeyOf(b[k], via) <= KeyOf(b[j], via)
          BY <1>2, <3>1, <4>2, <4>4
        <4>6. KeyOf(b[j], via) <= KeyOf(b[j], via)
          BY <4>3
        <4>7. QED
          BY <4>1, <4>5, <4>6
      <3>3. QED
        BY <2>4, <3>1, <3>2 DEF TheFirstTells, T, v
    <2>5. QED
      BY <2>2, <2>3, <2>4
  <1>6. QED
    BY <1>3, <1>5 DEF e, b, R

\* Records that differ in their keys, in the log service and in a file.
Keyed(R) == \A r, q \in R : r.key = q.key \/ r.rekey = q.rekey => r = q

\* The same records make the same of a span.
LEMMA OrderIsForgotten ==
    ASSUME NEW s, NEW records, NEW others, Joinable(s, records), Joinable(s, others),
           ToSet(others) = ToSet(records), Keyed(ToSet(records)), NEW via
    PROVE  Enriched(s, Sorted(others, via)) = Enriched(s, Sorted(records, via))
  <1> DEFINE e == Enriched(s, Sorted(records, via))
             o == Enriched(s, Sorted(others, via))
             R == ToSet(records)
  <1>1. /\ Rewrites(s, e)
        /\ \A attr \in Attributes(s) : TheFirstTells(s, R, via, attr, Carries(e, attr))
    BY EnrichedTells
  <1>2. /\ Rewrites(s, o)
        /\ \A attr \in Attributes(s) : TheFirstTells(s, R, via, attr, Carries(o, attr))
    BY EnrichedTells
  <1>3. \A r, q \in R : /\ KeyOf(r, via) \in Nat /\ KeyOf(q, via) \in Nat
                        /\ KeyOf(r, via) = KeyOf(q, via) => r = q
    BY DEF Joinable, IsRecord, KeyOf, Keyed
  <1> HIDE DEF e, o, R
  <1>4. ASSUME NEW attr \in Attributes(s) PROVE Carries(e, attr) = Carries(o, attr)
    <2> DEFINE T == Telling(s, R, attr)
               v == Carries(e, attr)
               w == Carries(o, attr)
    <2>1. T \subseteq R
      BY DEF Telling
    <2>2. /\ \/ (Present(s, attr) \/ T = {}) /\ v = Carries(s, attr)
             \/ /\ ~Present(s, attr)
                /\ \E r \in T : (\A q \in T : KeyOf(r, via) <= KeyOf(q, via)) /\ v = Says(r, attr)
          /\ \/ (Present(s, attr) \/ T = {}) /\ w = Carries(s, attr)
             \/ /\ ~Present(s, attr)
                /\ \E r \in T : (\A q \in T : KeyOf(r, via) <= KeyOf(q, via)) /\ w = Says(r, attr)
      BY <1>1, <1>2 DEF TheFirstTells
    <2> HIDE DEF T, v, w
    <2>3. CASE Present(s, attr) \/ T = {}
      BY <2>2, <2>3 DEF v, w
    <2>4. CASE ~Present(s, attr) /\ T # {}
      <3>1. PICK r \in T : (\A q \in T : KeyOf(r, via) <= KeyOf(q, via)) /\ v = Says(r, attr)
        BY <2>2, <2>4
      <3>2. PICK q \in T : (\A p \in T : KeyOf(q, via) <= KeyOf(p, via)) /\ w = Says(q, attr)
        BY <2>2, <2>4
      <3>3. KeyOf(r, via) = KeyOf(q, via)
        BY <1>3, <2>1, <3>1, <3>2
      <3>4. r = q
        BY <1>3, <2>1, <3>3
      <3>5. QED
        BY <3>1, <3>2, <3>4 DEF v, w
    <2>5. QED
      BY <2>3, <2>4
  <1>5. e = o
    BY <1>1, <1>2, <1>4, CarriedIsAll
  <1>6. QED
    BY <1>5 DEF e, o

-----------------------------------------------------------------------------
(* The conversation.                                                       *)

\* Turn t is message v[i] of span s.
Tells(t, s, v, i) == t.captured /\ t.span = s.id /\ t.role = v[i].role /\ t.text = v[i].text

LEMMA ChatTurnsAre ==
    ASSUME NEW s, IsSequence(Input(s)), IsSequence(Output(s))
    PROVE  /\ IsSequence(ChatTurns(s))
           /\ \A k \in DOMAIN ChatTurns(s) : ChatTurns(s)[k].captured =>
                 \E v \in {Input(s), Output(s)} : \E i \in DOMAIN v : Tells(ChatTurns(s)[k], s, v, i)
           /\ \A v \in {Input(s), Output(s)} : \A i \in DOMAIN v :
                 \E k \in DOMAIN ChatTurns(s) : Tells(ChatTurns(s)[k], s, v, i)
  <1> DEFINE M == ToSet(Input(s)) \cup ToSet(Output(s))
             messages == Input(s) \o Output(s)
             a == Len(Input(s))
             b == Len(Output(s))
             T == {Turn(m.role, m.text, s, TRUE) : m \in M}
  <1>1. /\ a \in Nat /\ DOMAIN Input(s) = 1..a /\ b \in Nat /\ DOMAIN Output(s) = 1..b
        /\ Input(s) \in Seq(ToSet(Input(s))) /\ Output(s) \in Seq(ToSet(Output(s)))
    BY SequenceIs
  <1>2. Input(s) \in Seq(M) /\ Output(s) \in Seq(M)
    <2>1. ToSet(Input(s)) \subseteq M /\ ToSet(Output(s)) \subseteq M
      OBVIOUS
    <2> HIDE DEF M
    <2>2. QED
      BY <1>1, <2>1, SeqMonotonic
  <1> HIDE DEF M
  <1>3. /\ messages \in Seq(M) /\ Len(messages) = a + b
        /\ \A i \in 1..(a + b) : messages[i] = IF i <= a THEN Input(s)[i] ELSE Output(s)[i - a]
    BY <1>2, ConcatProperties
  <1>4. DOMAIN messages = 1..(a + b) /\ \A i \in 1..(a + b) : messages[i] \in M
    BY <1>3, LenProperties, ElementOfSeq
  <1>5. messages = <<>> <=> Input(s) = <<>> /\ Output(s) = <<>>
    BY <1>2, ConcatEqualIffEmpty, ConcatSimplifications, ConcatEmptySeq
  <1> HIDE DEF messages
  <1>6. CASE messages = <<>>
    <2>1. ChatTurns(s) = <<Turn("assistant", {}, s, FALSE)>>
      BY <1>6 DEF ChatTurns, messages
    <2>2. /\ DOMAIN ChatTurns(s) = {1}
          /\ ChatTurns(s) \in Seq({Turn("assistant", {}, s, FALSE)})
          /\ ChatTurns(s)[1] = Turn("assistant", {}, s, FALSE)
      <3> DEFINE t == Turn("assistant", {}, s, FALSE)
      <3>1. <<t>> \in Seq({t}) /\ DOMAIN <<t>> = {1} /\ <<t>>[1] = t
        OBVIOUS
      <3>2. QED
        BY <2>1, <3>1
    <2>3. ~ChatTurns(s)[1].captured
      BY <2>2 DEF Turn
    <2>4. DOMAIN Input(s) = {} /\ DOMAIN Output(s) = {}
      <3>1. Input(s) = <<>> /\ Output(s) = <<>> /\ DOMAIN <<>> = {}
        BY <1>5, <1>6
      <3>2. QED
        BY <3>1, Zenon
    <2>5. IsSequence(ChatTurns(s))
      BY <2>2, MemberIs
    <2>6. QED
      BY <2>2, <2>3, <2>4, <2>5
  <1>7. CASE messages # <<>>
    <2>1. ChatTurns(s) = [k \in DOMAIN messages |-> Turn(messages[k].role, messages[k].text, s, TRUE)]
      BY <1>7 DEF ChatTurns, messages
    <2>2. ChatTurns(s) = [k \in 1..(a + b) |-> Turn(messages[k].role, messages[k].text, s, TRUE)]
      BY <1>4, <2>1
    <2>3. \A k \in 1..(a + b) : Turn(messages[k].role, messages[k].text, s, TRUE) \in T
      BY <1>4
    <2> HIDE DEF T
    <2>4. ChatTurns(s) \in Seq(T)
      <3> DEFINE n == a + b
                 e(k) == Turn(messages[k].role, messages[k].text, s, TRUE)
      <3> HIDE DEF a, b
      <3>1. n \in Nat
        BY <1>1
      <3>2. ChatTurns(s) = [k \in 1..n |-> e(k)] /\ \A k \in 1..n : e(k) \in T
        BY <2>2, <2>3
      <3> HIDE DEF n, e
      <3>3. [k \in 1..n |-> e(k)] \in Seq(T)
        BY <3>1, <3>2, IsASeq
      <3>4. QED
        BY <3>2, <3>3
    <2>5. DOMAIN ChatTurns(s) = 1..(a + b)
      BY <2>2
    <2>6. ASSUME NEW k \in 1..(a + b)
          PROVE  LET t == ChatTurns(s)[k]
                 IN  t.captured /\ t.span = s.id /\ t.role = messages[k].role /\ t.text = messages[k].text
      BY <2>2 DEF Turn
    <2> HIDE DEF a, b
    <2>7. ASSUME NEW k \in 1..(a + b)
          PROVE  \E v \in {Input(s), Output(s)} : \E i \in DOMAIN v : Tells(ChatTurns(s)[k], s, v, i)
      <3>1. CASE k <= a
        <4>1. k \in DOMAIN Input(s) /\ messages[k] = Input(s)[k]
          BY <1>1, <1>3, <3>1
        <4>2. Tells(ChatTurns(s)[k], s, Input(s), k)
          BY <2>6, <4>1 DEF Tells
        <4>3. QED
          BY <4>1, <4>2
      <3>2. CASE ~(k <= a)
        <4>1. k - a \in DOMAIN Output(s) /\ messages[k] = Output(s)[k - a]
          BY <1>1, <1>3, <3>2
        <4>2. Tells(ChatTurns(s)[k], s, Output(s), k - a)
          BY <2>6, <4>1 DEF Tells
        <4>3. QED
          BY <4>1, <4>2
      <3>3. QED
        BY <3>1, <3>2
    <2>8. ASSUME NEW i \in DOMAIN Input(s)
          PROVE  \E k \in 1..(a + b) : Tells(ChatTurns(s)[k], s, Input(s), i)
      <3>1. i \in 1..(a + b) /\ messages[i] = Input(s)[i]
        BY <1>1, <1>3
      <3>2. QED
        BY <2>6, <3>1 DEF Tells
    <2>9. ASSUME NEW i \in DOMAIN Output(s)
          PROVE  \E k \in 1..(a + b) : Tells(ChatTurns(s)[k], s, Output(s), i)
      <3>1. a + i \in 1..(a + b) /\ ~(a + i <= a) /\ (a + i) - a = i
        BY <1>1
      <3>2. messages[a + i] = Output(s)[i]
        BY <1>3, <3>1
      <3>3. QED
        BY <2>6, <3>1, <3>2 DEF Tells
    <2>10. QED
      BY <2>4, <2>5, <2>7, <2>8, <2>9, MemberIs
  <1>8. QED
    BY <1>6, <1>7

\* What is read of a span's messages can be listed too.
LEMMA InputsAre ==
    ASSUME NEW s, IsSequence(s.in), IsSequence(s.out)
    PROVE  IsSequence(Input(s)) /\ IsSequence(Output(s))
  <1>1. ASSUME NEW m PROVE IsSequence(<<m>>)
    <2>1. <<m>> \in Seq({m})
      OBVIOUS
    <2>2. QED
      BY <2>1, MemberIs
  <1>2. QED
    BY <1>1 DEF Input, Output

\* Spans whose messages can be listed.
Chatting(S) == Sortable(S) /\ \A s \in S : IsSequence(Input(s)) /\ IsSequence(Output(s))

\* The turns are what the messages of spans C say, and all of it.
Conversation(turns, C) ==
    /\ \A p \in DOMAIN turns : turns[p].role # ""
    /\ \A p \in DOMAIN turns : turns[p].captured =>
          \E s \in C : \E v \in {Input(s), Output(s)} : \E i \in DOMAIN v : Tells(turns[p], s, v, i)
    /\ \A s \in C : \A v \in {Input(s), Output(s)} : \A i \in DOMAIN v : v[i].role # "" =>
          \E p \in DOMAIN turns :
              turns[p].captured /\ turns[p].role = v[i].role /\ turns[p].text = v[i].text

LEMMA ConversationIs ==
    ASSUME NEW S, Chatting(S)
    PROVE  Conversation(Turns(sortSpans(S)), S)
  <1> DEFINE chats == sortSpans(S)
             turns == Turns(chats)
             U == UNION {ToSet(ChatTurns(s)) : s \in S}
  <1>1. /\ chats \in Seq(S)
        /\ \A s \in S : \E k \in 1..Len(chats) : chats[k] = s
    BY SpansSorted DEF Chatting
  <1>0. \A p \in DOMAIN turns : turns[p].role # ""
    BY DEF Turns
  <1> HIDE DEF chats, turns
  <1>2. \A k \in 1..Len(chats) : chats[k] \in S
    BY <1>1, ElementOfSeq
  <1>3. ASSUME NEW s \in S
        PROVE  /\ IsSequence(ChatTurns(s)) /\ DOMAIN ChatTurns(s) = 1..Len(ChatTurns(s))
               /\ ChatTurns(s) \in Seq(U)
    <2>1. IsSequence(ChatTurns(s))
      BY ChatTurnsAre DEF Chatting
    <2>2. ToSet(ChatTurns(s)) \subseteq U
      OBVIOUS
    <2> HIDE DEF U
    <2>3. DOMAIN ChatTurns(s) = 1..Len(ChatTurns(s)) /\ ChatTurns(s) \in Seq(ToSet(ChatTurns(s)))
      BY <2>1, SequenceIs
    <2>4. ChatTurns(s) \in Seq(U)
      BY <2>2, <2>3, SeqMonotonic
    <2>5. QED
      BY <2>1, <2>3, <2>4
  <1> HIDE DEF U
  <1>4. \A k \in 1..Len(chats) : ChatTurns(chats[k]) \in Seq(U)
    BY <1>2, <1>3
  <1>5. PICK at : PlacesOfTurns(chats, at)
    BY <1>1, <1>4, TurnsPlaced
  <1>6. ASSUME NEW p \in DOMAIN turns, turns[p].captured
        PROVE  \E s \in S : \E v \in {Input(s), Output(s)} : \E i \in DOMAIN v : Tells(turns[p], s, v, i)
    <2>1. PICK k \in 1..Len(chats) : \E m \in 1..Len(ChatTurns(chats[k])) :
              turns[p] = ChatTurns(chats[k])[m]
      <3>1. \A q \in DOMAIN Turns(chats) :
               \E k \in 1..Len(chats) : \E m \in 1..Len(ChatTurns(chats[k])) :
                   q = at[k] + m /\ Turns(chats)[q] = ChatTurns(chats[k])[m]
        BY <1>5 DEF PlacesOfTurns
      <3>2. p \in DOMAIN Turns(chats) /\ turns = Turns(chats)
        BY <1>6 DEF turns
      <3>3. QED
        BY <3>1, <3>2
    <2>2. PICK m \in 1..Len(ChatTurns(chats[k])) : turns[p] = ChatTurns(chats[k])[m]
      BY <2>1
    <2>3. chats[k] \in S /\ m \in DOMAIN ChatTurns(chats[k])
      BY <1>2, <1>3
    <2>4. \E v \in {Input(chats[k]), Output(chats[k])} : \E i \in DOMAIN v :
              Tells(ChatTurns(chats[k])[m], chats[k], v, i)
      BY <1>6, <2>2, <2>3, ChatTurnsAre DEF Chatting
    <2>5. QED
      BY <2>2, <2>3, <2>4
  <1>7. ASSUME NEW s \in S, NEW v \in {Input(s), Output(s)}, NEW i \in DOMAIN v, v[i].role # ""
        PROVE  \E p \in DOMAIN turns :
                   turns[p].captured /\ turns[p].role = v[i].role /\ turns[p].text = v[i].text
    <2>1. PICK k \in 1..Len(chats) : chats[k] = s
      BY <1>1
    <2>2. PICK m \in DOMAIN ChatTurns(s) : Tells(ChatTurns(s)[m], s, v, i)
      BY ChatTurnsAre DEF Chatting
    <2>3. m \in 1..Len(ChatTurns(chats[k])) /\ ChatTurns(chats[k])[m] = ChatTurns(s)[m]
      BY <1>3, <2>1
    <2>4. PICK p \in DOMAIN turns : Same(turns[p], ChatTurns(s)[m])
      <3>1. \A l \in 1..Len(chats) : \A o \in 1..Len(ChatTurns(chats[l])) :
               ChatTurns(chats[l])[o].captured /\ ChatTurns(chats[l])[o].role # "" =>
                  \E p \in DOMAIN Turns(chats) :
                      p <= at[l] + o /\ Same(Turns(chats)[p], ChatTurns(chats[l])[o])
        BY <1>5 DEF PlacesOfTurns
      <3>2. ChatTurns(chats[k])[m].captured /\ ChatTurns(chats[k])[m].role # ""
        BY <1>7, <2>2, <2>3 DEF Tells
      <3>3. \E p \in DOMAIN Turns(chats) : Same(Turns(chats)[p], ChatTurns(chats[k])[m])
        BY <2>3, <3>1, <3>2
      <3>4. QED
        BY <2>3, <3>3 DEF turns
    <2>5. QED
      BY <2>2, <2>4 DEF Same, Tells
  <1>8. Conversation(turns, S)
    BY <1>0, <1>6, <1>7 DEF Conversation
  <1>9. QED
    BY <1>8 DEF turns, chats

-----------------------------------------------------------------------------
(* The Episode of spans and records.                                       *)

\* Spans and phantoms, and records.
Evidence(S, records) ==
    /\ IsFiniteSet(S)
    /\ \A s \in S : Rewrites(s, s) /\ s.id # "" /\ (s.op # "" => s \in Spans)
    /\ IsSequence(records) /\ \A r \in ToSet(records) : IsRecord(r)
    /\ Keyed(ToSet(records))

\* Span s with all that is told of it, spans A, and the calls that spans A are.
Full(s, records, via)  == Enriched(s, Sorted(records, via))
Fulls(A, records, via) == {Full(s, records, via) : s \in A}
CallsFrom(A)           == {toolCallFrom(s) : s \in A}

LEMMA RewritesKeeps ==
    ASSUME NEW s, NEW x, Rewrites(s, x)
    PROVE  /\ x.id = s.id /\ x.op = s.op /\ x.name = s.name /\ x.nested = s.nested
           /\ x.start = s.start /\ x.end = s.end /\ x.rank = s.rank /\ x.error = s.error
           /\ x.opaque = s.opaque /\ x.prompt = s.prompt /\ x.completion = s.completion
           /\ IsSequence(x.in) /\ IsSequence(x.out)
           /\ x.argsCaptured \in BOOLEAN /\ x.resultCaptured \in BOOLEAN
  <1>1. x = Having(s, x.in, x.out, x.args, x.result, x.argsCaptured, x.resultCaptured)
    BY DEF Rewrites
  <1>2. /\ x.id = s.id /\ x.op = s.op /\ x.name = s.name /\ x.nested = s.nested
        /\ x.start = s.start /\ x.end = s.end /\ x.rank = s.rank /\ x.error = s.error
        /\ x.opaque = s.opaque /\ x.prompt = s.prompt /\ x.completion = s.completion
    BY <1>1 DEF Having
  <1>3. QED
    BY <1>2 DEF Rewrites

LEMMA FullIs ==
    ASSUME NEW S, NEW records, Evidence(S, records), NEW via, NEW s \in S
    PROVE  /\ Rewrites(s, Full(s, records, via))
           /\ \A attr \in Attributes(s) :
                 TheFirstTells(s, ToSet(records), via, attr, Carries(Full(s, records, via), attr))
  <1>1. Joinable(s, records)
    BY DEF Evidence, Joinable
  <1>2. QED
    BY <1>1, EnrichedTells DEF Full

LEMMA MergedAre ==
    ASSUME NEW S, NEW records, Evidence(S, records), NEW via
    PROVE  LET E == MergeContentRecords(S, records, via)
           IN  /\ \A op : OfOp(E, op) = {Full(s, records, via) : s \in OfOp(S, op)}
               /\ Called(E) = {Full(s, records, via) : s \in Called(S)}
  <1> DEFINE E == MergeContentRecords(S, records, via)
             full(s) == Full(s, records, via)
  <1>1. E = {full(s) : s \in S}
    BY DEF MergeContentRecords, Full
  <1>2. ASSUME NEW s \in S PROVE full(s).op = s.op /\ full(s).nested = s.nested
    BY FullIs, RewritesKeeps
  <1> HIDE DEF full, E
  <1>3. ASSUME NEW op PROVE OfOp(E, op) = {full(s) : s \in OfOp(S, op)}
    BY <1>1, <1>2 DEF OfOp
  <1>4. {e \in OfOp(E, "invoke_agent") : e.nested} =
            {full(s) : s \in {s \in OfOp(S, "invoke_agent") : s.nested}}
    BY <1>2, <1>3 DEF OfOp
  <1>5. Called(E) = {full(s) : s \in Called(S)}
    BY <1>3, <1>4 DEF Called
  <1>6. QED
    BY <1>3, <1>5 DEF full, E

\* Only exported spans are calls.
LEMMA CallsAreSpans ==
    ASSUME NEW S, NEW records, Evidence(S, records)
    PROVE  /\ OfOp(S, "chat") \subseteq S /\ Called(S) \subseteq S
           /\ OfOp(S, "chat") \subseteq Spans /\ Called(S) \subseteq Spans
           /\ OfOp(S, "execute_tool") \subseteq Called(S)
  BY DEF Evidence, OfOp, Called

LEMMA SpanIs ==
    ASSUME NEW s \in Spans
    PROVE  /\ s.id # "" /\ s.start \in Nat /\ s.rank \in Nat
           /\ Rewrites(s, s) /\ IsText(s.prompt) /\ IsText(s.completion)
           /\ \A t \in Spans : s.id = t.id \/ s.rank = t.rank => s = t
  <1>1. IsSpan(s) /\ \A t \in Spans : s.id = t.id \/ s.rank = t.rank => s = t
    BY SpansAssumption
  <1>2. s = Having(s, s.in, s.out, s.args, s.result, s.argsCaptured, s.resultCaptured)
    BY <1>1 DEF IsSpan, Having
  <1>3. /\ s.id # "" /\ s.start \in Nat /\ s.rank \in Nat
        /\ {s.argsCaptured, s.resultCaptured} \subseteq BOOLEAN
        /\ IsSequence(s.in) /\ IsSequence(s.out)
        /\ IsText(s.prompt) /\ IsText(s.completion)
    BY <1>1 DEF IsSpan
  <1>4. QED
    BY <1>1, <1>2, <1>3 DEF Rewrites

\* As many calls with content as without.
LEMMA CountIsKept ==
    ASSUME NEW S, NEW records, Evidence(S, records), NEW via, NEW A, A \subseteq S, A \subseteq Spans
    PROVE  LET B == {Full(s, records, via) : s \in A}
           IN  IsFiniteSet(A) /\ IsFiniteSet(B) /\ Cardinality(B) = Cardinality(A)
  <1> DEFINE B == {Full(s, records, via) : s \in A}
             f == [s \in A |-> Full(s, records, via)]
  <1>1. IsFiniteSet(A)
    BY FS_Subset DEF Evidence
  <1>2. \A s \in A : f[s].id = s.id
    BY FullIs, RewritesKeeps
  <1>3. f \in [A -> B] /\ \A e \in B : \E s \in A : f[s] = e
    OBVIOUS
  <1> HIDE DEF f, B
  <1>4. ASSUME NEW s \in A, NEW t \in A, f[s] = f[t] PROVE s = t
    <2>1. s.id = t.id
      BY <1>2, <1>4
    <2>2. s \in Spans /\ t \in Spans
      OBVIOUS
    <2>3. QED
      BY <2>1, <2>2, SpanIs
  <1>5. f \in Bijection(A, B)
    BY <1>3, <1>4 DEF Bijection, Injection, Surjection, IsInjective
  <1>6. ExistsBijection(A, B)
    BY <1>5 DEF ExistsBijection
  <1>7. IsFiniteSet(B) /\ Cardinality(B) = Cardinality(A)
    BY <1>1, <1>6, FS_Bijection
  <1>8. QED
    BY <1>1, <1>7 DEF B

LEMMA MetricsAreKept ==
    ASSUME NEW S, NEW records, Evidence(S, records), NEW via
    PROVE  Metrics(MergeContentRecords(S, records, via)) = Metrics(S)
  <1> DEFINE E == MergeContentRecords(S, records, via)
             full(s) == Full(s, records, via)
             A == {s \in Called(S) : s.error}
  <1>1. E = {full(s) : s \in S}
    BY DEF MergeContentRecords, Full
  <1>2. ASSUME NEW s \in S PROVE full(s).error = s.error /\ full(s).start = s.start /\ full(s).end = s.end
    BY FullIs, RewritesKeeps
  <1>3. Cardinality(OfOp(E, "chat")) = Cardinality(OfOp(S, "chat"))
    BY MergedAre, CallsAreSpans, CountIsKept
  <1>4. Called(E) = {full(s) : s \in Called(S)} /\ Cardinality(Called(E)) = Cardinality(Called(S))
    <2>1. Called(E) = {full(s) : s \in Called(S)}
      BY MergedAre
    <2>2. Cardinality({full(s) : s \in Called(S)}) = Cardinality(Called(S))
      BY CallsAreSpans, CountIsKept
    <2>3. QED
      BY <2>1, <2>2, Zenon
  <1>5. Cardinality({full(s) : s \in A}) = Cardinality(A)
    BY CallsAreSpans, CountIsKept
  <1>6. Called(S) \subseteq S
    BY CallsAreSpans
  <1> HIDE DEF full, E
  <1>7. {e \in Called(E) : e.error} = {full(s) : s \in A}
    BY <1>2, <1>4, <1>6
  <1>8. {e.start : e \in E} = {s.start : s \in S} /\ {e.end : e \in E} = {s.end : s \in S}
    BY <1>1, <1>2
  <1>9. E = {} <=> S = {}
    BY <1>1
  <1>10. QED
    BY <1>3, <1>4, <1>5, <1>7, <1>8, <1>9 DEF Metrics, E

LEMMA ChatsAreKept ==
    ASSUME NEW S, NEW records, Evidence(S, records), NEW via
    PROVE  Chatting(OfOp(MergeContentRecords(S, records, via), "chat"))
  <1> DEFINE C == OfOp(S, "chat")
             D == OfOp(MergeContentRecords(S, records, via), "chat")
             full(s) == Full(s, records, via)
  <1>1. C \subseteq S /\ C \subseteq Spans
    BY CallsAreSpans
  <1>2. D = {full(s) : s \in C} /\ IsFiniteSet(D)
    BY <1>1, MergedAre, CountIsKept
  <1>3. ASSUME NEW s \in C
        PROVE  /\ full(s).start \in Nat /\ full(s).rank \in Nat /\ full(s).rank = s.rank
               /\ IsSequence(Input(full(s))) /\ IsSequence(Output(full(s)))
    <2>1. s \in S /\ s \in Spans
      BY <1>1
    <2>2. s.start \in Nat /\ s.rank \in Nat
      BY <2>1, SpanIs
    <2>3. Rewrites(s, full(s))
      BY <2>1, FullIs
    <2>4. /\ full(s).start = s.start /\ full(s).rank = s.rank
          /\ IsSequence(full(s).in) /\ IsSequence(full(s).out)
      BY <2>3, RewritesKeeps
    <2>5. IsSequence(Input(full(s))) /\ IsSequence(Output(full(s)))
      BY <2>4, InputsAre
    <2>6. QED
      BY <2>2, <2>4, <2>5
  <1>4. \A s, t \in C : s.rank = t.rank => s = t
    BY <1>1, SpanIs
  <1> HIDE DEF full, C, D
  <1>5. Sortable(D)
    BY <1>2, <1>3, <1>4 DEF Sortable
  <1>6. QED
    BY <1>2, <1>3, <1>5 DEF Chatting, D

-----------------------------------------------------------------------------
(* The properties of what is read.                                         *)

\* An evaluation of spans and records.
Reading ==
    /\ Evidence(read.result.records, read.result.content)
    /\ read.episode = episodeFromCloudWatch(read.result.records, read.result.content, read.via)

LEMMA SaysIs ==
    ASSUME NEW r, IsRecord(r), NEW attr \in {"args", "result", "in", "out"}
    PROVE  /\ Says(r, attr) = {} \/ \E v : Says(r, attr) = {v}
           /\ Says(r, attr) # {} => r.input # <<>> \/ r.output # <<>>
  <1>1. /\ Payload(r.input) = {} \/ \E v : Payload(r.input) = {v}
        /\ Payload(r.output) = {} \/ \E v : Payload(r.output) = {v}
    BY PayloadIs DEF IsRecord
  <1>2. Payload(<<>>) = {}
    BY DEF Payload
  <1>3. Messages(<<>>) = <<>>
    <2>1. IsSequence(<<>>) /\ Len(<<>>) = 0
      BY MemberIs, EmptySeq
    <2> DEFINE f == CHOOSE f : Selects(f, <<>>)
    <2>2. Selects(f, <<>>)
      BY <2>1, SelectsExists
    <2>3. Messages(<<>>) = f[Len(<<>>)]
      BY DEF Messages, Selects
    <2> HIDE DEF f
    <2>4. f = [n \in 0..Len(<<>>) |->
                 IF n = 0 THEN <<>>
                 ELSE IF <<>>[n].role = "" \/ <<>>[n].payload = {} THEN f[n - 1]
                 ELSE Append(f[n - 1], [role |-> <<>>[n].role, text |-> UNION <<>>[n].payload])]
      BY <2>2 DEF Selects
    <2>5. f[0] = <<>>
      BY <2>1, <2>4
    <2>6. QED
      BY <2>1, <2>3, <2>5
  <1>4. CASE attr = "args"
    BY <1>1, <1>2, <1>4 DEF Says
  <1>5. CASE attr = "result"
    BY <1>1, <1>2, <1>5 DEF Says
  <1>6. CASE attr = "in"
    <2>1. Says(r, attr) = {Messages(r.input)} \ {<<>>}
      BY <1>6 DEF Says
    <2>2. QED
      BY <1>3, <2>1
  <1>7. CASE attr = "out"
    <2>1. Says(r, attr) = {Messages(r.output)} \ {<<>>}
      BY <1>7 DEF Says
    <2>2. QED
      BY <1>3, <2>1
  <1>8. QED
    BY <1>4, <1>5, <1>6, <1>7

\* What an attribute holds is what is read of it, if it holds anything.
LEMMA OwnIs ==
    ASSUME NEW s, NEW x, Rewrites(s, x), NEW attr \in Attributes(s)
    PROVE  /\ Carries(x, attr) # {} => Own(x, attr) = Carries(x, attr)
           /\ Carries(x, attr) = Carries(s, attr) => Own(x, attr) = Own(s, attr)
           /\ Own(s, attr) = {} \/ \E v : Own(s, attr) = {v}
  <1>1. x.prompt = s.prompt /\ x.completion = s.completion
    BY RewritesKeeps
  <1>2. CASE attr = "args"
    BY <1>2 DEF Carries, Own
  <1>3. CASE attr = "result"
    BY <1>3 DEF Carries, Own
  <1>4. CASE attr = "in"
    <2>1. /\ Carries(x, "in") = {x.in} \ {<<>>} /\ Carries(s, "in") = {s.in} \ {<<>>}
          /\ Own(x, "in") = {Input(x)} \ {<<>>} /\ Own(s, "in") = {Input(s)} \ {<<>>}
      BY DEF Carries, Own
    <2>2. x.in # <<>> => Input(x) = x.in
      BY DEF Input
    <2>3. x.in = s.in => Input(x) = Input(s)
      BY <1>1 DEF Input
    <2>4. QED
      BY <1>4, <2>1, <2>2, <2>3
  <1>5. CASE attr = "out"
    <2>1. /\ Carries(x, "out") = {x.out} \ {<<>>} /\ Carries(s, "out") = {s.out} \ {<<>>}
          /\ Own(x, "out") = {Output(x)} \ {<<>>} /\ Own(s, "out") = {Output(s)} \ {<<>>}
      BY DEF Carries, Own
    <2>2. x.out # <<>> => Output(x) = x.out
      BY DEF Output
    <2>3. x.out = s.out => Output(x) = Output(s)
      BY <1>1 DEF Output
    <2>4. QED
      BY <1>5, <2>1, <2>2, <2>3
  <1>6. QED
    BY <1>2, <1>3, <1>4, <1>5 DEF Attributes

\* What is read in the end is what may be captured, and something if there is.
LEMMA FullTells ==
    ASSUME NEW S, NEW records, Evidence(S, records), NEW via, NEW s \in S, NEW attr \in Attributes(s)
    PROVE  LET e == Full(s, records, via)
               told == Told(s, attr, ToSet(records))
           IN  /\ Own(e, attr) \subseteq told
               /\ Own(e, attr) = {} => told = {}
               /\ Present(s, attr) => Own(e, attr) = Own(s, attr)
  <1> DEFINE e == Full(s, records, via)
             v == Carries(e, attr)
             R == ToSet(records)
             T == Telling(s, R, attr)
             W == Words(s, attr, R)
  <1>1. attr \in {"args", "result", "in", "out"}
    BY DEF Attributes
  <1>2. s.id # "" /\ \A r \in R : IsRecord(r)
    BY DEF Evidence
  <1>3. T = {r \in About(s, R) : Says(r, attr) # {}} /\ W = UNION {Says(r, attr) : r \in About(s, R)}
    <2> HIDE DEF R, e, v
    <2>1. ASSUME NEW r \in R, Says(r, attr) # {} PROVE Reaches(s, r) <=> r \in About(s, R)
      <3>1. r.input # <<>> \/ r.output # <<>>
        BY <1>1, <1>2, <2>1, SaysIs
      <3>2. QED
        BY <1>2, <3>1 DEF Reaches, HasBody, Joins, About
    <2>2. About(s, R) \subseteq R
      BY DEF About
    <2>3. QED
      BY <2>1, <2>2 DEF Telling, Words
  <1>4. TheFirstTells(s, R, via, attr, v) /\ Rewrites(s, e)
    BY FullIs
  <1> HIDE DEF R, W
  <1>5. \/ (Present(s, attr) \/ T = {}) /\ v = Carries(s, attr)
        \/ ~Present(s, attr) /\ \E r \in T : v = Says(r, attr)
    BY <1>4 DEF TheFirstTells
  <1> HIDE DEF e, v, T
  <1>6. Told(s, attr, R) = IF Present(s, attr) \/ W = {} THEN Own(s, attr) ELSE W
    BY DEF Told, W
  <1>7. CASE (Present(s, attr) \/ T = {}) /\ v = Carries(s, attr)
    <2>1. Own(e, attr) = Own(s, attr)
      BY <1>4, <1>7, OwnIs DEF v
    <2>2. T = {} => W = {}
      BY <1>3
    <2>3. Told(s, attr, R) = Own(s, attr)
      BY <1>6, <1>7, <2>2
    <2>4. QED
      BY <2>1, <2>3 DEF e, R
  <1>8. ASSUME ~Present(s, attr), NEW r \in T, v = Says(r, attr)
        PROVE  Own(e, attr) \subseteq Told(s, attr, R) /\ Own(e, attr) # {}
    <2>1. v # {} /\ v \subseteq W
      BY <1>3, <1>8
    <2>2. Own(e, attr) = v
      BY <1>4, <2>1, OwnIs DEF v
    <2>3. QED
      BY <1>6, <1>8, <2>1, <2>2
  <1>9. QED
    BY <1>5, <1>7, <1>8 DEF e, R

\* The calls and the messages of the Episode.
LEMMA EpisodeIs ==
    ASSUME NEW S, NEW records, Evidence(S, records), NEW via
    PROVE  LET ep == episodeFromCloudWatch(S, records, via)
           IN  /\ ep.tool_calls = CallsFrom(Fulls(Called(S), records, via))
               /\ Conversation(ep.turns, Fulls(OfOp(S, "chat"), records, via))
  <1> DEFINE E == MergeContentRecords(S, records, via)
             ep == episodeFromCloudWatch(S, records, via)
             D == OfOp(E, "chat")
  <1>1. ep = BuildEpisode(E)
    BY DEF episodeFromCloudWatch
  <1>2. ep.turns = Turns(sortSpans(D)) /\ ep.tool_calls = CallsFrom(Called(E))
    BY <1>1 DEF BuildEpisode, CallsFrom
  <1>3. D = Fulls(OfOp(S, "chat"), records, via) /\ Called(E) = Fulls(Called(S), records, via)
    BY MergedAre DEF Fulls
  <1>4. Chatting(D)
    BY ChatsAreKept
  <1> HIDE DEF D, E
  <1>5. Conversation(Turns(sortSpans(D)), D)
    BY <1>4, ConversationIs
  <1> HIDE DEF ep
  <1>6. QED
    BY <1>2, <1>3, <1>5 DEF ep

LEMMA ReadingIsFaithful ==
    ASSUME Reading
    PROVE  EpisodeIsFaithful
  <1> DEFINE S == read.result.records
             R == ToSet(read.result.content)
             full(s) == Full(s, read.result.content, read.via)
             C == {full(s) : s \in OfOp(S, "chat")}
             ep == read.episode
             turns == {ep.turns[k] : k \in DOMAIN ep.turns}
             told(s, attr) == Told(s, attr, R)
  <1>1. Evidence(S, read.result.content) /\ ep = episodeFromCloudWatch(S, read.result.content, read.via)
    BY DEF Reading
  <1>2. ASSUME NEW s \in S, NEW attr \in Attributes(s)
        PROVE  /\ Own(full(s), attr) \subseteq told(s, attr)
               /\ Own(full(s), attr) = {} => told(s, attr) = {}
    BY <1>1, FullTells
  <1>3. ASSUME NEW s \in S PROVE Rewrites(s, full(s))
    BY <1>1, FullIs
  <1>4. /\ ep.tool_calls = {toolCallFrom(full(s)) : s \in Called(S)}
        /\ Conversation(ep.turns, C)
    <2>1. /\ ep.tool_calls = CallsFrom(Fulls(Called(S), read.result.content, read.via))
          /\ Conversation(ep.turns, Fulls(OfOp(S, "chat"), read.result.content, read.via))
      BY <1>1, EpisodeIs
    <2>2. QED
      BY <2>1 DEF CallsFrom, Fulls
  <1> HIDE DEF ep, told, R
  <1>5. ASSUME NEW s \in OfOp(S, "execute_tool")
        PROVE  \E tc \in ep.tool_calls :
                  /\ <<tc.span, tc.name, tc.started, tc.ended, tc.error>>
                        = <<s.id, s.name, s.start, s.end, s.error>>
                  /\ IF tc.argsCaptured THEN tc.args \in told(s, "args") ELSE told(s, "args") = {}
                  /\ IF tc.resultCaptured THEN tc.result \in told(s, "result")
                                          ELSE told(s, "result") = {}
    <2> DEFINE e == full(s)
               tc == toolCallFrom(e)
    <2>1. s \in S /\ Attributes(s) = {"args", "result"} /\ s \in Called(S)
      BY DEF OfOp, Attributes, Called
    <2>2. tc \in ep.tool_calls
      BY <1>4, <2>1
    <2>3. /\ e.id = s.id /\ e.name = s.name /\ e.start = s.start /\ e.end = s.end /\ e.error = s.error
          /\ e.argsCaptured \in BOOLEAN /\ e.resultCaptured \in BOOLEAN
      BY <1>3, <2>1, RewritesKeeps
    <2>4. Own(e, "args") \subseteq told(s, "args") /\ (Own(e, "args") = {} => told(s, "args") = {})
      BY <1>2, <2>1
    <2>5. /\ Own(e, "result") \subseteq told(s, "result")
          /\ Own(e, "result") = {} => told(s, "result") = {}
      BY <1>2, <2>1
    <2> HIDE DEF e
    <2>6. /\ tc.span = e.id /\ tc.name = e.name /\ tc.started = e.start /\ tc.ended = e.end
          /\ tc.error = e.error /\ tc.argsCaptured = e.argsCaptured /\ tc.resultCaptured = e.resultCaptured
          /\ tc.args = (IF e.argsCaptured THEN e.args ELSE {})
          /\ tc.result = (IF e.resultCaptured THEN e.result ELSE {})
      BY DEF toolCallFrom
    <2> HIDE DEF tc
    <2>7. IF tc.argsCaptured THEN tc.args \in told(s, "args") ELSE told(s, "args") = {}
      BY <2>3, <2>4, <2>6 DEF Own
    <2>8. IF tc.resultCaptured THEN tc.result \in told(s, "result") ELSE told(s, "result") = {}
      BY <2>3, <2>5, <2>6 DEF Own
    <2>9. QED
      BY <2>2, <2>3, <2>6, <2>7, <2>8
  <1>6. ASSUME NEW s \in OfOp(S, "chat")
        PROVE  /\ s \in S /\ Attributes(s) = {"in", "out"}
               /\ Own(full(s), "in") = {Input(full(s))} \ {<<>>}
               /\ Own(full(s), "out") = {Output(full(s))} \ {<<>>}
    BY DEF OfOp, Attributes, Own
  <1> HIDE DEF full
  <1>7. ASSUME NEW s \in OfOp(S, "chat"), NEW attr \in {"in", "out"}, told(s, attr) # {}
        PROVE  \E v \in told(s, attr) : \A i \in DOMAIN v : v[i].role # "" =>
                   \E t \in turns : t.captured /\ t.role = v[i].role /\ t.text = v[i].text
    <2>1. PICK v \in Own(full(s), attr) : TRUE
      BY <1>2, <1>6, <1>7
    <2>2. v \in told(s, attr) /\ v \in {Input(full(s)), Output(full(s))}
      BY <1>2, <1>6, <2>1
    <2>3. ASSUME NEW i \in DOMAIN v, v[i].role # ""
          PROVE  \E t \in turns : t.captured /\ t.role = v[i].role /\ t.text = v[i].text
      <3>1. full(s) \in C
        OBVIOUS
      <3> HIDE DEF C, turns
      <3>2. PICK p \in DOMAIN ep.turns : /\ ep.turns[p].captured
                                         /\ ep.turns[p].role = v[i].role
                                         /\ ep.turns[p].text = v[i].text
        BY <1>4, <2>2, <2>3, <3>1 DEF Conversation
      <3>3. QED
        BY <3>2 DEF turns
    <2>4. QED
      BY <2>2, <2>3
  <1>8. ASSUME NEW t \in turns, t.captured
        PROVE  \E s \in OfOp(S, "chat"), attr \in {"in", "out"} :
                   \E v \in told(s, attr) : \E i \in DOMAIN v :
                       t.span = s.id /\ t.role = v[i].role /\ t.text = v[i].text
    <2>1. \E e \in C : \E v \in {Input(e), Output(e)} : \E i \in DOMAIN v : Tells(t, e, v, i)
      BY <1>4, <1>8 DEF Conversation
    <2>2. PICK s \in OfOp(S, "chat") : \E v \in {Input(full(s)), Output(full(s))} : \E i \in DOMAIN v :
              Tells(t, full(s), v, i)
      BY <2>1
    <2>3. PICK v \in {Input(full(s)), Output(full(s))} : \E i \in DOMAIN v : Tells(t, full(s), v, i)
      BY <2>2
    <2>4. v # <<>>
      BY <2>3
    <2>5. PICK attr \in {"in", "out"} : v \in Own(full(s), attr)
      BY <1>6, <2>3, <2>4
    <2>6. v \in told(s, attr) /\ full(s).id = s.id
      BY <1>2, <1>3, <1>6, <2>5, RewritesKeeps
    <2>7. QED
      BY <2>3, <2>6 DEF Tells
  <1>9. QED
    BY <1>5, <1>7, <1>8 DEF EpisodeIsFaithful, ep, told, R

LEMMA ChatsAreListed ==
    ASSUME NEW S, NEW records, Evidence(S, records)
    PROVE  Chatting(OfOp(S, "chat"))
  <1> DEFINE C == OfOp(S, "chat")
  <1>1. C \subseteq S /\ C \subseteq Spans
    BY CallsAreSpans
  <1>2. IsFiniteSet(C)
    BY <1>1, FS_Subset DEF Evidence
  <1> HIDE DEF C
  <1>3. \A s \in C : s.start \in Nat /\ s.rank \in Nat
    BY <1>1, SpanIs
  <1>4. \A s, t \in C : s # t => s.rank # t.rank
    BY <1>1, SpanIs
  <1>5. \A s \in C : IsSequence(Input(s)) /\ IsSequence(Output(s))
    BY <1>1, SpanIs, RewritesKeeps, InputsAre
  <1>6. QED
    BY <1>2, <1>3, <1>4, <1>5 DEF Chatting, Sortable, C

\* Whether there are any messages.
LEMMA MessagesOf ==
    ASSUME NEW v, NEW w, IsSequence(v), IsSequence(w)
    PROVE  v \o w # <<>> <=> v # <<>> \/ w # <<>>
  <1> DEFINE M == ToSet(v) \cup ToSet(w)
  <1>1. v \in Seq(ToSet(v)) /\ w \in Seq(ToSet(w))
    BY SequenceIs
  <1>2. ToSet(v) \subseteq M /\ ToSet(w) \subseteq M
    OBVIOUS
  <1> HIDE DEF M
  <1>3. v \in Seq(M) /\ w \in Seq(M)
    BY <1>1, <1>2, SeqMonotonic
  <1>4. QED
    BY <1>3, ConcatEqualIffEmpty, ConcatSimplifications, ConcatEmptySeq

-----------------------------------------------------------------------------
(* More spans and more records.                                            *)

\* The records of R and of more, Q, do not make different things of an attribute of s.
Keeps(s, attr, R, Q) ==
    \/ Present(s, attr)
    \/ Words(s, attr, R) = {}
    \/ \A v, w \in Words(s, attr, Q) : v = w

\* All the calls and records of the first are among the second's.
More(S, records, T, others) ==
    /\ Evidence(S, records) /\ Evidence(T, others)
    /\ OfOp(S, "chat") \subseteq OfOp(T, "chat") /\ Called(S) \subseteq Called(T)
    /\ ToSet(records) \subseteq ToSet(others)
    /\ \A s \in S \cap T : \A attr \in Attributes(s) : Keeps(s, attr, ToSet(records), ToSet(others))

LEMMA OwnIsOne ==
    ASSUME NEW s, NEW attr \in {"args", "result", "in", "out"}
    PROVE  Own(s, attr) = {} \/ \E v : Own(s, attr) = {v}
  <1>1. CASE attr = "args"
    BY <1>1 DEF Own
  <1>2. CASE attr = "result"
    BY <1>2 DEF Own
  <1>3. CASE attr = "in"
    BY <1>3 DEF Own
  <1>4. CASE attr = "out"
    BY <1>4 DEF Own
  <1>5. QED
    BY <1>1, <1>2, <1>3, <1>4

\* What is read of a span stays, but for what a record takes the place of.
LEMMA FullGrows ==
    ASSUME NEW S, NEW records, NEW T, NEW others, More(S, records, T, others), NEW via, NEW way,
           NEW s \in S, s \in T, NEW attr \in Attributes(s)
    PROVE  LET A == Own(Full(s, records, via), attr)
               B == Own(Full(s, others, way), attr)
           IN  /\ A # {} => B # {}
               /\ A = B \/ (~Present(s, attr) /\ A = Own(s, attr))
  <1> DEFINE A == Own(Full(s, records, via), attr)
             B == Own(Full(s, others, way), attr)
             R == ToSet(records)
             Q == ToSet(others)
  <1>1. /\ A \subseteq Told(s, attr, R) /\ (A = {} => Told(s, attr, R) = {})
        /\ Present(s, attr) => A = Own(s, attr)
    BY FullTells DEF More
  <1>2. /\ B \subseteq Told(s, attr, Q) /\ (B = {} => Told(s, attr, Q) = {})
        /\ Present(s, attr) => B = Own(s, attr)
    BY FullTells DEF More
  <1>3. attr \in {"args", "result", "in", "out"}
    BY DEF Attributes
  <1>4. /\ A = {} \/ \E v : A = {v}
        /\ B = {} \/ \E v : B = {v}
        /\ Own(s, attr) = {} \/ \E v : Own(s, attr) = {v}
    BY <1>3, OwnIsOne
  <1>5. R \subseteq Q /\ Keeps(s, attr, R, Q)
    BY DEF More
  <1> HIDE DEF A, B, R, Q
  <1>6. Words(s, attr, R) \subseteq Words(s, attr, Q)
    BY <1>5 DEF Words, About
  <1>7. CASE Present(s, attr)
    BY <1>1, <1>2, <1>7 DEF A, B
  <1>8. CASE ~Present(s, attr) /\ Words(s, attr, R) = {}
    <2>1. Told(s, attr, R) = Own(s, attr)
      BY <1>8 DEF Told
    <2>2. A = Own(s, attr)
      BY <1>1, <1>4, <2>1
    <2>3. B = {} => Own(s, attr) = {}
      BY <1>2, <1>8 DEF Told
    <2>4. QED
      BY <1>8, <2>2, <2>3 DEF A, B
  <1>9. CASE ~Present(s, attr) /\ Words(s, attr, R) # {}
    <2>1. Told(s, attr, R) = Words(s, attr, R) /\ Told(s, attr, Q) = Words(s, attr, Q)
      BY <1>6, <1>9 DEF Told
    <2>2. \A v, w \in Words(s, attr, Q) : v = w
      BY <1>5, <1>9 DEF Keeps
    <2>3. /\ A \subseteq Words(s, attr, Q) /\ A # {}
          /\ B \subseteq Words(s, attr, Q) /\ B # {}
      BY <1>1, <1>2, <1>6, <1>9, <2>1
    <2>4. A = B
      BY <2>2, <2>3
    <2>5. QED
      BY <2>3, <2>4 DEF A, B
  <1>10. QED
    BY <1>7, <1>8, <1>9

LEMMA CallGrows ==
    ASSUME NEW S, NEW records, NEW T, NEW others, More(S, records, T, others), NEW via, NEW way,
           NEW s \in Called(S)
    PROVE  LET e == Full(s, records, via)
               f == Full(s, others, way)
           IN  /\ <<f.id, f.name, f.start, f.end, f.error>> = <<e.id, e.name, e.start, e.end, e.error>>
               /\ e.argsCaptured => f.argsCaptured /\ (e.args = {} \/ f.args = e.args)
               /\ e.resultCaptured => f.resultCaptured /\ (e.result = {} \/ f.result = e.result)
  <1> DEFINE e == Full(s, records, via)
             f == Full(s, others, way)
  <1>1. s \in S /\ s \in T
    BY CallsAreSpans DEF More
  <1>2. Rewrites(s, e) /\ Rewrites(s, f)
    BY <1>1, FullIs DEF More
  <1>3. \A attr \in Attributes(s) :
           /\ Own(e, attr) # {} => Own(f, attr) # {}
           /\ Own(e, attr) = Own(f, attr) \/ (~Present(s, attr) /\ Own(e, attr) = Own(s, attr))
    BY <1>1, FullGrows
  <1> HIDE DEF e, f
  <1>4. <<f.id, f.name, f.start, f.end, f.error>> = <<e.id, e.name, e.start, e.end, e.error>>
    BY <1>2, RewritesKeeps
  <1>5. CASE s.op = "execute_tool"
    <2>1. "args" \in Attributes(s) /\ "result" \in Attributes(s)
      BY <1>5 DEF Attributes
    <2>2. ASSUME e.argsCaptured PROVE f.argsCaptured /\ (e.args = {} \/ f.args = e.args)
      <3>1. /\ Own(e, "args") = {e.args}
            /\ Own(f, "args") = IF f.argsCaptured THEN {f.args} ELSE {}
            /\ Own(s, "args") = IF s.argsCaptured THEN {s.args} ELSE {}
        BY <2>2 DEF Own
      <3>2. ~Present(s, "args") => ~(s.argsCaptured /\ s.args # {})
        BY DEF Present
      <3>3. /\ Own(f, "args") # {}
            /\ Own(e, "args") = Own(f, "args") \/ (~Present(s, "args") /\ Own(e, "args") = Own(s, "args"))
        BY <1>3, <2>1, <3>1
      <3>4. f.argsCaptured
        BY <3>1, <3>3
      <3>5. QED
        BY <3>1, <3>2, <3>3, <3>4
    <2>3. ASSUME e.resultCaptured PROVE f.resultCaptured /\ (e.result = {} \/ f.result = e.result)
      <3>1. /\ Own(e, "result") = {e.result}
            /\ Own(f, "result") = IF f.resultCaptured THEN {f.result} ELSE {}
            /\ Own(s, "result") = IF s.resultCaptured THEN {s.result} ELSE {}
        BY <2>3 DEF Own
      <3>2. ~Present(s, "result") => ~(s.resultCaptured /\ s.result # {})
        BY DEF Present
      <3>3. /\ Own(f, "result") # {}
            /\ \/ Own(e, "result") = Own(f, "result")
               \/ ~Present(s, "result") /\ Own(e, "result") = Own(s, "result")
        BY <1>3, <2>1, <3>1
      <3>4. f.resultCaptured
        BY <3>1, <3>3
      <3>5. QED
        BY <3>1, <3>2, <3>3, <3>4
    <2>4. QED
      BY <1>4, <2>2, <2>3 DEF e, f
  <1>6. CASE s.op # "execute_tool"
    <2>1. /\ e.args = s.args /\ e.argsCaptured = s.argsCaptured
          /\ e.result = s.result /\ e.resultCaptured = s.resultCaptured
          /\ f.args = s.args /\ f.argsCaptured = s.argsCaptured
          /\ f.result = s.result /\ f.resultCaptured = s.resultCaptured
      BY <1>2, <1>6 DEF Rewrites
    <2>2. QED
      BY <1>4, <2>1 DEF e, f
  <1>7. QED
    BY <1>5, <1>6

\* Messages of a chat are those of its own, or stay, or were a deprecated attribute's.
LEMMA MessageGrows ==
    ASSUME NEW S, NEW records, NEW T, NEW others, More(S, records, T, others), NEW via, NEW way,
           NEW s \in OfOp(S, "chat")
    PROVE  LET e == Full(s, records, via)
               f == Full(s, others, way)
           IN  /\ Input(e) # <<>> => Input(f) # <<>>
               /\ Output(e) # <<>> => Output(f) # <<>>
               /\ \A v \in {Input(e), Output(e)} : \A i \in DOMAIN v :
                     v \in {Input(f), Output(f)} \/ <<v[i].role, v[i].text>> \in Deprecated(S)
  <1> DEFINE e == Full(s, records, via)
             f == Full(s, others, way)
  <1>1. s \in S /\ s \in T /\ s \in Spans /\ "in" \in Attributes(s) /\ "out" \in Attributes(s)
    BY CallsAreSpans DEF More, Evidence, OfOp, Attributes
  <1>2. \A attr \in Attributes(s) :
           /\ Own(e, attr) # {} => Own(f, attr) # {}
           /\ Own(e, attr) = Own(f, attr) \/ (~Present(s, attr) /\ Own(e, attr) = Own(s, attr))
    BY <1>1, FullGrows
  <1> HIDE DEF e, f
  <1>3. \A x : /\ Own(x, "in") = {Input(x)} \ {<<>>}
               /\ Own(x, "out") = {Output(x)} \ {<<>>}
    BY DEF Own
  <1>4. (Input(e) # <<>> => Input(f) # <<>>) /\ (Output(e) # <<>> => Output(f) # <<>>)
    BY <1>1, <1>2, <1>3
  <1>5. IsText(s.prompt) /\ IsText(s.completion)
    BY <1>1, SpanIs
  <1>6. ASSUME NEW i \in DOMAIN Input(e)
        PROVE  \/ Input(e) \in {Input(f), Output(f)}
               \/ <<Input(e)[i].role, Input(e)[i].text>> \in Deprecated(S)
    <2>1. Input(e) # <<>>
      BY <1>6
    <2>2. CASE Own(e, "in") = Own(f, "in")
      BY <1>3, <2>1, <2>2
    <2>3. CASE ~Present(s, "in") /\ Own(e, "in") = Own(s, "in")
      <3>1. s.in = <<>> /\ Input(e) = Input(s)
        BY <1>3, <2>1, <2>3 DEF Present
      <3>2. PICK text : text \in s.prompt
        BY <2>1, <3>1 DEF Input
      <3>3. s.prompt = {text}
        BY <1>5, <3>2 DEF IsText
      <3>4. UNION s.prompt = text
        BY <3>3
      <3>5. Input(e) = <<[role |-> "user", text |-> text]>>
        BY <3>1, <3>2, <3>4 DEF Input
      <3>6. Input(e)[i].role = "user" /\ Input(e)[i].text = text
        BY <1>6, <3>5
      <3>7. <<"user", text>> \in Deprecated(S)
        BY <3>2 DEF Deprecated
      <3>8. QED
        BY <3>6, <3>7
    <2>4. QED
      BY <1>1, <1>2, <2>2, <2>3
  <1>7. ASSUME NEW i \in DOMAIN Output(e)
        PROVE  \/ Output(e) \in {Input(f), Output(f)}
               \/ <<Output(e)[i].role, Output(e)[i].text>> \in Deprecated(S)
    <2>1. Output(e) # <<>>
      BY <1>7
    <2>2. CASE Own(e, "out") = Own(f, "out")
      BY <1>3, <2>1, <2>2
    <2>3. CASE ~Present(s, "out") /\ Own(e, "out") = Own(s, "out")
      <3>1. s.out = <<>> /\ Output(e) = Output(s)
        BY <1>3, <2>1, <2>3 DEF Present
      <3>2. PICK text : text \in s.completion
        BY <2>1, <3>1 DEF Output
      <3>3. s.completion = {text}
        BY <1>5, <3>2 DEF IsText
      <3>4. UNION s.completion = text
        BY <3>3
      <3>5. Output(e) = <<[role |-> "assistant", text |-> text]>>
        BY <3>1, <3>2, <3>4 DEF Output
      <3>6. Output(e)[i].role = "assistant" /\ Output(e)[i].text = text
        BY <1>7, <3>5
      <3>7. <<"assistant", text>> \in Deprecated(S)
        BY <3>2 DEF Deprecated
      <3>8. QED
        BY <3>6, <3>7
    <2>4. QED
      BY <1>1, <1>2, <2>2, <2>3
  <1>8. QED
    BY <1>4, <1>6, <1>7 DEF e, f

\* What an Episode tells, that of more spans and records tells.
LEMMA MoreAdds ==
    ASSUME NEW S, NEW records, NEW T, NEW others, More(S, records, T, others), NEW via, NEW way
    PROVE  LET e == episodeFromCloudWatch(S, records, via)
               f == episodeFromCloudWatch(T, others, way)
           IN  /\ CallsStay(e, f)
               /\ Spoken(e) \subseteq Spoken(f) \cup Deprecated(S)
               /\ e.coverage \subseteq f.coverage
  <1> DEFINE e == episodeFromCloudWatch(S, records, via)
             f == episodeFromCloudWatch(T, others, way)
             D == MergeContentRecords(S, records, via)
             E == MergeContentRecords(T, others, way)
             was(s) == Full(s, records, via)
             is(s) == Full(s, others, way)
  <1>1. Evidence(S, records) /\ Evidence(T, others)
    BY DEF More
  <1>2. /\ e.tool_calls = CallsFrom(Fulls(Called(S), records, via))
        /\ Conversation(e.turns, Fulls(OfOp(S, "chat"), records, via))
    BY <1>1, EpisodeIs
  <1>3. /\ f.tool_calls = CallsFrom(Fulls(Called(T), others, way))
        /\ Conversation(f.turns, Fulls(OfOp(T, "chat"), others, way))
    BY <1>1, EpisodeIs
  <1>4. /\ OfOp(D, "chat") = Fulls(OfOp(S, "chat"), records, via)
        /\ Called(D) = Fulls(Called(S), records, via)
    BY <1>1, MergedAre DEF Fulls
  <1>5. /\ OfOp(E, "chat") = Fulls(OfOp(T, "chat"), others, way)
        /\ Called(E) = Fulls(Called(T), others, way)
    BY <1>1, MergedAre DEF Fulls
  <1>6. e.coverage = Coverage(D) /\ f.coverage = Coverage(E)
    BY DEF episodeFromCloudWatch, BuildEpisode
  <1>7. OfOp(S, "chat") \subseteq OfOp(T, "chat") /\ Called(S) \subseteq Called(T)
    BY DEF More
  <1>8. ASSUME NEW s \in Called(S)
        PROVE  /\ <<is(s).id, is(s).name, is(s).start, is(s).end, is(s).error>>
                     = <<was(s).id, was(s).name, was(s).start, was(s).end, was(s).error>>
               /\ was(s).argsCaptured =>
                     is(s).argsCaptured /\ (was(s).args = {} \/ is(s).args = was(s).args)
               /\ was(s).resultCaptured =>
                     is(s).resultCaptured /\ (was(s).result = {} \/ is(s).result = was(s).result)
    BY CallGrows
  <1>9. ASSUME NEW s \in OfOp(S, "chat")
        PROVE  /\ Input(was(s)) # <<>> => Input(is(s)) # <<>>
               /\ Output(was(s)) # <<>> => Output(is(s)) # <<>>
               /\ \A v \in {Input(was(s)), Output(was(s))} : \A i \in DOMAIN v :
                     \/ v \in {Input(is(s)), Output(is(s))}
                     \/ <<v[i].role, v[i].text>> \in Deprecated(S)
    BY MessageGrows
  <1>10. Chatting(OfOp(D, "chat")) /\ Chatting(OfOp(E, "chat"))
    BY <1>1, ChatsAreKept
  <1>11. /\ \A A : Fulls(A, records, via) = {was(s) : s \in A}
         /\ \A A : Fulls(A, others, way) = {is(s) : s \in A}
    BY DEF Fulls
  <1> HIDE DEF e, f, D, E, was, is
  <1>12. ASSUME NEW b \in e.tool_calls
         PROVE  \E tc \in f.tool_calls :
                   /\ <<tc.span, tc.name, tc.started, tc.ended, tc.error>>
                         = <<b.span, b.name, b.started, b.ended, b.error>>
                   /\ b.argsCaptured => tc.argsCaptured /\ (b.args = {} \/ tc.args = b.args)
                   /\ b.resultCaptured => tc.resultCaptured /\ (b.result = {} \/ tc.result = b.result)
    <2>1. PICK s \in Called(S) : b = toolCallFrom(was(s))
      BY <1>2, <1>11 DEF CallsFrom
    <2>2. toolCallFrom(is(s)) \in f.tool_calls
      BY <1>3, <1>7, <1>11 DEF CallsFrom
    <2> DEFINE tc == toolCallFrom(is(s))
    <2>3. /\ <<tc.span, tc.name, tc.started, tc.ended, tc.error>>
                = <<b.span, b.name, b.started, b.ended, b.error>>
          /\ b.argsCaptured => tc.argsCaptured /\ (b.args = {} \/ tc.args = b.args)
          /\ b.resultCaptured => tc.resultCaptured /\ (b.result = {} \/ tc.result = b.result)
      <3> DEFINE x == was(s)
                 y == is(s)
      <3>1. /\ <<y.id, y.name, y.start, y.end, y.error>> = <<x.id, x.name, x.start, x.end, x.error>>
            /\ x.argsCaptured => y.argsCaptured /\ (x.args = {} \/ y.args = x.args)
            /\ x.resultCaptured => y.resultCaptured /\ (x.result = {} \/ y.result = x.result)
        BY <1>8
      <3> HIDE DEF x, y
      <3>2. tc = toolCallFrom(y) /\ b = toolCallFrom(x)
        BY <2>1 DEF x, y
      <3>3. QED
        BY <3>1, <3>2 DEF toolCallFrom
    <2>4. QED
      BY <2>2, <2>3
  <1>13. Spoken(e) \subseteq Spoken(f) \cup Deprecated(S)
    <2>1. SUFFICES ASSUME NEW p \in DOMAIN e.turns, e.turns[p].captured
                   PROVE  <<e.turns[p].role, e.turns[p].text>> \in Spoken(f) \cup Deprecated(S)
      BY DEF Spoken, Captured
    <2>2. \E x \in Fulls(OfOp(S, "chat"), records, via) : \E v \in {Input(x), Output(x)} :
              \E i \in DOMAIN v : Tells(e.turns[p], x, v, i)
      BY <1>2, <2>1 DEF Conversation
    <2>3. PICK s \in OfOp(S, "chat") : \E v \in {Input(was(s)), Output(was(s))} :
              \E i \in DOMAIN v : Tells(e.turns[p], was(s), v, i)
      BY <1>11, <2>2
    <2>4. PICK v \in {Input(was(s)), Output(was(s))} :
              \E i \in DOMAIN v : Tells(e.turns[p], was(s), v, i)
      BY <2>3
    <2>5. PICK i \in DOMAIN v : Tells(e.turns[p], was(s), v, i)
      BY <2>4
    <2>6. e.turns[p].role = v[i].role /\ e.turns[p].text = v[i].text /\ v[i].role # ""
      BY <1>2, <2>1, <2>5 DEF Conversation, Tells
    <2>7. CASE v \in {Input(is(s)), Output(is(s))}
      <3>1. is(s) \in Fulls(OfOp(T, "chat"), others, way)
        BY <1>7, <1>11
      <3>2. PICK q \in DOMAIN f.turns :
                f.turns[q].captured /\ f.turns[q].role = v[i].role /\ f.turns[q].text = v[i].text
        BY <1>3, <2>6, <2>7, <3>1 DEF Conversation
      <3>3. <<f.turns[q].role, f.turns[q].text>> \in Spoken(f)
        BY <3>2 DEF Spoken, Captured
      <3>4. QED
        BY <2>6, <3>2, <3>3
    <2>8. CASE <<v[i].role, v[i].text>> \in Deprecated(S)
      BY <2>6, <2>8
    <2>9. QED
      BY <1>9, <2>7, <2>8
  <1>14. Coverage(D) \subseteq Coverage(E)
    <2>1. ASSUME NEW x \in OfOp(D, "chat"), Input(x) \o Output(x) # <<>>
          PROVE  \E y \in OfOp(E, "chat") : Input(y) \o Output(y) # <<>>
      <3>1. PICK s \in OfOp(S, "chat") : x = was(s)
        BY <1>4, <1>11
      <3>2. is(s) \in OfOp(E, "chat")
        BY <1>5, <1>7, <1>11
      <3>3. /\ IsSequence(Input(x)) /\ IsSequence(Output(x))
            /\ IsSequence(Input(is(s))) /\ IsSequence(Output(is(s)))
        BY <1>10, <3>2 DEF Chatting
      <3>4. Input(x) # <<>> \/ Output(x) # <<>>
        BY <2>1, <3>3, MessagesOf
      <3>5. Input(is(s)) # <<>> \/ Output(is(s)) # <<>>
        BY <1>9, <3>1, <3>4
      <3>6. Input(is(s)) \o Output(is(s)) # <<>>
        BY <3>3, <3>5, MessagesOf
      <3>7. QED
        BY <3>2, <3>6
    <2>2. ASSUME NEW x \in Called(D)
          PROVE  \E y \in Called(E) : /\ x.argsCaptured => y.argsCaptured
                                      /\ x.resultCaptured => y.resultCaptured
      <3>1. PICK s \in Called(S) : x = was(s)
        BY <1>4, <1>11
      <3>2. is(s) \in Called(E)
        BY <1>5, <1>7, <1>11
      <3>3. QED
        BY <1>8, <3>1, <3>2
    <2>3. QED
      BY <2>1, <2>2 DEF Coverage
  <1>15. QED
    BY <1>6, <1>12, <1>13, <1>14 DEF CallsStay, e, f

\* Without a record a span is what it was.
LEMMA BareIs ==
    ASSUME NEW S, NEW records, Evidence(S, records), NEW via
    PROVE  Evidence(S, <<>>) /\ BuildEpisode(S) = episodeFromCloudWatch(S, <<>>, via)
  <1>1. IsSequence(<<>>) /\ ToSet(<<>>) = {}
    <2>1. <<>> \in Seq({}) /\ Len(<<>>) = 0
      BY EmptySeq
    <2>2. IsSequence(<<>>)
      BY <2>1, MemberIs
    <2>3. ToSet(<<>>) = {<<>>[i] : i \in 1..Len(<<>>)}
      BY <2>2, SequenceIs
    <2>4. 1..Len(<<>>) = {}
      BY <2>1
    <2>5. QED
      BY <2>2, <2>3, <2>4
  <1> DEFINE none == <<>>
  <1>2. IsSequence(none) /\ ToSet(none) = {}
    BY <1>1
  <1> HIDE DEF none
  <1>3. Evidence(S, none)
    BY <1>2 DEF Evidence, Keyed
  <1>4. ASSUME NEW s \in S PROVE Full(s, none, via) = s
    <2> DEFINE e == Full(s, none, via)
    <2>1. /\ Rewrites(s, e)
          /\ \A attr \in Attributes(s) : TheFirstTells(s, {}, via, attr, Carries(e, attr))
      BY <1>2, <1>3, FullIs
    <2> HIDE DEF e
    <2>2. \A attr \in Attributes(s) : Carries(e, attr) = Carries(s, attr)
      BY <2>1 DEF TheFirstTells, Telling
    <2>3. Rewrites(s, s)
      BY DEF Evidence
    <2>4. e = s
      BY <2>1, <2>2, <2>3, CarriedIsAll
    <2>5. QED
      BY <2>4 DEF e
  <1>5. MergeContentRecords(S, none, via) = S
    <2>1. MergeContentRecords(S, none, via) = {Full(s, none, via) : s \in S}
      BY DEF MergeContentRecords, Full
    <2>2. QED
      BY <1>4, <2>1
  <1>6. QED
    BY <1>3, <1>5 DEF none, episodeFromCloudWatch

LEMMA ReadingOnlyAdds ==
    ASSUME Reading
    PROVE  ContentOnlyAdds
  <1> DEFINE S == read.result.records
             content == read.result.content
             E == MergeContentRecords(S, content, read.via)
             ep == read.episode
             bare == BuildEpisode(S)
             seen(e) == {<<tc.span, tc.name, tc.started, tc.ended, tc.error>> : tc \in e.tool_calls}
  <1>1. Evidence(S, content) /\ ep = episodeFromCloudWatch(S, content, read.via)
    BY DEF Reading
  <1>2. Evidence(S, <<>>) /\ bare = episodeFromCloudWatch(S, <<>>, read.via)
    BY <1>1, BareIs
  <1>3. ep.metrics = bare.metrics
    <2>1. Metrics(E) = Metrics(S)
      BY <1>1, MetricsAreKept
    <2>2. ep.metrics = Metrics(E) /\ bare.metrics = Metrics(S)
      BY <1>1 DEF episodeFromCloudWatch, BuildEpisode
    <2>3. QED
      BY <2>1, <2>2
  <1>4. ToSet(<<>>) = {}
    BY DEF ToSet
  <1>5. More(S, <<>>, S, content)
    <2>1. \A s : \A attr : Words(s, attr, {}) = {}
      BY DEF Words, About
    <2>2. QED
      BY <1>1, <1>2, <1>4, <2>1 DEF More, Keeps
  <1>6. seen(ep) = seen(bare)
    <2> DEFINE full(s) == Full(s, content, read.via)
    <2>1. ep.tool_calls = CallsFrom(Fulls(Called(S), content, read.via))
      BY <1>1, EpisodeIs
    <2>2. ep.tool_calls = {toolCallFrom(full(s)) : s \in Called(S)}
      BY <2>1 DEF CallsFrom, Fulls
    <2>3. bare.tool_calls = {toolCallFrom(s) : s \in Called(S)}
      BY DEF BuildEpisode
    <2>4. ASSUME NEW s \in Called(S)
          PROVE  LET tc == toolCallFrom(full(s))
                     b == toolCallFrom(s)
                 IN  <<tc.span, tc.name, tc.started, tc.ended, tc.error>>
                        = <<b.span, b.name, b.started, b.ended, b.error>>
      <3> DEFINE x == full(s)
      <3>1. s \in S
        BY <1>1, CallsAreSpans
      <3>2. x.id = s.id /\ x.name = s.name /\ x.start = s.start /\ x.end = s.end /\ x.error = s.error
        BY <1>1, <3>1, FullIs, RewritesKeeps
      <3> HIDE DEF x
      <3>3. QED
        BY <3>2 DEF toolCallFrom, x
    <2> HIDE DEF full, ep, bare, S
    <2>5. seen(ep) = {LET tc == toolCallFrom(full(s))
                      IN  <<tc.span, tc.name, tc.started, tc.ended, tc.error>> : s \in Called(S)}
      BY <2>2
    <2>6. seen(bare) = {LET tc == toolCallFrom(s)
                        IN  <<tc.span, tc.name, tc.started, tc.ended, tc.error>> : s \in Called(S)}
      BY <2>3
    <2>7. QED
      BY <2>4, <2>5, <2>6
  <1>7. /\ CallsStay(bare, ep)
        /\ Spoken(bare) \subseteq Spoken(ep) \cup Deprecated(S)
        /\ bare.coverage \subseteq ep.coverage
    <2> HIDE DEF bare, ep, S, content
    <2>1. QED
      BY <1>1, <1>2, <1>5, MoreAdds
  <1>8. QED
    BY <1>3, <1>6, <1>7 DEF ContentOnlyAdds

\* The sequences of a set.
LEMMA ListingIs ==
    ASSUME NEW R, IsFiniteSet(R), NEW f \in [1..Cardinality(R) -> R],
           \A i, j \in 1..Cardinality(R) : i # j => f[i] # f[j]
    PROVE  IsSequence(f) /\ ToSet(f) = R
  <1> DEFINE N == Cardinality(R)
  <1>1. N \in Nat
    BY FS_CardinalityType
  <1> HIDE DEF N
  <1>2. f \in [1..N -> R] /\ \A i, j \in 1..N : i # j => f[i] # f[j]
    BY DEF N
  <1>3. f \in Injection(1..N, R)
    BY <1>2 DEF Injection, IsInjective
  <1>4. Cardinality(1..N) = N
    BY <1>1, FS_Interval
  <1>5. f \in Surjection(1..N, R)
    BY <1>3, <1>4, FS_Injection DEF N
  <1>6. DOMAIN f = 1..N /\ \A r \in R : \E i \in 1..N : f[i] = r
    BY <1>2, <1>5 DEF Surjection
  <1>7. ToSet(f) = R
    <2>1. \A i \in 1..N : f[i] \in R
      BY <1>2
    <2>2. ToSet(f) = {f[i] : i \in 1..N}
      BY <1>6 DEF ToSet
    <2>3. QED
      BY <1>6, <2>1, <2>2
  <1>8. f \in Seq(R)
    <2>1. f = [i \in 1..N |-> f[i]] /\ \A i \in 1..N : f[i] \in R
      BY <1>2
    <2>2. [i \in 1..N |-> f[i]] \in Seq(R)
      BY <1>1, <2>1, IsASeq
    <2>3. QED
      BY <2>1, <2>2
  <1>9. QED
    BY <1>7, <1>8, MemberIs

LEMMA SetToSeqIs ==
    ASSUME NEW R, IsFiniteSet(R)
    PROVE  IsSequence(SetToSeq(R)) /\ ToSet(SetToSeq(R)) = R
  <1> DEFINE N == Cardinality(R)
  <1>1. PICK g : g \in Bijection(1..N, R)
    BY FS_CardinalityType DEF ExistsBijection
  <1>2. g \in [1..N -> R] /\ \A i, j \in 1..N : g[i] = g[j] => i = j
    BY <1>1 DEF Bijection, Injection, IsInjective
  <1> HIDE DEF N
  <1> DEFINE Good(f) == \A i, j \in DOMAIN f : f[i] = f[j] => i = j
             c == CHOOSE f \in [1..N -> R] : Good(f)
  <1>3. DOMAIN g = 1..N
    BY <1>2
  <1>4. Good(g)
    BY <1>2, <1>3
  <1>5. SetToSeq(R) = c
    BY DEF SetToSeq, IsInjective, N
  <1> HIDE DEF Good
  <1>6. c \in [1..N -> R] /\ Good(c)
    BY <1>2, <1>4
  <1> HIDE DEF c
  <1>7. \A i, j \in 1..N : i # j => c[i] # c[j]
    BY <1>6 DEF Good
  <1>8. QED
    BY <1>5, <1>6, <1>7, ListingIs DEF N

\* The same of every span is the same Episode.
LEMMA SameEpisode ==
    ASSUME NEW S, NEW records, NEW others, NEW via, NEW way,
           \A s \in S : Full(s, others, way) = Full(s, records, via)
    PROVE  episodeFromCloudWatch(S, others, way) = episodeFromCloudWatch(S, records, via)
  <1>1. MergeContentRecords(S, others, way) = MergeContentRecords(S, records, via)
    BY DEF MergeContentRecords, Full
  <1>2. QED
    BY <1>1 DEF episodeFromCloudWatch

LEMMA OrderIsForgottenOfAll ==
    ASSUME NEW S, NEW records, Evidence(S, records), NEW others, IsSequence(others),
           ToSet(others) = ToSet(records), NEW via
    PROVE  episodeFromCloudWatch(S, others, via) = episodeFromCloudWatch(S, records, via)
  <1>1. ASSUME NEW s \in S PROVE Full(s, others, via) = Full(s, records, via)
    <2>1. Joinable(s, records) /\ Joinable(s, others) /\ Keyed(ToSet(records))
      BY DEF Evidence, Joinable
    <2>2. QED
      BY <2>1, OrderIsForgotten DEF Full
  <1>2. QED
    BY <1>1, SameEpisode

LEMMA ContentIsFinite ==
    ASSUME NEW R, NEW records, IsSequence(records), R = ToSet(records)
    PROVE  IsFiniteSet(R)
  <1> DEFINE N == Len(records)
             f == [i \in 1..N |-> records[i]]
  <1>1. N \in Nat /\ R = {records[i] : i \in 1..N}
    BY SequenceIs
  <1>2. f \in Surjection(1..N, R)
    BY <1>1 DEF Surjection
  <1> HIDE DEF f, N
  <1>3. IsFiniteSet(1..N)
    BY <1>1, FS_Interval
  <1>4. QED
    BY <1>2, <1>3, FS_Surjection

\* Where the records of a span agree, they tell one thing of it.
LEMMA AgreeingTell ==
    ASSUME NEW S, NEW R, Agree(S, R), IsFiniteSet(R), \A r \in R : IsRecord(r),
           NEW s \in S, NEW attr \in Attributes(s), ~Present(s, attr)
    PROVE  \A v, w \in Words(s, attr, R) : v = w
  <1> DEFINE A == About(s, R)
             T == Words(s, attr, R)
             f == [r \in A |-> Says(r, attr)]
             Q == {Says(r, attr) : r \in A}
  <1>1. IsFiniteSet(A) /\ \A r \in A : IsRecord(r)
    <2>1. A \subseteq R
      BY DEF About
    <2>2. QED
      BY <2>1, FS_Subset
  <1>2. attr \in {"args", "result", "in", "out"}
    BY DEF Attributes
  <1>3. T = UNION Q
    BY DEF Words
  <1>4. Cardinality(T) <= 1
    BY DEF Agree
  <1> HIDE DEF A, T
  <1>5. IsFiniteSet(Q)
    <2>1. f \in Surjection(A, Q)
      BY DEF Surjection
    <2> HIDE DEF f, Q
    <2>2. QED
      BY <1>1, <2>1, FS_Surjection
  <1>6. ASSUME NEW q \in Q PROVE IsFiniteSet(q)
    <2>1. PICK r \in A : q = Says(r, attr)
      OBVIOUS
    <2>2. q = {} \/ \E x : q = {x}
      BY <1>1, <1>2, <2>1, SaysIs
    <2>3. QED
      BY <2>2, FS_EmptySet, FS_Singleton
  <1> HIDE DEF Q
  <1>7. IsFiniteSet(T)
    BY <1>3, <1>5, <1>6, FS_UNION
  <1>8. ASSUME NEW v \in T, NEW w \in T PROVE v = w
    <2>1. /\ IsFiniteSet(T \ {v}) /\ Cardinality(T \ {v}) = Cardinality(T) - 1
          /\ Cardinality(T) \in Nat /\ Cardinality(T \ {v}) \in Nat
      BY <1>7, FS_RemoveElement, FS_CardinalityType
    <2>2. Cardinality(T \ {v}) = 0
      BY <1>4, <2>1
    <2>3. T \ {v} = {}
      BY <2>1, <2>2, FS_EmptySet
    <2>4. QED
      BY <2>3
  <1>9. QED
    BY <1>8 DEF T

\* And then it does not matter which came first.
LEMMA AgreeingForget ==
    ASSUME NEW S, NEW records, Evidence(S, records), Agree(S, ToSet(records)), NEW via, NEW way, NEW s \in S
    PROVE  Full(s, records, way) = Full(s, records, via)
  <1> DEFINE e == Full(s, records, via)
             o == Full(s, records, way)
             R == ToSet(records)
  <1>1. /\ Rewrites(s, e)
        /\ \A attr \in Attributes(s) : TheFirstTells(s, R, via, attr, Carries(e, attr))
    BY FullIs
  <1>2. /\ Rewrites(s, o)
        /\ \A attr \in Attributes(s) : TheFirstTells(s, R, way, attr, Carries(o, attr))
    BY FullIs
  <1>3. IsFiniteSet(R) /\ (\A r \in R : IsRecord(r)) /\ s.id # ""
    BY ContentIsFinite DEF Evidence
  <1> HIDE DEF e, o, R
  <1>4. ASSUME NEW attr \in Attributes(s) PROVE Carries(e, attr) = Carries(o, attr)
    <2> DEFINE v == Carries(e, attr)
               w == Carries(o, attr)
               T == Telling(s, R, attr)
    <2>1. /\ \/ (Present(s, attr) \/ T = {}) /\ v = Carries(s, attr)
             \/ ~Present(s, attr) /\ \E r \in T : v = Says(r, attr)
          /\ \/ (Present(s, attr) \/ T = {}) /\ w = Carries(s, attr)
             \/ ~Present(s, attr) /\ \E r \in T : w = Says(r, attr)
      BY <1>1, <1>2 DEF TheFirstTells
    <2>2. ASSUME ~Present(s, attr), NEW r \in T, NEW q \in T PROVE Says(r, attr) = Says(q, attr)
      <3>1. \A x, y \in Words(s, attr, R) : x = y
        BY <1>3, <2>2, AgreeingTell DEF R
      <3>2. attr \in {"args", "result", "in", "out"}
        BY DEF Attributes
      <3>3. /\ r \in About(s, R) /\ q \in About(s, R)
            /\ Says(r, attr) # {} /\ Says(q, attr) # {}
        BY DEF Telling, Reaches, HasBody, Joins, About
      <3>4. Says(r, attr) \subseteq Words(s, attr, R) /\ Says(q, attr) \subseteq Words(s, attr, R)
        BY <3>3 DEF Words
      <3>5. IsRecord(r) /\ IsRecord(q)
        BY <1>3, <3>3 DEF About
      <3>6. (\E x : Says(r, attr) = {x}) /\ (\E x : Says(q, attr) = {x})
        BY <3>2, <3>3, <3>5, SaysIs
      <3>7. QED
        BY <3>1, <3>4, <3>6
    <2> HIDE DEF v, w, T
    <2>3. v = w
      BY <2>1, <2>2
    <2>4. QED
      BY <2>3 DEF v, w
  <1>5. e = o
    BY <1>1, <1>2, <1>4, CarriedIsAll
  <1>6. QED
    BY <1>5 DEF e, o

\* All of a trace: its spans, and only these.
Complete == read.result.stable /\ ~unscoped => read.result.records = Spans

LEMMA ReadingForgets ==
    ASSUME Reading, Complete
    PROVE  DeliveryIsForgotten
  <1> DEFINE S == read.result.records
             content == read.result.content
  <1>1. Evidence(S, content) /\ read.episode = episodeFromCloudWatch(S, content, read.via)
    BY DEF Reading
  <1>2. IsFiniteSet(ToSet(content))
    BY <1>1, ContentIsFinite DEF Evidence
  <1>3. ASSUME NEW records \in SetToSeqs(ToSet(content))
        PROVE  episodeFromCloudWatch(S, records, read.via) = read.episode
    <2>1. IsSequence(records) /\ ToSet(records) = ToSet(content)
      BY <1>2, ListingIs DEF SetToSeqs
    <2>2. QED
      BY <1>1, <2>1, OrderIsForgottenOfAll
  <1>4. ASSUME Agree(S, ToSet(content)), NEW via \in {"live", "saved"}
        PROVE  episodeFromCloudWatch(S, content, via) = read.episode
    <2>1. \A s \in S : Full(s, content, via) = Full(s, content, read.via)
      BY <1>1, <1>4, AgreeingForget
    <2>2. QED
      BY <1>1, <2>1, SameEpisode
  <1>5. ASSUME ToSet(content) = written, read.result.stable, ~unscoped
        PROVE  read.episode = episodeFromCloudWatch(Spans, SetToSeq(written), read.via)
    <2>1. S = Spans
      BY <1>5 DEF Complete
    <2>2. IsSequence(SetToSeq(written)) /\ ToSet(SetToSeq(written)) = ToSet(content)
      BY <1>2, <1>5, SetToSeqIs
    <2>3. QED
      BY <1>1, <2>1, <2>2, OrderIsForgottenOfAll
  <1>6. QED
    BY <1>3, <1>4, <1>5 DEF DeliveryIsForgotten

\* Records of this trace, as written.
Genuine == ToSet(read.result.content) \subseteq written /\ written \in Contents

LEMMA ReadingIsPart ==
    ASSUME Reading, Genuine
    PROVE  PartialIsPart
  <1> DEFINE S == read.result.records
             content == read.result.content
             all == SetToSeq(written)
             part == read.episode
             whole == episodeFromCloudWatch(Spans, all, read.via)
             D == MergeContentRecords(S, content, read.via)
             E == MergeContentRecords(Spans, all, read.via)
  <1>1. Evidence(S, content) /\ part = episodeFromCloudWatch(S, content, read.via)
    BY DEF Reading
  <1>2. IsFiniteSet(written) /\ written \subseteq UNION Contents
    BY KeysAssumption DEF Genuine
  <1>3. IsSequence(all) /\ ToSet(all) = written
    BY <1>2, SetToSeqIs
  <1>4. \A r \in written : IsRecord(r)
    BY <1>2, RecordsAssumption DEF IsRecord
  <1> HIDE DEF all
  <1>5. Evidence(Spans, all)
    <2>1. \A s \in Spans : Rewrites(s, s) /\ s.id # ""
      BY SpanIs
    <2>2. Keyed(written)
      BY <1>2, KeysAssumption DEF Keyed
    <2>3. QED
      BY <1>3, <1>4, <2>1, <2>2, SpansAssumption DEF Evidence
  <1>6. OfOp(S, "chat") \subseteq OfOp(Spans, "chat") /\ Called(S) \subseteq Called(Spans)
    BY <1>1 DEF Evidence, OfOp, Called
  <1>7. ASSUME Agree(Spans, written) PROVE More(S, content, Spans, all)
    <2>1. ASSUME NEW s \in S \cap Spans, NEW attr \in Attributes(s)
          PROVE  Keeps(s, attr, ToSet(content), ToSet(all))
      <3>1. ~Present(s, attr) => \A v, w \in Words(s, attr, written) : v = w
        BY <1>2, <1>4, <1>7, AgreeingTell
      <3>2. QED
        BY <1>3, <3>1 DEF Keeps
    <2>2. QED
      BY <1>1, <1>3, <1>5, <1>6, <2>1 DEF More, Genuine
  <1>8. ASSUME Agree(Spans, written)
        PROVE  /\ CallsStay(part, whole)
               /\ Spoken(part) \subseteq Spoken(whole) \cup Deprecated(S)
               /\ part.coverage \subseteq whole.coverage
    <2> HIDE DEF part, S, content, whole
    <2>1. More(S, content, Spans, all)
      BY <1>7, <1>8
    <2>2. QED
      BY <1>1, <2>1, MoreAdds DEF whole
  <1>9. Deprecated(S) \subseteq Deprecated(Spans)
    BY <1>6 DEF Deprecated
  <1>10. part.metrics = Metrics(S) /\ whole.metrics = Metrics(Spans)
    <2>1. Metrics(D) = Metrics(S) /\ Metrics(E) = Metrics(Spans)
      BY <1>1, <1>5, MetricsAreKept
    <2>2. part.metrics = Metrics(D) /\ whole.metrics = Metrics(E)
      BY <1>1 DEF episodeFromCloudWatch, BuildEpisode
    <2>3. QED
      BY <2>1, <2>2
  <1> HIDE DEF whole, part, S
  <1>11. ASSUME NEW A, NEW B, B \subseteq Spans, A \subseteq B PROVE Cardinality(A) <= Cardinality(B)
    BY <1>11, FS_Subset, SpansAssumption
  <1>12. OfOp(Spans, "chat") \subseteq Spans /\ Called(Spans) \subseteq Spans
    BY DEF OfOp, Called
  <1>13. /\ part.metrics["model_calls"] <= whole.metrics["model_calls"]
         /\ part.metrics["tool_calls"] <= whole.metrics["tool_calls"]
         /\ part.metrics["tool_errors"] <= whole.metrics["tool_errors"]
    <2>1. /\ Cardinality(OfOp(S, "chat")) <= Cardinality(OfOp(Spans, "chat"))
          /\ Cardinality(Called(S)) <= Cardinality(Called(Spans))
      BY <1>6, <1>11, <1>12
    <2>2. Cardinality({s \in Called(S) : s.error}) <= Cardinality({s \in Called(Spans) : s.error})
      <3>1. /\ {s \in Called(S) : s.error} \subseteq {s \in Called(Spans) : s.error}
            /\ {s \in Called(Spans) : s.error} \subseteq Spans
        BY <1>6, <1>12
      <3>2. QED
        BY <1>11, <3>1
    <2>3. /\ part.metrics["model_calls"] = Cardinality(OfOp(S, "chat"))
          /\ part.metrics["tool_calls"] = Cardinality(Called(S))
          /\ part.metrics["tool_errors"] = Cardinality({s \in Called(S) : s.error})
          /\ whole.metrics["model_calls"] = Cardinality(OfOp(Spans, "chat"))
          /\ whole.metrics["tool_calls"] = Cardinality(Called(Spans))
          /\ whole.metrics["tool_errors"] = Cardinality({s \in Called(Spans) : s.error})
      BY <1>10 DEF Metrics
    <2>4. QED
      BY <2>1, <2>2, <2>3
  <1>14. QED
    BY <1>8, <1>9, <1>13 DEF PartialIsPart, part, whole, all, S

-----------------------------------------------------------------------------
(* The commands.                                                           *)

\* What a fetch of this trace may give.
IsResult(res) ==
    /\ res = [records |-> res.records, stable |-> res.stable, content |-> res.content]
    /\ res.records \subseteq Spans \cup {Phantom(r) : r \in {r \in written : Decodes(r)}}
    /\ res.content \in Seq(written)
    /\ res.stable /\ ~unscoped => res.records = Spans

Inv ==
    /\ written \in Contents
    /\ visible \subseteq Spans
    /\ log \in Seq(written)
    /\ IsResult(result)
    /\ Evaluation =>
          /\ IsResult(read.result)
          /\ read.episode =
                episodeFromCloudWatch(read.result.records, read.result.content, read.via)

LEMMA PhantomIs ==
    ASSUME NEW r, Decodes(r)
    PROVE  LET s == Phantom(r) IN s.id # "" /\ s.op = "" /\ Rewrites(s, s)
  <1> DEFINE s == Phantom(r)
  <1>1. /\ s.id = r.span /\ s.op = "" /\ s.in = <<>> /\ s.out = <<>>
        /\ s.argsCaptured = FALSE /\ s.resultCaptured = FALSE
    BY DEF Phantom
  <1>2. s = Having(s, s.in, s.out, s.args, s.result, s.argsCaptured, s.resultCaptured)
    BY DEF Phantom, Having
  <1>3. IsSequence(<<>>)
    BY EmptySeq, MemberIs
  <1> HIDE DEF s
  <1>4. Rewrites(s, s)
    BY <1>1, <1>2, <1>3 DEF Rewrites
  <1>5. QED
    BY <1>1, <1>4 DEF s, Decodes

\* The records of a result are evidence.
LEMMA ResultIsEvidence ==
    ASSUME Inv, NEW res, IsResult(res)
    PROVE  Evidence(res.records, res.content)
  <1> DEFINE P == {Phantom(r) : r \in {r \in written : Decodes(r)}}
             D == {r \in written : Decodes(r)}
             f == [r \in D |-> Phantom(r)]
  <1>1. IsFiniteSet(written) /\ written \subseteq UNION Contents
    BY KeysAssumption DEF Inv
  <1>2. IsFiniteSet(P)
    <2>1. D \subseteq written /\ f \in Surjection(D, P)
      BY DEF Surjection
    <2> HIDE DEF D, P, f
    <2>2. IsFiniteSet(D)
      BY <1>1, <2>1, FS_Subset
    <2>3. QED
      BY <2>1, <2>2, FS_Surjection
  <1>3. IsFiniteSet(Spans \cup P)
    BY <1>2, FS_Union, SpansAssumption
  <1>4. res.records \subseteq Spans \cup P
    BY DEF IsResult
  <1>5. IsFiniteSet(res.records)
    BY <1>3, <1>4, FS_Subset
  <1>6. ASSUME NEW s \in res.records
        PROVE  Rewrites(s, s) /\ s.id # "" /\ (s.op # "" => s \in Spans)
    <2>1. CASE s \in Spans
      BY <2>1, SpanIs
    <2>2. CASE s \in P
      BY <2>2, PhantomIs
    <2>3. QED
      BY <1>4, <2>1, <2>2
  <1>7. IsSequence(res.content) /\ \A r \in ToSet(res.content) : r \in written
    <2>1. res.content \in Seq(written)
      BY DEF IsResult
    <2>2. /\ DOMAIN res.content = 1..Len(res.content)
          /\ \A i \in 1..Len(res.content) : res.content[i] \in written
      BY <2>1, LenProperties, ElementOfSeq
    <2>3. QED
      BY <2>1, <2>2, MemberIs DEF ToSet
  <1>8. \A r \in ToSet(res.content) : IsRecord(r)
    BY <1>1, <1>7, RecordsAssumption DEF IsRecord
  <1>9. Keyed(ToSet(res.content))
    BY <1>1, <1>7, KeysAssumption DEF Keyed
  <1>10. QED
    BY <1>5, <1>6, <1>7, <1>8, <1>9 DEF Evidence

LEMMA InitIsInv == Init => Inv
  <1> SUFFICES ASSUME Init PROVE Inv
    OBVIOUS
  <1>1. /\ written \in Contents /\ visible = {} /\ log = <<>> /\ result = NoResult /\ read = NoRead
    BY DEF Init
  <1>2. <<>> \in Seq(written)
    BY EmptySeq
  <1>3. /\ NoResult.records = {} /\ NoResult.stable = FALSE /\ NoResult.content = <<>>
        /\ NoRead.via = "none"
        /\ NoResult = [records |-> NoResult.records, stable |-> NoResult.stable,
                       content |-> NoResult.content]
    BY DEF NoResult, NoRead
  <1>4. IsResult(result)
    <2> HIDE DEF NoResult
    <2>1. QED
      BY <1>1, <1>2, <1>3 DEF IsResult
  <1>5. QED
    BY <1>1, <1>2, <1>3, <1>4 DEF Inv, Evaluation

\* Results stay what they are.
LEMMA ResultStays ==
    ASSUME UNCHANGED <<written, unscoped>>, NEW res, IsResult(res)
    PROVE  IsResult(res)'
  BY DEF IsResult, Phantom, Decodes

LEMMA ExportKeepsInv == ASSUME Inv, ExportSpans PROVE Inv'
  <1>1. visible' \subseteq Spans /\ UNCHANGED <<written, log, unscoped, stage, result, read>>
    BY DEF ExportSpans, Inv
  <1>2. QED
    BY <1>1 DEF Inv, IsResult, Evaluation

LEMMA DeliverKeepsInv == ASSUME Inv, DeliverContent PROVE Inv'
  <1>1. PICK r \in written : log' = Append(log, r)
    BY DEF DeliverContent
  <1>2. UNCHANGED <<written, visible, unscoped, stage, result, read>>
    BY DEF DeliverContent
  <1>3. log' \in Seq(written)
    BY <1>1, AppendProperties DEF Inv
  <1>4. QED
    BY <1>2, <1>3 DEF Inv, IsResult, Evaluation

LEMMA FetchSpansKeepsInv == ASSUME Inv, FetchSpans PROVE Inv'
  <1>1. PICK stable \in {b \in BOOLEAN : b => visible = Spans} :
            result' = [records |-> Found, stable |-> stable, content |-> <<>>]
    BY DEF FetchSpans
  <1>2. UNCHANGED env /\ read' = NoRead
    BY DEF FetchSpans
  <1>3. /\ result'.records = Found /\ result'.stable = stable /\ result'.content = <<>>
        /\ result' = [records |-> result'.records, stable |-> result'.stable,
                      content |-> result'.content]
    BY <1>1
  <1>4. \A r \in ToSet(log) : r \in written
    <2>1. \A i \in DOMAIN log : log[i] \in written
      BY LenProperties, ElementOfSeq DEF Inv
    <2>2. QED
      BY <2>1 DEF ToSet
  <1>5. Found \subseteq Spans \cup {Phantom(r) : r \in {r \in written : Decodes(r)}}
    BY <1>4 DEF Found, Inv
  <1>6. stable /\ ~unscoped => Found = Spans
    BY <1>1 DEF Found
  <1>7. <<>> \in Seq(written)
    BY EmptySeq
  <1>8. IsResult(result)'
    BY <1>2, <1>3, <1>5, <1>6, <1>7 DEF IsResult, env
  <1>9. ~Evaluation'
    BY <1>2 DEF Evaluation, NoRead
  <1>10. QED
    BY <1>2, <1>8, <1>9 DEF Inv, env

LEMMA FetchContentKeepsInv == ASSUME Inv, FetchContent PROVE Inv'
  <1>1. PICK found \in {<<>>, log} : result' = [result EXCEPT !.content = found]
    BY DEF FetchContent
  <1>2. UNCHANGED <<env, read>>
    BY DEF FetchContent
  <1>3. found \in Seq(written)
    BY EmptySeq DEF Inv
  <1>4. result = [records |-> result.records, stable |-> result.stable, content |-> result.content]
    BY DEF Inv, IsResult
  <1>5. result' = [records |-> result.records, stable |-> result.stable, content |-> found]
    BY <1>1, <1>4
  <1>6. /\ result'.records = result.records /\ result'.stable = result.stable /\ result'.content = found
        /\ result' = [records |-> result'.records, stable |-> result'.stable,
                      content |-> result'.content]
    BY <1>5
  <1>7. IsResult(result)'
    <2>1. UNCHANGED <<written, unscoped>>
      BY <1>2 DEF env
    <2>2. result.records \subseteq Spans \cup {Phantom(r) : r \in {r \in written : Decodes(r)}}
      BY DEF Inv, IsResult
    <2>3. result.stable /\ ~unscoped => result.records = Spans
      BY DEF Inv, IsResult
    <2>4. QED
      BY <1>3, <1>6, <2>1, <2>2, <2>3 DEF IsResult
  <1>8. QED
    BY <1>2, <1>7 DEF Inv, IsResult, Evaluation, env

LEMMA SaveKeepsInv == ASSUME Inv, Save PROVE Inv'
  <1>1. UNCHANGED <<env, result, read>>
    BY DEF Save
  <1>2. QED
    BY <1>1 DEF Inv, IsResult, Evaluation, env

LEMMA EvaluatedIs ==
    ASSUME Inv
    PROVE  LET e == Evaluated
           IN  e.via # "none" =>
                  /\ e.result = result
                  /\ e.episode = episodeFromCloudWatch(result.records, result.content, e.via)
  <1>1. NoRead.via = "none"
    BY DEF NoRead
  <1>2. QED
    BY <1>1 DEF Evaluated

LEMMA EvaluateLiveKeepsInv == ASSUME Inv, EvaluateLive PROVE Inv'
  <1>1. UNCHANGED env /\ read' = Evaluated /\ result' = NoResult
    BY DEF EvaluateLive
  <1>2. IsResult(result)'
    <2>1. <<>> \in Seq(written)
      BY EmptySeq
    <2>2. /\ NoResult.records = {} /\ NoResult.stable = FALSE /\ NoResult.content = <<>>
          /\ NoResult = [records |-> NoResult.records, stable |-> NoResult.stable,
                         content |-> NoResult.content]
      BY DEF NoResult
    <2> HIDE DEF NoResult
    <2>3. QED
      BY <1>1, <2>1, <2>2 DEF IsResult, env
  <1>3. Evaluation' =>
           /\ read'.result = result
           /\ read'.episode = episodeFromCloudWatch(result.records, result.content, read'.via)
    BY <1>1, EvaluatedIs DEF Evaluation
  <1>4. QED
    BY <1>1, <1>2, <1>3 DEF Inv, IsResult, env

LEMMA EvaluateSavedKeepsInv == ASSUME Inv, EvaluateSaved PROVE Inv'
  <1>1. UNCHANGED <<env, result>> /\ read' = Evaluated
    BY DEF EvaluateSaved
  <1>2. Evaluation' =>
           /\ read'.result = result
           /\ read'.episode = episodeFromCloudWatch(result.records, result.content, read'.via)
    BY <1>1, EvaluatedIs DEF Evaluation
  <1>3. QED
    BY <1>1, <1>2 DEF Inv, IsResult, env

\* In every state what is saved and what is evaluated is a join of spans of the trace,
\* their placeholders and its records, and the last reading is an Episode built from
\* such a join: whatever the orders of delivery and the fetches that gave up.
THEOREM InvIsInductive == Spec => []Inv
  <1>1. Inv /\ [Next]_vars => Inv'
    <2> SUFFICES ASSUME Inv, [Next]_vars PROVE Inv'
      OBVIOUS
    <2>1. CASE ExportSpans
      BY <2>1, ExportKeepsInv
    <2>2. CASE DeliverContent
      BY <2>2, DeliverKeepsInv
    <2>3. CASE FetchSpans
      BY <2>3, FetchSpansKeepsInv
    <2>4. CASE FetchContent
      BY <2>4, FetchContentKeepsInv
    <2>5. CASE Save
      BY <2>5, SaveKeepsInv
    <2>6. CASE EvaluateLive
      BY <2>6, EvaluateLiveKeepsInv
    <2>7. CASE EvaluateSaved
      BY <2>7, EvaluateSavedKeepsInv
    <2>8. CASE UNCHANGED vars
      BY <2>8 DEF vars, Inv, IsResult, Evaluation
    <2>9. QED
      BY <2>1, <2>2, <2>3, <2>4, <2>5, <2>6, <2>7, <2>8 DEF Next
  <1>2. QED
    BY <1>1, InitIsInv, PTL DEF Spec

LEMMA InvIsReading ==
    ASSUME Inv, Evaluation
    PROVE  Reading /\ Complete /\ Genuine
  <1>1. IsResult(read.result)
    BY DEF Inv
  <1>2. Evidence(read.result.records, read.result.content)
    BY <1>1, ResultIsEvidence
  <1>3. Genuine
    <2>1. read.result.content \in Seq(written) /\ written \in Contents
      BY <1>1 DEF IsResult, Inv
    <2>2. \A i \in DOMAIN read.result.content : read.result.content[i] \in written
      BY <2>1, LenProperties, ElementOfSeq
    <2>3. QED
      BY <2>1, <2>2 DEF Genuine, ToSet
  <1>4. QED
    BY <1>1, <1>2, <1>3 DEF Inv, Reading, Complete, IsResult

\* Each call and message of an Episode is what its span carries or else what a record
\* of that span says, and nothing that is told is lost: for all spans and records of a
\* trace, delivered in any order and number, found or not.
THEOREM EpisodeIsFaithfulAlways == Spec => []EpisodeIsFaithful
  <1>1. Inv => EpisodeIsFaithful
    <2>1. ASSUME Inv, Evaluation PROVE EpisodeIsFaithful
      BY <2>1, InvIsReading, ReadingIsFaithful
    <2>2. ~Evaluation => EpisodeIsFaithful
      BY DEF EpisodeIsFaithful
    <2>3. QED
      BY <2>1, <2>2
  <1>2. QED
    BY <1>1, InvIsInductive, PTL

\* The Episode does not depend on the order and the number of copies of the content
\* records, nor, if those of a span agree, on the way through a file; and it is the one
\* Episode of the trace if all of it came.
THEOREM DeliveryIsForgottenAlways == Spec => []DeliveryIsForgotten
  <1>1. Inv => DeliveryIsForgotten
    <2>1. ASSUME Inv, Evaluation PROVE DeliveryIsForgotten
      BY <2>1, InvIsReading, ReadingForgets
    <2>2. ~Evaluation => DeliveryIsForgotten
      BY DEF DeliveryIsForgotten
    <2>3. QED
      BY <2>1, <2>2
  <1>2. QED
    BY <1>1, InvIsInductive, PTL

\* Content changes neither the metrics nor the calls as the tool and order clauses see
\* them, and takes nothing away.
THEOREM ContentOnlyAddsAlways == Spec => []ContentOnlyAdds
  <1>1. Inv => ContentOnlyAdds
    <2>1. ASSUME Inv, Evaluation PROVE ContentOnlyAdds
      BY <2>1, InvIsReading, ReadingOnlyAdds
    <2>2. ~Evaluation => ContentOnlyAdds
      BY DEF ContentOnlyAdds
    <2>3. QED
      BY <2>1, <2>2
  <1>2. QED
    BY <1>1, InvIsInductive, PTL

\* What an Episode of a part of the trace tells stays in the Episode of the whole, where
\* the records of a span agree: its calls with what was captured of them, its messages
\* but for the deprecated attributes', its coverage and its counts.
THEOREM PartialIsPartAlways == Spec => []PartialIsPart
  <1>1. Inv => PartialIsPart
    <2>1. ASSUME Inv, Evaluation PROVE PartialIsPart
      BY <2>1, InvIsReading, ReadingIsPart
    <2>2. ~Evaluation => PartialIsPart
      BY DEF PartialIsPart
    <2>3. QED
      BY <2>1, <2>2
  <1>2. QED
    BY <1>1, InvIsInductive, PTL
=============================================================================
