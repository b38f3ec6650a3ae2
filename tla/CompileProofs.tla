--------------------------- MODULE CompileProofs ---------------------------
(***************************************************************************)
(* Theorems about module Compile, for any contracts, policy files and      *)
(* number of loads.                                                        *)
(*                                                                         *)
(* A plan means its contract because a name that is registered when a      *)
(* custom clause comes up refuses the load: past that stage the names of   *)
(* the contract itself are registered by the contract itself, whatever     *)
(* else is.                                                                *)
(***************************************************************************)
EXTENDS Compile, EpisodeProofs

-----------------------------------------------------------------------------
(* Kinds and the embedded policy.                                          *)

BuiltIn == Kinds \cup DOMAIN aliases

LEMMA KindsAre ==
    /\ "" \notin BuiltIn
    /\ Kinds \cap DOMAIN aliases = {}
    /\ \A n \in DOMAIN aliases : aliases[n] \in Kinds
  BY DEF BuiltIn, aliases, Kinds, RegoKinds, ValueKinds, BudgetKinds, ClaimKinds, JudgeKinds

LEMMA QueriesAre ==
    /\ Query("tool.allowlist") = "data.axda.tool.allowlist_violation"
    /\ Query("tool.denylist") = "data.axda.tool.denylist_violation"
    /\ Query("tool.call_limit") = "data.axda.tool.call_limit_violation"
    /\ Query("order.requires_precondition") = "data.axda.order.requires_precondition_violation"
    /\ Query("order.before") = "data.axda.order.before_violation"
  BY DEF Query

LEMMA RulesAre ==
    /\ Rules(tool) = {Query("tool.allowlist"), Query("tool.denylist"), Query("tool.call_limit")}
    /\ Rules(order) = {Query("order.requires_precondition"), Query("order.before")}
    /\ Rules(match) = {"data.axda.match.matches"}
    /\ tool # order /\ tool # match /\ order # match
  <1>1. tool # order /\ tool # match /\ order # match
    BY DEF tool, order, match
  <1>2. /\ Rules(tool) = {Query(k) : k \in {"tool.allowlist", "tool.denylist", "tool.call_limit"}}
        /\ Rules(order) = {Query(k) : k \in {"order.requires_precondition", "order.before"}}
        /\ Rules(match) = {"data.axda.match.matches"}
    BY <1>1 DEF Rules
  <1>3. QED
    BY <1>1, <1>2

LEMMA EmbeddedIs ==
    /\ DOMAIN Embedded = {tool, order, match}
    /\ \A n \in DOMAIN Embedded : /\ DOMAIN Embedded[n].rules = Rules(n)
                                  /\ \A r \in Rules(n) : Embedded[n].rules[r] = "built in"
  BY DEF Embedded

\* A built-in policy clause queries a rule of the embedded policy, and no rule is a kind.
LEMMA BuiltInRules ==
    /\ \A k \in RegoKinds : \E n \in DOMAIN Embedded : Query(k) \in DOMAIN Embedded[n].rules
    /\ \A n \in DOMAIN Embedded : DOMAIN Embedded[n].rules \cap Kinds = {}
  <1>1. ASSUME NEW k \in RegoKinds PROVE \E n \in DOMAIN Embedded : Query(k) \in DOMAIN Embedded[n].rules
    <2>1. Query(k) \in Rules(tool) \/ Query(k) \in Rules(order)
      BY RulesAre DEF RegoKinds
    <2>2. QED
      BY <2>1, EmbeddedIs
  <1>2. ASSUME NEW n \in {tool, order, match} PROVE Rules(n) \cap Kinds = {}
    <2>1. Rules(n) \subseteq Rules(tool) \cup Rules(order) \cup Rules(match)
      BY <1>2
    <2>2. (Rules(tool) \cup Rules(order) \cup Rules(match)) \cap Kinds = {}
      BY RulesAre, QueriesAre DEF Kinds, RegoKinds, ValueKinds, BudgetKinds, ClaimKinds, JudgeKinds
    <2>3. QED
      BY <2>1, <2>2
  <1>3. QED
    BY <1>1, <1>2, EmbeddedIs

-----------------------------------------------------------------------------
(* The clauses of a contract.                                              *)

LEMMA SequenceIs ==
    ASSUME NEW s, IsSequence(s)
    PROVE  /\ Len(s) \in Nat /\ DOMAIN s = 1..Len(s)
           /\ s \in Seq(ToSet(s))
           /\ ToSet(s) = {s[i] : i \in 1..Len(s)}
  BY LenProperties DEF IsSequence, ToSet

LEMMA ListIs ==
    ASSUME NEW n \in Nat, NEW f, f = [i \in 1..n |-> f[i]]
    PROVE  IsSequence(f) /\ Len(f) = n
  <1> DEFINE R == ToSet(f)
  <1>1. \A i \in 1..n : f[i] \in R
    BY DEF ToSet
  <1> HIDE DEF R
  <1>2. [i \in 1..n |-> f[i]] \in Seq(R)
    BY <1>1, IsASeq
  <1>3. f \in Seq(R)
    BY <1>2
  <1>4. Len(f) \in Nat /\ DOMAIN f = 1..Len(f)
    BY <1>3, LenProperties
  <1>5. QED
    BY <1>3, <1>4 DEF IsSequence, R

LEMMA JoinIs ==
    ASSUME NEW s, NEW t, IsSequence(s), IsSequence(t)
    PROVE  IsSequence(s \o t)
  <1> DEFINE T == ToSet(s) \cup ToSet(t)
  <1>1. s \in Seq(T) /\ t \in Seq(T)
    BY SeqMonotonic DEF IsSequence
  <1>2. s \o t \in Seq(T)
    BY <1>1, ConcatProperties
  <1>3. Len(s \o t) \in Nat /\ s \o t = [i \in 1..Len(s \o t) |-> (s \o t)[i]]
    BY <1>2, LenProperties
  <1>4. QED
    BY <1>3, ListIs

LEMMA ClausesAre ==
    ASSUME NEW d \in Documents
    PROVE  IsSequence(Clauses(d))
  <1> DEFINE a == IF d.allowed.texts = {} THEN <<>> ELSE <<Clause("tool.allowlist", "spec", [tools |-> d.allowed])>>
             b == IF d.denied.texts = {} THEN <<>> ELSE <<Clause("tool.denylist", "spec", [tools |-> d.denied])>>
             c == [i \in DOMAIN d.invariants |-> Clause("invariant", "spec", [expr |-> d.invariants[i]])]
             m == At(d.must, "must")
             n == At(d.must_not, "must_not")
  <1>1. IsSequence(d.invariants) /\ IsSequence(d.must) /\ IsSequence(d.must_not)
    BY DocumentsAssumption
  <1>2. IsSequence(<<>>) /\ \A x : IsSequence(<<x>>)
    BY DEF IsSequence, ToSet
  <1>3. IsSequence(a) /\ IsSequence(b)
    <2>1. QED
      BY <1>2, Zenon
  <1>4. IsSequence(c)
    BY <1>1, SequenceIs, ListIs
  <1>5. IsSequence(m) /\ IsSequence(n)
    BY <1>1, SequenceIs, ListIs DEF At
  <1>6. Clauses(d) = a \o b \o c \o m \o n
    BY DEF Clauses
  <1> HIDE DEF a, b, c, m, n
  <1>7. QED
    BY <1>3, <1>4, <1>5, <1>6, JoinIs

-----------------------------------------------------------------------------
(* What is known of a load, and of the plans.                              *)

\* The modules once the first n custom clauses are registered.
Added(d, n) == {d.clauses[i].source : i \in 1..n}
Overlaid(d, n) ==
    [m \in DOMAIN Embedded \cup Added(d, n) |-> IF m \in Added(d, n) THEN Files[m] ELSE Embedded[m]]

\* The first n custom clauses are registered, each as itself.
Loaded(reg, ms, d, n) ==
    /\ ms = Overlaid(d, n)
    /\ \A i \in 1..n : /\ d.clauses[i].source \in DOMAIN Files
                       /\ d.clauses[i].name \notin BuiltIn
                       /\ d.clauses[i].name \in DOMAIN reg
                       /\ reg[d.clauses[i].name].query = d.clauses[i].query

\* The entry of clause c of contract d.
EntryOf(d, c, e) ==
    /\ e = [kind |-> e.kind, position |-> e.position, params |-> e.params,
            severity |-> e.severity, blocking |-> e.blocking, query |-> e.query]
    /\ e.position = c.position
    /\ e.kind = KindNamed(c.kind) /\ <<e.kind, e.params>> \in Keys
    /\ e.kind \in Kinds => e.query = IF e.kind \in RegoKinds THEN Query(e.kind) ELSE e.kind
    /\ \A cc \in Own(d) : cc.name = e.kind => e.query = cc.query

\* The entries of the first n clauses.
Entries(es, d, n) ==
    /\ IsSequence(es) /\ Len(es) = n
    /\ \A i \in 1..n : EntryOf(d, Clauses(d)[i], es[i])

PlanOf(p) ==
    /\ p.doc \in Documents
    /\ p.modules = Beside(p.doc)
    /\ \A cc \in Own(p.doc) : cc.source \in DOMAIN Files /\ cc.name \notin BuiltIn
    /\ Entries(p.entries, p.doc, Len(Clauses(p.doc)))
    /\ \E o \in Orders(Len(p.entries)) :
          Sorts(p.entries, o) /\ p.hash = computeHash(p.entries, o, p.doc)

\* The inductive invariant.
Stands ==
    /\ DOMAIN registered \cap (BuiltIn \cup {""}) = {}
    /\ stage \in {"idle", "custom", "clauses"} /\ done \in Nat
    /\ stage = "idle" => done = 0
    /\ stage # "idle" => doc \in Documents
    /\ stage # "clauses" => entries = <<>>
    /\ stage = "custom" => done <= Len(doc.clauses) /\ Loaded(registered, modules, doc, done)
    /\ stage = "clauses" => /\ Loaded(registered, modules, doc, Len(doc.clauses))
                            /\ done <= Len(Clauses(doc)) /\ Entries(entries, doc, done)
    /\ \A p \in plans : PlanOf(p)

\* A load that is over leaves its process as a later one finds it.
LEMMA ReturnStands ==
    ASSUME Stands, Return, registered' = registered, \A p \in plans' : PlanOf(p)
    PROVE  Stands'
  BY DEF Stands, Return

LEMMA LookupIs ==
    ASSUME DOMAIN registered \cap (BuiltIn \cup {""}) = {}, NEW name
    PROVE  /\ Lookup(name) = "" => name \notin BuiltIn \cup DOMAIN registered
           /\ Lookup(name) # "" => Lookup(name) = IF name \in DOMAIN aliases THEN aliases[name] ELSE name
           /\ Lookup(name) # "" => Lookup(name) \in Kinds \cup DOMAIN registered
  BY KindsAre DEF Lookup, BuiltIn

LEMMA LoweredIs ==
    ASSUME NEW d \in Documents, NEW c \in ToSet(Clauses(d)), Addable(d, c),
           DOMAIN registered \cap (BuiltIn \cup {""}) = {},
           Loaded(registered, modules, d, Len(d.clauses))
    PROVE  EntryOf(d, c, Lowered(c))
  <1> DEFINE k == Lookup(c.kind)
             e == Lowered(c)
  <1>1. k # ""
    BY DEF Addable
  <1>2. e = [kind |-> k, position |-> c.position, params |-> resolveRubricFile(c.params),
             severity |-> SeverityOf(k, c), blocking |-> BlockingOf(k, c),
             query |-> IF Custom(k) THEN registered[k].query
                       ELSE IF k \in RegoKinds THEN Query(k) ELSE k]
    BY DEF Lowered
  <1> HIDE DEF k, e
  <1>3. /\ e = [kind |-> e.kind, position |-> e.position, params |-> e.params,
                severity |-> e.severity, blocking |-> e.blocking, query |-> e.query]
        /\ e.position = c.position /\ e.kind = k /\ e.params = resolveRubricFile(c.params)
        /\ e.query = IF Custom(k) THEN registered[k].query ELSE IF k \in RegoKinds THEN Query(k) ELSE k
    BY <1>2
  <1>4. k = KindNamed(c.kind) /\ k \in Kinds \cup DOMAIN registered
    BY <1>1, LookupIs DEF k, KindNamed
  <1>5. ASSUME NEW cc \in Own(d), cc.name = k PROVE e.query = cc.query
    <2>1. IsSequence(d.clauses)
      BY DocumentsAssumption
    <2>2. PICK i \in 1..Len(d.clauses) : cc = d.clauses[i]
      <3>1. ToSet(d.clauses) = {d.clauses[i] : i \in 1..Len(d.clauses)}
        BY <2>1, SequenceIs
      <3>2. QED
        BY <1>5, <3>1 DEF Own
    <2>3. k \notin BuiltIn /\ registered[k].query = cc.query
      BY <1>5, <2>2 DEF Loaded
    <2>4. Custom(k)
      BY <2>3 DEF Custom, BuiltIn
    <2>5. QED
      BY <1>3, <2>3, <2>4
  <1>6. k \in Kinds => e.query = IF k \in RegoKinds THEN Query(k) ELSE k
    BY <1>3 DEF Custom
  <1>7. <<e.kind, e.params>> \in Keys
    <2>1. c \in UNION {ToSet(Clauses(x)) : x \in Documents}
      OBVIOUS
    <2>2. RubricThere(c.params)
      BY DEF Addable
    <2>3. QED
      BY <1>3, <1>4, <2>1, <2>2 DEF Keys
  <1>8. EntryOf(d, c, e)
    BY <1>3, <1>4, <1>5, <1>6, <1>7 DEF EntryOf
  <1>9. QED
    BY <1>8 DEF e

LEMMA OneMore ==
    ASSUME NEW m \in Nat, NEW l \in Nat, m < l
    PROVE  m + 1 \in Nat /\ m + 1 <= l /\ 1..(m + 1) = 1..m \cup {m + 1}
  OBVIOUS

LEMMA InitStands ==
    ASSUME Init
    PROVE  Stands
  <1>1. IsSequence(<<>>) /\ DOMAIN registered = {}
    BY DEF Init, IsSequence, ToSet
  <1>2. QED
    BY <1>1 DEF Init, Stands

LEMMA BeginStands ==
    ASSUME Stands, Begin
    PROVE  Stands'
  <1>1. /\ stage' = "custom" /\ modules' = Embedded /\ doc' \in Documents
        /\ done' = 0 /\ entries' = <<>> /\ registered' = registered /\ plans' = plans
    BY DEF Begin, Stands
  <1>2. Len(doc'.clauses) \in Nat
    BY <1>1, DocumentsAssumption, SequenceIs
  <1>3. Embedded = Overlaid(doc', 0)
    <2>1. Added(doc', 0) = {}
      BY DEF Added
    <2>2. DOMAIN Embedded \cup {} = DOMAIN Embedded /\ Embedded = [m \in DOMAIN Embedded |-> Embedded[m]]
      BY DEF Embedded
    <2>3. QED
      BY <2>1, <2>2 DEF Overlaid
  <1>4. Loaded(registered', modules', doc', done') /\ done' \in Nat /\ done' <= Len(doc'.clauses)
    <2>1. Loaded(registered', modules', doc', 0)
      BY <1>1, <1>3 DEF Loaded
    <2>2. Loaded(registered', modules', doc', done')
      BY <1>1, <2>1, Zenon
    <2>3. QED
      BY <1>1, <1>2, <2>2
  <1>5. QED
    BY <1>1, <1>2, <1>4 DEF Stands

LEMMA RegisterStands ==
    ASSUME Stands, RegisterCustom
    PROVE  Stands'
  <1> DEFINE cc == doc.clauses[done + 1]
             n  == done + 1
  <1>1. /\ stage = "custom" /\ stage' = "custom" /\ done < Len(doc.clauses) /\ done' = n
        /\ Registrable(cc)
        /\ modules' = AddModule(modules, cc.source, Files[cc.source])
        /\ registered' = [m \in DOMAIN registered \cup {cc.name} |->
              IF m = cc.name
              THEN [query |-> cc.query, severity |-> IF cc.severity = "" THEN "major" ELSE cc.severity]
              ELSE registered[m]]
        /\ doc' = doc /\ entries' = entries /\ plans' = plans
    BY DEF RegisterCustom
  <1>2. /\ doc \in Documents /\ done \in Nat /\ Len(doc.clauses) \in Nat
        /\ Loaded(registered, modules, doc, done)
    BY <1>1, DocumentsAssumption, SequenceIs DEF Stands
  <1>3. /\ cc.name # "" /\ Lookup(cc.name) = "" /\ cc.source \in DOMAIN Files
    BY <1>1 DEF Registrable
  <1>4. cc.name \notin BuiltIn \cup DOMAIN registered \cup {""}
    BY <1>3, LookupIs DEF Stands
  <1>5. n \in Nat /\ n <= Len(doc.clauses) /\ 1..n = 1..done \cup {n} /\ doc.clauses[n] = cc
    BY <1>1, <1>2, OneMore
  <1>6. Added(doc, n) = Added(doc, done) \cup {cc.source}
    BY <1>5 DEF Added
  <1> HIDE DEF cc, n
  <1>7. modules' = Overlaid(doc, n)
    <2>1. DOMAIN modules = DOMAIN Embedded \cup Added(doc, done)
      BY <1>2 DEF Loaded, Overlaid
    <2>2. \A m \in DOMAIN modules : modules[m] = IF m \in Added(doc, done) THEN Files[m] ELSE Embedded[m]
      BY <1>2 DEF Loaded, Overlaid
    <2>3. modules' = [m \in DOMAIN modules \cup {cc.source} |->
                         IF m = cc.source THEN Files[cc.source] ELSE modules[m]]
      BY <1>1 DEF AddModule
    <2>4. DOMAIN modules \cup {cc.source} = DOMAIN Embedded \cup Added(doc, n)
      BY <1>6, <2>1
    <2>5. ASSUME NEW m \in DOMAIN Embedded \cup Added(doc, n)
          PROVE  (IF m = cc.source THEN Files[cc.source] ELSE modules[m])
                    = IF m \in Added(doc, n) THEN Files[m] ELSE Embedded[m]
      BY <1>6, <2>1, <2>2, <2>5
    <2>6. QED
      BY <2>3, <2>4, <2>5 DEF Overlaid
  <1>8. ASSUME NEW i \in 1..n
        PROVE  /\ doc.clauses[i].source \in DOMAIN Files
               /\ doc.clauses[i].name \notin BuiltIn
               /\ doc.clauses[i].name \in DOMAIN registered'
               /\ registered'[doc.clauses[i].name].query = doc.clauses[i].query
    <2>1. CASE i = n
      BY <1>1, <1>3, <1>4, <1>5, <2>1
    <2>2. CASE i # n
      <3>1. i \in 1..done
        BY <1>5, <2>2
      <3>2. /\ doc.clauses[i].source \in DOMAIN Files
            /\ doc.clauses[i].name \notin BuiltIn
            /\ doc.clauses[i].name \in DOMAIN registered
            /\ registered[doc.clauses[i].name].query = doc.clauses[i].query
        BY <1>2, <3>1 DEF Loaded
      <3>3. QED
        BY <1>1, <1>4, <3>2
    <2>3. QED
      BY <2>1, <2>2
  <1>9. Loaded(registered', modules', doc, n)
    BY <1>7, <1>8 DEF Loaded
  <1>10. DOMAIN registered' \cap (BuiltIn \cup {""}) = {}
    BY <1>1, <1>4 DEF Stands
  <1>11. QED
    BY <1>1, <1>2, <1>5, <1>9, <1>10 DEF Stands

LEMMA BindStands ==
    ASSUME Stands, bindValues
    PROVE  Stands'
  <1>1. /\ stage = "custom" /\ stage' = "clauses" /\ done = Len(doc.clauses) /\ done' = 0
        /\ doc' = doc /\ entries' = entries /\ plans' = plans
        /\ registered' = registered /\ modules' = modules
    BY DEF bindValues
  <1>2. doc \in Documents /\ entries = <<>> /\ Loaded(registered, modules, doc, Len(doc.clauses))
    BY <1>1 DEF Stands
  <1>3. Len(Clauses(doc)) \in Nat /\ IsSequence(<<>>)
    BY <1>2, ClausesAre, SequenceIs DEF IsSequence, ToSet
  <1>4. Entries(entries', doc', done') /\ done' \in Nat /\ done' <= Len(Clauses(doc'))
    <2>1. Entries(<<>>, doc, 0)
      BY <1>3 DEF Entries
    <2>2. entries' = <<>> /\ doc' = doc /\ done' = 0
      BY <1>1, <1>2
    <2>3. done' \in Nat /\ done' <= Len(Clauses(doc'))
      BY <1>3, <2>2
    <2>4. QED
      BY <2>1, <2>2, <2>3, Zenon
  <1>5. QED
    BY <1>1, <1>2, <1>3, <1>4 DEF Stands

LEMMA AddStands ==
    ASSUME Stands, add
    PROVE  Stands'
  <1> DEFINE c == Clauses(doc)[done + 1]
             n == done + 1
  <1>1. /\ stage = "clauses" /\ stage' = "clauses" /\ done < Len(Clauses(doc)) /\ done' = n
        /\ Addable(doc, c) /\ entries' = Append(entries, Lowered(c))
        /\ doc' = doc /\ plans' = plans /\ registered' = registered /\ modules' = modules
    BY DEF add
  <1>2. /\ doc \in Documents /\ done \in Nat /\ Entries(entries, doc, done)
        /\ Loaded(registered, modules, doc, Len(doc.clauses))
        /\ DOMAIN registered \cap (BuiltIn \cup {""}) = {}
    BY <1>1 DEF Stands
  <1>3. Len(Clauses(doc)) \in Nat
    BY <1>2, ClausesAre, SequenceIs
  <1>4. EntryOf(doc, c, Lowered(c))
    <2>1. IsSequence(Clauses(doc))
      BY <1>2, ClausesAre
    <2>2. c \in ToSet(Clauses(doc))
      <3> DEFINE l == Len(Clauses(doc))
      <3>0. done \in Nat /\ l \in Nat /\ done < l
        BY <1>1, <1>2, <1>3
      <3> HIDE DEF l, c
      <3>1. n \in 1..l
        BY <3>0
      <3>2. ToSet(Clauses(doc)) = {Clauses(doc)[i] : i \in 1..Len(Clauses(doc))}
        BY <2>1, SequenceIs
      <3>3. QED
        BY <3>1, <3>2 DEF l, c
    <2> HIDE DEF c
    <2>3. QED
      BY <1>1, <1>2, <2>2, LoweredIs
  <1>5. IsSequence(entries) /\ Len(entries) = done
    BY <1>2 DEF Entries
  <1>6. n \in Nat /\ n <= Len(Clauses(doc)) /\ 1..n = 1..done \cup {n} /\ c = Clauses(doc)[n]
    BY <1>1, <1>2, <1>3, OneMore
  <1>7. /\ IsSequence(entries') /\ Len(entries') = n
        /\ \A i \in 1..done : entries'[i] = entries[i]
        /\ entries'[n] = Lowered(c)
    <2> DEFINE T == ToSet(entries) \cup {Lowered(c)}
               x == Lowered(c)
    <2>1. entries \in Seq(T) /\ x \in T
      BY <1>5, SeqMonotonic DEF IsSequence
    <2> HIDE DEF T, c, x
    <2>2. /\ Append(entries, x) \in Seq(T) /\ Len(Append(entries, x)) = done + 1
          /\ \A i \in 1..done : Append(entries, x)[i] = entries[i]
          /\ Append(entries, x)[done + 1] = x
      BY <1>5, <2>1, AppendProperties
    <2>3. IsSequence(Append(entries, x))
      <3>1. Append(entries, x) = [i \in 1..(done + 1) |-> Append(entries, x)[i]]
        BY <2>2, LenProperties
      <3>2. QED
        BY <1>2, <1>6, <3>1, ListIs
    <2>4. QED
      BY <1>1, <2>2, <2>3 DEF x
  <1> HIDE DEF c, n
  <1>8. ASSUME NEW i \in 1..n PROVE EntryOf(doc, Clauses(doc)[i], entries'[i])
    <2>1. CASE i = n
      BY <1>4, <1>6, <1>7, <2>1
    <2>2. CASE i # n
      <3>1. i \in 1..done
        BY <1>6, <2>2
      <3>2. EntryOf(doc, Clauses(doc)[i], entries[i])
        BY <1>2, <3>1 DEF Entries
      <3>3. QED
        BY <1>7, <3>1, <3>2
    <2>3. QED
      BY <2>1, <2>2
  <1>9. Entries(entries', doc, n)
    BY <1>7, <1>8 DEF Entries
  <1>10. QED
    BY <1>1, <1>2, <1>6, <1>9 DEF Stands

LEMMA FinishStands ==
    ASSUME Stands, Finish
    PROVE  Stands'
  <1>0. PICK o \in Orders(Len(entries)) :
            /\ Sorts(entries, o)
            /\ plans' = plans \cup {[doc |-> doc, modules |-> modules, entries |-> entries,
                                     hash |-> computeHash(entries, o, doc)]}
    BY DEF Finish
  <1> DEFINE p == [doc |-> doc, modules |-> modules, entries |-> entries,
                   hash |-> computeHash(entries, o, doc)]
  <1>1. /\ stage = "clauses" /\ done = Len(Clauses(doc))
        /\ plans' = plans \cup {p} /\ Return /\ registered' = registered
    BY <1>0 DEF Finish
  <1>2. /\ doc \in Documents /\ Entries(entries, doc, Len(Clauses(doc)))
        /\ Loaded(registered, modules, doc, Len(doc.clauses))
    BY <1>1 DEF Stands
  <1>3. ToSet(doc.clauses) = {doc.clauses[i] : i \in 1..Len(doc.clauses)}
    BY <1>2, DocumentsAssumption, SequenceIs
  <1>4. Sources(doc) = Added(doc, Len(doc.clauses))
    BY <1>3 DEF Sources, Own, Added
  <1>5. modules = Beside(doc)
    BY <1>2, <1>4 DEF Loaded, Overlaid, Beside
  <1>6. \A cc \in Own(doc) : cc.source \in DOMAIN Files /\ cc.name \notin BuiltIn
    BY <1>2, <1>3 DEF Own, Loaded
  <1>7. PlanOf(p)
    <2>1. \E x \in Orders(Len(p.entries)) : Sorts(p.entries, x) /\ p.hash = computeHash(p.entries, x, p.doc)
      BY <1>0
    <2>2. QED
      BY <1>2, <1>5, <1>6, <2>1 DEF PlanOf
  <1> HIDE DEF p
  <1>8. \A q \in plans' : PlanOf(q)
    BY <1>1, <1>7 DEF Stands
  <1>9. QED
    BY <1>1, <1>8, ReturnStands

LEMMA StepStands ==
    ASSUME Stands, [Next]_vars
    PROVE  Stands'
  <1>1. CASE Begin
    BY <1>1, BeginStands
  <1>2. CASE RegisterCustom
    BY <1>2, RegisterStands
  <1>3. CASE RefuseCustom \/ RefuseValues \/ RefuseClause
    BY <1>3, ReturnStands DEF RefuseCustom, RefuseValues, RefuseClause, Refuse, Stands
  <1>4. CASE bindValues
    BY <1>4, BindStands
  <1>5. CASE add
    BY <1>5, AddStands
  <1>6. CASE Finish
    BY <1>6, FinishStands
  <1>7. CASE Restart
    <2>1. DOMAIN registered' = {}
      BY <1>7 DEF Restart
    <2>2. QED
      BY <1>7, <2>1 DEF Restart, load, Stands
  <1>8. CASE UNCHANGED vars
    BY <1>8 DEF vars, Stands
  <1>9. QED
    BY <1>1, <1>2, <1>3, <1>4, <1>5, <1>6, <1>7, <1>8 DEF Next

LEMMA AlwaysStands == Spec => []Stands
  BY InitStands, StepStands, PTL DEF Spec

-----------------------------------------------------------------------------
(* A plan means its contract.                                              *)

\* A built-in policy clause finds the built-in rule and nothing else; the query of
\* another built-in kind is no rule at all.
LEMMA BuiltInMeans ==
    ASSUME NEW d, SelfContained(d), \A cc \in Own(d) : cc.source \in DOMAIN Files,
           NEW k \in Kinds
    PROVE  LET found == Meaning(Beside(d), IF k \in RegoKinds THEN Query(k) ELSE k)
           IN  found \subseteq {"built in"} /\ (k \in RegoKinds => found # {})
  <1> DEFINE q == IF k \in RegoKinds THEN Query(k) ELSE k
             B == Beside(d)
  <1>1. DOMAIN B = DOMAIN Embedded \cup Sources(d)
    BY DEF Beside
  <1>2. \A n \in DOMAIN B : B[n] = IF n \in Sources(d) THEN Files[n] ELSE Embedded[n]
    BY DEF Beside
  <1>3. \A s \in Sources(d) : /\ s \notin DOMAIN Embedded
                              /\ s \in DOMAIN Files
                              /\ DOMAIN Files[s].rules \cap Defined(Embedded) = {}
    BY DEF SelfContained, Sources
  <1>4. \A n \in DOMAIN Embedded : DOMAIN Embedded[n].rules \subseteq Defined(Embedded)
    BY DEF Defined
  <1>5. k \in RegoKinds => /\ q \in Defined(Embedded)
                           /\ \E n \in DOMAIN Embedded : q \in DOMAIN Embedded[n].rules
    BY <1>4, BuiltInRules
  <1>6. k \notin RegoKinds => /\ \A n \in DOMAIN Embedded : q \notin DOMAIN Embedded[n].rules
                              /\ \A s \in Sources(d) : q \notin DOMAIN Files[s].rules
    BY <1>3, BuiltInRules, RulesAssumption
  <1>7. \A n \in DOMAIN Embedded : q \in DOMAIN Embedded[n].rules => Embedded[n].rules[q] = "built in"
    BY EmbeddedIs
  <1> HIDE DEF q, B
  <1>8. \A n \in DOMAIN B : q \in DOMAIN B[n].rules => n \in DOMAIN Embedded /\ B[n] = Embedded[n]
    BY <1>1, <1>2, <1>3, <1>5, <1>6
  <1>9. Meaning(B, q) \subseteq {"built in"}
    BY <1>7, <1>8 DEF Meaning
  <1>10. ASSUME k \in RegoKinds PROVE Meaning(B, q) # {}
    <2>1. PICK n \in DOMAIN Embedded : q \in DOMAIN Embedded[n].rules
      BY <1>5, <1>10
    <2>2. n \in DOMAIN B /\ B[n] = Embedded[n]
      BY <1>1, <1>2, <1>3
    <2>3. QED
      BY <2>1, <2>2 DEF Meaning
  <1>11. QED
    BY <1>9, <1>10 DEF q, B

LEMMA EntryMeans ==
    ASSUME NEW p, PlanOf(p), SelfContained(p.doc), NEW i \in 1..Len(Clauses(p.doc))
    PROVE  LET e == p.entries[i]
               c == Clauses(p.doc)[i]
           IN  /\ e.position = c.position
               /\ Means(p.doc, c.kind, Meaning(p.modules, e.query))
               /\ e.kind \in RegoKinds => Meaning(p.modules, e.query) # {}
  <1> DEFINE e == p.entries[i]
             c == Clauses(p.doc)[i]
             found == Meaning(p.modules, e.query)
  <1>1. EntryOf(p.doc, c, e)
    BY DEF PlanOf, Entries
  <1>2. p.modules = Beside(p.doc) /\ \A cc \in Own(p.doc) : cc.source \in DOMAIN Files /\ cc.name \notin BuiltIn
    BY DEF PlanOf
  <1> HIDE DEF e, c
  <1>3. ASSUME NEW cc \in Own(p.doc), cc.name = c.kind PROVE found = Meaning(Beside(p.doc), cc.query)
    <2>1. c.kind \notin BuiltIn
      BY <1>2, <1>3
    <2>2. e.kind = c.kind
      BY <1>1, <2>1 DEF EntryOf, KindNamed, BuiltIn
    <2>3. e.query = cc.query
      BY <1>1, <1>3, <2>2 DEF EntryOf
    <2>4. QED
      BY <1>2, <2>3
  <1>4. ASSUME e.kind \in Kinds PROVE found \subseteq {"built in"} /\ (e.kind \in RegoKinds => found # {})
    <2>1. e.query = IF e.kind \in RegoKinds THEN Query(e.kind) ELSE e.kind
      BY <1>1, <1>4 DEF EntryOf
    <2>2. QED
      BY <1>2, <1>4, <2>1, BuiltInMeans
  <1>5. c.kind \in BuiltIn => e.kind \in Kinds
    BY <1>1, KindsAre DEF EntryOf, KindNamed, BuiltIn
  <1>6. RegoKinds \subseteq Kinds
    BY DEF Kinds
  <1>7. e.position = c.position
    BY <1>1 DEF EntryOf
  <1>8. Means(p.doc, c.kind, found)
    BY <1>3, <1>4, <1>5 DEF Means, BuiltIn
  <1>9. QED
    BY <1>4, <1>6, <1>7, <1>8 DEF e, c

LEMMA StandsPlanMeans ==
    ASSUME Stands
    PROVE  PlanMeansContract
  <1>1. SUFFICES ASSUME NEW p \in plans, SelfContained(p.doc)
                 PROVE  /\ Len(p.entries) = Len(Clauses(p.doc))
                        /\ \A i \in DOMAIN p.entries :
                              LET e == p.entries[i]
                                  c == Clauses(p.doc)[i]
                              IN  /\ e.position = c.position
                                  /\ Means(p.doc, c.kind, Meaning(p.modules, e.query))
                                  /\ e.kind \in RegoKinds => Meaning(p.modules, e.query) # {}
    BY DEF PlanMeansContract
  <1>2. PlanOf(p)
    BY DEF Stands
  <1>3. IsSequence(p.entries) /\ Len(p.entries) = Len(Clauses(p.doc))
    BY <1>2 DEF PlanOf, Entries
  <1>4. DOMAIN p.entries = 1..Len(Clauses(p.doc))
    BY <1>3, SequenceIs
  <1>5. QED
    BY <1>1, <1>2, <1>3, <1>4, EntryMeans

\* Whatever was loaded before in the process, refused or not, the entries of a plan are
\* those of its contract's clauses, in order, and each evaluates what the contract and
\* its files say of its name.
THEOREM PlansMean == Spec => []PlanMeansContract
  BY AlwaysStands, StandsPlanMeans, PTL

-----------------------------------------------------------------------------
(* The hash.  Any two orders that sort a list have equal places at equal   *)
(* positions: were the place smaller in one of them, more entries would    *)
(* come before it there than have room in the other.                       *)

\* An order can be undone.
LEMMA OrderInverse ==
    ASSUME NEW n \in Nat, NEW o \in Orders(n)
    PROVE  \E r \in Orders(n) : \A i \in 1..n : o[r[i]] = i /\ r[o[i]] = i
  <1>1. IsFiniteSet(1..n)
    BY FS_Interval
  <1>2. o \in [1..n -> 1..n] /\ \A i, j \in 1..n : o[i] = o[j] => i = j
    BY DEF Orders
  <1>3. o \in Injection(1..n, 1..n)
    BY <1>2 DEF Injection, IsInjective
  <1>4. o \in Surjection(1..n, 1..n)
    BY <1>1, <1>3, FS_Injection
  <1>5. \A i \in 1..n : \E j \in 1..n : o[j] = i
    BY <1>4 DEF Surjection
  <1> DEFINE back(i) == CHOOSE j \in 1..n : o[j] = i
             r == [i \in 1..n |-> back(i)]
  <1>6. \A i \in 1..n : back(i) \in 1..n /\ o[back(i)] = i
    BY <1>5
  <1> HIDE DEF back
  <1>7. \A i \in 1..n : r[i] \in 1..n /\ o[r[i]] = i
    BY <1>6
  <1>8. r \in [1..n -> 1..n]
    BY <1>6
  <1> HIDE DEF r
  <1>9. \A i \in 1..n : r[o[i]] = i
    BY <1>2, <1>7
  <1>10. \A i, j \in 1..n : r[i] = r[j] => i = j
    BY <1>7
  <1>11. r \in Orders(n)
    BY <1>8, <1>10 DEF Orders
  <1>12. QED
    BY <1>7, <1>9, <1>11

LEMMA OrderOfOrder ==
    ASSUME NEW n \in Nat, NEW o \in Orders(n), NEW r \in Orders(n)
    PROVE  [i \in 1..n |-> o[r[i]]] \in Orders(n)
  BY DEF Orders

Shaped(e) == e = [kind |-> e.kind, position |-> e.position, params |-> e.params,
                  severity |-> e.severity, blocking |-> e.blocking, query |-> e.query]

LEMMA PlainIs ==
    ASSUME NEW e, Shaped(e)
    PROVE  Plain(e) = [kind |-> e.kind, position |-> e.position, params |-> Marshal(e.params),
                       severity |-> e.severity, blocking |-> e.blocking, query |-> e.query]
  BY DEF Shaped, Plain

LEMMA PlainTells ==
    ASSUME NEW e, Shaped(e), NEW f, Shaped(f)
    PROVE  /\ Plain(e) = Plain(f) => Encoded(e) = Encoded(f)
           /\ Encoded(e) = Encoded(f) /\ e.query = f.query => Plain(e) = Plain(f)
  <1>1. ASSUME Plain(e) = Plain(f) PROVE Encoded(e) = Encoded(f)
    <2>1. /\ Plain(e).kind = e.kind /\ Plain(e).position = e.position
          /\ Plain(e).params = Marshal(e.params)
          /\ Plain(e).severity = e.severity /\ Plain(e).blocking = e.blocking
      BY PlainIs
    <2>2. /\ Plain(f).kind = f.kind /\ Plain(f).position = f.position
          /\ Plain(f).params = Marshal(f.params)
          /\ Plain(f).severity = f.severity /\ Plain(f).blocking = f.blocking
      BY PlainIs
    <2>3. QED
      BY <1>1, <2>1, <2>2 DEF Encoded
  <1>2. ASSUME Encoded(e) = Encoded(f), e.query = f.query PROVE Plain(e) = Plain(f)
    <2>1. /\ e.kind = f.kind /\ e.position = f.position /\ Marshal(e.params) = Marshal(f.params)
          /\ e.severity = f.severity /\ e.blocking = f.blocking
      BY <1>2 DEF Encoded
    <2>2. QED
      BY <1>2, <2>1, PlainIs
  <1>3. QED
    BY <1>1, <1>2

\* The places of the entries of a plan are numbers.
Placed(es) == \A i \in 1..Len(es) : PlaceOf(es[i]) \in Nat

LEMMA SortedOneWay ==
    ASSUME NEW es, Len(es) \in Nat, Placed(es),
           NEW o \in Orders(Len(es)), Sorts(es, o), NEW r \in Orders(Len(es)), Sorts(es, r),
           NEW i \in 1..Len(es)
    PROVE  ~(PlaceOf(es[o[i]]) < PlaceOf(es[r[i]]))
  <1> DEFINE n == Len(es)
             a(j) == PlaceOf(es[o[j]])
             b(j) == PlaceOf(es[r[j]])
  <1>1. PICK u \in Orders(n) : \A j \in 1..n : r[u[j]] = j /\ u[r[j]] = j
    BY OrderInverse
  <1>2. /\ o \in [1..n -> 1..n] /\ r \in [1..n -> 1..n] /\ u \in [1..n -> 1..n]
        /\ \A j, k \in 1..n : o[j] = o[k] => j = k
        /\ \A j, k \in 1..n : u[j] = u[k] => j = k
    BY DEF Orders
  <1>3. \A j \in 1..n : a(j) \in Nat /\ b(j) \in Nat
    BY <1>2 DEF Placed
  <1>4. \A j, k \in 1..n : j < k => a(j) <= a(k) /\ b(j) <= b(k)
    BY DEF Sorts
  <1>5. \A j \in 1..n : u[o[j]] \in 1..n /\ a(j) = b(u[o[j]])
    <2>1. ASSUME NEW j \in 1..n PROVE u[o[j]] \in 1..n /\ r[u[o[j]]] = o[j]
      <3>1. o[j] \in 1..n
        BY <1>2
      <3> HIDE DEF n
      <3>2. QED
        BY <1>1, <1>2, <3>1
    <2>2. QED
      BY <2>1
  <1>6. \A j, k \in 1..n : u[o[j]] = u[o[k]] => j = k
    BY <1>2
  <1> HIDE DEF a, b, n
  <1>7. SUFFICES ASSUME a(i) < b(i) PROVE FALSE
    BY DEF a, b
  <1>8. n \in Nat /\ i \in 1..n
    BY DEF n
  <1>9. ASSUME NEW j \in 1..i PROVE u[o[j]] \in 1..(i - 1)
    <2>1. j \in 1..n /\ (j < i \/ j = i)
      BY <1>8
    <2>2. a(j) <= a(i)
      BY <1>3, <1>4, <1>8, <2>1
    <2> DEFINE m == u[o[j]]
    <2>3. m \in 1..n /\ a(j) = b(m)
      BY <1>5, <2>1
    <2> HIDE DEF m
    <2>4. b(m) < b(i)
      BY <1>3, <1>7, <1>8, <2>1, <2>2, <2>3
    <2>5. ~(m = i) /\ ~(i < m)
      BY <1>3, <1>4, <1>8, <2>3, <2>4
    <2>6. m \in 1..(i - 1)
      BY <1>8, <2>3, <2>5
    <2>7. QED
      BY <2>6 DEF m
  <1> DEFINE f == [j \in 1..i |-> u[o[j]]]
  <1>10. f \in [1..i -> 1..(i - 1)]
    BY <1>9
  <1>11. /\ IsFiniteSet(1..i) /\ Cardinality(1..i) = i
         /\ IsFiniteSet(1..(i - 1)) /\ Cardinality(1..(i - 1)) = i - 1
    <2>1. 1 \in Int /\ i \in Int /\ i - 1 \in Int /\ i >= 1
      BY <1>8
    <2>2. IsFiniteSet(1..i) /\ Cardinality(1..i) = i
      <3>1. Cardinality(1..i) = IF 1 > i THEN 0 ELSE i - 1 + 1
        BY <2>1, FS_Interval
      <3>2. QED
        BY <2>1, <3>1, FS_Interval
    <2>3. IsFiniteSet(1..(i - 1)) /\ Cardinality(1..(i - 1)) = i - 1
      <3> DEFINE m == i - 1
      <3>1. m \in Int /\ m >= 0
        BY <2>1
      <3> HIDE DEF m
      <3>2. IsFiniteSet(1..m) /\ Cardinality(1..m) = IF 1 > m THEN 0 ELSE m - 1 + 1
        BY <2>1, <3>1, FS_Interval
      <3>3. IsFiniteSet(1..m) /\ Cardinality(1..m) = m
        BY <3>1, <3>2
      <3>4. QED
        BY <3>3 DEF m
    <2>4. QED
      BY <2>2, <2>3
  <1> HIDE DEF f
  <1>12. i - 1 < i
    BY <1>8
  <1>13. \E j, k \in 1..i : j # k /\ f[j] = f[k]
    BY <1>10, <1>11, <1>12, FS_PigeonHole
  <1>14. PICK j \in 1..i, k \in 1..i : j # k /\ f[j] = f[k]
    BY <1>13
  <1>15. j \in 1..n /\ k \in 1..n /\ u[o[j]] = u[o[k]]
    BY <1>8, <1>14 DEF f
  <1>16. QED
    BY <1>6, <1>14, <1>15

\* Without ties it does not matter how the entries of one place are put in order.
LEMMA SortedAlike ==
    ASSUME NEW es, IsSequence(es), Placed(es), ~Tied(es), \A i \in 1..Len(es) : Shaped(es[i]),
           NEW o \in Orders(Len(es)), Sorts(es, o), NEW r \in Orders(Len(es)), Sorts(es, r)
    PROVE  Text(es, o) = Text(es, r)
  <1>1. Len(es) \in Nat /\ DOMAIN es = 1..Len(es)
    BY SequenceIs
  <1>2. ASSUME NEW i \in 1..Len(es) PROVE Encoded(es[o[i]]) = Encoded(es[r[i]])
    <2>1. o[i] \in 1..Len(es) /\ r[i] \in 1..Len(es)
      BY DEF Orders
    <2>2. /\ ~(PlaceOf(es[o[i]]) < PlaceOf(es[r[i]]))
          /\ ~(PlaceOf(es[r[i]]) < PlaceOf(es[o[i]]))
      BY <1>1, SortedOneWay
    <2>3. PlaceOf(es[o[i]]) \in Nat /\ PlaceOf(es[r[i]]) \in Nat
      BY <2>1 DEF Placed
    <2>4. PlaceOf(es[o[i]]) = PlaceOf(es[r[i]])
      BY <2>2, <2>3
    <2>5. Plain(es[o[i]]) = Plain(es[r[i]])
      BY <1>1, <2>1, <2>4 DEF Tied
    <2>6. QED
      BY <2>1, <2>5, PlainTells
  <1>3. QED
    BY <1>2 DEF Text

\* The query, which the hash leaves out, follows from the kind and the contract's clauses.
LEMMA QueryIs ==
    ASSUME NEW p, PlanOf(p), OwnNames(p.doc), NEW e \in ToSet(p.entries)
    PROVE  /\ e.kind \in Kinds => e.query = IF e.kind \in RegoKinds THEN Query(e.kind) ELSE e.kind
           /\ e.kind \notin Kinds => \E cc \in Own(p.doc) : cc.name = e.kind
           /\ \A cc \in Own(p.doc) : cc.name = e.kind => e.query = cc.query
  <1> DEFINE es == p.entries
             n == Len(Clauses(p.doc))
  <1>1. IsSequence(es) /\ Len(es) = n /\ \A i \in 1..n : EntryOf(p.doc, Clauses(p.doc)[i], es[i])
    BY DEF PlanOf, Entries
  <1>2. ToSet(es) = {es[i] : i \in 1..n}
    BY <1>1, SequenceIs
  <1>3. PICK i \in 1..n : e = es[i]
    BY <1>2
  <1>4. EntryOf(p.doc, Clauses(p.doc)[i], e)
    BY <1>1, <1>3
  <1>5. i \in DOMAIN Clauses(p.doc)
    BY ClausesAre, SequenceIs DEF PlanOf
  <1>6. Clauses(p.doc)[i].kind \in Kinds \cup DOMAIN aliases \cup {cc.name : cc \in Own(p.doc)}
    BY <1>5 DEF OwnNames
  <1>7. e.kind \notin Kinds => \E cc \in Own(p.doc) : cc.name = e.kind
    BY <1>4, <1>6, KindsAre DEF EntryOf, KindNamed
  <1>8. QED
    BY <1>4, <1>7 DEF EntryOf

LEMMA PlanIs ==
    ASSUME NEW p, PlanOf(p)
    PROVE  /\ IsSequence(p.entries) /\ Placed(p.entries)
           /\ \A i \in 1..Len(p.entries) : Shaped(p.entries[i])
           /\ \E o \in Orders(Len(p.entries)) :
                 Sorts(p.entries, o) /\ p.hash = computeHash(p.entries, o, p.doc)
  <1> DEFINE es == p.entries
  <1>1. IsSequence(es) /\ \A i \in 1..Len(es) : EntryOf(p.doc, Clauses(p.doc)[i], es[i])
    BY DEF PlanOf, Entries
  <1>2. Placed(es)
    <2>1. \A i \in 1..Len(es) : <<es[i].kind, es[i].params>> \in Keys
      BY <1>1 DEF EntryOf
    <2>2. \A k \in Keys : Place(k[1], k[2]) \in Nat
      BY PlaceAssumption
    <2>3. QED
      BY <2>1, <2>2 DEF Placed, PlaceOf
  <1>3. \A i \in 1..Len(es) : Shaped(es[i])
    BY <1>1 DEF EntryOf, Shaped
  <1>4. QED
    BY <1>1, <1>2, <1>3 DEF PlanOf

\* The same clauses and values, one hash.
LEMMA ReorderedSameHash ==
    ASSUME NEW p, PlanOf(p), ~Tied(p.entries), NEW q, PlanOf(q),
           Reordered(p.entries, q.entries), p.doc.values = q.doc.values
    PROVE  p.hash = q.hash
  <1> DEFINE es == p.entries
             fs == q.entries
             n == Len(es)
  <1>1. /\ IsSequence(es) /\ Placed(es) /\ \A i \in 1..n : Shaped(es[i])
        /\ IsSequence(fs)
    BY PlanIs
  <1>2. n \in Nat /\ Len(fs) = n
    BY <1>1, SequenceIs DEF Reordered
  <1>3. PICK o \in Orders(n) : Sorts(es, o) /\ p.hash = computeHash(es, o, p.doc)
    BY PlanIs
  <1>4. PICK r \in Orders(n) : Sorts(fs, r) /\ q.hash = computeHash(fs, r, q.doc)
    BY <1>2, PlanIs
  <1>5. PICK b \in Orders(n) : \A i \in 1..n : fs[i] = es[b[i]]
    BY DEF Reordered
  <1> DEFINE t == [i \in 1..n |-> b[r[i]]]
  <1>6. t \in Orders(n)
    BY <1>2, OrderOfOrder
  <1>7. \A i \in 1..n : fs[r[i]] = es[t[i]]
    BY <1>5 DEF Orders
  <1> HIDE DEF t
  <1>8. Sorts(es, t)
    BY <1>2, <1>4, <1>7 DEF Sorts
  <1>9. Text(fs, r) = Text(es, t)
    BY <1>2, <1>7 DEF Text
  <1>10. Text(es, o) = Text(es, t)
    BY <1>1, <1>3, <1>6, <1>8, SortedAlike
  <1>11. ToSet(es) = ToSet(fs)
    <2>1. ToSet(es) = {es[i] : i \in 1..n} /\ ToSet(fs) = {fs[i] : i \in 1..n}
      BY <1>1, <1>2, SequenceIs
    <2>2. PICK c \in Orders(n) : \A i \in 1..n : b[c[i]] = i /\ c[b[i]] = i
      BY <1>2, OrderInverse
    <2>3. \A i \in 1..n : b[i] \in 1..n /\ c[i] \in 1..n
      BY DEF Orders
    <2>4. \A i \in 1..n : es[i] = fs[c[i]]
      BY <1>5, <2>2, <2>3
    <2>5. QED
      BY <1>5, <2>1, <2>3, <2>4
  <1>12. QED
    BY <1>3, <1>4, <1>9, <1>10, <1>11 DEF computeHash, Marshals

\* One hash, the same clauses and values.
LEMMA SameHashAlike ==
    ASSUME NEW p, PlanOf(p), Written(p), OwnNames(p.doc),
           NEW q, PlanOf(q), OwnNames(q.doc), Own(p.doc) = Own(q.doc), p.hash = q.hash
    PROVE  /\ Alike(p.entries, q.entries)
           /\ {Marshal(v) : v \in p.doc.values} = {Marshal(v) : v \in q.doc.values}
  <1> DEFINE es == p.entries
             fs == q.entries
             n == Len(es)
  <1>1. /\ IsSequence(es) /\ \A i \in 1..Len(es) : Shaped(es[i])
        /\ IsSequence(fs) /\ \A i \in 1..Len(fs) : Shaped(fs[i])
    BY PlanIs
  <1>2. /\ n \in Nat /\ Len(fs) \in Nat
        /\ ToSet(es) = {es[i] : i \in 1..n} /\ ToSet(fs) = {fs[i] : i \in 1..Len(fs)}
    BY <1>1, SequenceIs
  <1>3. PICK o \in Orders(n) : Sorts(es, o) /\ p.hash = computeHash(es, o, p.doc)
    BY PlanIs
  <1>4. PICK r \in Orders(Len(fs)) : Sorts(fs, r) /\ q.hash = computeHash(fs, r, q.doc)
    BY PlanIs
  <1> DEFINE vs == {Marshal(v) : v \in p.doc.values}
             ws == {Marshal(v) : v \in q.doc.values}
  <1>5. p.hash = <<Text(es, o), vs>>
    BY <1>3 DEF computeHash, Written
  <1>6. q.hash = <<Text(fs, r), ws>> \/ q.hash = <<>>
    BY <1>4 DEF computeHash
  <1> HIDE DEF vs, ws
  <1>7. Text(es, o) = Text(fs, r) /\ vs = ws
    <2>1. <<Text(es, o), vs>> # <<>>
      OBVIOUS
    <2>2. QED
      BY <1>5, <1>6, <2>1
  <1>8. Len(fs) = n
    <2>1. DOMAIN Text(es, o) = 1..n /\ DOMAIN Text(fs, r) = 1..Len(fs)
      BY DEF Text
    <2>2. 1..n = 1..Len(fs)
      BY <1>7, <2>1
    <2>3. QED
      BY <1>2, <2>2
  <1>9. \A i \in 1..n : Encoded(es[o[i]]) = Encoded(fs[r[i]])
    <2>1. SUFFICES ASSUME NEW i \in 1..n PROVE Encoded(es[o[i]]) = Encoded(fs[r[i]])
      OBVIOUS
    <2>2. Text(es, o)[i] = Encoded(es[o[i]])
      BY DEF Text
    <2>3. Text(fs, r)[i] = Encoded(fs[r[i]])
      BY <1>8 DEF Text
    <2>4. QED
      BY <1>7, <2>2, <2>3
  <1>10. PICK u \in Orders(n) : \A i \in 1..n : r[u[i]] = i
    BY <1>2, <1>8, OrderInverse
  <1> DEFINE t == [i \in 1..n |-> o[u[i]]]
  <1>11. t \in Orders(n)
    BY <1>2, OrderOfOrder
  <1>12. \A i \in 1..n : t[i] \in 1..n /\ Encoded(fs[i]) = Encoded(es[t[i]])
    BY <1>9, <1>10 DEF Orders
  <1> HIDE DEF t
  <1>13. ASSUME NEW i \in 1..n PROVE Plain(fs[i]) = Plain(es[t[i]])
    <2> DEFINE e == es[t[i]]
               f == fs[i]
    <2>1. e \in ToSet(es) /\ f \in ToSet(fs) /\ Shaped(e) /\ Shaped(f)
      BY <1>1, <1>2, <1>8, <1>12
    <2>2. Encoded(e) = Encoded(f)
      BY <1>12
    <2> HIDE DEF e, f
    <2>3. e.kind = f.kind
      BY <2>2 DEF Encoded
    <2>4. e.query = f.query
      <3>1. CASE e.kind \in Kinds
        BY <2>1, <2>3, <3>1, QueryIs
      <3>2. CASE e.kind \notin Kinds
        <4>1. PICK cc \in Own(p.doc) : cc.name = e.kind
          BY <2>1, <3>2, QueryIs
        <4>2. e.query = cc.query
          BY <2>1, <4>1, QueryIs
        <4>3. f.query = cc.query
          BY <2>1, <2>3, <4>1, QueryIs
        <4>4. QED
          BY <4>2, <4>3
      <3>3. QED
        BY <3>1, <3>2
    <2>5. Plain(e) = Plain(f)
      BY <2>1, <2>2, <2>4, PlainTells
    <2>6. QED
      BY <2>5 DEF e, f
  <1>14. Alike(es, fs)
    BY <1>8, <1>11, <1>13 DEF Alike
  <1>15. QED
    BY <1>7, <1>14 DEF vs, ws

LEMMA StandsHashTells ==
    ASSUME Stands
    PROVE  HashTellsPlans
  <1>1. \A p \in plans : PlanOf(p)
    BY DEF Stands
  <1>2. ASSUME NEW p \in plans, NEW q \in plans, ~Tied(p.entries),
               Reordered(p.entries, q.entries), p.doc.values = q.doc.values
        PROVE  p.hash = q.hash
    BY <1>1, <1>2, ReorderedSameHash
  <1>3. ASSUME NEW p \in plans, NEW q \in plans, p.hash = q.hash, Written(p),
               Own(p.doc) = Own(q.doc), OwnNames(p.doc), OwnNames(q.doc)
        PROVE  /\ Alike(p.entries, q.entries)
               /\ {Marshal(v) : v \in p.doc.values} = {Marshal(v) : v \in q.doc.values}
    BY <1>1, <1>3, SameHashAlike
  <1>4. QED
    BY <1>2, <1>3 DEF HashTellsPlans

\* Contracts with the same clauses, none of which sort alike and differ, and the same
\* values have one hash whatever the order; and one hash means, for contracts that
\* declare the same custom kinds and use no others, the same clauses and values.
THEOREM HashTells == Spec => []HashTellsPlans
  BY AlwaysStands, StandsHashTells, PTL

=============================================================================
