------------------------------ MODULE Compile ------------------------------
(***************************************************************************)
(* internal/contract/contract.go: contracts loaded one after the other by  *)
(* one process.  A load registers the custom kinds the contract declares,  *)
(* in a registry that outlives it, binds the declared values, lowers the   *)
(* clauses onto kinds and fingerprints the plan.  It stops at the first    *)
(* error; what it registered before stays.                                 *)
(*                                                                         *)
(* A policy module is [rules, imports]: what it contributes to each rule   *)
(* it defines, and the rules it needs; OPA lets several modules contribute *)
(* to one rule.  A parameter is [texts, as]: the texts in it, those of an  *)
(* expression being its root names, and how the contract writes it.  Error *)
(* texts, labels and Explain are left out.                                 *)
(***************************************************************************)
EXTENDS Registry, Sequences, FiniteSets, SequencesExt, FiniteSetsExt

CONSTANTS
    Files,      \* the policy modules beside the contracts, by path
    Rubrics,    \* the rubric files beside the contracts, by path
    Documents,  \* the contracts that may be loaded
    MaxLoads,   \* at most so many loads
    Place(_, _),  \* where a kind with parameters sorts: by the kind, then by fmt.Sprint of
                  \* the parameters, so that what prints alike has one place
    Marshal(_),   \* the JSON of a clause's parameters, or of a value's declaration
    NoJSON        \* where there is none: an infinite number, a key that is not a text

IsSequence(s) == s \in Seq(ToSet(s))

ASSUME DocumentsAssumption ==
    \A d \in Documents : /\ IsSequence(d.clauses) /\ IsSequence(d.invariants)
                         /\ IsSequence(d.must) /\ IsSequence(d.must_not)
\* A rule's name begins with "data.".
ASSUME RulesAssumption == \A f \in DOMAIN Files : DOMAIN Files[f].rules \cap Kinds = {}
ASSUME LoadsAssumption == MaxLoads \in Nat

VARIABLES
    registered,  \* the registry's custom kinds: name -> [query, severity]
    doc,         \* the contract being loaded
    stage,       \* "idle", or what comes next: "custom", "values", "clauses"
    done,        \* the items of the stage that are done
    modules,     \* the modules of the load's engine
    entries,     \* the plan's entries so far
    plans,       \* the plans compiled: [doc, modules, entries, hash]
    loads        \* the number of loads begun

vars == <<registered, doc, stage, done, modules, entries, plans, loads>>
load == <<doc, stage, done, modules, entries>>

-----------------------------------------------------------------------------
(* The policy engine.                                                      *)

tool == "policy/tool.rego"
order == "policy/order.rego"
match == "policy/match.rego"

Query(k) ==
    CASE k = "tool.allowlist"  -> "data.axda.tool.allowlist_violation"
      [] k = "tool.denylist"   -> "data.axda.tool.denylist_violation"
      [] k = "tool.call_limit" -> "data.axda.tool.call_limit_violation"
      [] k = "order.requires_precondition" -> "data.axda.order.requires_precondition_violation"
      [] k = "order.before"    -> "data.axda.order.before_violation"

Rules(path) ==
    CASE path = tool  -> {Query(k) : k \in {"tool.allowlist", "tool.denylist", "tool.call_limit"}}
      [] path = order -> {Query(k) : k \in {"order.requires_precondition", "order.before"}}
      [] path = match -> {"data.axda.match.matches"}

\* The embedded modules.
Embedded ==
    [path \in {tool, order, match} |->
        [rules   |-> [r \in Rules(path) |-> "built in"],
         imports |-> IF path = match THEN {} ELSE Rules(match)]]

\* A module of the same name is replaced.
AddModule(ms, name, body) == [n \in DOMAIN ms \cup {name} |-> IF n = name THEN body ELSE ms[n]]

Defined(ms) == UNION {DOMAIN ms[n].rules : n \in DOMAIN ms}

\* A query is compiled together with all modules; it need not be defined itself.
Check(ms) == \A n \in DOMAIN ms : ms[n].imports \subseteq Defined(ms)

\* What a query evaluates: every contribution to its rule.  None is a pass.
Meaning(ms, query) == {ms[n].rules[query] : n \in {n \in DOMAIN ms : query \in DOMAIN ms[n].rules}}

-----------------------------------------------------------------------------
(* Kinds.                                                                  *)

\* The kind a name stands for, "" if none.
Lookup(name) ==
    IF name \in Kinds \cup DOMAIN registered THEN name
    ELSE IF name \in DOMAIN aliases THEN aliases[name] ELSE ""

Custom(k) == k \notin Kinds

\* A custom clause: [name, namespace, engine, source, query, severity], where
\* namespace is what precedes the first dot of the name, "" if there is none ("invariant"
\* stands for every one that begins with it).
reservedNamespace(cc) ==
    cc.namespace \in {"tool", "order", "content", "budget", "grounding", "quality", "invariant"}

\* Mutant of Registrable: a name may be registered again.
Registrable_Again(cc) ==
    /\ cc.name # "" /\ cc.namespace # ""
    /\ ~reservedNamespace(cc)
    /\ cc.engine = "rego" /\ cc.source # "" /\ cc.query # ""
    /\ cc.source \in DOMAIN Files
    /\ Check(AddModule(modules, cc.source, Files[cc.source]))

\* The checks of registerCustom, in the engine with the clause's module.
Registrable(cc) ==
    /\ cc.name # "" /\ cc.namespace # ""
    /\ ~reservedNamespace(cc)
    /\ Lookup(cc.name) = ""
    /\ cc.engine = "rego" /\ cc.source # "" /\ cc.query # ""
    /\ cc.source \in DOMAIN Files
    /\ Check(AddModule(modules, cc.source, Files[cc.source]))

-----------------------------------------------------------------------------
(* Clauses.                                                                *)

\* A clause as it is written: [kind, position, params, severity].
Clause(kind, position, params) ==
    [kind |-> kind, position |-> position, params |-> params, severity |-> ""]

At(cs, position) ==
    [i \in DOMAIN cs |-> [kind |-> cs[i].kind, position |-> position,
                          params |-> cs[i].params, severity |-> cs[i].severity]]

\* A contract's clauses, in the order Compile adds them.
Clauses(d) ==
    (IF d.allowed.texts = {} THEN <<>> ELSE <<Clause("tool.allowlist", "spec", [tools |-> d.allowed])>>)
    \o (IF d.denied.texts = {} THEN <<>> ELSE <<Clause("tool.denylist", "spec", [tools |-> d.denied])>>)
    \o [i \in DOMAIN d.invariants |-> Clause("invariant", "spec", [expr |-> d.invariants[i]])]
    \o At(d.must, "must") \o At(d.must_not, "must_not")

\* checkInvariantIdentifiers
Declares(d, c) == c.kind = "invariant" /\ c.position = "spec" =>
                      c.params["expr"].texts \subseteq {v.root : v \in d.values}

HasRubricFile(params) == "rubric_file" \in DOMAIN params /\ params["rubric_file"].as # ""

\* The rubric file's text in the place of its name.
resolveRubricFile(params) ==
    IF ~HasRubricFile(params) THEN params
    ELSE [n \in (DOMAIN params \ {"rubric_file"}) \cup {"rubric"} |->
             IF n = "rubric" THEN Rubrics[params["rubric_file"].as] ELSE params[n]]

RubricThere(params) == HasRubricFile(params) => params["rubric_file"].as \in DOMAIN Rubrics

\* The kinds and parameters that a plan's entries may have.
KindNamed(name) == IF name \in DOMAIN aliases THEN aliases[name] ELSE name

Keys ==
    {<<KindNamed(c.kind), resolveRubricFile(c.params)>> :
        c \in {c \in UNION {ToSet(Clauses(d)) : d \in Documents} : RubricThere(c.params)}}

\* No place is that of two kinds.
ASSUME PlaceAssumption ==
    \A a, b \in Keys : /\ Place(a[1], a[2]) \in Nat
                       /\ Place(a[1], a[2]) = Place(b[1], b[2]) => a[1] = b[1]

allows(k, position) ==
    IF Custom(k) THEN position \in {"must", "must_not"} ELSE position \in Positions(k)

\* A clause that Plan.add takes.
Addable(d, c) ==
    LET k == Lookup(c.kind) IN
    /\ c.kind # "" /\ k # ""
    /\ Declares(d, c)
    /\ RubricThere(c.params)
    /\ allows(k, c.position)
    /\ ~Custom(k) => RequiredParams(k) \subseteq DOMAIN resolveRubricFile(c.params)

Judged(k) == ~Custom(k) /\ ClassOf(k) = Probabilistic

SeverityOf(k, c) ==
    CASE c.severity # "" -> c.severity
      [] c.severity = "" /\ Judged(k) -> "minor"
      [] c.severity = "" /\ ~Judged(k) /\ (c.position = "must_not" \/ c.kind = "tool.allowlist") -> "critical"
      [] OTHER -> IF Custom(k) THEN registered[k].severity ELSE DefaultSeverity(k)

BlockingOf(k, c) ==
    IF "blocking" \in DOMAIN c.params /\ c.params["blocking"].texts \in {{"true"}, {"false"}}
    THEN c.params["blocking"].texts = {"true"} ELSE ~Judged(k)

\* The entry a clause becomes.  It keeps the kind it found: query is what it will
\* evaluate, or the built-in evaluator's kind.
Lowered(c) ==
    LET k == Lookup(c.kind)
    IN  [kind |-> k, position |-> c.position, params |-> resolveRubricFile(c.params),
         severity |-> SeverityOf(k, c), blocking |-> BlockingOf(k, c),
         query |-> IF Custom(k) THEN registered[k].query
                   ELSE IF k \in RegoKinds THEN Query(k) ELSE k]

\* Mutant of Encoded: the severity is left out.
Encoded_NoSeverity(e) ==
    [kind |-> e.kind, position |-> e.position, params |-> Marshal(e.params), blocking |-> e.blocking]

\* What is written of an entry.
Encoded(e) ==
    [kind |-> e.kind, position |-> e.position, params |-> Marshal(e.params),
     severity |-> e.severity, blocking |-> e.blocking]

PlaceOf(e) == Place(e.kind, e.params)

\* The orders into which n entries can be put.
Orders(n) == {o \in [1..n -> 1..n] : \A i, j \in 1..n : o[i] = o[j] => i = j}

\* Mutant of Sorts: the entries stay in the order the contract has them.
Sorts_Not(es, o) == o = [i \in 1..Len(es) |-> i]

\* The order o sorts the entries by place; entries of one place come in any order.
Sorts(es, o) ==
    \A i, j \in 1..Len(es) : i < j => PlaceOf(es[o[i]]) <= PlaceOf(es[o[j]])

Text(es, o) == [i \in 1..Len(es) |-> Encoded(es[o[i]])]

Marshals(es, d) == /\ \A e \in ToSet(es) : Marshal(e.params) # NoJSON
                   /\ \A v \in d.values : Marshal(v) # NoJSON

\* SHA-256 of the entries in order o and of the values; of nothing where they have no JSON.
computeHash(es, o, d) ==
    IF Marshals(es, d) THEN <<Text(es, o), {Marshal(v) : v \in d.values}>> ELSE <<>>

-----------------------------------------------------------------------------
(* The load.                                                               *)

NoDocument == CHOOSE d \in Documents : TRUE

Init ==
    /\ registered = <<>>
    /\ doc = NoDocument /\ stage = "idle" /\ done = 0 /\ modules = <<>> /\ entries = <<>>
    /\ plans = {}
    /\ loads = 0

\* Load: a file that is no contract of this version is refused at once.
Begin ==
    /\ stage = "idle" /\ loads < MaxLoads
    /\ \E d \in {d \in Documents : d.readable} : doc' = d
    /\ stage' = "custom"
    /\ modules' = Embedded
    /\ loads' = loads + 1
    /\ UNCHANGED <<registered, done, entries, plans>>

\* Compile returns.
Return == doc' = NoDocument /\ stage' = "idle" /\ done' = 0 /\ modules' = <<>> /\ entries' = <<>>

Refuse == Return /\ UNCHANGED <<registered, plans, loads>>

RegisterCustom ==
    /\ stage = "custom" /\ done < Len(doc.clauses)
    /\ LET cc == doc.clauses[done + 1]
       IN  /\ Registrable(cc)
           /\ modules' = AddModule(modules, cc.source, Files[cc.source])
           /\ registered' = [n \in DOMAIN registered \cup {cc.name} |->
                 IF n = cc.name
                 THEN [query |-> cc.query, severity |-> IF cc.severity = "" THEN "major" ELSE cc.severity]
                 ELSE registered[n]]
    /\ done' = done + 1
    /\ UNCHANGED <<doc, stage, entries, plans, loads>>

RefuseCustom ==
    /\ stage = "custom" /\ done < Len(doc.clauses)
    /\ ~Registrable(doc.clauses[done + 1])
    /\ Refuse

bindValues ==
    /\ stage = "custom" /\ done = Len(doc.clauses)
    /\ \A v \in doc.values : v.valid
    /\ stage' = "clauses"
    /\ done' = 0
    /\ UNCHANGED <<registered, doc, modules, entries, plans, loads>>

RefuseValues ==
    /\ stage = "custom" /\ done = Len(doc.clauses)
    /\ \E v \in doc.values : ~v.valid
    /\ Refuse

add ==
    /\ stage = "clauses" /\ done < Len(Clauses(doc))
    /\ LET c == Clauses(doc)[done + 1]
       IN  /\ Addable(doc, c)
           /\ entries' = Append(entries, Lowered(c))
    /\ done' = done + 1
    /\ UNCHANGED <<registered, doc, stage, modules, plans, loads>>

RefuseClause ==
    /\ stage = "clauses"
    /\ \/ done < Len(Clauses(doc)) /\ ~Addable(doc, Clauses(doc)[done + 1])
       \/ Clauses(doc) = <<>>   \* the contract declares no clauses
    /\ Refuse

Finish ==
    /\ stage = "clauses" /\ done = Len(Clauses(doc)) /\ entries # <<>>
    /\ \E o \in {o \in Orders(Len(entries)) : Sorts(entries, o)} :
          plans' = plans \cup {[doc |-> doc, modules |-> modules, entries |-> entries,
                                hash |-> computeHash(entries, o, doc)]}
    /\ Return
    /\ UNCHANGED <<registered, loads>>

\* A new process; the reports of the old one remain.
Restart ==
    /\ stage = "idle" /\ registered # <<>>
    /\ registered' = <<>>
    /\ UNCHANGED <<load, plans, loads>>

Next == Begin \/ RegisterCustom \/ RefuseCustom \/ bindValues \/ RefuseValues
        \/ add \/ RefuseClause \/ Finish \/ Restart

Spec == Init /\ [][Next]_vars

-----------------------------------------------------------------------------
(* Properties.                                                             *)

Own(d) == ToSet(d.clauses)
Sources(d) == {cc.source : cc \in Own(d)}

\* Each name is a built-in kind's, or one that the contract declares itself.
OwnNames(d) ==
    \A i \in DOMAIN Clauses(d) :
        Clauses(d)[i].kind \in Kinds \cup DOMAIN aliases \cup {cc.name : cc \in Own(d)}

\* So that the contract says for itself what its custom names mean, in files that
\* keep away from the embedded modules.
SelfContained(d) ==
    /\ OwnNames(d)
    /\ \A s \in Sources(d) : /\ s \notin DOMAIN Embedded
                             /\ DOMAIN Files[s].rules \cap Defined(Embedded) = {}

\* The embedded policy and the contract's own files.
Beside(d) == [n \in DOMAIN Embedded \cup Sources(d) |-> IF n \in Sources(d) THEN Files[n] ELSE Embedded[n]]

\* What the entry's clause is to evaluate, read off the contract alone.
Means(d, name, found) ==
    /\ \A cc \in Own(d) : cc.name = name => found = Meaning(Beside(d), cc.query)
    /\ name \in Kinds \cup DOMAIN aliases => found \subseteq {"built in"}

\* Whatever was loaded or refused before in the process, a plan has one entry for
\* each clause of its contract, in order, and the entry evaluates what the
\* contract's own files and the embedded policy say of its name: no other
\* contract's kind, no module left over, no second declaration comes between.
PlanMeansContract ==
    \A p \in plans : SelfContained(p.doc) =>
        /\ Len(p.entries) = Len(Clauses(p.doc))
        /\ \A i \in DOMAIN p.entries :
              LET e == p.entries[i]
                  c == Clauses(p.doc)[i]
              IN  /\ e.position = c.position
                  /\ Means(p.doc, c.kind, Meaning(p.modules, e.query))
                  /\ e.kind \in RegoKinds => Meaning(p.modules, e.query) # {}

\* What an entry demands, but for what JSON does not tell apart, such as 1 and 1.0.
Plain(e) == [e EXCEPT !.params = Marshal(e.params)]

\* Entries of one place that differ: parameters that print alike, or one clause twice with
\* another position, severity or blocking.
Tied(es) == \E i, j \in DOMAIN es : PlaceOf(es[i]) = PlaceOf(es[j]) /\ Plain(es[i]) # Plain(es[j])

\* The clauses of one plan are those of the other in another order.
Reordered(es, fs) ==
    Len(es) = Len(fs) /\ \E o \in Orders(Len(es)) : \A i \in 1..Len(es) : fs[i] = es[o[i]]

\* They demand the same.
Alike(es, fs) ==
    Len(es) = Len(fs) /\ \E o \in Orders(Len(es)) : \A i \in 1..Len(es) : Plain(fs[i]) = Plain(es[o[i]])

Written(p) == Marshals(p.entries, p.doc)

\* Plan hashes tell reports apart.  Contracts with the same values and the same clauses,
\* however they are ordered and by whichever names they are called, have one hash,
\* whatever order the sort leaves them in, unless clauses that sort alike differ; and plans
\* of one hash, of contracts that declare the same custom kinds and use no others, have
\* the same clauses and values.
HashTellsPlans ==
    \A p, q \in plans :
        /\ Reordered(p.entries, q.entries) /\ p.doc.values = q.doc.values /\ ~Tied(p.entries) =>
              p.hash = q.hash
        /\ /\ p.hash = q.hash /\ Written(p)
           /\ Own(p.doc) = Own(q.doc) /\ OwnNames(p.doc) /\ OwnNames(q.doc)
           => /\ Alike(p.entries, q.entries)
              /\ {Marshal(v) : v \in p.doc.values} = {Marshal(v) : v \in q.doc.values}

-----------------------------------------------------------------------------
(* What the repository's documents say and the code does not do.           *)

\* "a contract cannot shadow `tool.allowlist` and change what an existing clause
\* means": a built-in policy clause evaluates the built-in policy.
BuiltinsKeepTheirMeaning ==
    \A p \in plans : \A i \in DOMAIN p.entries :
        p.entries[i].kind \in RegoKinds => Meaning(p.modules, p.entries[i].query) = {"built in"}
=============================================================================
