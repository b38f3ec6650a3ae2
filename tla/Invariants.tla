----------------------------- MODULE Invariants -----------------------------
(***************************************************************************)
(* An invariant clause over a trace that grows: tool calls that have ended *)
(* are recorded one by one, and take their place in the Episode by when    *)
(* they started, so that a call that took long comes in between others.    *)
(* With them, and with the model calls, the Episode's metrics change.      *)
(* The calls are external; Values is the code.                             *)
(***************************************************************************)
EXTENDS Values

CONSTANTS
    Specs,     \* the declarations a contract may make for each name
    Refs,      \* the names the expression refers to, sorted
    Expr,      \* the expression
    Calls,     \* what a recorded call may hold
    Measures,  \* what else a trace may have been measured to have: its metrics but
               \* for those that follow from its tool calls
    Patterns,  \* patterns an author may write
    MaxCalls   \* at most so many calls

ASSUME RefsAssumption  ==
    /\ Refs \in Seq(STRING) /\ ToSet(Refs) = DOMAIN Specs
    /\ \A i, j \in DOMAIN Refs : Refs[i] = Refs[j] => i = j
ASSUME SpecsAssumption ==
    \A n \in DOMAIN Specs : \A s \in Specs[n] :
        s.tool \in Seq(STRING) /\ s.path \in Seq(Keys) /\ AtMostOne(s.literal) /\ AtMostOne(s.default)
ASSUME CallsAssumption ==
    \A c \in Calls :
        /\ c = [span |-> c.span, name |-> c.name, args |-> c.args, argsCaptured |-> c.argsCaptured,
                result |-> c.result, resultCaptured |-> c.resultCaptured, error |-> c.error]
        /\ c.name \in Seq(STRING) /\ AtMostOne(c.args) /\ AtMostOne(c.result)
ASSUME PatternsAssumption == Patterns \subseteq Seq(STRING)
ASSUME BoundAssumption == MaxCalls \in Nat /\ maxCombinations \in Nat \ {0}

VARIABLES
    specs,     \* the contract's declarations
    calls,     \* the calls of the Episode, in the order they started
    measured,  \* what else it has been measured to have
    result     \* what the clause comes to on them

vars == <<specs, calls, measured, result>>

\* The end of BuildEpisode, and the names that declarations give the metrics.
MetricsOf(cs, m) ==
    [k \in knownMetrics |->
        CASE k = "tool_calls"   -> Len(cs)
          [] k = "tool_errors"  -> Cardinality({i \in DOMAIN cs : cs[i].error})
          [] k = "steps"        -> m.model_calls + Len(cs)
          [] k = "total_tokens" -> m.input_tokens + m.output_tokens
          [] OTHER              -> m[k]]

Episode(cs, m) == [tool_calls |-> cs, metrics |-> MetricsOf(cs, m)]

Evaluated(cs, m) == evalInvariant(Episode(cs, m), specs, Expr, Refs)

\* Compile refuses any other contract.
Init ==
    /\ specs \in {f \in [DOMAIN Specs -> UNION {Specs[n] : n \in DOMAIN Specs}] :
                     \A n \in DOMAIN Specs : f[n] \in Specs[n] /\ validateValueSpec(f[n])}
    /\ calls = <<>>
    /\ measured \in Measures
    /\ result = Evaluated(<<>>, measured)

\* What is counted or runs on only grows; a percentile may go either way.
Later ==
    {m \in Measures : \A k \in {"model_calls", "input_tokens", "output_tokens", "duration_ms"} :
                          measured[k] <= m[k]}

\* A tool call has ended, and maybe others; its span has the number of its recording.
Record ==
    /\ Len(calls) < MaxCalls
    /\ \E c \in Calls, k \in 1..(Len(calls) + 1), m \in Later :
          LET cs == InsertAt(calls, k, [c EXCEPT !.span = Len(calls) + 1])
          IN  calls' = cs /\ measured' = m /\ result' = Evaluated(cs, m)
    /\ UNCHANGED specs

\* Anything else has ended: a model call, a nested span.
Measure ==
    /\ \E m \in Later \ {measured} : measured' = m /\ result' = Evaluated(calls, m)
    /\ UNCHANGED <<specs, calls>>

Next == Record \/ Measure

Spec == Init /\ [][Next]_vars

-----------------------------------------------------------------------------
(* What the contract means.                                                *)

Names == ToSet(Refs)

FromCalls(n) == specs[n].from \in {"tool_call", "tool_result"}

\* The places of the calls that hold a value for n.
Holders(n) ==
    {i \in DOMAIN calls : /\ FromCalls(n) /\ matchName(specs[n].tool, calls[i].name)
                          /\ Extracted(specs[n], calls[i]) # {}}

\* Those that the cardinality chooses.
Chosen(n) ==
    {i \in Holders(n) : \A j \in Holders(n) :
        /\ specs[n].cardinality = "first" => i <= j
        /\ specs[n].cardinality = "last" => j <= i}

\* The value of a metric or a literal.
Given(n) ==
    IF specs[n].from = "metric" THEN {Number(MetricsOf(calls, measured)[specs[n].metric])}
    ELSE IF specs[n].literal = {} THEN {Null} ELSE specs[n].literal

Found(n) == IF FromCalls(n) THEN UNION {Extracted(specs[n], calls[i]) : i \in Chosen(n)} ELSE Given(n)

\* The values n may stand for.
Operands(n) == IF Found(n) = {} THEN specs[n].default ELSE Found(n)

Overcounted ==
    {n \in Names : specs[n].cardinality = "exactly_one" /\ Cardinality(Holders(n)) > 1}

\* Every way to read the expression's names.
Readings == {f \in [Names -> UNION {Operands(n) : n \in Names}] :
                \A n \in Names : f[n] \in Operands(n)}

Broken == {f \in Readings : Constraint(Expr, f) = "false"}

\* What a pattern is documented to match: itself, with a leading and a trailing
\* wildcard.
Glob(pattern, name) ==
    LET from == IF Head(pattern) = Star THEN 2 ELSE 1
        to   == Len(pattern) - (IF Last(pattern) = Star THEN 1 ELSE 0)
        core == SubSeq(pattern, from, to)
    IN  \E i \in 0..(Len(name) - Len(core)) :
            /\ SubSeq(name, i + 1, i + Len(core)) = core
            /\ from = 1 => i = 0
            /\ to = Len(pattern) => i = Len(name) - Len(core)

-----------------------------------------------------------------------------
(* Properties.                                                             *)

TypeOK ==
    /\ \A n \in Names : specs[n] \in Specs[n]
    /\ Len(calls) <= MaxCalls
    /\ {calls[i].span : i \in DOMAIN calls} = 1..Len(calls)
    /\ result.status \in {"pass", "fail", "skipped", "errored"}
    /\ \A n \in Names : LET b == bindOne(Episode(calls, measured), specs[n])
                        IN  b.missing <=> b.values = <<>>

\* The clause is skipped exactly when an operand has nothing to stand for, and a
\* pass is never vacuous and never partial: no operand that must be unique has
\* two values, and the constraint holds in every reading the cardinalities admit,
\* not in the first only.
PassHoldsThroughout ==
    /\ result.status = "skipped" <=> \E n \in Names : Operands(n) = {}
    /\ result.status = "pass" =>
          /\ Overcounted = {}
          /\ \A f \in Readings : Constraint(Expr, f) = "true"

\* The operands that vary; the last of them.
Varying == {n \in Names : specs[n].cardinality = "any"}
LastVarying == {n \in Varying : \A m \in Varying : \E i, j \in DOMAIN Refs :
                                   Refs[i] = m /\ Refs[j] = n /\ i <= j}

\* A failure is real: a value that must be unique is not, or some reading breaks
\* the constraint; and each finding is blamed on a call whose value takes part in
\* such a reading and is the one that varies, not the one that set the limit.
FailureIsBlamedRightly ==
    result.status = "fail" =>
        \/ Overcounted # {}
        \/ /\ Broken # {} /\ result.blamed # {}
           /\ \A span \in result.blamed : \A n \in LastVarying :
                 Holders(n) # {} =>
                     \E i \in Holders(n) : /\ calls[i].span = span
                                           /\ \E f \in Broken : f[n] \in Extracted(specs[n], calls[i])

\* Operands that admit every value, or one only, and have no default; and no metrics.
Cumulative ==
    \A n \in Names :
        \/ specs[n].from = "literal"
        \/ FromCalls(n) /\ specs[n].cardinality \in {"any", "exactly_one"} /\ specs[n].default = {}

\* An invariant over such operands that fails on a prefix of the trace blocks
\* ever after, whichever calls are recorded later and wherever they belong: it is
\* safe to decide inline.  One over a metric is not: the limit moves with the trace.
FailureStands ==
    [][Cumulative /\ result.status = "fail" => result'.status \in {"fail", "errored"}]_vars

\* A call (the last that was recorded) is matched by a pattern in a value declaration
\* (Go) exactly if it is in a tool or order clause (Rego), and exactly if the pattern
\* covers its name: the two matchers, kept in sync by hand, part only on "" and "**".
EnginesAgree ==
    \A i \in {i \in DOMAIN calls : calls[i].span = Len(calls)},
       p \in Patterns \ {<<>>, <<Star, Star>>} :
        /\ matchName(p, calls[i].name) <=> Glob(p, calls[i].name)
        /\ matches(p, calls[i].name) <=> Glob(p, calls[i].name)
=============================================================================
