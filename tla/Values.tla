------------------------------- MODULE Values -------------------------------
(***************************************************************************)
(* internal/contract/values.go and evalInvariant of registry.go: named     *)
(* values are bound to what the tool calls of an Episode hold, and a CUE   *)
(* constraint over them is checked once per combination.                   *)
(*                                                                         *)
(* A JSON document is a tree: [t |-> "object", at |-> [names -> trees]],   *)
(* [t |-> "array", at |-> [0..n -> trees]] or a leaf.  A text holds one    *)
(* document or, if it is empty or malformed, none: {doc} or {}.  A path is *)
(* the keys it goes down.  The text of reasons and messages is left out.   *)
(***************************************************************************)
EXTENDS NameMatch, Integers, FiniteSets, SequencesExt

CONSTANTS
    maxCombinations,
    Constraint(_, _)  \* CUE: what an expression over values comes to: "true",
                      \* "false", or something else if it is no boolean

Cardinalities == {"any", "first", "last", "exactly_one"}

\* The names of the measures an Episode has.
knownMetrics == {"duration_ms", "latency_p50_ms", "latency_p95_ms", "input_tokens", "output_tokens",
                 "total_tokens", "model_calls", "tool_calls", "tool_errors", "steps"}

\* A declaration: [from, tool, path, metric, literal, default, cardinality],
\* where literal and default are {} if absent.
validateValueSpec(s) ==
    /\ s.cardinality \in Cardinalities
    /\ \/ s.from \in {"tool_call", "tool_result"} /\ s.tool # <<>> /\ s.path # <<>>
       \/ s.from = "metric" /\ s.metric \in knownMetrics
       \/ s.from = "literal" /\ (s.literal # {} \/ s.default # {})

NoSpan == 0  \* the evidence of a literal, a metric or a default has no span

Null == [t |-> "null"]

Number(n) == [t |-> "number", n |-> n]

Keys == [t : {"object"}, k : STRING] \cup [t : {"array"}, k : Int]

\* A text, or what is found in one.
AtMostOne(S) == \A v, w \in S : v = w

Child(tree, key) ==
    IF tree.t = key.t /\ key.k \in DOMAIN tree.at THEN {tree.at[key.k]} ELSE {}

resolvePath(text, path) ==
    LET found[k \in 0..Len(path)] ==
            IF k = 0 THEN text ELSE UNION {Child(tree, path[k]) : tree \in found[k - 1]}
    IN  found[Len(path)]

extractFrom(text, path) == resolvePath(text, path)

\* What one call holds for a declaration, if it was captured.
Extracted(s, tc) ==
    IF s.from = "tool_call" THEN IF tc.argsCaptured THEN extractFrom(tc.args, s.path) ELSE {}
                            ELSE IF tc.resultCaptured THEN extractFrom(tc.result, s.path) ELSE {}

Bounds(values, span) == SetToSeq({[value |-> v, span |-> span] : v \in values})

\* Everything in the Episode that answers to the declaration, in its order.
Raw(ep, s) ==
    CASE s.from = "literal" -> Bounds(IF s.literal = {} THEN {Null} ELSE s.literal, NoSpan)
      [] s.from = "metric" -> Bounds({Number(ep.metrics[s.metric])}, NoSpan)
      [] OTHER -> FlattenSeq([i \in DOMAIN ep.tool_calls |->
                      LET tc == ep.tool_calls[i]
                      IN  Bounds(IF matchName(s.tool, tc.name) THEN Extracted(s, tc) ELSE {}, tc.span)])

Binding(s, values, missing, violated) ==
    [values |-> values, missing |-> missing, violated |-> violated, varies |-> s.cardinality = "any"]

\* One value of several, by cardinality.
Cut(s, raw) == CASE s.cardinality = "first" /\ raw # <<>> -> <<Head(raw)>>
                 [] s.cardinality = "last"  /\ raw # <<>> -> <<Last(raw)>>
                 [] OTHER -> raw

\* Mutant of bindOne: only the first of the matching values is looked at.
bindOne_First(ep, s) ==
    LET raw == Raw(ep, s)
    IN  IF raw = <<>> THEN Binding(s, Bounds(s.default, NoSpan), s.default = {}, FALSE)
        ELSE Binding(s, <<Head(raw)>>, FALSE, s.cardinality = "exactly_one" /\ Len(raw) > 1)

\* Mutant of bindOne: several matches of exactly_one are settled by the first.
bindOne_NotCounted(ep, s) ==
    LET raw == Raw(ep, s)
    IN  IF raw = <<>> THEN Binding(s, Bounds(s.default, NoSpan), s.default = {}, FALSE)
        ELSE IF s.cardinality = "exactly_one" THEN Binding(s, <<Head(raw)>>, FALSE, FALSE)
        ELSE Binding(s, Cut(s, raw), FALSE, FALSE)

\* Mutant of bindOne: a violated cardinality leaves no value.
bindOne_NoValue(ep, s) ==
    LET raw == Raw(ep, s)
    IN  IF s.cardinality = "exactly_one" /\ Len(raw) > 1 THEN Binding(s, <<>>, FALSE, TRUE)
        ELSE IF raw = <<>> THEN Binding(s, Bounds(s.default, NoSpan), s.default = {}, FALSE)
        ELSE Binding(s, Cut(s, raw), FALSE, FALSE)

bindOne(ep, s) ==
    LET raw == Raw(ep, s)
    IN  IF s.cardinality = "exactly_one" /\ Len(raw) > 1 THEN Binding(s, <<Head(raw)>>, FALSE, TRUE)
        ELSE IF raw = <<>> THEN Binding(s, Bounds(s.default, NoSpan), s.default = {}, FALSE)
        ELSE Binding(s, Cut(s, raw), FALSE, FALSE)

Bind(ep, specs) == [n \in DOMAIN specs |-> bindOne(ep, specs[n])]

-----------------------------------------------------------------------------
(* Combinations: the cross product, and the span each one is blamed on.    *)

Bound(vars, n, v) == [m \in DOMAIN vars \cup {n} |-> IF m = n THEN v ELSE vars[m]]

\* Mutant of Extend: the evidence stays with the first operand that has a span.
Extend_Anchored(b, out, n) ==
    FlattenSeq([i \in DOMAIN out |-> [j \in DOMAIN b[n].values |->
        [vars |-> Bound(out[i].vars, n, b[n].values[j].value),
         span |-> IF out[i].span = NoSpan THEN b[n].values[j].span ELSE out[i].span]]])

Extend(b, out, n) ==
    FlattenSeq([i \in DOMAIN out |-> [j \in DOMAIN b[n].values |->
        [vars |-> Bound(out[i].vars, n, b[n].values[j].value),
         span |-> IF b[n].varies \/ out[i].span = NoSpan THEN b[n].values[j].span
                                                         ELSE out[i].span]]])

\* No combination at all stands for the error: there are too many.
Combinations(b, names) ==
    LET out[k \in 0..Len(names)] ==
            IF k = 0 THEN <<[vars |-> <<>>, span |-> NoSpan]>>
            ELSE LET next == Extend(b, out[k - 1], names[k])
                 IN  IF Len(next) > maxCombinations THEN <<>> ELSE next
    IN  out[Len(names)]

-----------------------------------------------------------------------------
(* The clause.                                                             *)

Conclusion(status, blamed) == [status |-> status, blamed |-> blamed]

\* What the clause comes to, and the spans its findings point at.
evalInvariant(ep, specs, expr, names) ==
    LET b     == Bind(ep, specs)
        wrong == {n \in ToSet(names) : b[n].violated}
        cs    == ToSet(Combinations(b, names))
        come(to) == {c \in cs : Constraint(expr, c.vars) = to}
    IN  IF \E n \in ToSet(names) : b[n].missing THEN Conclusion("skipped", {})
        ELSE IF wrong # {} THEN Conclusion("fail", {b[n].values[1].span : n \in wrong})
        ELSE IF cs = {} \/ come("true") \cup come("false") # cs THEN Conclusion("errored", {})
        ELSE IF come("false") # {} THEN Conclusion("fail", {c.span : c \in come("false")})
        ELSE Conclusion("pass", {})
=============================================================================
