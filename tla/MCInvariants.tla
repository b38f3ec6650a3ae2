---------------------------- MODULE MCInvariants ----------------------------
(* The refund contract of the guide: refund.amount <= approved_limit. *)
EXTENDS Invariants

Num(n)    == Number(n)
Text      == [t |-> "string"]
Obj(k, v) == [t |-> "object", at |-> [x \in {k} |-> v]]
Arr(v)    == [t |-> "array", at |-> [x \in {0} |-> v]]

Name(k)  == [t |-> "object", k |-> k]
Index(i) == [t |-> "array", k |-> i]

\* A comparison of anything but numbers is not a boolean.
MCConstraint(e, f) ==
    IF f["refund.amount"].t # "number" \/ f["approved_limit"].t # "number" THEN "error"
    ELSE IF f["refund.amount"].n <= f["approved_limit"].n THEN "true" ELSE "false"

Decl(from, tool, path, card, default) ==
    [from |-> from, tool |-> tool, path |-> path, metric |-> "", literal |-> {},
     default |-> default, cardinality |-> card]

MCRefs == <<"approved_limit", "refund.amount">>

Cards == Cardinalities \cup {""}

MCSpecs == [n \in {"approved_limit", "refund.amount"} |->
    IF n = "refund.amount"
    THEN {Decl("tool_call", <<"r", Star>>, <<Name("amount")>>, c, {}) : c \in Cards}
    ELSE {Decl("tool_result", <<"l", "k">>, <<Name("limits"), Index(0)>>, c, d) :
             c \in Cards, d \in {{}, {Num(0)}}}
         \cup {[Decl("literal", <<>>, <<>>, "first", {}) EXCEPT !.literal = {Num(2)}],
               [Decl("metric", <<>>, <<>>, "any", {}) EXCEPT !.metric = "steps"],
               [Decl("metric", <<>>, <<>>, "any", {}) EXCEPT !.metric = "tool_errors"],
               [Decl("metric", <<>>, <<>>, "any", {}) EXCEPT !.metric = "cost"]}]

Refund(args) == [span |-> NoSpan, name |-> <<"r", "f">>, args |-> args, argsCaptured |-> TRUE,
                 result |-> {}, resultCaptured |-> FALSE, error |-> FALSE]
Lookup(doc) == [span |-> NoSpan, name |-> <<"l", "k">>, args |-> {}, argsCaptured |-> TRUE,
                   result |-> doc, resultCaptured |-> TRUE, error |-> FALSE]

MCCalls ==
    {Refund({Obj("amount", Num(1))}), Refund({Obj("amount", Num(3))}),
     Refund({Obj("amount", Text)}), Refund({Obj("note", Num(1))}),
     [Refund({}) EXCEPT !.argsCaptured = FALSE],
     Lookup({Obj("limits", Arr(Num(2)))}), Lookup({Obj("limits", Arr(Num(0)))}),
     [Lookup({}) EXCEPT !.resultCaptured = FALSE, !.error = TRUE]}

MCPatterns == UNION {[1..n -> {Star, "r", "f"}] : n \in 0..3}

\* Before and after a model call.
MCMeasures ==
    {[model_calls |-> n, input_tokens |-> n, output_tokens |-> n, duration_ms |-> n,
      latency_p50_ms |-> 2 - n, latency_p95_ms |-> 2 - n] : n \in {0, 1}}
=============================================================================
