----------------------------- MODULE MCPipeline -----------------------------
(* Two model calls and a tool call, and content records for them.          *)
EXTENDS Pipeline

Bare(id, op, start, end) ==
    [id |-> id, op |-> op, name |-> id, nested |-> TRUE, start |-> start, end |-> end,
     rank |-> start, in |-> <<>>, out |-> <<>>, opaque |-> {}, prompt |-> {}, completion |-> {},
     args |-> {}, result |-> {}, argsCaptured |-> FALSE, resultCaptured |-> FALSE, error |-> FALSE,
     source |-> FALSE]

Q == [role |-> "user", text |-> {"q"}]

\* A model call with a deprecated attribute only, and an empty list for its output; one
\* with its own input; a tool call with its own arguments and a blank result.
MCSpans ==
    {[Bare("old", "chat", 1, 3) EXCEPT !.prompt = {{"p"}}, !.opaque = {"out"}, !.source = TRUE],
     [Bare("chat", "chat", 4, 5) EXCEPT !.in = <<Q>>],
     [Bare("tool", "execute_tool", 6, 9) EXCEPT !.args = {"own"}, !.argsCaptured = TRUE,
                                                !.resultCaptured = TRUE]}

Record(span, input, output, key, rekey) ==
    [span |-> span, trace |-> "this", scope |-> ContentScope, input |-> input, output |-> output,
     key |-> key, rekey |-> rekey]

M(role, text) == <<[role |-> role, payload |-> {{text}}]>>
Blank == <<[role |-> "tool", payload |-> {}]>>

\* The first model call's input, and both of its messages; the second one's input again
\* with its output, and another output; a tool's two payloads, and its output again
\* from a record without a trace; another trace's; a line of stdout.
MCRecords ==
    {Record("old", M("user", "p"), M("assistant", "a"), 6, 6),
     Record("chat", M("user", "q") \o M("", "stray"), M("assistant", "a"), 1, 2),
     Record("chat", <<>>, M("assistant", "b"), 2, 1),
     Record("tool", M("tool", "other"), Blank \o M("tool", "r"), 3, 3),
     [Record("tool", <<>>, M("tool", "r"), 4, 4) EXCEPT !.trace = "", !.scope = ""],
     [Record("tool", <<>>, M("tool", "foreign"), 0, 0) EXCEPT !.trace = "other"],
     [Record("", <<>>, <<>>, 5, 5) EXCEPT !.trace = "", !.scope = "botocore"]}

\* Any three of them.
MCContents == {R \in SUBSET MCRecords : Cardinality(R) = 3}

\* One record, which has other words than the deprecated attribute.
MCOther == {{Record("old", M("user", "q"), <<>>, 1, 1)}}
=============================================================================
