---------------------------- MODULE EpisodeBuild ----------------------------
(***************************************************************************)
(* internal/adapter/raw.go: the Episode a set of exported spans becomes.   *)
(*                                                                         *)
(* A text is the set of tokens (concrete values) it mentions; two texts    *)
(* are the same if they mention the same.  Times are stamps, 0 for none.   *)
(* Models, token counts, latencies and message decoding are left out; a    *)
(* message that lacks a role or a text has role "".                        *)
(***************************************************************************)
EXTENDS Naturals, Sequences, FiniteSets, SequencesExt

\* The fields of a RawSpan the mapping reads.  rank is the order that depth and
\* span id give spans of one start time; in and out are the decoded messages,
\* empty if the attribute does not decode to any; prompt and completion are the
\* deprecated attributes, {text} or {}; nested says that the span has a parent.
\*   [id, op, name, nested, start, end, rank, in, out, prompt, completion,
\*    args, result, argsCaptured, resultCaptured, error]

\* Start time, then parent before child, then span id.
Precedes(a, b) == a.start < b.start \/ (a.start = b.start /\ a.rank < b.rank)

\* A span's place is the number of those before it.
sortSpans(S) ==
    [k \in 1..Cardinality(S) |-> CHOOSE s \in S : Cardinality({t \in S : Precedes(t, s)}) = k - 1]

Turn(role, text, s, captured) ==
    [role |-> role, text |-> text, started |-> s.start, span |-> s.id, captured |-> captured]

\* The messages that decode, or else the deprecated attribute as one.
Input(s)  == IF s.in # <<>> \/ s.prompt = {} THEN s.in
             ELSE <<[role |-> "user", text |-> UNION s.prompt]>>
Output(s) == IF s.out # <<>> \/ s.completion = {} THEN s.out
             ELSE <<[role |-> "assistant", text |-> UNION s.completion]>>

\* The turns a model call brings; without any content, one that is not captured.
ChatTurns(s) ==
    LET messages == Input(s) \o Output(s)
    IN  IF messages = <<>> THEN <<Turn("assistant", {}, s, FALSE)>>
        ELSE [k \in DOMAIN messages |-> Turn(messages[k].role, messages[k].text, s, TRUE)]

Same(t, u) == t.captured /\ u.captured /\ t.role = u.role /\ t.text = u.text

\* Later chat spans repeat the history in their input: a turn that has been seen
\* is left out, as is one without a role or a text.  What is left keeps its place,
\* which is all that indices tell.
Turns(chats) ==
    LET all == FlattenSeq([k \in DOMAIN chats |-> ChatTurns(chats[k])])
        new == {k \in DOMAIN all : all[k].role # "" /\ \A j \in 1..(k - 1) : ~Same(all[j], all[k])}
    IN  [k \in new |-> all[k]]

\* Mutant of toolCallFrom: start and end swapped.
toolCallFrom_Swapped(s) ==
    [span |-> s.id, name |-> s.name, started |-> s.end, ended |-> s.start,
     args |-> IF s.argsCaptured THEN s.args ELSE {}, argsCaptured |-> s.argsCaptured,
     result |-> IF s.resultCaptured THEN s.result ELSE {}, resultCaptured |-> s.resultCaptured,
     error |-> s.error]

toolCallFrom(s) ==
    [span |-> s.id, name |-> s.name, started |-> s.start, ended |-> s.end,
     args |-> IF s.argsCaptured THEN s.args ELSE {}, argsCaptured |-> s.argsCaptured,
     result |-> IF s.resultCaptured THEN s.result ELSE {}, resultCaptured |-> s.resultCaptured,
     error |-> s.error]

OfOp(S, op) == {s \in S : s.op = op}

\* An agent that is invoked by another is a tool call too.
Called(S) == OfOp(S, "execute_tool") \cup {s \in OfOp(S, "invoke_agent") : s.nested}

\* The flags are existential: one captured argument, result or message is enough.
Coverage(S) ==
    {flag \in {"has_message_content", "has_tool_args", "has_tool_results"} :
        \/ flag = "has_message_content" /\ \E s \in OfOp(S, "chat") : Input(s) \o Output(s) # <<>>
        \/ flag = "has_tool_args" /\ \E s \in Called(S) : s.argsCaptured
        \/ flag = "has_tool_results" /\ \E s \in Called(S) : s.resultCaptured}

\* The notes of Coverage.Degraded: whether deprecated attributes were read, and the
\* calls that lack something, counted.
Degraded(S) == [prompt     |-> \E s \in OfOp(S, "chat") : s.in = <<>> /\ s.prompt # {},
                completion |-> \E s \in OfOp(S, "chat") : s.out = <<>> /\ s.completion # {},
                args       |-> Cardinality({s \in Called(S) : ~s.argsCaptured}),
                results    |-> Cardinality({s \in Called(S) : ~s.resultCaptured})]

\* The trace begins when its first record does, whatever that is a record of.
Metrics(S) == [model_calls |-> Cardinality(OfOp(S, "chat")),
               tool_calls  |-> Cardinality(Called(S)),
               tool_errors |-> Cardinality({s \in Called(S) : s.error}),
               started     |-> IF S = {} THEN 0 ELSE Min({s.start : s \in S}),
               ended       |-> Max({0} \cup {s.end : s \in S})]

\* The order of the tool calls is left out here: only the value bindings read it, and
\* Invariants keeps it.
BuildEpisode(S) ==
    [turns      |-> Turns(sortSpans(OfOp(S, "chat"))),
     tool_calls |-> {toolCallFrom(s) : s \in Called(S)},
     coverage   |-> Coverage(S),
     degraded   |-> Degraded(S),
     metrics    |-> Metrics(S)]
=============================================================================
