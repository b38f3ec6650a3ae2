------------------------------ MODULE Pipeline ------------------------------
(***************************************************************************)
(* From the log service to the Episode: trace fetch, the saved envelope,   *)
(* evaluate over either (cmd/axda/evaluate.go), and the join of message    *)
(* bodies that arrive as log records of their own (adapter/cwspans.go).    *)
(*                                                                         *)
(* The log service is the environment (external): span records become      *)
(* visible in any order, content records in any order and more than once.  *)
(* All of them mention the trace id: that is what the queries filter on.   *)
(* What Fetch promises of the settle poll is taken from there: a stable    *)
(* result is the whole span set, an unstable one a part of it.             *)
(*                                                                         *)
(* Models' names, tool-use ids and the decoding of nested JSON are left    *)
(* out: a payload is what a content object is unwrapped to, {text}, or {}, *)
(* and a text {} is a blank string.                                        *)
(***************************************************************************)
EXTENDS EpisodeBuild

CONSTANTS
    Spans,      \* the trace's spans as exported, as EpisodeBuild has them, with
                \* source: whether their resource names the content log group; and
                \* opaque: the message attributes, "in" and "out", that are there but
                \* do not decode to a message
    Contents,   \* the content records there may be that mention the trace, each a set
                \* of JSON objects
                \* [span, trace, scope, input, output, key, rekey]; input and output
                \* are messages [role, payload], <<>> if absent; key is the place of
                \* the record's bytes in their order, rekey that of the bytes the
                \* envelope's encoder makes of them
    Trace,      \* the trace id
    Copies,     \* a record is delivered at most so often
    MaxLog      \* at most so many content records are delivered

ContentScope == "strands.telemetry.tracer"

IsSequence(s) == s \in Seq(ToSet(s))

\* One text or none, and not a blank one.
IsText(texts) == \A text, other \in texts : text = other /\ text # {}

IsSpan(s) ==
    /\ s = [id |-> s.id, op |-> s.op, name |-> s.name, nested |-> s.nested, start |-> s.start,
            end |-> s.end, rank |-> s.rank, in |-> s.in, out |-> s.out, opaque |-> s.opaque,
            prompt |-> s.prompt, completion |-> s.completion, args |-> s.args,
            result |-> s.result, argsCaptured |-> s.argsCaptured,
            resultCaptured |-> s.resultCaptured, error |-> s.error, source |-> s.source]
    /\ s.id # ""
    /\ s.start \in Nat /\ s.rank \in Nat
    /\ {s.argsCaptured, s.resultCaptured} \subseteq BOOLEAN
    /\ IsSequence(s.in) /\ IsSequence(s.out)
    /\ "in" \in s.opaque => s.in = <<>>
    /\ "out" \in s.opaque => s.out = <<>>
    /\ IsText(s.prompt) /\ IsText(s.completion)

\* Depth and id give each span its place.
ASSUME SpansAssumption ==
    /\ IsFiniteSet(Spans) /\ \A s \in Spans : IsSpan(s)
    /\ \A s, t \in Spans : s.id = t.id \/ s.rank = t.rank => s = t
ASSUME RecordsAssumption ==
    \A r \in UNION Contents :
        /\ r.key \in Nat /\ r.rekey \in Nat
        /\ IsSequence(r.input) /\ IsSequence(r.output)
        /\ \A m \in ToSet(r.input) \cup ToSet(r.output) : IsText(m.payload)
ASSUME KeysAssumption ==
    /\ Trace # ""
    /\ \A R \in Contents : IsFiniteSet(R)
    /\ \A r, q \in UNION Contents : r.key = q.key \/ r.rekey = q.rekey => r = q

VARIABLES
    written,  \* the content records the agent writes (environment)
    visible,  \* the span records a query would find (environment)
    log,      \* the content records, in the order they arrived (environment)
    unscoped, \* the spans are looked for in the agent's own log group, all streams
    stage,    \* what there is of a trace: "none", "spans" (the settle poll has
              \* returned), "live" (so has Fetch), "saved" (it is in a file)
    result,   \* fetch.Result: the records that became spans, the same without those
              \* that are no spans, Stable, ContentRecords
    read      \* the last evaluation's result, by way of which stage, and its Episode

vars == <<written, visible, log, unscoped, stage, result, read>>
env  == <<written, visible, log, unscoped>>

NoResult == [records |-> {}, stable |-> FALSE, content |-> <<>>]
NoRead   == [via |-> "none", result |-> NoResult, episode |-> <<>>]

-----------------------------------------------------------------------------
(* The join.                                                               *)

\* DecodeCloudWatchSpans on a log record: what has the ids of a span is one, with no
\* name, no parent and no times.
Phantom(r) ==
    [id |-> r.span, op |-> "", name |-> "", nested |-> FALSE, start |-> 0, end |-> 0, rank |-> 0,
     in |-> <<>>, out |-> <<>>, opaque |-> {}, prompt |-> {}, completion |-> {}, args |-> {},
     result |-> {}, argsCaptured |-> FALSE, resultCaptured |-> FALSE, error |-> FALSE,
     source |-> FALSE]

Decodes(r) == r.trace # "" /\ r.span # ""

\* A record that carries a body for some span.
HasBody(r) ==
    /\ r.scope \in {"", ContentScope}
    /\ r.span # ""
    /\ r.input # <<>> \/ r.output # <<>>

\* Mutant of Sorted: the order in which the query returned them.
Sorted_Arrival(records, via) == records

\* By their bytes, which a file holds as the envelope's encoder made them; those of one
\* record stay as they came.  sortSpans sorts by start, then by rank.
Sorted(records, via) ==
    LET placed  == {[start |-> IF via = "saved" THEN records[i].rekey ELSE records[i].key,
                     rank |-> i, record |-> records[i]] : i \in DOMAIN records}
        ordered == sortSpans(placed)
    IN  [k \in DOMAIN ordered |-> ordered[k].record]

\* strandsMessages
Messages(wrapper) ==
    LET whole[n \in 0..Len(wrapper)] ==
            IF n = 0 THEN <<>>
            ELSE IF wrapper[n].role = "" \/ wrapper[n].payload = {} THEN whole[n - 1]
            ELSE Append(whole[n - 1], [role |-> wrapper[n].role, text |-> UNION wrapper[n].payload])
    IN  whole[Len(wrapper)]

\* strandsToolPayload: the first message that has one.
Payload(wrapper) ==
    LET whole == {i \in DOMAIN wrapper : wrapper[i].payload # {}}
    IN  IF whole = {} THEN {} ELSE wrapper[Min(whole)].payload

\* Mutant of setAttrIfAbsent: the log record overwrites what the span carries.
setAttrIfAbsent_Over(present, old, new) == IF new = {} THEN old ELSE CHOOSE v \in new : TRUE

\* new is {value}, or {} for none.
setAttrIfAbsent(present, old, new) == IF present \/ new = {} THEN old ELSE CHOOSE v \in new : TRUE

\* The attribute is there, and not blank: whether it decodes is not looked at.
Present(s, attr) ==
    CASE attr = "args"   -> s.argsCaptured /\ s.args # {}
      [] attr = "result" -> s.resultCaptured /\ s.result # {}
      [] attr = "in"     -> s.in # <<>> \/ "in" \in s.opaque
      [] attr = "out"    -> s.out # <<>> \/ "out" \in s.opaque

\* What a record says of an attribute: one thing or none.
Says(r, attr) ==
    CASE attr = "args"   -> Payload(r.input)
      [] attr = "result" -> Payload(r.output)
      [] attr = "in"     -> {Messages(r.input)} \ {<<>>}
      [] attr = "out"    -> {Messages(r.output)} \ {<<>>}

applyContent(s, r) ==
    IF s.op = "execute_tool"
    THEN [s EXCEPT !.args = setAttrIfAbsent(Present(s, "args"), @, Says(r, "args")),
                   !.argsCaptured = @ \/ Says(r, "args") # {},
                   !.result = setAttrIfAbsent(Present(s, "result"), @, Says(r, "result")),
                   !.resultCaptured = @ \/ Says(r, "result") # {}]
    ELSE [s EXCEPT !.in = setAttrIfAbsent(Present(s, "in"), @, Says(r, "in")),
                   !.out = setAttrIfAbsent(Present(s, "out"), @, Says(r, "out"))]

\* Mutant of Joins: span ids are taken to be unique across traces.
Joins_SpanOnly(s, r) == r.span = s.id

\* The record says that it belongs to this span, and not that it is another trace's.
Joins(s, r) == r.span = s.id /\ r.trace \in {"", Trace}

\* Span s after the records of bodies, one after the other.
Enriched(s, bodies) ==
    LET after[n \in 0..Len(bodies)] ==
            IF n = 0 THEN s
            ELSE IF HasBody(bodies[n]) /\ Joins(s, bodies[n])
                 THEN applyContent(after[n - 1], bodies[n])
            ELSE after[n - 1]
    IN  after[Len(bodies)]

MergeContentRecords(S, records, via) == {Enriched(s, Sorted(records, via)) : s \in S}

episodeFromCloudWatch(S, records, via) == BuildEpisode(MergeContentRecords(S, records, via))

-----------------------------------------------------------------------------
(* The log service and the commands.                                       *)

Init ==
    /\ written \in Contents
    /\ visible = {}
    /\ log = <<>>
    /\ unscoped \in BOOLEAN
    /\ stage = "none"
    /\ result = NoResult
    /\ read = NoRead

ExportSpans ==
    /\ \E more \in (SUBSET (Spans \ visible)) \ {{}} : visible' = visible \cup more
    /\ UNCHANGED <<written, log, unscoped, stage, result, read>>

DeliverContent ==
    /\ Len(log) < MaxLog
    /\ \E r \in written :
          /\ Len(SelectSeq(log, LAMBDA q : q = r)) < Copies
          /\ log' = Append(log, r)
    /\ UNCHANGED <<written, visible, unscoped, stage, result, read>>

\* What the span query decodes to.
Found == visible \cup (IF unscoped THEN {Phantom(r) : r \in {r \in ToSet(log) : Decodes(r)}} ELSE {})

\* The settle poll of a new fetch returns; a file is written over.
FetchSpans ==
    /\ stage \in {"none", "saved"}
    /\ visible # {} \/ (unscoped /\ log # <<>>)
    /\ \E stable \in {b \in BOOLEAN : b => visible = Spans} :
          result' = [records |-> Found, stable |-> stable, content |-> <<>>]
    /\ stage' = "spans"
    /\ read' = NoRead
    /\ UNCHANGED env

\* withContent: no content is wanted, no span names its source, the query fails or
\* finds nothing; or it finds what has arrived by now.
FetchContent ==
    /\ stage = "spans"
    /\ \E found \in {<<>>} \cup (IF \E s \in result.records : s.source THEN {log} ELSE {}) :
          result' = [result EXCEPT !.content = found]
    /\ stage' = "live"
    /\ UNCHANGED <<env, read>>

\* trace fetch writes the envelope, a partial trace with its Stable as well.
Save ==
    /\ stage = "live"
    /\ stage' = "saved"
    /\ UNCHANGED <<env, result, read>>

\* loadEpisode: without a single span there is no Episode.
Evaluated ==
    IF result.records = {} THEN NoRead
    ELSE [via |-> stage, result |-> result,
          episode |-> episodeFromCloudWatch(result.records, result.content, stage)]

\* evaluate --from cloudwatch
EvaluateLive ==
    /\ stage = "live"
    /\ read' = Evaluated
    /\ stage' = "none"
    /\ result' = NoResult
    /\ UNCHANGED env

\* evaluate --trace, as often as one likes
EvaluateSaved ==
    /\ stage = "saved"
    /\ read' = Evaluated
    /\ UNCHANGED <<env, stage, result>>

Next == ExportSpans \/ DeliverContent \/ FetchSpans \/ FetchContent \/ Save
        \/ EvaluateLive \/ EvaluateSaved

Spec == Init /\ [][Next]_vars

-----------------------------------------------------------------------------
(* What the spans and the records say.                                     *)

\* The records of R about span s.
About(s, R) == {r \in R : r.span = s.id /\ r.trace \in {"", Trace} /\ r.scope \in {"", ContentScope}}

Words(s, attr, R) == UNION {Says(r, attr) : r \in About(s, R)}

\* What an Episode of the span alone has of an attribute.
Own(s, attr) ==
    CASE attr = "args"   -> IF s.argsCaptured THEN {s.args} ELSE {}
      [] attr = "result" -> IF s.resultCaptured THEN {s.result} ELSE {}
      [] attr = "in"     -> {Input(s)} \ {<<>>}
      [] attr = "out"    -> {Output(s)} \ {<<>>}

\* What may be captured of an attribute: the span's own word, or else a record's.
Told(s, attr, R) ==
    IF Present(s, attr) \/ Words(s, attr, R) = {} THEN Own(s, attr) ELSE Words(s, attr, R)

Attributes(s) == IF s.op = "execute_tool" THEN {"args", "result"} ELSE {"in", "out"}

\* No two records of a span tell different things of it.
Agree(S, R) ==
    \A s \in S : \A attr \in Attributes(s) : Present(s, attr) \/ Cardinality(Words(s, attr, R)) <= 1

\* The deprecated attributes' turns, and the turns an Episode has.
Deprecated(S) == UNION {{<<"user", text>> : text \in s.prompt}
                        \cup {<<"assistant", text>> : text \in s.completion} : s \in OfOp(S, "chat")}

Captured(e) == {k \in DOMAIN e.turns : e.turns[k].captured}
Spoken(e)   == {<<e.turns[k].role, e.turns[k].text>> : k \in Captured(e)}

\* Each call of Episode e is one of Episode f, which has what is captured of it, but
\* for what is blank.
CallsStay(e, f) ==
    \A b \in e.tool_calls : \E tc \in f.tool_calls :
        /\ <<tc.span, tc.name, tc.started, tc.ended, tc.error>>
              = <<b.span, b.name, b.started, b.ended, b.error>>
        /\ b.argsCaptured => tc.argsCaptured /\ (b.args = {} \/ tc.args = b.args)
        /\ b.resultCaptured => tc.resultCaptured /\ (b.result = {} \/ tc.result = b.result)

Evaluation == read.via # "none"

-----------------------------------------------------------------------------
(* Properties.                                                             *)

\* Whatever was partial, late, repeated or another trace's: each call and message of
\* the Episode is what its span carries or, if it carries nothing, what a record
\* of that span and of no other trace says; and nothing that is told is lost.
EpisodeIsFaithful ==
    Evaluation =>
        LET ep    == read.episode
            tools == OfOp(read.result.records, "execute_tool")
            chats == OfOp(read.result.records, "chat")
            turns == {ep.turns[k] : k \in DOMAIN ep.turns}
            told(s, attr) == Told(s, attr, ToSet(read.result.content))
        IN  /\ \A s \in tools : \E tc \in ep.tool_calls :
                  /\ <<tc.span, tc.name, tc.started, tc.ended, tc.error>>
                        = <<s.id, s.name, s.start, s.end, s.error>>
                  /\ IF tc.argsCaptured THEN tc.args \in told(s, "args") ELSE told(s, "args") = {}
                  /\ IF tc.resultCaptured THEN tc.result \in told(s, "result")
                                          ELSE told(s, "result") = {}
            /\ \A s \in chats, attr \in {"in", "out"} : told(s, attr) # {} =>
                  \E v \in told(s, attr) : \A i \in DOMAIN v : v[i].role # "" =>
                      \E t \in turns : t.captured /\ t.role = v[i].role /\ t.text = v[i].text
            /\ \A t \in turns : t.captured =>
                  \E s \in chats, attr \in {"in", "out"} : \E v \in told(s, attr) : \E i \in DOMAIN v :
                      t.span = s.id /\ t.role = v[i].role /\ t.text = v[i].text

\* The Episode does not depend on the order or the number of copies in which the
\* content records came; nor, if the records of a span agree, on whether the
\* trace went through a file; and if all of it came, it is the trace's one Episode.
DeliveryIsForgotten ==
    Evaluation =>
        LET of(S, records, via) == episodeFromCloudWatch(S, records, via)
        IN  /\ \A records \in SetToSeqs(ToSet(read.result.content)) :
                  of(read.result.records, records, read.via) = read.episode
            /\ Agree(read.result.records, ToSet(read.result.content)) => \A via \in {"live", "saved"} :
                  of(read.result.records, read.result.content, via) = read.episode
            /\ ToSet(read.result.content) = written /\ read.result.stable /\ ~unscoped =>
                  read.episode = of(Spans, SetToSeq(written), read.via)

\* With content and without, an evaluation differs in what needs content only: the
\* metrics, and the calls as the tool and order clauses see them, are the same, and
\* what was covered without it still is, as it was, but for what only deprecated
\* attributes told.
ContentOnlyAdds ==
    Evaluation =>
        LET ep   == read.episode
            bare == BuildEpisode(read.result.records)
            seen(e) == {<<tc.span, tc.name, tc.started, tc.ended, tc.error>> : tc \in e.tool_calls}
        IN  /\ ep.metrics = bare.metrics
            /\ seen(ep) = seen(bare)
            /\ CallsStay(bare, ep)
            /\ Spoken(bare) \subseteq Spoken(ep) \cup Deprecated(read.result.records)
            /\ bare.coverage \subseteq ep.coverage

\* What an Episode of a part of the trace, with a part of its records, tells is in the
\* Episode of the whole, if the records of a span agree: what is late only adds.
PartialIsPart ==
    Evaluation /\ Agree(Spans, written) =>
        LET part  == read.episode
            whole == episodeFromCloudWatch(Spans, SetToSeq(written), read.via)
        IN  /\ CallsStay(part, whole)
            /\ Spoken(part) \subseteq Spoken(whole) \cup Deprecated(Spans)
            /\ part.coverage \subseteq whole.coverage
            /\ \A m \in {"model_calls", "tool_calls", "tool_errors"} :
                  part.metrics[m] <= whole.metrics[m]

-----------------------------------------------------------------------------
(* What the repository's documents say and the code does not do.           *)

\* "A span that already carries content keeps it: the span is the more canonical
\* source, and a log record must never silently overwrite it": what is said in the
\* Episode of the spans alone is said in that with the records too.
ContentIsKept == Evaluation => Spoken(BuildEpisode(read.result.records)) \subseteq Spoken(read.episode)
=============================================================================
