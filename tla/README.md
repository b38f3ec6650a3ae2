# axda in TLA+

`axda` (Agentix Disciplina) evaluates a recorded trace of an AI agent against an AgentContract: it
fetches or reads a trace, builds an Episode from it, compiles the contract to a plan of clauses,
evaluates the clauses and gates a build on the result. This directory models the parts of it whose
correctness is a matter of order, timing, failure and bookkeeping, checks them with TLC on small
instances, and proves the properties that matter most with TLAPS for every instance.

    tlc -config MCEvaluate.cfg MCEvaluate      # a run
    tlapm EvaluateProofs.tla                   # the proofs of a module

## Inventory

| Component (source) | State | Operations | What is hard | What makes it correct |
|---|---|---|---|---|
| Runner (`internal/evaluate`, `internal/verdict`, `internal/episode`) | report under construction, claims and coverage notes of the Episode | extract, walk the plan, run a clause, score, gate | early continues, class and blocking rewritten late, an extractor that fails, an Episode mutated through a pointer | the gate is what contract and outcomes say; what cannot be evaluated is skipped; nothing is lost or counted twice |
| Acquisition (`internal/fetch`) | last count, stable-since, deadline | resolve a session, query windows, poll, content query | the exporter is still writing, calls take time, guesses about windows, a pagination cap | *stable* means complete; the fetch ends; a wrong guess widens the search |
| Judge, extractor, cache (`internal/engine/judge`) | entries in memory, a file shared by processes | open, get, ask, put, flush | overlapping processes, a non-atomic rewrite, crashes, a model that answers differently each time | a verdict belongs to its request; failures are not remembered; re-runs are stable |
| Clause registry (`internal/contract/registry.go`, `grounding.go`) | a process-wide table of kinds | look up, evaluate a kind | global mutation by custom kinds, vacuous passes | every kind declares what it needs |
| Compiler (`internal/contract/contract.go`) | the plan, the kinds of the process | load, register custom kinds, add clauses, hash | custom kinds outlive a contract, loaded or refused; modules share names and rules; the hash sorts and leaves fields out | a plan is its own contract's; the hash tells plans apart |
| Value binding (`internal/contract/values.go`) | none | bind, resolve paths, enumerate combinations | partial capture, cardinalities, a cap | an invariant that holds was checked for every combination |
| Grounding (`internal/extract`) | none | extract claims, find support, verbatim gate | overlapping calls, values that appear before they are asserted | a sourced value has a source that completed before |
| Adapters (`internal/adapter`) | a memo of depths during the sort | decode, join content, build the Episode | duplicate, late and foreign records, parent cycles, partial capture | delivery order does not matter; nothing is said of a span that no record of it says |
| Rego policies (`internal/engine/rego`) | the module map, compiled queries | add a module, check and evaluate a query | overlapping calls are unordered; integers become floats; an undefined query passes; two matchers for one pattern | order clauses hold only of completed calls; the matchers agree |
| Command line (`cmd/axda`) | the saved envelope | fetch, save, evaluate live or from the file, flush the cache | partial traces, *stable* that nobody reads | a saved trace evaluates like a live one |
| CUE engine, PII detector, report | none | unify; detect; render | — | — |

They interact as follows. The command line loads a contract (compiler, registry), then an Episode:
from a file, or from acquisition through the adapters. It opens the judge cache if a clause or the
extractor needs it, hands plan and Episode to the runner, prints the report, flushes the cache and
exits with the gate. The runner calls the extractor (which shares the judge's cache), then the
evaluator of each entry's kind. The process is sequential: what is concurrent is the exporter of
the trace, the log service, and the other `axda` processes that share the cache file.

`PROJECT.json` lists every component, every hazard at its line, and the source lines each
definition stands for.

## Modules

| Module | Models |
|---|---|
| `Registry` | the built-in clause kinds: class, positions, parameters, aliases, coverage requirements, claim reading, weights and defaults (operators) |
| `NameMatch` | the two name matchers, `matchName` and `match.rego` (operators) |
| `Evaluate` | one or more `RunContext` calls over an Episode |
| `Admission` | what an evaluation promises its caller: the abstract specification `Evaluate` implements |
| `Fetch` | `Client.Fetch` and `withContent`, with the exporter, the log service and time as environment |
| `JudgeCache` | evaluate processes sharing the cache file: `OpenCache`, `Get`, `Put`, `Flush`, the judge and the extractor around them, crashes and failed writes |
| `EpisodeBuild` | `BuildEpisode`: span order, turns and their deduplication, tool calls, coverage, metrics (operators) |
| `SpanOrder` | the memoised depth recursion of `sortSpans`, call by call |
| `Pipeline` | trace fetch, the envelope, evaluate, and the join of message bodies, over `EpisodeBuild`, with the log service as environment |
| `Grounding` | structural claims, support, the value search, the verbatim gate, the two grounding clauses (operators) |
| `Policies` | `tool.rego` and `order.rego` (operators) |
| `Session` | an agent session that produces a trace, composed with the three modules above |
| `Values` | value declarations, bindings, combinations and the invariant clause (operators) |
| `Invariants` | an invariant over a trace whose calls are recorded one by one, and whose metrics change with them |
| `Compile` | contracts loaded one after the other: custom kinds, values, clauses, plan hash, policy modules |
| `MCEvaluate`, `MCFetch`, `MCCache`, `MCSession`, `MCInvariants`, `MCPipeline`, `MCSpanOrder`, `MCCompile` | constants for TLC |
| `EvaluateProofs`, `FetchProofs`, `JudgeCacheProofs`, `InvariantsProofs`, `EpisodeProofs`, `AdapterProofs`, `SessionProofs`, `CompileProofs` | the theorems |

**Evaluate.** `KeepClaims`, `ExtractStructural`, `ExtractLLM` and `ExtractorFails` are the branches of
the extraction (lines 63–84); each ends in `StartLoop`, the snapshot of the coverage notes (what it holds is one assignment, which no
property repeats). One loop iteration is one of `SkipUnextracted`, `SkipUncovered` and `RunClause`: the three ways through the
body. What an evaluator answers is left open within what its kind can answer (`Outcomes`): a kind
that never returns a `SkipError` never skips, and a recovered panic makes `errored` possible for
all. `Gate` decides; `Rerun` starts another call over the Episode the last one wrote to. Messages,
findings' text and evidence masking are left out.

**Fetch.** The code only compares differences of `time.Now()`, so there is no clock: `age` is
`time.Since(stableSince)`, `elapsed` the time since the deadline was set, `since` the time in the
current sleep or API call, `sinceExport` the exporter's silence, each saturating where the code
stops telling values apart. An API call takes up to `MaxLatency` ticks, and `asked` records what was
visible when it was issued: its answer holds all of that (in its window, up to the cap) and perhaps
more. The poll is split by what an answer leads to: `ReturnStable`, `ReturnUnstable`, `NoSpans`,
`Sleep`. `windows` are the scan ranges, represented by the records each can find.

**JudgeCache.** A run is a process; `Truncate` and `Write` are the two steps of `os.WriteFile`. The
history variables `given`, `paid`, `banked` and `earlier` remember what the model answered, who
paid for it, and what runs that ended well reported; `disturbed` remembers that runs overlapped,
crashed or failed to write. `Faults` says what the environment may do.

**Session.** The agent is the environment: its model calls (`StartChat`, `EndChat`) and tool calls
(`StartCall`, `EndCall`) start and end in any order, several at a time, while the user speaks
(`UserSays`). Events are numbered, and `clock` gives each a stamp; a coarse clock gives several the
same one. A span is exported when it ends, with the content that was captured (`Exported`), so the
set of ended spans is at every moment a trace `axda` may be given; `Episode` is what `BuildEpisode`
makes of it. The properties compare what the clauses report of the Episode, which shows stamps and
captured text, with what the event numbers say really happened. A text is the set of the values it
mentions, each in a written form (`plain`, or `grouped` by separators), and a turn is one sentence;
citation markers are left out, so is containment of one value in another as a substring. `Float` is
the rounding of stamps to float64 on the way to Rego. A row of the llm extractor is any source with
any part of it: the model may quote whatever it likes.

**Invariants.** `Record` adds a call that has ended, at the place its start gives it: a call that took
long lands before others that are already there. `Measure` is anything else that ends and is measured: a model
call, a nested span. The metrics are those of the Episode at each moment (`MetricsOf`): the calls, their errors and
the steps are counted from the calls, the rest is `measured`, of which what is counted or runs on only grows (`Later`). `Values` binds the names of the expression to the
calls' documents, which are trees; an empty or malformed document is no document. A declaration of a metric that there is not is refused. `result` is what
the clause comes to on the trace so far. CUE is the operator `Constraint`, a constant. Patterns and names
are sequences of characters, here as in `Session`, so that each clause meets the matcher its code uses:
`matchName` the invariant, `matches` the policies.

**Pipeline.** The agent has written its content records (`written`, all of which may arrive, late and more than
once); spans become visible in any order (`ExportSpans`, `DeliverContent`). `FetchSpans` is the settle poll
seen from outside: what `Fetch` establishes of it (a stable result is complete, under the conditions of
`StableIsComplete`) is the guard here. `FetchContent` is `withContent`, with every way in which it comes back without records.
`Save` writes the envelope: encoding it anew changes the bytes of the records, and with them the order in which
the bodies of one span are applied (`rekey`). `EvaluateLive` and `EvaluateSaved` decode, join and build. The
process holds one trace at a time; fetching again starts over. Without a log stream, in the agent's own
group, the span query finds the log records too, and each that has both ids decodes to a span (`Phantom`).
A span's message attribute that is there but does not decode is in `opaque`, and the deprecated `gen_ai.prompt` and
`gen_ai.completion` are `prompt` and `completion`: whether a record's message is taken depends on the first
(`Present`), and what the Episode has of the span on both (`Input`, `Output` of `EpisodeBuild`).
What a phantom with the id of a real span does to the depths of the others is left out.

**SpanOrder.** `stack` holds the calls of the recursive function `d`, `depth` the memo; `Recall`,
`GiveUp`, `Root` and `Recurse` are its branches, `Return` is what the caller does with the value. Any span may be
asked about at any time between two calls: the sort's comparisons are not ordered.

**Compile.** `registered` is the process's registry and survives `Refuse`, `Finish` and all later loads until `Restart`;
everything else belongs to one load. `RegisterCustom`, `bindValues`, `add` and `Finish` are the code's stages
in their order, each with the refusal that its error returns are. A policy module is what it contributes to each
rule: `Meaning` is what a query evaluates to then, nothing if no module defines it. A plan is kept with the modules it
was compiled with; so plans of contracts loaded at different times can be compared. What parameters print and marshal to is left to the constants
`Place` and `Marshal`: parameters that differ may sort alike, and may have the same JSON or none. `Finish` puts the
entries in any order that sorts them, because `sort.Slice` may leave entries of one place either way round.

## Runs

| Run | Question | Bounds |
|---|---|---|
| `evaluate` | are gate, report and score right, and do calls implement `Admission`? | thirteen plans of one to three clauses with each treatment by the loop; every coverage; every outcome; at most one rejected row; two calls |
| `fetch` | what do *stable*, *unstable* and *no spans* mean, and does every fetch end? | 3 records, settle 4, wait 6, latency 1, gap 2; right and wrong windows; with and without session |
| `cache` | is a reported verdict always the model's answer to that request, and are undisturbed re-runs stable and free? | 2 runs, 3 requests that differ in effort or use, all faults |
| `session` | do the grounding and order clauses report what happened, do failures on a prefix stand? | 3 spans, one user message, two values, two tools; all captured, or all but one kind of content; a fine clock and two coarse ones; two stamps that float64 does not tell apart |
| `session_grouped`, `session_cite` | two statements that the code does not keep | 2 spans |
| `invariants` | what do pass, fail and skip of an invariant mean, and do the name matchers agree? | the guide's refund contract under all 44 pairs of declarations, three of them of metrics, 3 calls of eight kinds in any order of recording, two measurements, cap 2; patterns of up to three characters |
| `pipeline` | what does an Episode say of a trace that was fetched too early, joined with what was late, repeated or foreign, and saved or not? | a model call with a deprecated attribute and one that does not decode, one with its own input, and a tool call with a blank result; any 3 of 7 content records, 2 copies, 3 deliveries |
| `pipeline_kept` | a statement that the code does not keep | the same spans, one record |
| `compile` | is a plan its own contract's, whatever was loaded before, and does the hash tell plans apart? | 155 contracts that differ in one respect each, among them parameters that print alike, marshal alike or have no JSON; 3 loads, restarts between |
| `compile_shadow` | a statement that the code does not keep | the same contracts, one load |
| `span_order` | are depths true, the same whenever asked, and always answered? | 4 spans, every assignment of parents, guard 2 |

Why the bounds are enough: the loop of the runner carries only counters and the verdicts from one
clause to the next, so two clauses exercise every interaction, and the theorems remove the bound.
In `Fetch` three records give an empty, two partial and a complete trace, and the settle window
exceeds gap plus latency by one tick, the tightest instance in which the promise can hold. In the
cache two processes give every interleaving of two flushes, and the second is the re-run of the
first when they do not overlap. Runs of the cache are interchangeable, so its runs use symmetry.
In a session three spans are a claim, a source and a third call that overlaps either; an order clause
relates two calls, and the third is one that should not matter. Three calls of an invariant exceed the
cap of combinations and tell *first*, *last* and *only* apart.

In the pipeline three records for one span are enough for a repetition, a disagreement and a foreign record to meet; a
record only ever touches its own span. Three loads are a contract, one that leaves something behind,
and one that meets it. Four spans with guard 2 are chains up to
two beyond the guard (to a parent that is missing), short chains that share an ancestor with such a chain, circles of
every length, and every way in which a memo filled from one end is met from the other.

`CHECK_DEADLOCK FALSE` is set where the system really ends: the last `RunContext` call
returns, the fetch is done, the processes exit, the session and the recording are over, the loads are used up.

**Fairness.** `Fetch!FairSpec` has weak fairness of the client's steps (calls return, timers fire), of time,
and of an exporter that has started; no fairness makes an exporter start. `SpanOrder!SortSpec` has weak fairness of the
recursion's own steps, which wait for nothing; the sort need not ask again. (Its names differ from `Spec` so that `AdapterProofs` can extend it beside `Pipeline`.) The properties of
the other modules are safety properties and need none.

## Where documents and code part

Four runs are expected to find a violation; `PROJECT.json` quotes the line each one is about.

- A value that is written with separators, as `1,500` or `$1,500.00`, is never found in a source that writes
  it the same way (`session_grouped`): the asserted form is normalised, the source is not.
- Under `--extractor llm`, `grounding.cite_sources` fails for every claim (`session_cite`): nothing fills in
  the support of an extracted claim.
- A contract whose custom clause has its policy at `policy/tool.rego` replaces the embedded module of that path, and the
  built-in tool clauses pass (`compile_shadow`).
- A model call that carries its prompt in the deprecated attribute loses it to a content record
  (`pipeline_kept`): `setAttrIfAbsent` sees no `gen_ai.input.messages` and sets it, and then `gen_ai.prompt` is not read.
  `ContentOnlyAdds` and `PartialIsPart` except the turns of deprecated attributes (`Deprecated`) for that reason.

Others have no run of their own. About verdicts:

- A judge clause with `blocking: true` never fails the build (`Verdict.Blocks`, `verdict.go:71`; the help of
  `evaluate` says it does, `evaluate.go:97`).
- A row of the llm extractor that quotes the user's turn, or a tool's arguments, is held against the agent
  (`facts.go:74`); one that quotes a tool is judged as if it were the first turn's.
- An invariant with cardinality `any` passes although a matching call's value is not in the trace
  (`values.go:149`), as long as another's is; the guide says that it must hold for every call.
- The two matchers differ on the empty pattern, which matches every name in Go and the empty one in Rego, and
  on `**`: `EnginesAgree` states where they agree.

About acquisition and the Episode:

- A session that has no queryable span yet is not waited for (`cloudwatch.go:110`; `guide.md:720`).
- A trace that is not stable is written and evaluated (`evaluate.go:348`), with a warning when it is saved; ADR-007 (line
  354) says that it is reported rather than written.
- If two bodies of one span disagree, a saved trace may evaluate differently from the live one: they are applied in the order
  of their bytes, and the envelope re-encodes them. `DeliveryIsForgotten` has the premise `Agree` for it.
- A trace looked for in the agent's own log group, without a stream, has its log records among its spans: any record
  with both ids decodes (`cwspans.go:387`), these have no times, and the episode lasts since 1970. ADR-007 (lines 341 and
  343) promises the same Episode either way. `DeliveryIsForgotten` speaks of scoped fetches where it speaks of the whole trace.
- A message attribute that is there but does not decode, an empty list for instance, keeps a record's messages out
  (`cwspans.go:185`) and tells nothing itself: `Told` counts it as present.
- A content record without a trace id is joined by its span id alone, whichever trace it is of.
- A span record that is delivered twice is counted twice. The model's spans are a set.
- Spans of a parent circle, or of a chain deeper than 64, have a depth that depends on the order in which the sort asks;
  so have spans with a short chain of their own that share an ancestor with such a chain: what the guard
  answered above them stays in the memo. `DepthIsTrue` is stated of families of spans without such a chain. The depth
  is the same for the whole of one sort (`OneAnswer`), so the order is total but not the trace's alone.

About contracts:

- Two reports are said to be comparable exactly when their plan hashes match (`guide.md:653`), and the hash to be stable when the
  contract does not change (ADR-003, line 293). Clauses that sort alike and are not alike, such as one tool named `a b` and
  two named `a` and `b`, are hashed in the order in which the sort leaves them (`Tied`). `1` and `1.0` are one number in JSON, and
  contracts that differ only there share a hash (`Plain`). A parameter or value that JSON cannot encode (`.inf`, a key that is
  no text) leaves nothing to hash: all such plans have one hash (`Written`).
- The plan hash does not cover the text or the query of a custom policy: contracts that differ only there share it, and so does a
  contract with itself, compiled in two processes whose earlier contracts declared a kind it uses differently.
  `HashTellsPlans` compares plans of the same custom declarations that use no others (`OwnNames`).
- A custom clause may query a built-in rule; it evaluates the built-in policy then, under the clause's own name and severity.
- A custom query that no module defines, a misspelt one for instance, passes for ever: `Check` compiles it all the same.
- A kind registered by an earlier contract of the process, even a refused one, is accepted in a later contract that does not declare it; the
  corrected contract is refused because the name is taken. `SelfContained` excludes the first; the command line loads one contract.
- A severity that is no severity is taken as it is; a budget whose value is no integer has no limit. Both are left out of `Compile`.
- Only the root of a value's name is checked at compile time: `refund` and `refund.amount` declared together err at evaluation.

About the bounds of what is promised:

- A second `RunContext` call over one Episode takes the llm claims it finds there for structural ones, and reports a pass on
  them as deterministic: `LLMPassIsAdvisory` is stated of the first call. The command line makes one.
- A trace longer than the window derived from its id, or larger than the pagination cap, is cut and
  called stable. `SeesWholeTrace` excludes both from what `StableIsComplete` promises.
- Overlapping runs lose each other's cached verdicts, and a run killed while it flushes loses those of
  every earlier run: `RerunIsStableAndFree` does not hold without its premise `~disturbed`.
- `axda explain` calls every invariant decidable inline. `FailureStands` holds of operands that are literals, or that take every
  value or the only one from the calls and have no default; without that premise TLC finds that a later lookup, bound by
  `last`, takes a failure back, and that a failure against a metric goes when the metric moves.
- ADR-003 says that `exactly_one` fails the clause if the tool was never called; the code skips it,
  as the guide says (`PassHoldsThroughout`). The guide says that a contract with too many combinations does
  not compile; the clause errs when it is evaluated.
- A stable span set may have been quiet for less than the settle window, by the latency of one call:
  `StableWasQuiet` states what does hold.
- ADR-002 says that a rule reading llm claims yields a probabilistic verdict whether it fails or
  passes; the code does what ADR-008, which revised it, says.

## Proofs

All hold for every value of the constants that satisfies the modules' assumptions: finite traces,
a positive settle window, plans of registered kinds; for `Session`, tokens that are a value in one of the forms,
clocks that never go back, roundings of stamps that keep their order; for `Pipeline`, finitely many spans and records, ids, ranks and keys
that tell them apart, and messages, prompts and completions that are one text or none and not blank; for `Invariants`, documents and defaults that are one
tree or none, and the expression's names each once (`ReferencedNames` filters and sorts the keys of a map); for `Compile`, lists of clauses that
are sequences, policy files without a rule named like a kind (a rule's name begins with `data.`), and places in the sort order
that are numbers and tell kinds apart (a contract has finitely many clauses, and the order compares kinds first). `PROJECT.json` lists the theorems.
Each conclusion about a sequence is drawn from the library's theorems on `Len`, `Append` and `SubSeq`; none
rests on the SMT backend's own reading of `Len` for values that are no sequences.

`EvaluateProofs`. The inductive invariant joins `TypeOK`, the alignment of `verdicts` with the plan
(`Aligned`), the relation between the class and blocking of a verdict and its clause, and the counts.
`GateMatchesContract` is not inductive by itself because the gate is computed from rewritten
verdicts: the invariant says that the rewriting turns no blocking failure into an advisory one.
Lemma `LoopStep` summarises what any loop iteration does, so that the theorems do not repeat the
three cases. `Implementation` is the refinement: extraction stutters, an iteration settles one clause,
the gate decides. `LLMPassAdvises` rests on that in the first
call over an Episode the extractor's name says where the claims came from (`AdvisoryInv`).
`ScoreIsOfConcluded` carries from iteration to iteration that a tally of the verdicts exists, and that each
tally ends in the total so far (`ScoreInv`): one more verdict extends the one tally and adds its weight to the other.

`FetchProofs`. `last` counts what an earlier answer held. The invariant: it never exceeds what is
visible, and while it equals it the exporter has been silent for at least `age` (`Counted`); the same
holds of what was visible when the call in flight was issued, up to the time in flight (`InFlight`).
A stable answer has `last` records and contains all that was visible when it was asked for, so it is
exactly that, and the exporter's silence at that moment is at least Settle less the latency
(`QuietBeforeStable`). If no silence of an unfinished exporter is that long, the trace is complete
(`CompleteWhenStable`). It rests on monotonicity of cardinality over finite sets.

`JudgeCacheProofs`. What is bound to a request's prompt hash, in memory or on disk, is an answer the
model gave to that request; the hash tells requests apart; a torn file binds nothing. `AnswersAreKept`
needs, besides, that a run remembers what it reported (`Remembered`). `RerunsAreStable` needs an invariant of undisturbed
histories (`Quiet`): one run is active at a time, what earlier runs reported is in the file while
nobody writes it and in the memory of the active run while somebody does, and a run whose memory is not marked
`dirty` has the file's entries: that is what makes it right to leave out the flush.

`EpisodeProofs`. Two theorems about the operators of `EpisodeBuild`: `sortSpans` returns a permutation of the spans that respects the
order (`SpansSorted`), and in a joined sequence each part has its own place, the parts one after the other
(`TurnsPlaced`). The order is given by the rank of each span, and the joined sequence by a recursive
function over the parts, so that what would be an induction over data is an argument by the
least counterexample (`LeastNat`), which the provers can do.

`SessionProofs`. The invariant relates the spans to the events: each starts before it ends, an agent's spans are numbered in
the order of their starts, an event is one span's. The order clauses compare stamps; two lemmas
(`BehindIsOver`, `OverIsBehind`) say when stamps tell the order of events, for any clock and
rounding: always in one direction, in the other only if they are distinct. `PreconditionsAreJudgedRightly`
and `OrderIsJudgedRightly` follow for every number of calls. The grounding clauses need what has been said as well
(`Talk`): every message of the assistant was some chat's answer, a chat is told all that its predecessors were told, and an answer only
after that chat has ended. From it, each turn of the assistant in the
Episode is at the place of the answer of a chat that was the first to give it (`AssistantTurnIsAnswer`,
`FirstSaid`), and what the Episode has as a source of a value the chat could know (`SourceIsKnown`), or, if everything was captured, the other way round
(`KnownIsSource`). So inventions are reported (`InventionsAreReported`) and knowledge is not (`KnowledgeIsNotAccused`).
A prefix of the trace is a set of spans that is closed under what had ended before (`Closed`); the lemmas are stated
for every such set, so that `FailuresOnPrefixesStand` can compare the Episodes of two of them.

`AdapterProofs`, `SpanOrder`. The memo is written over when a recursion runs into its own path, so a depth may
change while it is being computed. The invariant: what waits on the path has not been answered, an
answer is what the memo holds, and the first call of a path never meets the guard, so that what it
returns is in the memo (`Settled`). Hence `OneAnswer`, circles and deep chains included.
`DepthsAreTrue` adds that the path is a chain of parents (`Path`) and that in a family without a deep chain the memo holds
heights only: a path in it is the chain above its first span, and ends before the guard is reached (`GuardNotReached`).
An earlier form of `DepthIsTrue` asked for a short chain of the span alone. Its proof failed at
the recursion that meets a memo the guard had a part in; with guard 2 TLC finds that counterexample among four spans.

`AdapterProofs`, `Pipeline`. The records of a span are applied one after the other, each to what is not present yet. So each attribute ends
as what the span has if it is present or else as what the record with the least key, among those that say anything of it, says
(the order comes from `SpansSorted`, and that the first one counts is an argument by the least counterexample).
That depends on the set of the records and not on their sequence, nor on the keys if all of a span's records
say the same (`AgreeingTell`), and it is something that is told of the span, or nothing is (`FullTells`). What a span tells is in the Episode: its call as it is,
its messages, or what its deprecated attributes hold where none decode, as turns at the places `TurnsPlaced` gives them (`EpisodeIs`). A span that gets
records tells what it told alone, but for a deprecated attribute that gives way (`FullGrows`, `BareIs`), and the metrics are
kept because a span and what it becomes have one id, start, end and operation. `PartialIsPartAlways` compares two sets of spans and two
of records, one inside the other: where the records agree, a span's attribute is the same in both or is told in the larger one only
(`MoreAdds`), so that calls, turns, coverage and counts are carried over (`ReadingIsPart`). The inductive invariant (`Inv`) says that what is evaluated is always of this
kind: spans of the trace, phantoms of its records and a sequence of its records, and all of the spans and nothing else if the fetch was stable and of one stream.

`InvariantsProofs`. The inductive invariant is small: the trace has types, its spans are numbered without a gap, and
`result` is what the clause comes to on it. The work is to say what that is. The bindings of a name are
the calls that hold a value for it, in their order, each once (`RawPlaces`), so that the first, the last and
the only one are what the contract means by them (`BindsRight`). The combinations are either too many or exactly the
readings (`CombinationsCross`), each blamed on the last operand that varies, because no operand after it takes the blame
away (`CombinationsBlame`); both are arguments by the least counterexample over the names. `ClauseConcludes` puts them together in
the order of the returns of `evalInvariant`, and `PassIsWhole` and `BlameIsRight` follow. `FailuresStand` compares
two traces: a call that is recorded shifts those behind it (`Moved`), and no holder, operand, breach or
second value of an `exactly_one` is lost, whatever the metrics become, because no operand is one (`Cumulative`). `PatternsAgree` shows `matchName` equal to `Glob` by the four cases of wildcards,
and leaves `matches` to `MatchersAgree`, a theorem about the two operators: the cases of `matchName`, of which the first counts,
are those of `matches`, of which any does, because the wildcards at the ends tell them apart and
because a pattern that is equal to the name is found in it too. CUE's `Constraint` is any operator.

`CompileProofs`. The invariant (`Stands`) says of a load that its modules are the embedded ones, overlaid by the files of the custom clauses
so far, and that each of these clauses is registered as itself (`Loaded`): a name that is already taken refuses the load, so
that nothing registered earlier can stand in for it and nothing later replaces it. From then on the registry does not change,
and each entry is what its clause says (`EntryOf`); a finished plan keeps that (`PlanOf`). `PlansMean` follows, because
files that keep away from the embedded rules leave a built-in clause its rule and nothing else. For `HashTells`, two orders that sort
the same entries have equal places at equal positions, by the pigeonhole principle (`SortedOneWay`), so that without ties they
give one text (`SortedAlike`); and equal texts match the entries of two plans one to one (`SameHashAlike`), where the query,
which the hash leaves out, follows from the kind and the custom clauses. Nothing is assumed of what parameters marshal to.
Two statements were corrected on the way, each with a counterexample of TLC's: a custom query may name a built-in
rule (`Means` looks among the embedded modules too), and a kind of an earlier contract breaks the hash (`OwnNames`).

Only model-checked: the liveness properties `Ends` and `CallsReturn`, which are out of the prover's reach. Every
safety property of a passing run is a theorem.

## Not modelled

The text of prompts, transcripts, messages and findings; the variants of field names and the nested JSON that the adapters
decode, and the OTLP reader; the detectors of `content.*` and `tool.args_match`, which are library calls
over strings; YAML decoding, `explain` and the suggestions of the compiler; AWS client construction and its retries
(a call here is a call with its retries); regular expressions, the Luhn check and CUE unification,
which belong to libraries; report rendering; `docs/adrs/005`, `006` and `009`, which describe parts that
are not implemented.

## Plan

1. The abstractions between modules as theorems: that `Fetch` refines the guard of `FetchSpans` (a stable result is complete, under
   the conditions of `StableIsComplete`), and that `BuildEpisode`, given the depths `SpanOrder` answers, is the order by `rank`.
2. `Compile`: that a load refused for one contract leaves the next one as it would have been in a process of its own, where names do
   not clash.
