------------------------------ MODULE Session ------------------------------
(***************************************************************************)
(* A recorded agent session, from the agent's side: model calls and tool   *)
(* calls that start and end, some of them side by side, in a conversation  *)
(* with a user.  The instrumentation exports a span when it ends, with the *)
(* content it was told to capture; axda builds an Episode from what was    *)
(* exported and evaluates the tool, order and grounding clauses over it.   *)
(*                                                                         *)
(* The session is external; EpisodeBuild, Grounding and Policies are the   *)
(* code.  The properties compare their verdicts, which only see stamps and *)
(* captured text, with what really happened in which order.                *)
(***************************************************************************)
EXTENDS EpisodeBuild, Grounding, Policies

CONSTANTS
    Tools,      \* tool names, as sequences of characters
    Tokens,     \* the concrete values a text can mention
    UserTexts, ChatTexts,    \* what may be said
    ArgTexts, ResultTexts,   \* what each tool may be passed, and return
    Captures,   \* what the instrumentation may be told to capture
    Clocks,     \* the stamps a clock may give to the events of the session
    MaxStamp,   \* the last of them
    MaxSpans,   \* at most so many spans
    MaxUser,    \* the user speaks at most so often
    Action, Precondition,  \* the patterns of the clauses in force
    Limit                  \* the parameter of tool.call_limit

Contents == {"inputs", "outputs", "args", "results"}
Texts    == UserTexts \cup ChatTexts \cup UNION {ArgTexts[n] \cup ResultTexts[n] : n \in Tools}
Events   == 1..(2 * MaxSpans)   \* the starts and ends of spans, numbered
Stamps   == 1..MaxStamp

ASSUME TokensAssumption   ==
    \A tok \in Tokens : tok = [value |-> tok.value, form |-> tok.form] /\ tok.form \in Forms
ASSUME TextsAssumption    == Texts \subseteq SUBSET Tokens
ASSUME CapturesAssumption == Captures \subseteq SUBSET Contents
ASSUME BoundsAssumption   == {MaxSpans, MaxUser, MaxStamp, Limit} \subseteq Nat
ASSUME NamesAssumption   == Tools \cup {Action, Precondition} \subseteq Seq(STRING)

\* A clock never goes back, but it may give several events one stamp.
ASSUME ClocksAssumption ==
    \A c \in Clocks : /\ c \in [Events -> Stamps]
                      /\ \A m, n \in Events : m <= n => c[m] <= c[n]

\* Rounding keeps the order of stamps, and does not make a stamp zero.
ASSUME FloatAssumption ==
    /\ Float \in [0..MaxStamp -> Nat]
    /\ \A s \in Stamps : Float[s] > 0
    /\ \A s, t \in 0..MaxStamp : s <= t => Float[s] <= Float[t]

VARIABLES
    now,      \* the number of events so far
    clock,    \* the clock's stamp of each event
    said,     \* the conversation: messages [role, text]
    spans,    \* the spans, in the order they started, with the numbers of their
              \* first and last event; end is 0 while they run
    captured  \* what is captured

vars == <<now, clock, said, spans, captured>>
setup == <<clock, captured>>

Message == [role : {"user", "assistant"}, text : Texts]

Span == [op : {"chat", "execute_tool"}, name : Tools \cup {<<>>},
         start : Events, end : Events \cup {0},
         in : Seq(Message), out : Seq(Message),
         args : Texts \cup {{}}, result : Texts \cup {{}}, error : BOOLEAN]

Ended == {i \in DOMAIN spans : spans[i].end # 0}

Init ==
    /\ now = 0
    /\ clock \in Clocks
    /\ said = <<>>
    /\ spans = <<>>
    /\ captured \in Captures

UserSays ==
    /\ Len(SelectSeq(said, LAMBDA m : m.role = "user")) < MaxUser
    /\ \E t \in UserTexts : said' = Append(said, [role |-> "user", text |-> t])
    /\ UNCHANGED <<now, spans, setup>>

\* One more event; a span has two, so the bound is never in the way.
Event == now < 2 * MaxSpans /\ now' = now + 1

Start(op, name, in, args) ==
    /\ Len(spans) < MaxSpans
    /\ Event
    /\ spans' = Append(spans, [op |-> op, name |-> name, start |-> now + 1, end |-> 0,
                               in |-> in, out |-> <<>>,
                               args |-> args, result |-> {}, error |-> FALSE])
    /\ UNCHANGED <<said, setup>>

\* A model call is given the conversation so far.
StartChat == Start("chat", <<>>, said, {})

StartCall == \E n \in Tools : \E t \in ArgTexts[n] : Start("execute_tool", n, <<>>, t)

EndChat(i) ==
    /\ spans[i].op = "chat" /\ spans[i].end = 0
    /\ Event
    /\ \E t \in ChatTexts :
          LET m == [role |-> "assistant", text |-> t]
          IN  /\ spans' = [spans EXCEPT ![i].end = now + 1, ![i].out = <<m>>]
              /\ said' = Append(said, m)
    /\ UNCHANGED setup

EndCall(i) ==
    /\ spans[i].op = "execute_tool" /\ spans[i].end = 0
    /\ Event
    /\ \E t \in ResultTexts[spans[i].name], e \in BOOLEAN :
          spans' = [spans EXCEPT ![i].end = now + 1, ![i].result = t, ![i].error = e]
    /\ UNCHANGED <<said, setup>>

End == \E i \in DOMAIN spans : EndChat(i) \/ EndCall(i)

Next == UserSays \/ StartChat \/ StartCall \/ End

Spec == Init /\ [][Next]_vars

-----------------------------------------------------------------------------
(* What axda makes of it.                                                  *)

\* 0 is the stamp of an end that has not come.
StampOf(event) == IF event = 0 THEN 0 ELSE clock[event]

\* The span as it was exported.
Exported(i) ==
    LET s == spans[i]
    IN  [id |-> i, op |-> s.op, name |-> s.name, nested |-> FALSE, rank |-> i,
         start |-> StampOf(s.start), end |-> StampOf(s.end),
         in |-> IF "inputs" \in captured THEN s.in ELSE <<>>,
         out |-> IF "outputs" \in captured THEN s.out ELSE <<>>,
         prompt |-> {}, completion |-> {},
         args |-> s.args, argsCaptured |-> "args" \in captured,
         result |-> s.result, resultCaptured |-> "results" \in captured,
         error |-> s.error]

EpisodeOf(I) == BuildEpisode({Exported(i) : i \in I})
Episode == EpisodeOf(Ended)

-----------------------------------------------------------------------------
(* What really happened.                                                   *)

ChatsEnded == {i \in Ended : spans[i].op = "chat"}
CallsEnded == {i \in Ended : spans[i].op = "execute_tool"}

Said(i) == spans[i].out[1].text

\* The spans that were over when span i started.
Behind(i) == {j \in Ended : spans[j].end < spans[i].start}

\* What the agent had met when chat i started: what the user had said, and what
\* it passed to and got from the calls that were over.
Known(i) ==
    UNION ({m.text : m \in {m \in ToSet(spans[i].in) : m.role = "user"}}
           \cup {spans[j].args : j \in Behind(i)}
           \cup {spans[j].result : j \in Behind(i)})

\* No span starts at the stamp another one starts or ends at, as f shows stamps.
Distinct(f) ==
    \A i, j \in DOMAIN spans :
        i # j => f[StampOf(spans[i].start)] \notin {f[StampOf(spans[j].start)], f[StampOf(spans[j].end)]}

Exact == [t \in 0..MaxStamp |-> t]

\* The spans of the calls a clause reports.
SpansOf(calls) == {tc.span : tc \in calls}

-----------------------------------------------------------------------------
(* Properties.                                                             *)

TypeOK ==
    /\ now \in 0..(2 * MaxSpans)
    /\ clock \in Clocks
    /\ said \in Seq(Message)
    /\ spans \in Seq(Span)
    /\ captured \in Captures
    /\ \A tc \in Episode.tool_calls : tc.name \in Tools /\ tc.started <= tc.ended

\* Whatever an assistant says that it can not have known when the model call
\* began is reported, if what it said was captured: neither later results,
\* overlapping calls nor the removal of repeated messages hide it.
NoInventionPasses ==
    "outputs" \in captured /\ Distinct(Exact) =>
        LET ep == Episode IN
        Covered(ep) =>
            \A i \in ChatsEnded :
                (\E tok \in Said(i) : \A k \in Known(i) : k.value # tok.value)
                => \E claim \in evalNoUnsourcedClaims(ep, Structural(ep)) : claim.text = Said(i)

\* What a model may quote from an Episode: any part of any source.
RowsOf(ep, sources) ==
    UNION {{[source |-> s, snippet |-> q] : q \in SUBSET s.text} : s \in sources}

AssistantTurns(ep) ==
    {s \in Sources(ep) : s.kind = "turn" /\ ep.turns[s.at].role = "assistant"}

\* Nothing the agent did know is reported as invented, when all was captured
\* and the sources write their values plainly, even if stamps coincide: neither
\* of its own claims nor of any part of them a model may quote.
NothingSourcedIsAccused ==
    captured = Contents =>
        LET ep == Episode IN
        \A claim \in evalNoUnsourcedClaims(ep, Structural(ep) \cup
                                               Gate(ep, RowsOf(ep, AssistantTurns(ep)))) :
            \E i \in ChatsEnded :
                /\ claim.text \subseteq Said(i)
                /\ \E tok \in claim.text : normalize(tok) \notin Known(i)

\* A call is counted as the support of a claim only if it was over when the model
\* call that made the claim began.
SupportWasThere ==
    "outputs" \in captured /\ Distinct(Exact) =>
        LET ep == Episode IN
        \A claim \in Structural(ep) : \E i \in ChatsEnded :
            Said(i) = claim.text /\ SpansOf(claim.support) \subseteq Behind(i)

MissingPrecondition ==
    SpansOf(requires_precondition_violation(Episode.tool_calls, Action, Precondition))

\* The calls of the action that began when no precondition had succeeded.
Unprepared ==
    {i \in CallsEnded : /\ matches(Action, spans[i].name)
                        /\ \A j \in Behind(i) \cap CallsEnded :
                              matches(Precondition, spans[j].name) => spans[j].error}

\* Rounded stamps tell events apart, and no call can stand on both sides of an
\* order clause (one too short to have a duration would be its own precondition).
Ordered == Distinct(Float) /\ \A n \in Tools : ~(matches(Action, n) /\ matches(Precondition, n))

\* order.requires_precondition never condemns an action that had a completed
\* precondition behind it, whatever the clock and the rounding do; and it lets
\* none through that had none, as long as rounded stamps tell events apart.
PreconditionVerdict ==
    /\ MissingPrecondition \subseteq Unprepared
    /\ Ordered => MissingPrecondition = Unprepared

\* The preconditions that were over when an action began.
Early ==
    {j \in CallsEnded : /\ matches(Precondition, spans[j].name)
                        /\ \E i \in CallsEnded : matches(Action, spans[i].name) /\ j \in Behind(i)}

\* order.before reports every call that was over when one that must come before it
\* began, and no overlapping ones, as long as rounded stamps tell events apart.
BeforeVerdict ==
    LET reported == SpansOf(before_violation(Episode.tool_calls, Action, Precondition))
    IN  /\ Early \subseteq reported
        /\ Ordered => reported = Early

\* The clauses the registry declares decidable on a prefix; those that fail
\* on the spans I.
PrefixKinds == {"tool.allowlist", "tool.denylist", "tool.call_limit",
                "order.requires_precondition", "order.before", "grounding.no_unsourced_claims"}

Failing(I) ==
    LET ep    == EpisodeOf(I)
        calls == ep.tool_calls
        fails(kind) ==
            \/ kind = "tool.allowlist" /\ allowlist_violation(calls, {Precondition}) # {}
            \/ kind = "tool.denylist" /\ denylist_violation(calls, {Action}) # {}
            \/ kind = "tool.call_limit" /\ call_limit_violation(calls, <<Star>>, Limit)
            \/ /\ kind = "order.requires_precondition"
               /\ requires_precondition_violation(calls, Action, Precondition) # {}
            \/ kind = "order.before" /\ before_violation(calls, Action, Precondition) # {}
            \/ kind = "grounding.no_unsourced_claims" /\ evalNoUnsourcedClaims(ep, Structural(ep)) # {}
    IN  {kind \in PrefixKinds : fails(kind)}

\* A clause that is decidable on a prefix and fails on the spans exported up to
\* some event fails on all of them.
PrefixVerdictsStand ==
    captured = Contents /\ Distinct(Float) =>
        LET failing == Failing(Ended) IN
        \A n \in 1..(now - 1) : Failing({i \in Ended : spans[i].end <= n}) \subseteq failing

-----------------------------------------------------------------------------
(* What the repository's documents say and the code does not do.           *)

\* "A value the agent passed in, or one the user supplied, counts as sourced:
\* only values that appear nowhere are inventions": a value that the agent
\* repeats just as it was written is never reported.
VerbatimIsSourced ==
    captured = Contents =>
        LET ep == Episode IN
        \A claim \in evalNoUnsourcedClaims(ep, Structural(ep)) : \E i \in ChatsEnded :
            Said(i) = claim.text /\ ~(Said(i) \subseteq Known(i))

\* "Support is left for the grounding clauses to establish in code": a claim that
\* has a source does not lack one because a model found it.
LLMClaimsCanBeSupported ==
    captured = Contents =>
        LET ep       == Episode
            reported == evalCiteSources(ep, Gate(ep, RowsOf(ep, AssistantTurns(ep))), 1)
        IN  \A claim \in Structural(ep) : claim.support # {} =>
                ~\E r \in reported : r.turn = claim.turn /\ r.text = claim.text
=============================================================================
