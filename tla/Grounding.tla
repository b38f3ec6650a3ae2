------------------------------ MODULE Grounding ------------------------------
(***************************************************************************)
(* internal/extract and the two grounding evaluators of                    *)
(* internal/contract/grounding.go: what the agent asserted, found          *)
(* structurally or by a model whose quotes are verified, and whether the   *)
(* Episode has a source for it.                                            *)
(*                                                                         *)
(* A token is a value in one of its written forms.  A turn's text is taken *)
(* to be one sentence.  Citation markers are left out.                     *)
(***************************************************************************)
EXTENDS Naturals, Sequences, FiniteSets

\* "1500" is written plain; "1,500" is the same value, grouped.  Dates and ids
\* have a plain form only.
Forms == {"plain", "grouped"}

\* The comparison form: digits only.
normalize(tok) == [tok EXCEPT !.form = "plain"]

\* strings.Contains(hay, tok.Norm): the hay is lower-cased and not normalized.
Mentions(text, tok) == normalize(tok) \in text

\* Mutant of completedBefore: the call had started.
completedBefore_Started(tc, turn) ==
    tc.ended # 0 /\ turn.started # 0 /\ tc.started <= turn.started

completedBefore(tc, turn) ==
    tc.ended # 0 /\ turn.started # 0 /\ tc.ended <= turn.started

\* Mutant of supportingCalls: whenever it completed.
supportingCalls_AnyTime(ep, k) ==
    {tc \in ep.tool_calls :
        tc.resultCaptured /\ \E tok \in ep.turns[k].text : Mentions(tc.result, tok)}

\* The calls whose result holds a value of turn k and was there.
supportingCalls(ep, k) ==
    {tc \in ep.tool_calls :
        /\ completedBefore(tc, ep.turns[k])
        /\ tc.resultCaptured
        /\ \E tok \in ep.turns[k].text : Mentions(tc.result, tok)}

\* Mutant of valueAppearsBefore: arguments are no source.
valueAppearsBefore_NoArgs(ep, k, tok) ==
    \/ \E tc \in ep.tool_calls :
          completedBefore(tc, ep.turns[k]) /\ tc.resultCaptured /\ Mentions(tc.result, tok)
    \/ \E u \in DOMAIN ep.turns :
          u < k /\ ep.turns[u].role = "user" /\ Mentions(ep.turns[u].text, tok)

\* Mutant of valueAppearsBefore: what the user says later counts.
valueAppearsBefore_AnyTurn(ep, k, tok) ==
    \/ \E tc \in ep.tool_calls :
          /\ completedBefore(tc, ep.turns[k])
          /\ \/ tc.resultCaptured /\ Mentions(tc.result, tok)
             \/ tc.argsCaptured /\ Mentions(tc.args, tok)
    \/ \E u \in DOMAIN ep.turns :
          ep.turns[u].role = "user" /\ Mentions(ep.turns[u].text, tok)

\* The value was in a result, or passed in by the agent, of a call that had
\* completed, or supplied by the user in an earlier turn.
valueAppearsBefore(ep, k, tok) ==
    \/ \E tc \in ep.tool_calls :
          /\ completedBefore(tc, ep.turns[k])
          /\ \/ tc.resultCaptured /\ Mentions(tc.result, tok)
             \/ tc.argsCaptured /\ Mentions(tc.args, tok)
    \/ \E u \in DOMAIN ep.turns :
          u < k /\ ep.turns[u].role = "user" /\ Mentions(ep.turns[u].text, tok)

\* One claim per assistant turn that asserts a concrete value.
Structural(ep) ==
    {[turn |-> k, text |-> ep.turns[k].text, support |-> supportingCalls(ep, k)] :
        k \in {k \in DOMAIN ep.turns : /\ ep.turns[k].role = "assistant"
                                       /\ ep.turns[k].captured
                                       /\ ep.turns[k].text # {}}}

-----------------------------------------------------------------------------
(* The verbatim gate: facts.go, locate.go.                                 *)

\* The regions of the Episode a row may quote from.
Sources(ep) ==
    {[kind |-> "turn", at |-> k, text |-> ep.turns[k].text] :
        k \in {k \in DOMAIN ep.turns : ep.turns[k].captured}}
    \cup {[kind |-> "tool_result", at |-> tc.span, text |-> tc.result] :
            tc \in {tc \in ep.tool_calls : tc.resultCaptured}}
    \cup {[kind |-> "tool_args", at |-> tc.span, text |-> tc.args] :
            tc \in {tc \in ep.tool_calls : tc.argsCaptured}}

\* The snippet is in the source, spelled as the source spells it.
Locate(text, snippet) == snippet # {} /\ snippet \subseteq text

\* turnOf is a map of the turns: any other source gets its zero value, which is
\* the index of the first turn (1 here).
turnOf(source) == IF source.kind = "turn" THEN source.at ELSE 1

\* The claims (ToClaims) of the rows that survive; a row is a source and a snippet.
Gate(ep, rows) ==
    {[turn |-> turnOf(row.source), text |-> row.snippet, support |-> {}] :
        row \in {row \in rows : row.source \in Sources(ep)
                                /\ Locate(row.source.text, row.snippet)}}

-----------------------------------------------------------------------------
(* The evaluators.                                                         *)

Unsupported(ep, claim) == {tok \in claim.text : ~valueAppearsBefore(ep, claim.turn, tok)}

\* The clauses run only on a trace that has messages and tool results.
Covered(ep) == {"has_message_content", "has_tool_results"} \subseteq ep.coverage

\* The findings of grounding.no_unsourced_claims.
evalNoUnsourcedClaims(ep, claims) ==
    {claim \in claims : Covered(ep) /\ Unsupported(ep, claim) # {}}

\* The findings of grounding.cite_sources.
evalCiteSources(ep, claims, min) ==
    {claim \in claims : Covered(ep) /\ Cardinality(claim.support) < min}
=============================================================================
