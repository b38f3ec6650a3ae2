------------------------------ MODULE Policies ------------------------------
(***************************************************************************)
(* internal/engine/rego/policy: tool.rego and order.rego, over the tool    *)
(* calls of an Episode.                                                    *)
(***************************************************************************)
EXTENDS NameMatch, FiniteSets

CONSTANT Float  \* an integer stamp as the float64 the Episode's JSON makes of it

\* The offending calls.
allowlist_violation(calls, tools) == {tc \in calls : ~any_matches(tools, tc.name)}
denylist_violation(calls, tools)  == {tc \in calls : any_matches(tools, tc.name)}

call_limit_violation(calls, tool, max) ==
    Cardinality({tc \in calls : matches(tool, tc.name)}) > max

\* Call c was over when call d began: overlapping calls are unordered.
Over(c, d) == Float[c.ended] > 0 /\ Float[c.ended] <= Float[d.started]

\* Mutant of has_precondition: a failed precondition counts.
has_precondition_Failed(calls, precondition, action) ==
    \E c \in calls : matches(precondition, c.name) /\ Over(c, action)

has_precondition(calls, precondition, action) ==
    \E c \in calls : matches(precondition, c.name) /\ ~c.error /\ Over(c, action)

requires_precondition_violation(calls, action, precondition) ==
    {tc \in calls : matches(action, tc.name) /\ ~has_precondition(calls, precondition, tc)}

\* Mutant of before_violation: the two patterns swapped.
before_violation_Swapped(calls, first, then) ==
    {e \in calls : /\ matches(first, e.name)
                   /\ \E l \in calls : matches(then, l.name) /\ Over(e, l)}

\* Calls matching then that were over when one matching first began.
before_violation(calls, first, then) ==
    {e \in calls : /\ matches(then, e.name)
                   /\ \E l \in calls : matches(first, l.name) /\ Over(e, l)}
=============================================================================
