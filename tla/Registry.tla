------------------------------ MODULE Registry ------------------------------
(***************************************************************************)
(* The clause kinds axda knows (internal/contract/registry.go, init, and   *)
(* grounding.go, init): what each one needs from the trace, which class of *)
(* verdict it gives, whether it reads extracted claims, and the weight and *)
(* blocking a clause gets from its severity and its class.                 *)
(*                                                                         *)
(* A kind is its registered name; what it reads is left out.               *)
(***************************************************************************)
EXTENDS Naturals

Pass    == "pass"
Fail    == "fail"
Errored == "errored"
Skipped == "skipped"
Status  == {Pass, Fail, Errored, Skipped}

Deterministic == "deterministic"
Probabilistic == "probabilistic"
Class         == {Deterministic, Probabilistic}

\* Kinds lowered onto the embedded Rego policy: they read the tool-call log.
RegoKinds == {"tool.allowlist", "tool.denylist", "tool.call_limit",
              "order.requires_precondition", "order.before"}

\* Kinds lowered onto CUE or onto a built-in detector.
ValueKinds == {"invariant", "tool.args_match", "content.no_pii", "content.deny_patterns"}

BudgetKinds == {"budget.max_duration_ms", "budget.max_steps",
                "budget.max_tokens", "budget.max_tool_errors"}

\* The kinds whose verdict inherits the provenance of Episode.claims.
ClaimKinds == {"grounding.cite_sources", "grounding.no_unsourced_claims"}

JudgeKinds == {"grounding.judge", "quality.judge", "quality.helpful",
               "quality.on_topic", "quality.tone"}

Kinds == RegoKinds \cup ValueKinds \cup BudgetKinds \cup ClaimKinds \cup JudgeKinds

\* Coverage flags some kind requires.  The other flags of episode.Coverage
\* (has_cost, has_retrieval_spans, has_agent_spans) are required by none.
Flags == {"has_message_content", "has_tool_args", "has_tool_results", "has_token_usage"}

ReadsClaims(k) == k \in ClaimKinds

ClassOf(k) == IF k \in JudgeKinds THEN Probabilistic ELSE Deterministic

Requires(k) ==
    {f \in Flags :
        \/ f = "has_tool_args"       /\ k = "tool.args_match"
        \/ f = "has_token_usage"     /\ k = "budget.max_tokens"
        \/ f = "has_tool_results"    /\ k \in ClaimKinds
        \/ f = "has_message_content" /\ k \in ClaimKinds \cup JudgeKinds \cup
                                           {"content.no_pii", "content.deny_patterns"}}

Severity == {"critical", "major", "minor"}

weight(severity) == CASE severity = "critical" -> 3
                      [] severity = "major"    -> 2
                      [] OTHER                 -> 1

\* Where a contract may use a kind.
Positions(k) ==
    CASE k = "invariant" -> {"spec"}
      [] k = "tool.allowlist" -> {"spec", "must"}
      [] k = "tool.denylist" -> {"spec", "must", "must_not"}
      [] k \in {"content.no_pii", "content.deny_patterns",
                "grounding.no_unsourced_claims", "quality.judge"} -> {"must", "must_not"}
      [] OTHER -> {"must"}

RequiredParams(k) ==
    CASE k \in {"tool.allowlist", "tool.denylist"} -> {"tools"}
      [] k = "tool.call_limit"             -> {"max"}
      [] k = "order.requires_precondition" -> {"action", "precondition"}
      [] k = "order.before"                -> {"first", "then"}
      [] k = "invariant"                   -> {"expr"}
      [] k = "tool.args_match"             -> {"tool", "schema"}
      [] k = "content.deny_patterns"       -> {"patterns"}
      [] k \in BudgetKinds                 -> {"value"}
      [] k = "quality.judge"               -> {"rubric"}
      [] k = "quality.tone"                -> {"style"}
      [] OTHER                             -> {}

DefaultSeverity(k) ==
    CASE k \in JudgeKinds -> "minor"
      [] k \in {"tool.allowlist", "tool.denylist", "order.requires_precondition", "invariant",
                "content.no_pii", "grounding.no_unsourced_claims"} -> "critical"
      [] OTHER -> "major"

\* Other names a contract may use for a kind.
aliases == [allowed_tools |-> "tool.allowlist", denied_tools |-> "tool.denylist",
            verify_identity_before_action |-> "order.requires_precondition",
            expose_pii |-> "content.no_pii", cite_sources |-> "grounding.cite_sources",
            invent_customer_data |-> "grounding.no_unsourced_claims"]

\* One compiled clause: the part of contract.Entry the runner reads.
Entry == [kind : Kinds, severity : Severity, blocking : BOOLEAN]

\* Plan.add: a judge is advisory unless its clause says blocking: true, every
\* other clause blocks unless its clause says blocking: false.
DefaultBlocking(k) == ClassOf(k) # Probabilistic
=============================================================================
