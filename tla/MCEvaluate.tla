----------------------------- MODULE MCEvaluate -----------------------------
(* Small plans for TLC: one kind for each way the runner can treat a clause. *)
EXTENDS Evaluate

E(k, s, b) == [kind |-> k, severity |-> s, blocking |-> b]

\* A clause that needs no coverage, one of each coverage flag, the two kinds
\* that read claims, a kind that may skip by itself, a judge by default and a
\* judge that opted into blocking.
MCEntries ==
    { E("tool.allowlist", "critical", TRUE),
      E("tool.args_match", "major", FALSE),
      E("budget.max_tokens", "major", TRUE),
      E("invariant", "critical", TRUE),
      E("grounding.cite_sources", "major", TRUE),
      E("grounding.no_unsourced_claims", "critical", TRUE),
      E("quality.helpful", "minor", DefaultBlocking("quality.helpful")),
      E("quality.helpful", "minor", TRUE) }

\* Each treatment alone, and combinations of treatments.
MCMixed ==
    {<<e>> : e \in MCEntries} \cup
    { <<E("grounding.no_unsourced_claims", "critical", TRUE), E("invariant", "major", TRUE)>>,
      <<E("quality.helpful", "minor", TRUE), E("tool.allowlist", "critical", FALSE),
        E("grounding.cite_sources", "major", TRUE)>>,
      <<E("tool.args_match", "major", FALSE), E("grounding.cite_sources", "major", TRUE)>>,
      <<E("invariant", "critical", TRUE),
        E("quality.helpful", "minor", DefaultBlocking("quality.helpful"))>>,
      <<E("budget.max_tokens", "major", TRUE), E("grounding.no_unsourced_claims", "critical", TRUE),
        E("tool.allowlist", "critical", TRUE)>> }
=============================================================================
