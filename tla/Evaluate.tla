------------------------------ MODULE Evaluate ------------------------------
(***************************************************************************)
(* internal/evaluate/evaluate.go: one RunContext call over an Episode.     *)
(*                                                                         *)
(* A run extracts claims (or finds them already on the Episode), takes a   *)
(* snapshot of the coverage notes, walks the plan's entries in order and   *)
(* appends one verdict for each, then scores and gates.  RunContext writes *)
(* Episode.Claims and Episode.Coverage.Degraded through its pointer, so a  *)
(* second run over the same Episode starts from what the first one left:   *)
(* the variable ep survives Rerun, everything else is local to the call.   *)
(*                                                                         *)
(* What a clause evaluator answers is left open, within what its kind can  *)
(* answer (Outcomes); what the runner makes of the answer is exact.        *)
(***************************************************************************)
EXTENDS Registry, Sequences, FiniteSets, FiniteSetsExt

CONSTANTS
    Plans,        \* the compiled plans to run: sequences of Entry
    MaxRejected,  \* most rows one extraction has rejected by the gate
    MaxRuns       \* most RunContext calls over one Episode

ASSUME PlansAssumption  == Plans \subseteq Seq(Entry)
ASSUME BoundsAssumption == MaxRejected \in Nat /\ MaxRuns \in Nat \ {0}

Options == [failOnSkipped : BOOLEAN,
            judge         : BOOLEAN,   \* Options.Judge is not nil
            llm           : BOOLEAN,   \* Options.Extractor is the llm extractor
            credentials   : BOOLEAN]   \* Judge.Available answers true

\* Where the claims on the Episode came from (Claim.Extractor of every one of
\* them), or NoClaims when the list is empty.
NoClaims   == "none"
Structural == "structural"
LLM        == "llm"

Episode == [has      : SUBSET Flags,  \* Coverage flags the trace supports
            asserts  : BOOLEAN,       \* the structural extractor finds a claim
            claims   : {NoClaims, Structural, LLM},
            degraded : Nat]           \* notes in Coverage.Degraded

Verdict == [clause : Nat, kind : Kinds, status : Status, class : Class, blocking : BOOLEAN]

VARIABLES
    plan, opts,   \* the arguments of the call
    ep,           \* the Episode it was given
    pc,           \* "extract", "eval" or "done"
    idx,          \* the entry the loop is at
    extractor,    \* extractorName
    extractErr,   \* extractErr # nil
    shown,        \* report.Episode.Degraded, as its number of notes
    verdicts,     \* report.Verdicts
    counts,       \* report.Counts
    total, earned,\* scoreTotal, scoreEarned
    gate,         \* report.Gate, or "none" before it is decided
    runs          \* RunContext calls so far

vars == <<plan, opts, ep, pc, idx, extractor, extractErr, shown, verdicts,
          counts, total, earned, gate, runs>>

args == <<plan, opts>>

NoCounts == [s \in Status |-> 0]

Init ==
    /\ plan \in Plans
    /\ opts \in Options
    /\ ep \in [has : SUBSET Flags, asserts : BOOLEAN, claims : {NoClaims}, degraded : {0}]
    /\ pc = "extract"
    /\ idx = 1
    /\ extractor = Structural
    /\ extractErr = FALSE
    /\ shown = 0
    /\ verdicts = <<>>
    /\ counts = NoCounts
    /\ total = 0
    /\ earned = 0
    /\ gate = "none"
    /\ runs = 1

-----------------------------------------------------------------------------
(* Claim extraction, and the snapshot of the coverage notes after it.      *)

\* What every extraction branch does last.
StartLoop ==
    /\ pc' = "eval"
    /\ shown' = ep'.degraded
    /\ UNCHANGED <<args, idx, verdicts, counts, total, earned, gate, runs>>

\* len(ep.Claims) > 0: nothing is extracted and extractorName stays structural,
\* whatever produced the claims and whichever extractor was asked for.
KeepClaims ==
    /\ pc = "extract"
    /\ ep.claims # NoClaims
    /\ UNCHANGED <<ep, extractor, extractErr>>
    /\ StartLoop

ExtractStructural ==
    /\ pc = "extract"
    /\ ep.claims = NoClaims
    /\ ~opts.llm
    /\ ep' = [ep EXCEPT !.claims = IF ep.asserts THEN Structural ELSE NoClaims]
    /\ UNCHANGED <<extractor, extractErr>>
    /\ StartLoop

\* Facts answered: the rows the gate accepted become claims, every row it
\* rejected becomes a coverage note.
ExtractLLM ==
    /\ pc = "extract"
    /\ ep.claims = NoClaims
    /\ opts.llm
    /\ opts.credentials
    /\ extractor' = LLM
    /\ \E found \in {NoClaims, LLM}, rejected \in 0..MaxRejected :
          ep' = [has |-> ep.has, asserts |-> ep.asserts, claims |-> found,
                 degraded |-> ep.degraded + rejected]
    /\ UNCHANGED extractErr
    /\ StartLoop

\* Mutant of ExtractorFails: the structural extractor stands in silently.
ExtractorFails_FallsBack ==
    /\ pc = "extract"
    /\ ep.claims = NoClaims
    /\ opts.llm
    /\ extractor' = LLM
    /\ ep' = [ep EXCEPT !.claims = IF ep.asserts THEN Structural ELSE NoClaims]
    /\ UNCHANGED extractErr
    /\ StartLoop

\* Facts failed: no credentials, a transport error, a refusal or a malformed
\* answer.  The Episode keeps no claims and no extractor is tried instead.
ExtractorFails ==
    /\ pc = "extract"
    /\ ep.claims = NoClaims
    /\ opts.llm
    /\ extractor' = LLM
    /\ extractErr' = TRUE
    /\ UNCHANGED ep
    /\ StartLoop

-----------------------------------------------------------------------------
(* The loop over the plan's entries.                                       *)

entry == plan[idx]

\* What runClause can hand back for an entry.  A panic is recovered into an
\* error, so "errored" is open to every kind; only the evaluators that return
\* a SkipError can skip.
Outcomes(k) ==
    CASE k \in JudgeKinds ->
           IF opts.judge /\ opts.credentials THEN {Pass, Fail, Errored} ELSE {Skipped}
      [] k = "grounding.cite_sources" ->
           IF ep.claims = NoClaims THEN {Skipped} ELSE {Pass, Fail, Errored}
      [] k = "grounding.no_unsourced_claims" ->
           IF ep.claims = NoClaims THEN {Pass, Errored} ELSE {Pass, Fail, Errored}
      [] k = "invariant" -> Status
      [] OTHER -> {Pass, Fail, Errored}

Append1(status, class, blocking) ==
    /\ verdicts' = Append(verdicts, [clause |-> idx, kind |-> entry.kind, status |-> status,
                                     class |-> class, blocking |-> blocking])
    /\ counts' = [counts EXCEPT ![status] = @ + 1]
    /\ idx' = idx + 1
    /\ UNCHANGED <<args, ep, pc, extractor, extractErr, shown, gate, runs>>

\* Mutant of Skip: the early continue forgets the verdict.
Skip_Unreported ==
    /\ idx' = idx + 1
    /\ counts' = [counts EXCEPT ![Skipped] = @ + 1]
    /\ UNCHANGED <<args, ep, pc, extractor, extractErr, shown, verdicts, total, earned, gate, runs>>

\* Mutant of Skip: the weight is added before the skip is recognised.
Skip_Scored ==
    /\ Append1(Skipped, ClassOf(entry.kind), entry.blocking)
    /\ total' = total + weight(entry.severity)
    /\ UNCHANGED earned

\* A skipped clause keeps its declared class and blocking and is not scored.
Skip ==
    /\ Append1(Skipped, ClassOf(entry.kind), entry.blocking)
    /\ UNCHANGED <<total, earned>>

InLoop == pc = "eval" /\ idx <= Len(plan)

Unextracted == ReadsClaims(entry.kind) /\ extractErr

SkipUnextracted == InLoop /\ Unextracted /\ Skip

SkipUncovered ==
    /\ InLoop
    /\ ~Unextracted
    /\ ~(Requires(entry.kind) \subseteq ep.has)
    /\ Skip

\* Mutant of Provenance: every verdict that read llm claims becomes advisory.
Provenance_AllAdvisory(status) ==
    IF ReadsClaims(entry.kind) /\ extractor = LLM
    THEN [class |-> Probabilistic, blocking |-> FALSE]
    ELSE [class |-> ClassOf(entry.kind), blocking |-> entry.blocking]

\* Mutant of Provenance: the pass keeps the class its kind declares.
Provenance_KeepsClass(status) ==
    [class |-> ClassOf(entry.kind), blocking |-> entry.blocking]

\* Mutant of Provenance: the class is assigned in one branch only, and a pass
\* is left with the zero value of the field.
Provenance_ZeroClass(status) ==
    IF ReadsClaims(entry.kind) /\ extractor = LLM
    THEN IF status = Pass THEN [class |-> "", blocking |-> FALSE]
                          ELSE [class |-> Deterministic, blocking |-> entry.blocking]
    ELSE [class |-> ClassOf(entry.kind), blocking |-> entry.blocking]

\* The class and blocking of a verdict that was reached: claim-reading kinds
\* under the llm extractor give an advisory pass and a deterministic failure.
Provenance(status) ==
    IF ReadsClaims(entry.kind) /\ extractor = LLM
    THEN IF status = Pass THEN [class |-> Probabilistic, blocking |-> FALSE]
                          ELSE [class |-> Deterministic, blocking |-> entry.blocking]
    ELSE [class |-> ClassOf(entry.kind), blocking |-> entry.blocking]

Conclude(status) ==
    /\ Append1(status, Provenance(status).class, Provenance(status).blocking)
    /\ total' = total + weight(entry.severity)
    /\ earned' = IF status = Pass THEN earned + weight(entry.severity) ELSE earned

\* Mutant of RunClause: the clause is run whatever the trace covers.
RunClause_Uncovered ==
    /\ InLoop
    /\ ~Unextracted
    /\ \E out \in Outcomes(entry.kind) :
          IF out = Skipped THEN Skip ELSE Conclude(out)

RunClause ==
    /\ InLoop
    /\ ~Unextracted
    /\ Requires(entry.kind) \subseteq ep.has
    /\ \E out \in Outcomes(entry.kind) :
          IF out = Skipped THEN Skip ELSE Conclude(out)

-----------------------------------------------------------------------------
(* The gate.                                                               *)

\* Mutant of Blocks: a broken evaluator does not block.
Blocks_FailOnly(v) == v.blocking /\ v.class = Deterministic /\ v.status = Fail

\* Verdict.Blocks
Blocks(v) == v.blocking /\ v.class = Deterministic /\ v.status \in {Fail, Errored}

Gate ==
    /\ pc = "eval"
    /\ idx > Len(plan)
    /\ gate' = IF \/ \E k \in DOMAIN verdicts : Blocks(verdicts[k])
                  \/ opts.failOnSkipped /\ counts[Skipped] > 0
               THEN "fail" ELSE "pass"
    /\ pc' = "done"
    /\ UNCHANGED <<args, ep, idx, extractor, extractErr, shown, verdicts, counts, total,
                   earned, runs>>

\* Another RunContext call over the Episode the last one wrote to.
Rerun ==
    /\ pc = "done"
    /\ runs < MaxRuns
    /\ runs' = runs + 1
    /\ plan' \in Plans
    /\ opts' \in Options
    /\ pc' = "extract"
    /\ idx' = 1
    /\ extractor' = Structural
    /\ extractErr' = FALSE
    /\ shown' = 0
    /\ verdicts' = <<>>
    /\ counts' = NoCounts
    /\ total' = 0
    /\ earned' = 0
    /\ gate' = "none"
    /\ UNCHANGED ep

Extract == KeepClaims \/ ExtractStructural \/ ExtractLLM \/ ExtractorFails

Step == Extract \/ SkipUnextracted \/ SkipUncovered \/ RunClause \/ Gate

Next == Step \/ Rerun

Spec == Init /\ [][Next]_vars

-----------------------------------------------------------------------------
(* Properties.                                                             *)

TypeOK ==
    /\ plan \in Plans
    /\ opts \in Options
    /\ ep \in Episode
    /\ pc \in {"extract", "eval", "done"}
    /\ idx \in Nat \ {0}
    /\ extractor \in {Structural, LLM}
    /\ extractErr \in BOOLEAN
    /\ shown \in Nat
    /\ verdicts \in Seq(Verdict)
    /\ counts \in [Status -> Nat]
    /\ total \in Nat
    /\ earned \in Nat
    /\ gate \in {"none", "pass", "fail"}
    /\ runs \in 1..MaxRuns

\* The clauses the contract itself put in force: a deterministic kind whose
\* clause blocks.
InForce(e) == e.blocking /\ ClassOf(e.kind) = Deterministic

\* The gate is exactly what the contract and the verdict statuses say: it
\* fails for a clause in force that failed or errored, for a skipped clause
\* under --fail-on-skipped, and for nothing else.  The runner decides it from
\* the class and blocking it wrote on each verdict, which the llm branch of
\* the loop rewrites: this relates the result to the contract instead.
GateMatchesContract ==
    pc = "done" =>
        (gate = "fail" <=>
            \/ \E k \in DOMAIN plan : InForce(plan[k]) /\ verdicts[k].status \in {Fail, Errored}
            \/ opts.failOnSkipped /\ \E k \in DOMAIN plan : verdicts[k].status = Skipped)

\* A clause that cannot be evaluated is SKIPPED, never passed and never
\* failed: its coverage is missing, it reads claims the extractor could not
\* produce, or it needs a judge that is disabled or has no credentials.
UnevaluableIsSkipped ==
    \A k \in DOMAIN verdicts :
        \/ ~(Requires(plan[k].kind) \subseteq ep.has)
        \/ ReadsClaims(plan[k].kind) /\ extractErr
        \/ ClassOf(plan[k].kind) = Probabilistic /\ ~(opts.judge /\ opts.credentials)
        => verdicts[k].status = Skipped

\* Every clause gets one verdict, in plan order, and the report's counts are
\* those of its verdicts: no early continue of the loop loses a clause or
\* counts it twice.
ReportComplete ==
    /\ idx = Len(verdicts) + 1
    /\ Len(verdicts) <= Len(plan)
    /\ pc = "done" => Len(verdicts) = Len(plan)
    /\ \A k \in DOMAIN verdicts : verdicts[k].clause = k /\ verdicts[k].kind = plan[k].kind
    /\ \A s \in Status : counts[s] = Cardinality({k \in DOMAIN verdicts : verdicts[k].status = s})

\* What the clauses whose verdicts have a status in S weigh together.
Weighed(S) ==
    LET sum[n \in 0..Len(verdicts)] ==
            IF n = 0 THEN 0
            ELSE sum[n - 1] + (IF verdicts[n].status \in S THEN weight(plan[n].severity) ELSE 0)
    IN  sum[Len(verdicts)]

\* The score weighs the clauses that were concluded, and only those: a skipped
\* clause neither earns nor costs, an errored one costs.
ScoreOfConcluded == total = Weighed({Pass, Fail, Errored}) /\ earned = Weighed({Pass})

\* When the llm extractor was the one consulted, a claim-reading clause that
\* was concluded read that extractor's claims: a failed extraction is never
\* papered over with structural claims.
NoFallback ==
    extractor = LLM =>
        \A k \in DOMAIN verdicts :
            ReadsClaims(plan[k].kind) /\ verdicts[k].status # Skipped
            => ~extractErr /\ ep.claims # Structural

\* A clause that passed on llm-extracted claims is advisory: the extractor may
\* have missed the claim that would have failed it.  Of the first call only: a
\* later one finds the claims on the Episode and takes them for structural ones.
LLMPassIsAdvisory ==
    runs = 1 => \A k \in DOMAIN verdicts :
        ReadsClaims(plan[k].kind) /\ verdicts[k].status = Pass /\ ep.claims = LLM
        => verdicts[k].class = Probabilistic /\ ~verdicts[k].blocking

-----------------------------------------------------------------------------
(* The promise of an admission check, implemented by this run.             *)

Promise == INSTANCE Admission WITH
    clauses  <- [k \in DOMAIN plan |-> InForce(plan[k])],
    strict   <- opts.failOnSkipped,
    status   <- [k \in DOMAIN plan |-> IF k \in DOMAIN verdicts THEN verdicts[k].status
                                                               ELSE "open"],
    decision <- gate

\* The run implements the abstract admission check: clauses are settled one
\* at a time and for good, and the decision is taken once, when all are.
ImplementsAdmission == Promise!Spec
=============================================================================
