--------------------------- MODULE EvaluateProofs ---------------------------
(***************************************************************************)
(* Theorems about module Evaluate, for every set of plans and every number *)
(* of runs over an Episode.                                                *)
(*                                                                         *)
(* The argument: every pass of the loop, whichever branch it takes, does   *)
(* the same thing to the report (LoopStep): it appends one verdict whose   *)
(* status, class and blocking stand in a fixed relation to the clause the  *)
(* contract declared.  The invariant Inv carries that relation for every   *)
(* verdict written so far, and the gate follows from it when the loop ends.*)
(***************************************************************************)
EXTENDS Evaluate, FiniteSetTheorems, SequenceTheorems, TLAPS

\* What the coverage, the extraction and the options leave unevaluable.
Unevaluable(e) ==
    \/ ~(Requires(e.kind) \subseteq ep.has)
    \/ ReadsClaims(e.kind) /\ extractErr
    \/ ClassOf(e.kind) = Probabilistic /\ ~(opts.judge /\ opts.credentials)

\* The relation between a clause and the verdict written for it.
Faithful(e, s, c, b) ==
    /\ s \in {Fail, Errored} => (b /\ c = Deterministic <=> InForce(e))
    /\ Unevaluable(e) => s = Skipped

LoopBody == SkipUnextracted \/ SkipUncovered \/ RunClause

LEMMA EntryOfPlan ==
    ASSUME TypeOK, InLoop
    PROVE  /\ entry \in Entry
           /\ idx \in DOMAIN plan
           /\ plan \in Seq(Entry)
  <1>1. plan \in Seq(Entry)
    BY PlansAssumption DEF TypeOK
  <1>2. idx \in 1..Len(plan)
    BY <1>1 DEF TypeOK, InLoop
  <1>3. QED
    BY <1>1, <1>2 DEF entry

\* The one property of the registry the llm branch relies on: a kind that
\* reads claims is deterministic, so giving its failure the deterministic
\* class never promotes an advisory clause into a blocking one.
LEMMA ClaimKindsDeterministic ==
    ASSUME NEW k \in Kinds, ReadsClaims(k)
    PROVE  ClassOf(k) = Deterministic
  BY DEF Kinds, ReadsClaims, ClassOf, ClaimKinds, JudgeKinds

LEMMA WeightIsNat == ASSUME NEW s PROVE weight(s) \in Nat
  BY DEF weight

LEMMA OutcomesAreStatuses == ASSUME NEW k PROVE Outcomes(k) \subseteq Status
  BY DEF Outcomes, Status

\* Every pass of the loop appends exactly one verdict, faithful to its clause.
LEMMA LoopStep ==
    ASSUME TypeOK, LoopBody
    PROVE  /\ InLoop
           /\ total' \in Nat /\ earned' \in Nat
           /\ \E s \in Status, c \in Class, b \in BOOLEAN :
                 Append1(s, c, b) /\ Faithful(entry, s, c, b)
  <1>1. InLoop
    BY DEF LoopBody, SkipUnextracted, SkipUncovered, RunClause
  <1>2. entry \in Entry /\ entry.kind \in Kinds /\ entry.blocking \in BOOLEAN
    BY <1>1, EntryOfPlan DEF Entry
  <1>3. ClassOf(entry.kind) \in Class
    BY DEF ClassOf, Class
  <1>4. Skipped \in Status /\ Skipped \notin {Fail, Errored}
    BY DEF Status, Skipped, Fail, Errored
  <1>5. ASSUME Skip
        PROVE  /\ total' \in Nat /\ earned' \in Nat
               /\ \E s \in Status, c \in Class, b \in BOOLEAN :
                     Append1(s, c, b) /\ Faithful(entry, s, c, b)
    <2>1. total' \in Nat /\ earned' \in Nat
      BY <1>5 DEF Skip, TypeOK
    <2>2. Append1(Skipped, ClassOf(entry.kind), entry.blocking)
      BY <1>5 DEF Skip
    <2>3. Faithful(entry, Skipped, ClassOf(entry.kind), entry.blocking)
      BY <1>4 DEF Faithful
    <2>4. QED
      BY <1>2, <1>3, <1>4, <2>1, <2>2, <2>3
  <1>6. ASSUME RunClause,
               NEW out \in Outcomes(entry.kind), out # Skipped, Conclude(out)
        PROVE  /\ total' \in Nat /\ earned' \in Nat
               /\ \E s \in Status, c \in Class, b \in BOOLEAN :
                     Append1(s, c, b) /\ Faithful(entry, s, c, b)
    <2> DEFINE c == Provenance(out).class
               b == Provenance(out).blocking
    <2>1. out \in Status
      BY <1>6, OutcomesAreStatuses
    <2>2. total' \in Nat /\ earned' \in Nat
      BY <1>6, WeightIsNat DEF Conclude, TypeOK
    <2>3. Append1(out, c, b)
      BY <1>6 DEF Conclude
    <2>4. c \in Class /\ b \in BOOLEAN
      BY <1>2, <1>3 DEF Provenance, Class
    <2>5. out \in {Fail, Errored} => (b /\ c = Deterministic <=> InForce(entry))
      <3>1. CASE ReadsClaims(entry.kind) /\ extractor = LLM
        BY <1>2, <3>1, ClaimKindsDeterministic
           DEF Provenance, InForce, Pass, Fail, Errored
      <3>2. CASE ~(ReadsClaims(entry.kind) /\ extractor = LLM)
        BY <3>2 DEF Provenance, InForce
      <3>3. QED
        BY <3>1, <3>2
    <2>6. ~Unevaluable(entry)
      <3>1. ~Unextracted /\ Requires(entry.kind) \subseteq ep.has
        BY <1>6 DEF RunClause
      <3>2. ClassOf(entry.kind) = Probabilistic => opts.judge /\ opts.credentials
        <4>1. SUFFICES ASSUME ClassOf(entry.kind) = Probabilistic,
                              ~(opts.judge /\ opts.credentials)
                       PROVE  FALSE
          OBVIOUS
        <4>2. entry.kind \in JudgeKinds
          BY <4>1 DEF ClassOf, Probabilistic, Deterministic
        <4>3. Outcomes(entry.kind) = {Skipped}
          BY <4>1, <4>2 DEF Outcomes, JudgeKinds
        <4>4. QED
          BY <1>6, <4>3
      <3>3. QED
        BY <3>1, <3>2 DEF Unevaluable, Unextracted
    <2>7. QED
      BY <2>1, <2>2, <2>3, <2>4, <2>5, <2>6 DEF Faithful
  <1>7. QED
    <2>1. CASE SkipUnextracted
      BY <1>1, <1>5, <2>1 DEF SkipUnextracted
    <2>2. CASE SkipUncovered
      BY <1>1, <1>5, <2>2 DEF SkipUncovered
    <2>3. CASE RunClause
      <3>1. PICK out \in Outcomes(entry.kind) : IF out = Skipped THEN Skip ELSE Conclude(out)
        BY <2>3 DEF RunClause
      <3>2. QED
        BY <1>1, <1>5, <1>6, <2>3, <3>1
    <2>4. QED
      BY <2>1, <2>2, <2>3 DEF LoopBody

-----------------------------------------------------------------------------
(* Type correctness.                                                       *)

LEMMA AppendTypes ==
    ASSUME TypeOK, InLoop,
           NEW s \in Status, NEW c \in Class, NEW b \in BOOLEAN, Append1(s, c, b)
    PROVE  /\ verdicts' \in Seq(Verdict)
           /\ counts' \in [Status -> Nat]
           /\ idx' = idx + 1
           /\ Len(verdicts') = Len(verdicts) + 1
           /\ \A k \in 1..Len(verdicts) : verdicts'[k] = verdicts[k]
           /\ verdicts'[Len(verdicts) + 1] =
                [clause |-> idx, kind |-> entry.kind, status |-> s, class |-> c, blocking |-> b]
           /\ UNCHANGED <<args, ep, pc, extractor, extractErr, shown, gate, runs>>
  <1>1. entry.kind \in Kinds
    BY EntryOfPlan DEF Entry
  <1>2. [clause |-> idx, kind |-> entry.kind, status |-> s, class |-> c, blocking |-> b] \in Verdict
    BY <1>1 DEF Verdict, TypeOK
  <1>3. verdicts \in Seq(Verdict) /\ counts \in [Status -> Nat]
    BY DEF TypeOK
  <1>4. counts' \in [Status -> Nat]
    BY <1>3 DEF Append1
  <1>5. QED
    BY <1>2, <1>3, <1>4 DEF Append1

LEMMA TypeInit == Init => TypeOK
  <1> SUFFICES ASSUME Init PROVE TypeOK
    OBVIOUS
  <1>1. ep \in Episode
    BY DEF Init, Episode
  <1>2. counts \in [Status -> Nat]
    BY DEF Init, NoCounts
  <1>3. runs \in 1..MaxRuns
    BY BoundsAssumption DEF Init
  <1>4. verdicts \in Seq(Verdict)
    BY DEF Init
  <1>5. idx \in Nat \ {0} /\ shown \in Nat /\ total \in Nat /\ earned \in Nat
    BY DEF Init
  <1>6. plan \in Plans /\ opts \in Options /\ extractErr \in BOOLEAN
    BY DEF Init
  <1>7. /\ pc \in {"extract", "eval", "done"}
        /\ extractor \in {Structural, LLM}
        /\ gate \in {"none", "pass", "fail"}
    BY DEF Init
  <1>8. QED
    BY <1>1, <1>2, <1>3, <1>4, <1>5, <1>6, <1>7 DEF TypeOK

LEMMA ExtractTypes ==
    ASSUME TypeOK, Extract
    PROVE  /\ ep' \in Episode
           /\ extractor' \in {Structural, LLM} /\ extractErr' \in BOOLEAN
           /\ StartLoop /\ pc = "extract"
  <1>1. ep \in Episode /\ extractor \in {Structural, LLM} /\ extractErr \in BOOLEAN
    BY DEF TypeOK
  <1>2. CASE KeepClaims
    BY <1>1, <1>2 DEF KeepClaims
  <1>3. CASE ExtractStructural
    BY <1>1, <1>3 DEF ExtractStructural, Episode
  <1>4. CASE ExtractLLM
    <2>1. PICK found \in {NoClaims, LLM}, rejected \in 0..MaxRejected :
              ep' = [has |-> ep.has, asserts |-> ep.asserts, claims |-> found,
                     degraded |-> ep.degraded + rejected]
      BY <1>4 DEF ExtractLLM
    <2>2. rejected \in Nat
      BY BoundsAssumption
    <2>3. ep' \in Episode
      BY <1>1, <2>1, <2>2 DEF Episode
    <2>4. QED
      BY <1>1, <1>4, <2>3 DEF ExtractLLM
  <1>5. CASE ExtractorFails
    BY <1>1, <1>5 DEF ExtractorFails
  <1>6. QED
    BY <1>2, <1>3, <1>4, <1>5 DEF Extract

\* Every reachable state of a run, and of the runs after it, has its type.
THEOREM TypeCorrect == Spec => []TypeOK
  <1>2. TypeOK /\ [Next]_vars => TypeOK'
    <2> SUFFICES ASSUME TypeOK, [Next]_vars PROVE TypeOK'
      OBVIOUS
    <2>1. CASE Extract
      <3>1. ep' \in Episode /\ extractor' \in {Structural, LLM} /\ extractErr' \in BOOLEAN
        BY <2>1, ExtractTypes
      <3>2. StartLoop
        BY <2>1, ExtractTypes
      <3>3. shown' \in Nat
        BY <3>1, <3>2 DEF StartLoop, Episode
      <3>4. QED
        BY <3>1, <3>2, <3>3 DEF StartLoop, TypeOK, args
    <2>2. CASE LoopBody
      <3>1. InLoop /\ total' \in Nat /\ earned' \in Nat
        BY <2>2, LoopStep
      <3>2. PICK s \in Status, c \in Class, b \in BOOLEAN : Append1(s, c, b)
        BY <2>2, LoopStep
      <3>3. verdicts' \in Seq(Verdict) /\ counts' \in [Status -> Nat] /\ idx' = idx + 1
        BY <3>1, <3>2, AppendTypes
      <3>4. idx' \in Nat \ {0}
        BY <3>3 DEF TypeOK
      <3>5. UNCHANGED <<plan, opts, ep, pc, extractor, extractErr, shown, gate, runs>>
        BY <3>2 DEF Append1, args
      <3>6. QED
        BY <3>1, <3>3, <3>4, <3>5 DEF TypeOK
    <2>3. CASE Gate
      BY <2>3 DEF Gate, TypeOK, args
    <2>4. CASE Rerun
      <3>1. counts' \in [Status -> Nat]
        BY <2>4 DEF Rerun, NoCounts
      <3>2. runs' \in 1..MaxRuns
        BY <2>4, BoundsAssumption DEF Rerun, TypeOK
      <3>3. verdicts' \in Seq(Verdict)
        BY <2>4 DEF Rerun
      <3>4. idx' \in Nat \ {0} /\ shown' \in Nat /\ total' \in Nat /\ earned' \in Nat
        BY <2>4 DEF Rerun
      <3>5. /\ plan' \in Plans /\ opts' \in Options
            /\ extractErr' \in BOOLEAN /\ ep' \in Episode
        BY <2>4 DEF Rerun, TypeOK
      <3>6. /\ pc' \in {"extract", "eval", "done"}
            /\ extractor' \in {Structural, LLM}
            /\ gate' \in {"none", "pass", "fail"}
        BY <2>4 DEF Rerun
      <3>7. QED
        BY <3>1, <3>2, <3>3, <3>4, <3>5, <3>6 DEF TypeOK
    <2>5. CASE UNCHANGED vars
      BY <2>5 DEF vars, TypeOK, args
    <2>6. QED
      BY <2>1, <2>2, <2>3, <2>4, <2>5 DEF Next, Step, LoopBody
  <1>3. QED
    BY <1>2, TypeInit, PTL DEF Spec

-----------------------------------------------------------------------------
(* The report and the gate.                                                *)

\* One verdict per clause, in order, up to the entry the loop is at.
Aligned ==
    /\ idx = Len(verdicts) + 1
    /\ Len(verdicts) <= Len(plan)
    /\ pc = "extract" => verdicts = <<>>
    /\ pc = "done" => Len(verdicts) = Len(plan)
    /\ \A k \in DOMAIN verdicts : verdicts[k].clause = k /\ verdicts[k].kind = plan[k].kind

\* Every verdict written so far is faithful to the clause it is about.
AllFaithful ==
    \A k \in DOMAIN verdicts :
        Faithful(plan[k], verdicts[k].status, verdicts[k].class, verdicts[k].blocking)

\* The set of verdicts with a given status, which the counts count.
With(s) == {k \in DOMAIN verdicts : verdicts[k].status = s}

Counted == \A s \in Status : IsFiniteSet(With(s)) /\ counts[s] = Cardinality(With(s))

Inv == TypeOK /\ Aligned /\ AllFaithful /\ Counted /\ GateMatchesContract

LEMMA InvInit == Init => Inv
  <1> SUFFICES ASSUME Init PROVE Inv
    OBVIOUS
  <1>1. TypeOK
    BY TypeInit
  <1>2. verdicts = <<>> /\ DOMAIN verdicts = {} /\ Len(verdicts) = 0
    BY DEF Init
  <1>3. plan \in Seq(Entry)
    BY <1>1, PlansAssumption DEF TypeOK
  <1>4. Aligned
    BY <1>2, <1>3 DEF Init, Aligned
  <1>5. AllFaithful
    BY <1>2 DEF AllFaithful
  <1>6. Counted
    BY <1>2, FS_EmptySet DEF Init, Counted, With, NoCounts
  <1>7. GateMatchesContract
    BY DEF Init, GateMatchesContract
  <1>8. QED
    BY <1>1, <1>4, <1>5, <1>6, <1>7 DEF Inv

LEMMA LoopKeepsInv == ASSUME Inv, TypeOK', LoopBody PROVE Inv'
  <1>1. TypeOK
    BY DEF Inv
  <1>2. InLoop
    BY <1>1, LoopStep
  <1>3. PICK s \in Status, c \in Class, b \in BOOLEAN :
              Append1(s, c, b) /\ Faithful(entry, s, c, b)
    BY <1>1, LoopStep
  <1> DEFINE n == Len(verdicts)
             v == [clause |-> idx, kind |-> entry.kind, status |-> s, class |-> c, blocking |-> b]
  <1>4. /\ n \in Nat /\ DOMAIN verdicts = 1..n
        /\ Len(verdicts') = n + 1 /\ DOMAIN verdicts' = 1..(n + 1)
        /\ \A k \in 1..n : verdicts'[k] = verdicts[k]
        /\ verdicts'[n + 1] = v
        /\ idx' = idx + 1
    <2>1. verdicts \in Seq(Verdict) /\ verdicts' \in Seq(Verdict)
      BY <1>1 DEF TypeOK
    <2>2. QED
      BY <1>1, <1>2, <1>3, <2>1, AppendTypes
  <1>5. /\ plan' = plan /\ opts' = opts /\ ep' = ep /\ pc' = "eval" /\ pc = "eval"
        /\ extractErr' = extractErr
    BY <1>2, <1>3 DEF Append1, InLoop, args
  <1>6. idx = n + 1 /\ n + 1 <= Len(plan) /\ plan \in Seq(Entry)
    BY <1>1, <1>2, EntryOfPlan DEF Inv, Aligned, InLoop
  <1>7. Aligned'
    <2>1. \A k \in 1..(n + 1) : verdicts'[k].clause = k /\ verdicts'[k].kind = plan'[k].kind
      <3>1. SUFFICES ASSUME NEW k \in 1..(n + 1)
                     PROVE  verdicts'[k].clause = k /\ verdicts'[k].kind = plan'[k].kind
        OBVIOUS
      <3>2. CASE k \in 1..n
        BY <1>4, <1>5, <3>2 DEF Inv, Aligned
      <3>3. CASE k = n + 1
        BY <1>4, <1>5, <1>6, <3>3 DEF entry
      <3>4. QED
        BY <1>4, <3>2, <3>3
    <2>2. QED
      BY <1>4, <1>5, <1>6, <2>1 DEF Aligned
  <1>8. AllFaithful'
    <2>1. SUFFICES ASSUME NEW k \in 1..(n + 1)
                   PROVE  Faithful(plan[k], verdicts'[k].status, verdicts'[k].class,
                                   verdicts'[k].blocking)
      BY <1>4, <1>5 DEF AllFaithful, Faithful, Unevaluable, InForce
    <2>2. CASE k \in 1..n
      BY <1>4, <2>2 DEF Inv, AllFaithful
    <2>3. CASE k = n + 1
      BY <1>3, <1>4, <1>6, <2>3 DEF entry
    <2>4. QED
      BY <1>4, <2>2, <2>3
  <1>9. Counted'
    <2>1. SUFFICES ASSUME NEW t \in Status
                   PROVE  IsFiniteSet(With(t)') /\ counts'[t] = Cardinality(With(t)')
      BY DEF Counted
    <2>2. IsFiniteSet(With(t)) /\ counts[t] = Cardinality(With(t))
      BY DEF Inv, Counted
    <2>3. counts \in [Status -> Nat] /\ counts' = [counts EXCEPT ![s] = @ + 1]
      BY <1>1, <1>3 DEF TypeOK, Append1
    <2>4. CASE t = s
      <3>1. With(t)' = With(t) \cup {n + 1}
        BY <1>4, <2>4 DEF With
      <3>2. n + 1 \notin With(t)
        BY <1>4 DEF With
      <3>3. IsFiniteSet(With(t)') /\ Cardinality(With(t)') = Cardinality(With(t)) + 1
        BY <2>2, <3>1, <3>2, FS_AddElement
      <3>4. QED
        BY <2>2, <2>3, <2>4, <3>3
    <2>5. CASE t # s
      <3>1. With(t)' = With(t)
        BY <1>4, <2>5 DEF With
      <3>2. QED
        BY <2>2, <2>3, <2>5, <3>1
    <2>6. QED
      BY <2>4, <2>5
  <1>10. GateMatchesContract'
    BY <1>5 DEF GateMatchesContract
  <1>11. QED
    BY <1>7, <1>8, <1>9, <1>10 DEF Inv

\* Nothing but the loop writes verdicts: an extraction starts from none.
LEMMA ExtractKeepsInv == ASSUME Inv, TypeOK', Extract PROVE Inv'
  <1>1. pc = "extract" /\ StartLoop
    BY ExtractTypes DEF Inv
  <1>2. verdicts = <<>> /\ verdicts' = <<>> /\ DOMAIN verdicts' = {}
    BY <1>1 DEF Inv, Aligned, StartLoop
  <1>3. plan' = plan /\ idx' = idx /\ counts' = counts /\ pc' = "eval"
    BY <1>1 DEF StartLoop, args
  <1>4. Aligned'
    BY <1>2, <1>3 DEF Inv, Aligned
  <1>5. AllFaithful'
    BY <1>2 DEF AllFaithful
  <1>6. Counted'
    BY <1>2, <1>3 DEF Inv, Counted, With
  <1>7. GateMatchesContract'
    BY <1>3 DEF GateMatchesContract
  <1>8. QED
    BY <1>4, <1>5, <1>6, <1>7 DEF Inv

\* The gate reads the verdicts; AllFaithful turns what it reads into what the
\* contract declared, and Counted turns the count of skips into their existence.
LEMMA GateReads ==
    ASSUME Inv, Gate
    PROVE  /\ DOMAIN verdicts = DOMAIN plan
           /\ gate' = IF \/ \E k \in DOMAIN plan :
                               InForce(plan[k]) /\ verdicts[k].status \in {Fail, Errored}
                         \/ opts.failOnSkipped /\ \E k \in DOMAIN plan : verdicts[k].status = Skipped
                      THEN "fail" ELSE "pass"
  <1>1. verdicts \in Seq(Verdict) /\ plan \in Seq(Entry) /\ counts \in [Status -> Nat]
    BY PlansAssumption DEF Inv, TypeOK
  <1>2. Len(verdicts) = Len(plan) /\ DOMAIN verdicts = DOMAIN plan
    BY <1>1 DEF Inv, Aligned, Gate, TypeOK
  <1>3. \A k \in DOMAIN plan :
            Blocks(verdicts[k]) <=> InForce(plan[k]) /\ verdicts[k].status \in {Fail, Errored}
    BY <1>2 DEF Inv, AllFaithful, Faithful, Blocks
  <1>4. counts[Skipped] > 0 <=> \E k \in DOMAIN plan : verdicts[k].status = Skipped
    <2>1. Skipped \in Status
      BY DEF Status
    <2>2. IsFiniteSet(With(Skipped)) /\ counts[Skipped] = Cardinality(With(Skipped))
      BY <2>1 DEF Inv, Counted
    <2>3. Cardinality(With(Skipped)) = 0 <=> With(Skipped) = {}
      BY <2>2, FS_EmptySet
    <2>4. counts[Skipped] \in Nat
      BY <1>1, <2>1
    <2>5. counts[Skipped] > 0 <=> With(Skipped) # {}
      BY <2>2, <2>3, <2>4
    <2>6. QED
      BY <1>2, <2>5 DEF With
  <1>5. gate' = IF \/ \E k \in DOMAIN plan : Blocks(verdicts[k])
                   \/ opts.failOnSkipped /\ counts[Skipped] > 0
                THEN "fail" ELSE "pass"
    BY <1>2 DEF Gate
  <1>6. QED
    BY <1>2, <1>3, <1>4, <1>5

LEMMA GateKeepsInv == ASSUME Inv, TypeOK', Gate PROVE Inv'
  <1>1. /\ verdicts' = verdicts /\ plan' = plan /\ counts' = counts /\ idx' = idx
        /\ opts' = opts /\ ep' = ep /\ extractErr' = extractErr /\ pc' = "done"
    BY DEF Gate, args
  <1>2. verdicts \in Seq(Verdict) /\ plan \in Seq(Entry)
    BY PlansAssumption DEF Inv, TypeOK
  <1>3. Aligned'
    BY <1>1, <1>2 DEF Inv, Aligned, Gate, TypeOK
  <1>4. AllFaithful'
    BY <1>1 DEF Inv, AllFaithful, Faithful, Unevaluable, InForce
  <1>5. Counted'
    BY <1>1 DEF Inv, Counted, With
  <1>6. GateMatchesContract'
    BY <1>1, GateReads DEF GateMatchesContract, InForce
  <1>7. QED
    BY <1>3, <1>4, <1>5, <1>6 DEF Inv

LEMMA RerunKeepsInv == ASSUME TypeOK', Rerun PROVE Inv'
  <1>1. /\ verdicts' = <<>> /\ DOMAIN verdicts' = {} /\ Len(verdicts') = 0
        /\ idx' = 1 /\ pc' = "extract" /\ counts' = NoCounts
    BY DEF Rerun
  <1>2. plan' \in Seq(Entry)
    BY PlansAssumption DEF TypeOK
  <1>3. Aligned'
    BY <1>1, <1>2 DEF Aligned
  <1>4. AllFaithful'
    BY <1>1 DEF AllFaithful
  <1>5. Counted'
    BY <1>1, FS_EmptySet DEF Counted, With, NoCounts
  <1>6. GateMatchesContract'
    BY <1>1 DEF GateMatchesContract
  <1>7. QED
    BY <1>3, <1>4, <1>5, <1>6 DEF Inv

LEMMA InvInductive == Spec => []Inv
  <1>1. Inv /\ TypeOK' /\ [Next]_vars => Inv'
    <2> SUFFICES ASSUME Inv, TypeOK', [Next]_vars PROVE Inv'
      OBVIOUS
    <2>1. CASE Extract
      BY <2>1, ExtractKeepsInv
    <2>2. CASE LoopBody
      BY <2>2, LoopKeepsInv
    <2>3. CASE Gate
      BY <2>3, GateKeepsInv
    <2>4. CASE Rerun
      BY <2>4, RerunKeepsInv
    <2>5. CASE UNCHANGED vars
      BY <2>5 DEF vars, Inv, Aligned, AllFaithful, Faithful, Unevaluable, InForce,
                  Counted, With, GateMatchesContract
    <2>6. QED
      BY <2>1, <2>2, <2>3, <2>4, <2>5 DEF Next, Step, LoopBody
  <1>2. QED
    BY <1>1, InvInit, TypeCorrect, PTL DEF Spec

\* Whatever the plan, the options and the trace, the gate of a finished run
\* is the one the contract and the statuses of its clauses determine.
THEOREM GateCorrect == Spec => []GateMatchesContract
  <1>1. Inv => GateMatchesContract
    BY DEF Inv
  <1>2. QED
    BY <1>1, InvInductive, PTL

\* A clause the trace, the extractor or the judge cannot support is reported
\* as skipped in every report.
THEOREM SkippedNotPassed == Spec => []UnevaluableIsSkipped
  <1>1. Inv => UnevaluableIsSkipped
    BY DEF Inv, AllFaithful, Faithful, Unevaluable, UnevaluableIsSkipped
  <1>2. QED
    BY <1>1, InvInductive, PTL

\* No clause of any plan is lost, repeated or miscounted.
THEOREM ReportIsComplete == Spec => []ReportComplete
  <1>1. Inv => ReportComplete
    BY DEF Inv, Aligned, Counted, With, ReportComplete
  <1>2. QED
    BY <1>1, InvInductive, PTL

-----------------------------------------------------------------------------
(* No fallback.                                                            *)

\* The extractor name is set together with what it produced.
ExtractorInv ==
    /\ pc = "extract" => extractor = Structural
    /\ pc # "extract" /\ extractor = LLM => extractErr \/ ep.claims # Structural

\* A run that consulted the llm extractor concludes a claim-reading clause on
\* that extractor's claims or not at all.
THEOREM NeverFallsBack == Spec => []NoFallback
  <1>1. Init => ExtractorInv
    BY DEF Init, ExtractorInv
  <1>2. ExtractorInv /\ Inv /\ [Next]_vars => ExtractorInv'
    <2> SUFFICES ASSUME ExtractorInv, Inv, [Next]_vars PROVE ExtractorInv'
      OBVIOUS
    <2>1. CASE KeepClaims
      BY <2>1 DEF KeepClaims, StartLoop, ExtractorInv, Structural, LLM
    <2>2. CASE ExtractStructural
      BY <2>2 DEF ExtractStructural, StartLoop, ExtractorInv, Structural, LLM
    <2>3. CASE ExtractLLM
      <3>1. pc' = "eval"
        BY <2>3 DEF ExtractLLM, StartLoop
      <3>2. ep'.claims \in {NoClaims, LLM}
        BY <2>3 DEF ExtractLLM
      <3>3. QED
        BY <3>1, <3>2 DEF ExtractorInv, NoClaims, LLM, Structural
    <2>4. CASE ExtractorFails
      BY <2>4 DEF ExtractorFails, StartLoop, ExtractorInv
    <2>5. CASE LoopBody
      <3>1. PICK s \in Status, c \in Class, b \in BOOLEAN : Append1(s, c, b)
        BY <2>5, LoopStep DEF Inv
      <3>2. QED
        BY <3>1 DEF Append1, ExtractorInv
    <2>6. CASE Gate
      BY <2>6 DEF Gate, ExtractorInv
    <2>7. CASE Rerun
      BY <2>7 DEF Rerun, ExtractorInv
    <2>8. CASE UNCHANGED vars
      BY <2>8 DEF vars, ExtractorInv
    <2>9. QED
      BY <2>1, <2>2, <2>3, <2>4, <2>5, <2>6, <2>7, <2>8 DEF Next, Step, Extract, LoopBody
  <1>3. ExtractorInv /\ Inv => NoFallback
    BY DEF ExtractorInv, Inv, Aligned, AllFaithful, Faithful, Unevaluable, NoFallback
  <1>4. QED
    BY <1>1, <1>2, <1>3, InvInductive, PTL DEF Spec

-----------------------------------------------------------------------------
(* What a pass on extracted claims is worth.                               *)

\* A clause that passed on the claims of the llm extractor, by the extractor's name.
Advises(k) ==
    ReadsClaims(plan[k].kind) /\ verdicts[k].status = Pass /\ extractor = LLM
    => verdicts[k].class = Probabilistic /\ ~verdicts[k].blocking

\* In the first call the extractor's name says where the claims came from: there
\* are none on the Episode before the call.
AdvisoryInv ==
    runs = 1 =>
        /\ pc = "extract" => ep.claims = NoClaims
        /\ pc # "extract" => (ep.claims = LLM => extractor = LLM)
        /\ \A k \in DOMAIN verdicts : Advises(k)

\* The verdict that a pass of the loop appends.
LEMMA LoopAdvises ==
    ASSUME TypeOK, LoopBody
    PROVE  \E s \in Status, c \in Class, b \in BOOLEAN :
              /\ Append1(s, c, b)
              /\ ReadsClaims(entry.kind) /\ s = Pass /\ extractor = LLM => c = Probabilistic /\ ~b
  <1>1. InLoop
    BY LoopStep
  <1>2. entry \in Entry /\ entry.kind \in Kinds /\ entry.blocking \in BOOLEAN
    BY <1>1, EntryOfPlan DEF Entry
  <1>3. ClassOf(entry.kind) \in Class
    BY DEF ClassOf, Class
  <1>4. Skipped \in Status /\ Skipped # Pass
    BY DEF Status, Skipped, Pass
  <1>5. CASE Skip
    <2>1. Append1(Skipped, ClassOf(entry.kind), entry.blocking)
      BY <1>5 DEF Skip
    <2>2. QED
      BY <1>2, <1>3, <1>4, <2>1
  <1>6. ASSUME NEW out \in Outcomes(entry.kind), Conclude(out)
        PROVE  \E s \in Status, c \in Class, b \in BOOLEAN :
                  /\ Append1(s, c, b)
                  /\ ReadsClaims(entry.kind) /\ s = Pass /\ extractor = LLM
                     => c = Probabilistic /\ ~b
    <2> DEFINE c == Provenance(out).class
               b == Provenance(out).blocking
    <2>1. out \in Status
      BY <1>6, OutcomesAreStatuses
    <2>2. Append1(out, c, b)
      BY <1>6 DEF Conclude
    <2>3. c \in Class /\ b \in BOOLEAN
      BY <1>2, <1>3 DEF Provenance, Class
    <2>4. ReadsClaims(entry.kind) /\ out = Pass /\ extractor = LLM => c = Probabilistic /\ ~b
      BY DEF Provenance
    <2>5. QED
      BY <2>1, <2>2, <2>3, <2>4
  <1>7. QED
    <2>1. CASE SkipUnextracted \/ SkipUncovered
      BY <1>5, <2>1 DEF SkipUnextracted, SkipUncovered
    <2>2. CASE RunClause
      <3>1. PICK out \in Outcomes(entry.kind) : IF out = Skipped THEN Skip ELSE Conclude(out)
        BY <2>2 DEF RunClause
      <3>2. QED
        BY <1>5, <1>6, <3>1
    <2>3. QED
      BY <2>1, <2>2 DEF LoopBody

LEMMA LoopKeepsAdvice == ASSUME AdvisoryInv, Inv, TypeOK', LoopBody PROVE AdvisoryInv'
  <1>1. TypeOK
    BY DEF Inv
  <1>2. InLoop
    BY <1>1, LoopStep
  <1>3. PICK s \in Status, c \in Class, b \in BOOLEAN :
           /\ Append1(s, c, b)
           /\ ReadsClaims(entry.kind) /\ s = Pass /\ extractor = LLM => c = Probabilistic /\ ~b
    BY <1>1, LoopAdvises
  <1> DEFINE n == Len(verdicts)
             v == [clause |-> idx, kind |-> entry.kind, status |-> s, class |-> c, blocking |-> b]
  <1>4. /\ n \in Nat /\ DOMAIN verdicts = 1..n /\ DOMAIN verdicts' = 1..(n + 1)
        /\ \A k \in 1..n : verdicts'[k] = verdicts[k]
        /\ verdicts'[n + 1] = v
    <2>1. verdicts \in Seq(Verdict) /\ verdicts' \in Seq(Verdict)
      BY <1>1 DEF TypeOK
    <2>2. QED
      BY <1>1, <1>2, <1>3, <2>1, AppendTypes
  <1>5. /\ plan' = plan /\ ep' = ep /\ pc' = "eval" /\ pc = "eval"
        /\ extractor' = extractor /\ runs' = runs
    BY <1>2, <1>3 DEF Append1, InLoop, args
  <1>6. idx = n + 1
    BY DEF Inv, Aligned
  <1>7. ASSUME runs = 1, NEW k \in 1..(n + 1)
        PROVE  ReadsClaims(plan[k].kind) /\ verdicts'[k].status = Pass /\ extractor = LLM
               => verdicts'[k].class = Probabilistic /\ ~verdicts'[k].blocking
    <2>1. CASE k \in 1..n
      BY <1>4, <1>7, <2>1 DEF AdvisoryInv, Advises
    <2>2. CASE k = n + 1
      BY <1>3, <1>4, <1>6, <2>2 DEF entry
    <2>3. QED
      BY <1>4, <2>1, <2>2
  <1>8. QED
    BY <1>4, <1>5, <1>7 DEF AdvisoryInv, Advises

LEMMA ExtractKeepsAdvice == ASSUME AdvisoryInv, Inv, Extract PROVE AdvisoryInv'
  <1>1. pc = "extract" /\ StartLoop
    BY ExtractTypes DEF Inv
  <1>2. pc' = "eval" /\ runs' = runs /\ DOMAIN verdicts' = {}
    BY <1>1 DEF StartLoop, Inv, Aligned
  <1>3. ASSUME runs = 1 PROVE ep'.claims = LLM => extractor' = LLM
    <2>1. ep.claims = NoClaims
      BY <1>1, <1>3 DEF AdvisoryInv
    <2>2. CASE KeepClaims
      BY <2>1, <2>2 DEF KeepClaims
    <2>3. CASE ExtractStructural
      BY <2>3 DEF ExtractStructural, Inv, TypeOK, Episode, Structural, NoClaims, LLM
    <2>4. CASE ExtractLLM \/ ExtractorFails
      BY <2>4 DEF ExtractLLM, ExtractorFails
    <2>5. QED
      BY <2>2, <2>3, <2>4 DEF Extract
  <1>4. QED
    BY <1>2, <1>3 DEF AdvisoryInv

\* A pass on llm claims is never held to be deterministic, whatever the plan: in the
\* first call over an Episode.
THEOREM LLMPassAdvises == Spec => []LLMPassIsAdvisory
  <1>1. Init => AdvisoryInv
    BY DEF Init, AdvisoryInv
  <1>2. AdvisoryInv /\ Inv /\ TypeOK' /\ [Next]_vars => AdvisoryInv'
    <2> SUFFICES ASSUME AdvisoryInv, Inv, TypeOK', [Next]_vars PROVE AdvisoryInv'
      OBVIOUS
    <2>1. CASE Extract
      BY <2>1, ExtractKeepsAdvice
    <2>2. CASE LoopBody
      BY <2>2, LoopKeepsAdvice
    <2>3. CASE Gate
      <3>1. pc # "extract" /\ pc' # "extract"
        BY <2>3 DEF Gate
      <3>2. QED
        BY <2>3, <3>1 DEF Gate, args, AdvisoryInv, Advises
    <2>4. CASE Rerun
      <3>1. runs' # 1
        BY <2>4, BoundsAssumption DEF Rerun, Inv, TypeOK
      <3>2. QED
        BY <3>1 DEF AdvisoryInv
    <2>5. CASE UNCHANGED vars
      BY <2>5 DEF vars, args, AdvisoryInv, Advises
    <2>6. QED
      BY <2>1, <2>2, <2>3, <2>4, <2>5 DEF Next, Step, LoopBody
  <1>3. AdvisoryInv /\ Inv => LLMPassIsAdvisory
    <2>1. Inv => (pc = "extract" => DOMAIN verdicts = {})
      BY DEF Inv, Aligned
    <2>2. QED
      BY <2>1 DEF Inv, AdvisoryInv, Advises, LLMPassIsAdvisory
  <1>4. QED
    BY <1>1, <1>2, <1>3, InvInductive, TypeCorrect, PTL DEF Spec

-----------------------------------------------------------------------------
(* The score.                                                              *)

\* f[n] is what the first n of the verdicts v on a plan p weigh together, if only those
\* with a status in S count.
Weight(S, v, p, n) == IF v[n].status \in S THEN weight(p[n].severity) ELSE 0

Tally(S, v, p, f) ==
    f = [n \in 0..Len(v) |-> IF n = 0 THEN 0 ELSE f[n - 1] + Weight(S, v, p, n)]

Weighs(S, v, p, w) ==
    /\ \E f : Tally(S, v, p, f)
    /\ \A f : Tally(S, v, p, f) => f[Len(v)] = w

ScoreInv ==
    /\ Weighs({Pass, Fail, Errored}, verdicts, plan, total)
    /\ Weighs({Pass}, verdicts, plan, earned)

LEMMA NothingWeighs == ASSUME NEW S, NEW p PROVE Weighs(S, <<>>, p, 0)
  <1>1. Tally(S, <<>>, p, [n \in 0..0 |-> 0])
    BY DEF Tally
  <1>2. \A f : Tally(S, <<>>, p, f) => f[0] = 0
    BY DEF Tally
  <1>3. QED
    BY <1>1, <1>2 DEF Weighs

\* One more verdict adds its own weight and changes no other.
LEMMA OneMoreWeighs ==
    ASSUME NEW V, NEW v \in Seq(V), NEW x \in V, NEW S, NEW p, NEW w \in Nat, Weighs(S, v, p, w)
    PROVE  Weighs(S, Append(v, x), p,
                  w + (IF x.status \in S THEN weight(p[Len(v) + 1].severity) ELSE 0))
  <1> DEFINE u == Append(v, x)
             N == Len(v)
             more == IF x.status \in S THEN weight(p[N + 1].severity) ELSE 0
  <1>1. N \in Nat /\ Len(u) = N + 1 /\ u[N + 1] = x /\ \A n \in 1..N : u[n] = v[n]
    BY AppendProperties, LenProperties
  <1>2. more = Weight(S, u, p, N + 1) /\ more \in Nat
    BY <1>1, WeightIsNat DEF Weight
  <1>3. \A n \in 1..N : Weight(S, u, p, n) = Weight(S, v, p, n)
    BY <1>1 DEF Weight
  <1> HIDE DEF u, N, more
  <1>4. ASSUME NEW f, Tally(S, v, p, f)
        PROVE  Tally(S, u, p, [n \in 0..(N + 1) |-> IF n <= N THEN f[n] ELSE w + more])
    <2> DEFINE g == [n \in 0..(N + 1) |-> IF n <= N THEN f[n] ELSE w + more]
    <2>1. f[N] = w
      BY <1>4 DEF Weighs, N
    <2>2. /\ f[0] = 0
          /\ \A n \in 1..N : f[n] = f[n - 1] + Weight(S, v, p, n)
      BY <1>1, <1>4 DEF Tally, N
    <2>3. ASSUME NEW n \in 0..(N + 1)
          PROVE  g[n] = IF n = 0 THEN 0 ELSE g[n - 1] + Weight(S, u, p, n)
      <3>1. CASE n = 0
        BY <1>1, <2>2, <3>1
      <3>2. CASE n \in 1..N
        <4>1. n - 1 \in 0..(N + 1) /\ n - 1 <= N /\ n <= N /\ n # 0
          BY <1>1, <3>2
        <4>2. g[n] = f[n] /\ g[n - 1] = f[n - 1]
          BY <4>1
        <4>3. QED
          BY <1>3, <2>2, <3>2, <4>1, <4>2
      <3>3. CASE n = N + 1
        <4>1. n - 1 = N /\ N \in 0..(N + 1) /\ ~(n <= N) /\ n # 0
          BY <1>1, <3>3
        <4>2. g[n] = w + more /\ g[N] = w
          BY <1>1, <2>1, <4>1
        <4>3. QED
          BY <1>2, <3>3, <4>1, <4>2
      <3>4. QED
        BY <1>1, <3>1, <3>2, <3>3
    <2>4. g = [n \in 0..(N + 1) |-> IF n = 0 THEN 0 ELSE g[n - 1] + Weight(S, u, p, n)]
      BY <2>3
    <2> HIDE DEF g
    <2>5. Tally(S, u, p, g)
      BY <1>1, <2>4 DEF Tally
    <2>6. QED
      BY <2>5 DEF g
  <1>5. ASSUME NEW g, Tally(S, u, p, g) PROVE g[Len(u)] = w + more
    <2> DEFINE f == [n \in 0..N |-> g[n]]
    <2>1. /\ g[0] = 0
          /\ \A n \in 1..(N + 1) : g[n] = g[n - 1] + Weight(S, u, p, n)
      BY <1>1, <1>5 DEF Tally
    <2>2. ASSUME NEW n \in 0..N
          PROVE  f[n] = IF n = 0 THEN 0 ELSE f[n - 1] + Weight(S, v, p, n)
      <3>1. CASE n = 0
        BY <2>1, <3>1
      <3>2. CASE n # 0
        <4>1. n \in 1..N /\ n \in 1..(N + 1) /\ n - 1 \in 0..N
          BY <1>1, <3>2
        <4>2. f[n] = g[n] /\ f[n - 1] = g[n - 1]
          BY <4>1
        <4>3. QED
          BY <1>3, <2>1, <3>2, <4>1, <4>2
      <3>3. QED
        BY <3>1, <3>2
    <2>3. f = [n \in 0..N |-> IF n = 0 THEN 0 ELSE f[n - 1] + Weight(S, v, p, n)]
      BY <2>2
    <2>4. f[N] = g[N]
      BY <1>1
    <2> HIDE DEF f
    <2>5. f[N] = w
      BY <2>3 DEF Tally, Weighs, N
    <2>6. N + 1 \in 1..(N + 1) /\ (N + 1) - 1 = N
      BY <1>1
    <2>7. g[N + 1] = g[N] + Weight(S, u, p, N + 1)
      BY <2>1, <2>6, Zenon
    <2>8. QED
      BY <1>1, <1>2, <2>4, <2>5, <2>7
  <1>6. (\E f : Tally(S, u, p, f)) /\ \A g : Tally(S, u, p, g) => g[Len(u)] = w + more
    <2>1. PICK f : Tally(S, v, p, f)
      BY DEF Weighs
    <2>2. Tally(S, u, p, [n \in 0..(N + 1) |-> IF n <= N THEN f[n] ELSE w + more])
      BY <1>4, <2>1
    <2>3. QED
      BY <1>5, <2>2
  <1>7. Weighs(S, u, p, w + more)
    BY <1>6 DEF Weighs
  <1>8. QED
    BY <1>7 DEF u, more, N

LEMMA WeighedIs ==
    ASSUME NEW S, NEW w, Weighs(S, verdicts, plan, w)
    PROVE  Weighed(S) = w
  <1> DEFINE sum == CHOOSE f : Tally(S, verdicts, plan, f)
  <1>1. Tally(S, verdicts, plan, sum)
    BY DEF Weighs
  <1>2. Weighed(S) = sum[Len(verdicts)]
    BY DEF Weighed, Tally, Weight
  <1> HIDE DEF sum
  <1>3. QED
    BY <1>1, <1>2 DEF Weighs

\* What a pass of the loop adds to the score, by the status it reports.
Scores(s) ==
    /\ total' = total + (IF s \in {Pass, Fail, Errored} THEN weight(entry.severity) ELSE 0)
    /\ earned' = earned + (IF s \in {Pass} THEN weight(entry.severity) ELSE 0)

LEMMA LoopScores ==
    ASSUME TypeOK, LoopBody, NEW s \in Status, NEW c, NEW b, Append1(s, c, b)
    PROVE  Scores(s)
  <1>1. ASSUME NEW r, NEW k, NEW l, Append1(r, k, l)
        PROVE  verdicts'[Len(verdicts) + 1].status = r
    BY <1>1 DEF Append1, TypeOK
  <1>2. /\ total \in Nat /\ earned \in Nat /\ Skipped \notin {Pass, Fail, Errored}
        /\ Status = {Pass, Fail, Errored, Skipped}
    BY DEF TypeOK, Status, Skipped, Pass, Fail, Errored
  <1>3. CASE Skip
    <2>1. Append1(Skipped, ClassOf(entry.kind), entry.blocking) /\ total' = total /\ earned' = earned
      BY <1>3 DEF Skip
    <2>2. s = Skipped
      BY <1>1, <2>1
    <2>3. QED
      BY <1>2, <2>1, <2>2 DEF Scores
  <1>4. ASSUME NEW out \in Outcomes(entry.kind), out # Skipped, Conclude(out) PROVE Scores(s)
    <2>1. /\ Append1(out, Provenance(out).class, Provenance(out).blocking)
          /\ total' = total + weight(entry.severity)
          /\ earned' = IF out = Pass THEN earned + weight(entry.severity) ELSE earned
      BY <1>4 DEF Conclude
    <2>2. s = out
      BY <1>1, <2>1
    <2>3. s \in {Pass, Fail, Errored}
      BY <1>2, <1>4, <2>2
    <2>4. QED
      BY <1>2, <2>1, <2>2, <2>3 DEF Scores
  <1>5. Skip \/ \E out \in Outcomes(entry.kind) : out # Skipped /\ Conclude(out)
    BY DEF LoopBody, SkipUnextracted, SkipUncovered, RunClause
  <1>6. QED
    BY <1>3, <1>4, <1>5

LEMMA LoopKeepsScore == ASSUME Inv, ScoreInv, LoopBody PROVE ScoreInv'
  <1>1. TypeOK /\ idx = Len(verdicts) + 1 /\ verdicts \in Seq(Verdict)
    BY DEF Inv, Aligned, TypeOK
  <1>2. PICK s \in Status, c \in Class, b \in BOOLEAN : Append1(s, c, b)
    BY <1>1, LoopStep
  <1>3. Scores(s)
    BY <1>1, <1>2, LoopScores
  <1> DEFINE x == [clause |-> idx, kind |-> entry.kind, status |-> s, class |-> c, blocking |-> b]
  <1>4. verdicts' = Append(verdicts, x) /\ plan' = plan /\ x.status = s
    BY <1>2 DEF Append1, args
  <1>5. x \in Verdict
    <2>1. entry \in Entry
      BY <1>1, EntryOfPlan, LoopStep
    <2>2. QED
      BY <1>1, <2>1 DEF Entry, Verdict, TypeOK
  <1> HIDE DEF x
  <1>6. ASSUME NEW S, NEW w \in Nat, Weighs(S, verdicts, plan, w)
        PROVE  Weighs(S, verdicts', plan', w + (IF s \in S THEN weight(entry.severity) ELSE 0))
    <2>1. Weighs(S, Append(verdicts, x), plan,
                 w + (IF x.status \in S THEN weight(plan[Len(verdicts) + 1].severity) ELSE 0))
      BY <1>1, <1>5, <1>6, OneMoreWeighs
    <2>2. entry = plan[Len(verdicts) + 1]
      BY <1>1 DEF entry
    <2>3. QED
      BY <1>4, <2>1, <2>2
  <1>7. total \in Nat /\ earned \in Nat
    BY <1>1 DEF TypeOK
  <1>8. /\ Weighs({Pass, Fail, Errored}, verdicts', plan', total')
        /\ Weighs({Pass}, verdicts', plan', earned')
    BY <1>3, <1>6, <1>7 DEF Scores, ScoreInv
  <1>9. QED
    BY <1>8 DEF ScoreInv

\* The score is the weight of the clauses that were concluded, and the part of it that
\* was earned is that of those that passed, for every plan.
THEOREM ScoreIsOfConcluded == Spec => []ScoreOfConcluded
  <1>1. Init => ScoreInv
    BY NothingWeighs DEF Init, ScoreInv
  <1>2. Inv /\ ScoreInv /\ TypeOK' /\ [Next]_vars => ScoreInv'
    <2> SUFFICES ASSUME Inv, ScoreInv, [Next]_vars PROVE ScoreInv'
      OBVIOUS
    <2>1. CASE LoopBody
      BY <2>1, LoopKeepsScore
    <2>2. CASE Extract \/ Gate
      <3>1. UNCHANGED <<plan, verdicts, total, earned>>
        BY <2>2 DEF Extract, KeepClaims, ExtractStructural, ExtractLLM, ExtractorFails,
                    StartLoop, Gate, args
      <3>2. QED
        BY <3>1 DEF ScoreInv
    <2>3. CASE Rerun
      <3>1. verdicts' = <<>> /\ total' = 0 /\ earned' = 0
        BY <2>3 DEF Rerun
      <3>2. Weighs({Pass, Fail, Errored}, <<>>, plan', 0) /\ Weighs({Pass}, <<>>, plan', 0)
        BY NothingWeighs
      <3>3. QED
        BY <3>1, <3>2 DEF ScoreInv
    <2>4. CASE UNCHANGED vars
      BY <2>4 DEF vars, ScoreInv
    <2>5. QED
      BY <2>1, <2>2, <2>3, <2>4 DEF Next, Step, LoopBody
  <1>3. ScoreInv => ScoreOfConcluded
    BY WeighedIs DEF ScoreInv, ScoreOfConcluded
  <1>4. QED
    BY <1>1, <1>2, <1>3, InvInductive, TypeCorrect, PTL DEF Spec

-----------------------------------------------------------------------------
(* The run implements the abstract admission check.                        *)

\* The decision is open exactly until the run is done.
Undecided == (gate = "none") <=> (pc # "done")

LEMMA UndecidedInvariant == Spec => []Undecided
  <1>1. Init => Undecided
    BY DEF Init, Undecided
  <1>2. Undecided /\ Inv /\ [Next]_vars => Undecided'
    <2> SUFFICES ASSUME Undecided, Inv, [Next]_vars PROVE Undecided'
      OBVIOUS
    <2>1. CASE Extract
      BY <2>1, ExtractTypes DEF Inv, StartLoop, Undecided
    <2>2. CASE LoopBody
      <3>1. PICK s \in Status, c \in Class, b \in BOOLEAN : Append1(s, c, b)
        BY <2>2, LoopStep DEF Inv
      <3>2. QED
        BY <3>1 DEF Append1, Undecided
    <2>3. CASE Gate
      BY <2>3 DEF Gate, Undecided
    <2>4. CASE Rerun
      BY <2>4 DEF Rerun, Undecided
    <2>5. CASE UNCHANGED vars
      BY <2>5 DEF vars, Undecided
    <2>6. QED
      BY <2>1, <2>2, <2>3, <2>4, <2>5 DEF Next, Step, LoopBody
  <1>3. QED
    BY <1>1, <1>2, InvInductive, PTL DEF Spec

\* The refinement mapping, named as the substituted variables of Admission.
mClauses == [k \in DOMAIN plan |-> InForce(plan[k])]
mStatus  == [k \in DOMAIN plan |-> IF k \in DOMAIN verdicts THEN verdicts[k].status ELSE "open"]

LEMMA ClausesTyped == ASSUME NEW p \in Seq(Entry)
                      PROVE  [k \in DOMAIN p |-> InForce(p[k])] \in Seq(BOOLEAN)
  <1>1. Len(p) \in Nat /\ DOMAIN p = 1..Len(p)
    OBVIOUS
  <1>2. \A k \in DOMAIN p : InForce(p[k]) \in BOOLEAN
    BY DEF InForce
  <1>3. [k \in 1..Len(p) |-> InForce(p[k])] \in [1..Len(p) -> BOOLEAN]
    BY <1>1, <1>2
  <1>4. QED
    BY <1>1, <1>3

\* An extraction is invisible to the abstract check.
LEMMA ExtractStutters ==
    ASSUME Inv, Extract
    PROVE  UNCHANGED <<mClauses, opts.failOnSkipped, mStatus, gate>>
  <1>1. StartLoop
    BY ExtractTypes DEF Inv
  <1>2. QED
    BY <1>1 DEF StartLoop, args, mClauses, mStatus, InForce

\* A pass of the loop settles the one clause it is at.
LEMMA LoopSettles == ASSUME Inv, TypeOK', Undecided, LoopBody PROVE Promise!Settle
  <1>1. TypeOK /\ InLoop
    BY LoopStep DEF Inv
  <1>2. PICK s \in Status, c \in Class, b \in BOOLEAN : Append1(s, c, b)
    BY <1>1, LoopStep
  <1> DEFINE n == Len(verdicts)
  <1>3. /\ n \in Nat /\ DOMAIN verdicts = 1..n /\ DOMAIN verdicts' = 1..(n + 1)
        /\ \A k \in 1..n : verdicts'[k] = verdicts[k]
        /\ verdicts'[n + 1].status = s
    <2>1. verdicts \in Seq(Verdict)
      BY <1>1 DEF TypeOK
    <2> DEFINE v == [clause |-> idx, kind |-> entry.kind, status |-> s, class |-> c,
                     blocking |-> b]
    <2>2. verdicts' = Append(verdicts, v)
      BY <1>2 DEF Append1
    <2>3. n \in Nat /\ DOMAIN verdicts = 1..n
      BY <2>1
    <2>4. v.status = s
      OBVIOUS
    <2> HIDE DEF v
    <2>5. /\ DOMAIN verdicts' = 1..(n + 1)
          /\ \A k \in 1..n : verdicts'[k] = verdicts[k]
          /\ verdicts'[n + 1] = v
      BY <2>1, <2>2, <2>3
    <2>6. QED
      BY <2>3, <2>4, <2>5
  <1>4. plan' = plan /\ opts' = opts /\ gate' = gate /\ gate = "none"
    BY <1>1, <1>2 DEF Append1, args, Undecided, InLoop
  <1>5. n + 1 \in DOMAIN plan
    BY <1>1, EntryOfPlan DEF Inv, Aligned
  <1>6. mStatus[n + 1] = "open" /\ n + 1 \in DOMAIN mStatus
    BY <1>3, <1>5 DEF mStatus
  <1>7. mStatus' = [mStatus EXCEPT ![n + 1] = s]
    <2>1. mStatus' = [k \in DOMAIN plan |->
                         IF k \in 1..(n + 1) THEN verdicts'[k].status ELSE "open"]
      BY <1>3, <1>4 DEF mStatus
    <2>2. mStatus = [k \in DOMAIN plan |-> IF k \in 1..n THEN verdicts[k].status ELSE "open"]
      BY <1>3 DEF mStatus
    <2>3. \A k \in DOMAIN plan :
             mStatus'[k] = IF k = n + 1 THEN s ELSE mStatus[k]
      BY <1>3, <2>1, <2>2
    <2>4. QED
      BY <1>5, <2>1, <2>2, <2>3
  <1>8. mClauses' = mClauses
    BY <1>4 DEF mClauses, InForce
  <1>9. s \in Promise!Settled
    BY DEF Promise!Settled, Status, Pass, Fail, Errored, Skipped
  <1>10. QED
    BY <1>4, <1>6, <1>7, <1>8, <1>9 DEF Promise!Settle, mStatus, mClauses

LEMMA GateDecides == ASSUME Inv, Undecided, Gate PROVE Promise!Decide
  <1>1. DOMAIN verdicts = DOMAIN plan
    BY GateReads
  <1>2. gate = "none"
    BY DEF Undecided, Gate
  <1>3. verdicts \in Seq(Verdict)
    BY DEF Inv, TypeOK
  <1>4. mStatus = [k \in DOMAIN plan |-> verdicts[k].status]
    BY <1>1 DEF mStatus
  <1>5. \A k \in DOMAIN mStatus : mStatus[k] # "open"
    <2>1. \A k \in DOMAIN verdicts : verdicts[k] \in Verdict
      BY <1>3
    <2>2. \A k \in DOMAIN verdicts : verdicts[k].status \in Status
      BY <2>1 DEF Verdict
    <2>3. QED
      BY <1>1, <1>4, <2>2 DEF Status, Pass, Fail, Errored, Skipped
  <1>6. mStatus' = mStatus /\ mClauses' = mClauses /\ opts' = opts
    BY DEF Gate, args, mStatus, mClauses, InForce
  <1>7. gate' = IF \/ \E k \in DOMAIN mStatus : mClauses[k] /\ mStatus[k] \in {"fail", "errored"}
                   \/ opts.failOnSkipped /\ \E k \in DOMAIN mStatus : mStatus[k] = "skipped"
                THEN "fail" ELSE "pass"
    BY <1>4, GateReads DEF mClauses, Fail, Errored, Skipped
  <1>8. QED
    BY <1>2, <1>5, <1>6, <1>7 DEF Promise!Decide, Promise!Refused, mStatus, mClauses

LEMMA RerunBegins == ASSUME Inv, TypeOK', Undecided, Rerun PROVE Promise!Begin
  <1>1. gate # "none" /\ gate' = "none"
    BY DEF Undecided, Rerun
  <1>2. plan' \in Seq(Entry) /\ opts'.failOnSkipped \in BOOLEAN
    BY PlansAssumption DEF TypeOK, Options
  <1>3. mClauses' \in Seq(BOOLEAN)
    BY <1>2, ClausesTyped DEF mClauses
  <1>4. DOMAIN mClauses' = DOMAIN plan'
    BY DEF mClauses
  <1>5. DOMAIN verdicts' = {}
    BY DEF Rerun
  <1>6. mStatus' = [k \in DOMAIN plan' |-> "open"]
    BY <1>5 DEF mStatus
  <1>7. QED
    BY <1>1, <1>2, <1>3, <1>4, <1>6 DEF Promise!Begin, Promise!Fresh, mStatus, mClauses

\* Every behaviour of a run is, clause by clause, a behaviour of the abstract
\* admission check.
THEOREM Implementation == Spec => ImplementsAdmission
  <1>1. Init => Promise!Init
    <2> SUFFICES ASSUME Init PROVE Promise!Init
      OBVIOUS
    <2>1. plan \in Seq(Entry) /\ opts.failOnSkipped \in BOOLEAN
      BY PlansAssumption DEF Init, Options
    <2>2. mClauses \in Seq(BOOLEAN) /\ DOMAIN mClauses = DOMAIN plan
      BY <2>1, ClausesTyped DEF mClauses
    <2>3. mStatus = [k \in DOMAIN plan |-> "open"]
      BY DEF Init, mStatus
    <2>4. gate = "none"
      BY DEF Init
    <2>5. QED
      BY <2>1, <2>2, <2>3, <2>4 DEF Promise!Init, Promise!Fresh, mStatus, mClauses
  <1>2. Inv /\ TypeOK' /\ Undecided /\ [Next]_vars => [Promise!Next]_(Promise!vars)
    <2> SUFFICES ASSUME Inv, TypeOK', Undecided, [Next]_vars
                 PROVE  [Promise!Next]_(Promise!vars)
      OBVIOUS
    <2>1. CASE Extract
      BY <2>1, ExtractStutters DEF Promise!vars, mStatus, mClauses
    <2>2. CASE LoopBody
      BY <2>2, LoopSettles DEF Promise!Next
    <2>3. CASE Gate
      BY <2>3, GateDecides DEF Promise!Next
    <2>4. CASE Rerun
      BY <2>4, RerunBegins DEF Promise!Next
    <2>5. CASE UNCHANGED vars
      BY <2>5 DEF vars, Promise!vars, InForce
    <2>6. QED
      BY <2>1, <2>2, <2>3, <2>4, <2>5 DEF Next, Step, LoopBody
  <1>3. QED
    BY <1>1, <1>2, InvInductive, TypeCorrect, UndecidedInvariant, PTL
       DEF Spec, ImplementsAdmission, Promise!Spec
=============================================================================
