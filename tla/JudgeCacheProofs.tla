-------------------------- MODULE JudgeCacheProofs --------------------------
(***************************************************************************)
(* Proofs about the judge cache (module JudgeCache), for any number of     *)
(* runs and requests and whatever goes wrong.                              *)
(*                                                                         *)
(* The argument: what is bound to a request's prompt hash, in memory or on *)
(* disk, is an answer the model gave to that request.  The prompt hash     *)
(* tells requests apart, so binding one never disturbs another; a torn     *)
(* file binds nothing.                                                     *)
(***************************************************************************)
EXTENDS JudgeCache, Sequences, TLAPS

\* Every entry of m answers the request it is bound to.
Sound(m) == \A r \in Requests : promptHash(r) \in DOMAIN m => m[promptHash(r)] \in given[r]

\* What a run reported is what it remembers.
Remembered ==
    \A p \in Runs : ~noCache[p] =>
        \A r \in Answered(p) :
            promptHash(r) \in DOMAIN mem[p] /\ report[p][r] = Reported(mem[p][promptHash(r)])

\* A run that has not started reported nothing.
Fresh == \A p \in Runs : pc[p] = "new" => Answered(p) = {}

Inv == /\ TypeOK
       /\ Sound(file.entries)
       /\ \A p \in Runs : Sound(mem[p])
       /\ ReportedWasGiven
       /\ Remembered
       /\ Fresh

LEMMA PromptHashInjective ==
    ASSUME NEW r \in Requests, NEW s \in Requests, promptHash(r) = promptHash(s)
    PROVE  r = s
  <1>1. r \in Request /\ s \in Request
    BY RequestsAssumption
  <1>2. r.use = s.use /\ r.effort = s.effort /\ r.prompt = s.prompt
    <2>1. CASE r.use = JudgeUse /\ s.use = JudgeUse
      BY <2>1 DEF promptHash
    <2>2. CASE r.use # JudgeUse /\ s.use # JudgeUse
      BY <1>1, <2>2 DEF promptHash, Request
    <2>3. CASE r.use = JudgeUse <=> s.use # JudgeUse
      <3>1. Len(promptHash(r)) # Len(promptHash(s))
        BY <2>3 DEF promptHash
      <3>2. QED
        BY <3>1
    <2>4. QED
      BY <2>1, <2>2, <2>3
  <1>3. QED
    BY <1>1, <1>2 DEF Request

LEMMA EmptyCache == Empty \in Cache /\ DOMAIN Empty = {}
  <1>1. DOMAIN Empty = {}
    BY DEF Empty
  <1>2. Empty \in [{} -> Answer]
    BY DEF Empty
  <1>3. QED
    BY <1>1, <1>2 DEF Cache

LEMMA WithType ==
    ASSUME NEW m \in Cache, NEW k \in Keys, NEW a \in Answer
    PROVE  /\ With(m, k, a) \in Cache
           /\ DOMAIN With(m, k, a) = DOMAIN m \cup {k}
           /\ With(m, k, a)[k] = a
           /\ \A x \in DOMAIN m : x # k => With(m, k, a)[x] = m[x]
  <1>1. PICK K \in SUBSET Keys : m \in [K -> Answer]
    BY DEF Cache
  <1>2. With(m, k, a) \in [K \cup {k} -> Answer]
    BY <1>1 DEF With
  <1>3. QED
    BY <1>1, <1>2 DEF Cache, With

LEMMA AnswersAreAnswer == \A r \in Requests : Answers(r) \subseteq Answer
  BY DEF Answers, Answer

LEMMA ReportedType == \A a \in Answer : Reported(a) \in Answer \cup {Error, Unasked}
  BY DEF Reported, Answer, Error, Unasked

LEMMA InvInit == Init => Inv
  <1> SUFFICES ASSUME Init PROVE Inv
    OBVIOUS
  <1>1. TypeOK
    BY EmptyCache DEF Init, TypeOK, Blank
  <1>2. Sound(file.entries) /\ \A p \in Runs : Sound(mem[p])
    BY EmptyCache DEF Init, Sound, Blank
  <1>3. \A p \in Runs : Answered(p) = {}
    BY DEF Init, Answered
  <1>4. QED
    BY <1>1, <1>2, <1>3 DEF Inv, ReportedWasGiven, Remembered, Fresh

-----------------------------------------------------------------------------
(* The steps.                                                              *)

LEMMA OpenKeepsInv == ASSUME Inv, NEW p \in Runs, OpenCache(p) PROVE Inv'
  <1>1. /\ mem' = [mem EXCEPT ![p] = IF noCache[p] THEN Empty ELSE file.entries]
        /\ pc' = [pc EXCEPT ![p] = "open"]
        /\ UNCHANGED <<file, noCache, dirty, report, given, paid>>
    BY DEF OpenCache
  <1>2. TypeOK'
    <2>1. disturbed' \in BOOLEAN
      BY DEF OpenCache
    <2>2. mem' \in [Runs -> Cache]
      BY <1>1, EmptyCache DEF Inv, TypeOK
    <2>3. QED
      BY <1>1, <2>1, <2>2 DEF Inv, TypeOK
  <1>3. \A q \in Runs : Sound(mem[q])'
    BY <1>1, EmptyCache DEF Inv, TypeOK, Sound
  <1>4. \A q \in Runs : Answered(q)' = Answered(q)
    BY <1>1 DEF Answered
  <1>5. Sound(file.entries)' /\ ReportedWasGiven'
    BY <1>1, <1>4 DEF Inv, Sound, ReportedWasGiven
  <1>6. Remembered'
    <2>1. Answered(p) = {}
      BY DEF OpenCache, Inv, Fresh
    <2>2. \A q \in Runs : q # p => mem'[q] = mem[q]
      BY <1>1 DEF Inv, TypeOK
    <2>3. QED
      BY <1>1, <1>4, <2>1, <2>2 DEF Inv, Remembered
  <1>7. Fresh'
    BY <1>1, <1>4 DEF Inv, Fresh, TypeOK
  <1>8. QED
    BY <1>2, <1>3, <1>5, <1>6, <1>7 DEF Inv

LEMMA HitKeepsInv ==
    ASSUME Inv, NEW p \in Runs, NEW r \in Requests, Hit(p, r)
    PROVE  /\ Inv'
           /\ r \in Answered(p) => report'[p][r] = report[p][r]
  <1> DEFINE a == mem[p][promptHash(r)]
  <1>1. /\ report' = [report EXCEPT ![p][r] = Reported(a)] /\ Cached(p, r) /\ pc[p] = "open"
        /\ UNCHANGED <<file, pc, noCache, mem, dirty, given, paid, disturbed>>
    BY DEF Hit, history
  <1>2. a \in given[r] /\ a \in Answer
    BY <1>1 DEF Inv, Sound, Cached, TypeOK
  <1>3. Reported(a) \in Answer \cup {Error, Unasked} /\ Reported(a) \in {a, Error}
    BY <1>2, ReportedType DEF Reported
  <1> HIDE DEF a
  <1>4. TypeOK'
    BY <1>1, <1>3 DEF Inv, TypeOK
  <1>5. /\ report'[p][r] = Reported(a)
        /\ \A q \in Runs : \A s \in Requests :
              q # p \/ s # r => report'[q][s] = report[q][s]
    BY <1>1 DEF Inv, TypeOK
  <1>6. /\ \A q \in Runs : q # p => Answered(q)' = Answered(q)
        /\ \A s \in Requests : s # r => (s \in Answered(p)' <=> s \in Answered(p))
    BY <1>5 DEF Answered
  <1>7. Sound(file.entries)' /\ \A q \in Runs : Sound(mem[q])'
    BY <1>1 DEF Inv, Sound
  <1>8. ReportedWasGiven'
    BY <1>1, <1>2, <1>3, <1>5, <1>6 DEF Inv, ReportedWasGiven, Answered
  <1>9. Remembered'
    BY <1>1, <1>5, <1>6 DEF Inv, Remembered, Cached, Answered, a
  <1>10. Fresh'
    BY <1>1, <1>6 DEF Inv, Fresh, TypeOK
  <1>11. ASSUME r \in Answered(p) PROVE report'[p][r] = report[p][r]
    BY <1>1, <1>5, <1>11 DEF Inv, Remembered, Cached, a
  <1>12. QED
    BY <1>4, <1>7, <1>8, <1>9, <1>10, <1>11 DEF Inv

LEMMA FailureKeepsInv ==
    ASSUME Inv, NEW p \in Runs, NEW r \in Requests, ModelFails(p, r) PROVE Inv'
  <1>1. /\ report' = [report EXCEPT ![p][r] = Error] /\ pc[p] = "open"
        /\ UNCHANGED <<file, pc, noCache, mem, dirty, given, paid, disturbed>>
    BY DEF ModelFails, history
  <1>2. TypeOK'
    BY <1>1 DEF Inv, TypeOK
  <1>3. \A q \in Runs : \A s \in Answered(q)' : s \in Answered(q) /\ report'[q][s] = report[q][s]
    BY <1>1 DEF Answered, Inv, TypeOK
  <1>4. Sound(file.entries)' /\ \A q \in Runs : Sound(mem[q])'
    BY <1>1 DEF Inv, Sound
  <1>5. ReportedWasGiven' /\ Remembered' /\ Fresh'
    BY <1>1, <1>3 DEF Inv, ReportedWasGiven, Remembered, Fresh
  <1>6. QED
    BY <1>2, <1>4, <1>5 DEF Inv

LEMMA AskKeepsInv ==
    ASSUME Inv, NEW p \in Runs, NEW r \in Requests, AskModel(p, r) PROVE Inv'
  <1>1. PICK a \in Answers(r) : /\ given' = [given EXCEPT ![r] = @ \cup {a}]
                                /\ report' = [report EXCEPT ![p][r] = Reported(a)]
                                /\ Put(p, r, a)
    BY DEF AskModel
  <1>2. /\ pc[p] = "open" /\ paid' = [paid EXCEPT ![p] = @ \cup {r}]
        /\ UNCHANGED <<file, pc, noCache, disturbed>>
    BY DEF AskModel
  <1>3. a \in Answer /\ Reported(a) \in Answer \cup {Error, Unasked} /\ Reported(a) \in {a, Error}
    BY AnswersAreAnswer, ReportedType DEF Reported
  <1>4. promptHash(r) \in Keys
    BY DEF Keys
  <1> DEFINE m == With(mem[p], promptHash(r), a)
  <1>5. /\ m \in Cache /\ DOMAIN m = DOMAIN mem[p] \cup {promptHash(r)}
        /\ m[promptHash(r)] = a
        /\ \A x \in DOMAIN mem[p] : x # promptHash(r) => m[x] = mem[p][x]
    <2>1. mem[p] \in Cache
      BY DEF Inv, TypeOK
    <2>2. QED
      BY <1>3, <1>4, <2>1, WithType
  <1>6. \/ noCache[p] /\ mem' = mem /\ dirty' = dirty
        \/ mem' = [mem EXCEPT ![p] = m] /\ dirty' = [dirty EXCEPT ![p] = TRUE]
    BY <1>1 DEF Put
  <1> HIDE DEF m
  <1>7. TypeOK'
    <2>1. mem' \in [Runs -> Cache] /\ dirty' \in [Runs -> BOOLEAN]
      BY <1>5, <1>6 DEF Inv, TypeOK
    <2>2. given' \in [Requests -> SUBSET Answer] /\ paid' \in [Runs -> SUBSET Requests]
      BY <1>1, <1>2, <1>3 DEF Inv, TypeOK
    <2>3. report' \in [Runs -> [Requests -> Answer \cup {Error, Unasked}]]
      BY <1>1, <1>3 DEF Inv, TypeOK
    <2>4. QED
      BY <1>2, <2>1, <2>2, <2>3 DEF Inv, TypeOK
  <1>8. a \in given'[r] /\ \A s \in Requests : given[s] \subseteq given'[s]
    BY <1>1 DEF Inv, TypeOK
  <1>9. \A q \in Runs : q # p => mem'[q] = mem[q]
    BY <1>6 DEF Inv, TypeOK
  <1>10. mem'[p] = m \/ (noCache[p] /\ mem'[p] = mem[p])
    BY <1>6 DEF Inv, TypeOK
  <1>11. \A s \in Requests : s # r => promptHash(s) # promptHash(r)
    BY PromptHashInjective
  <1>12. Sound(file.entries)' /\ \A q \in Runs : Sound(mem[q])'
    <2>1. Sound(file.entries)'
      BY <1>2, <1>8 DEF Inv, Sound
    <2>2. \A q \in Runs : q # p => Sound(mem[q])'
      BY <1>8, <1>9 DEF Inv, Sound
    <2>3. CASE mem'[p] = mem[p]
      BY <1>8, <2>2, <2>1, <2>3 DEF Inv, Sound
    <2>4. CASE mem'[p] = m
      <3>1. \A s \in Requests : promptHash(s) \in DOMAIN m => m[promptHash(s)] \in given'[s]
        BY <1>5, <1>8, <1>11 DEF Inv, Sound
      <3>2. Sound(mem[p])'
        BY <2>4, <3>1 DEF Sound
      <3>3. QED
        BY <2>1, <2>2, <3>2
    <2>5. QED
      BY <1>10, <2>3, <2>4
  <1>13. /\ report'[p][r] = Reported(a)
         /\ \A q \in Runs : \A s \in Requests :
               q # p \/ s # r => report'[q][s] = report[q][s]
    BY <1>1 DEF Inv, TypeOK
  <1>14. /\ \A q \in Runs : q # p => Answered(q)' = Answered(q)
         /\ \A s \in Requests : s # r => (s \in Answered(p)' <=> s \in Answered(p))
    BY <1>13 DEF Answered
  <1>15. ReportedWasGiven'
    <2>1. \A q \in Runs : \A s \in Requests :
             (q # p \/ s # r) /\ s \in Answered(q)' => report'[q][s] \in given'[s]
      BY <1>8, <1>13, <1>14 DEF Inv, ReportedWasGiven, Answered
    <2>2. r \in Answered(p)' => report'[p][r] \in given'[r]
      BY <1>3, <1>8, <1>13 DEF Answered
    <2>3. QED
      BY <2>1, <2>2 DEF ReportedWasGiven, Answered
  <1>16. Remembered'
    <2> SUFFICES ASSUME NEW q \in Runs, ~noCache[q], NEW s \in Requests, s \in Answered(q)'
                 PROVE  /\ promptHash(s) \in DOMAIN mem'[q]
                        /\ report'[q][s] = Reported(mem'[q][promptHash(s)])
      BY <1>2 DEF Remembered, Answered
    <2>1. CASE q # p
      BY <1>9, <1>13, <1>14, <2>1 DEF Inv, Remembered
    <2>2. CASE q = p /\ s # r
      BY <1>5, <1>10, <1>11, <1>13, <1>14, <2>2 DEF Inv, Remembered
    <2>3. CASE q = p /\ s = r
      BY <1>5, <1>10, <1>13, <2>3
    <2>4. QED
      BY <2>1, <2>2, <2>3
  <1>17. Fresh'
    BY <1>2, <1>14 DEF Inv, Fresh
  <1>18. QED
    BY <1>7, <1>12, <1>15, <1>16, <1>17 DEF Inv

\* Neither a flush nor a crash touches what is in memory; the file is emptied,
\* torn, or becomes the memory of one run.
LEMMA EndingKeepsInv ==
    ASSUME Inv, NEW p \in Runs, Flush(p) \/ Crash(p) PROVE Inv'
  <1>1. /\ file' \in {file, Blank, Torn, Whole(mem[p])}
        /\ \E to \in {"writing", "done", "dead"} : pc' = [pc EXCEPT ![p] = to]
        /\ dirty' \in {dirty, [dirty EXCEPT ![p] = FALSE]}
        /\ UNCHANGED <<noCache, mem, report, given, paid>>
    BY DEF Flush, NothingToFlush, Truncate, Write, FlushFails, Crash, history
  <1>2. file'.state \in {"blank", "torn", "whole"} /\ file'.entries \in {file.entries, Empty, mem[p]}
    BY <1>1 DEF Blank, Torn, Whole, Inv, TypeOK
  <1>3. TypeOK'
    <2>1. disturbed' \in BOOLEAN
      BY DEF Flush, NothingToFlush, Truncate, Write, FlushFails, Crash, history, Inv, TypeOK
    <2>2. file'.entries \in Cache
      BY <1>2, EmptyCache DEF Inv, TypeOK
    <2>3. QED
      BY <1>1, <1>2, <2>1, <2>2 DEF Inv, TypeOK
  <1>4. Sound(file.entries)' /\ \A q \in Runs : Sound(mem[q])'
    <2>1. Sound(file'.entries)
      BY <1>2, EmptyCache DEF Inv, Sound
    <2>2. QED
      BY <1>1, <2>1 DEF Inv, Sound
  <1>5. ReportedWasGiven' /\ Remembered'
    BY <1>1 DEF Inv, ReportedWasGiven, Remembered, Answered
  <1>6. Fresh'
    BY <1>1 DEF Inv, Fresh, Answered, TypeOK
  <1>7. QED
    BY <1>3, <1>4, <1>5, <1>6 DEF Inv

LEMMA InvStep == Inv /\ [Next]_vars => Inv'
  <1> SUFFICES ASSUME Inv, [Next]_vars PROVE Inv'
    OBVIOUS
  <1>1. CASE UNCHANGED vars
    BY <1>1 DEF vars, history, Inv, TypeOK, Sound, ReportedWasGiven, Remembered, Fresh, Answered
  <1>2. ASSUME NEW p \in Runs, OpenCache(p) \/ Flush(p) \/ Crash(p) PROVE Inv'
    BY <1>2, OpenKeepsInv, EndingKeepsInv
  <1>3. ASSUME NEW p \in Runs, NEW r \in Requests, Ask(p, r) PROVE Inv'
    BY <1>3, HitKeepsInv, AskKeepsInv, FailureKeepsInv DEF Ask
  <1>4. QED
    BY <1>1, <1>2, <1>3 DEF Next

LEMMA Inductive == Spec => []Inv
  BY InvInit, InvStep, PTL DEF Spec

-----------------------------------------------------------------------------
(* The properties of the cache.                                            *)

\* The cache's variables keep their types.
THEOREM TypeCorrect == Spec => []TypeOK
  BY Inductive, PTL DEF Inv

\* A run never reports, for a request, what the model answered to another one.
THEOREM HitsAreHonest == Spec => []ReportedWasGiven
  BY Inductive, PTL DEF Inv

\* A request the model has not answered is in no cache.
THEOREM FailuresAskedAgain == Spec => []FailuresAreNotCached
  <1>1. Inv => FailuresAreNotCached
    BY DEF Inv, Sound, FailuresAreNotCached
  <1>2. QED
    BY <1>1, Inductive, PTL

\* One run gives one request one answer.
THEOREM AnswersAreKept == Spec => OneAnswerPerRun
  <1>1. ASSUME Inv, [Next]_vars, NEW p \in Runs, NEW r \in Requests,
               ~noCache[p], r \in Answered(p)
        PROVE  report'[p][r] = report[p][r]
    <2>1. CASE UNCHANGED vars
      BY <2>1 DEF vars
    <2>2. ASSUME NEW q \in Runs, OpenCache(q) \/ Flush(q) \/ Crash(q)
          PROVE  report'[p][r] = report[p][r]
      BY <2>2 DEF OpenCache, Flush, NothingToFlush, Truncate, Write, FlushFails, Crash
    <2>3. ASSUME NEW q \in Runs, NEW s \in Requests, Ask(q, s)
          PROVE  report'[p][r] = report[p][r]
      <3>1. CASE q = p /\ s = r
        <4>1. Cached(p, r)
          BY <1>1 DEF Inv, Remembered, Cached
        <4>2. Hit(p, r)
          BY <2>3, <3>1, <4>1 DEF Ask, AskModel, ModelFails
        <4>3. QED
          BY <1>1, <4>2, HitKeepsInv
      <3>2. CASE q # p \/ s # r
        <4>1. \E v : report' = [report EXCEPT ![q][s] = v]
          BY <2>3 DEF Ask, Hit, AskModel, ModelFails
        <4>2. QED
          BY <1>1, <3>2, <4>1 DEF Inv, TypeOK
      <3>3. QED
        BY <3>1, <3>2
    <2>4. QED
      BY <1>1, <2>1, <2>2, <2>3 DEF Next
  <1>2. Inv /\ [Next]_vars =>
           [\A p \in Runs : \A r \in Requests :
               ~noCache[p] /\ r \in Answered(p) => report'[p][r] = report[p][r]]_vars
    BY <1>1
  <1>3. QED
    BY <1>2, Inductive, PTL DEF OneAnswerPerRun, Spec

-----------------------------------------------------------------------------
(* Runs that neither overlap, crash nor fail to write.                     *)
(*                                                                         *)
(* There is one active run at a time.  What earlier runs reported is in    *)
(* the file while nobody writes it, and in the memory of the active run,   *)
(* which therefore never asks the model about it; when the run ends, its   *)
(* memory is in the file, or was there all the time.                       *)

Active(p) == pc[p] \in {"open", "writing"}

\* m has the answer to every request that a run that ended well has reported on.
Holds(m) ==
    \A r \in DOMAIN banked : /\ promptHash(r) \in DOMAIN m
                             /\ Reported(m[promptHash(r)]) = banked[r]

\* Without a cache there is nothing to write; before a run starts it has done nothing.
Clean ==
    /\ DOMAIN banked \subseteq Requests /\ DOMAIN earlier = Runs
    /\ \A p \in Runs : noCache[p] => ~dirty[p] /\ pc[p] # "writing"
    /\ \A p \in Runs : pc[p] = "new" =>
          ~dirty[p] /\ paid[p] = {} /\ \A r \in Requests : report[p][r] = Unasked

Alone == \A p, q \in Runs : Active(p) /\ Active(q) => p = q

Written == /\ \A p \in Runs : pc[p] = "writing" => file.state = "blank"
           /\ (\A p \in Runs : pc[p] # "writing") => Holds(file.entries)

Carried ==
    \A p \in Runs : Active(p) /\ ~noCache[p] =>
        /\ Holds(mem[p])
        /\ earlier[p] = banked
        /\ pc[p] = "open" /\ ~dirty[p] => mem[p] = file.entries

Quiet == Alone /\ Written /\ Carried /\ \A p \in Runs : noCache[p] \/ Rerun(p)

QuietInv == Clean /\ (~disturbed => Quiet)

LEMMA QuietInit == Init => QuietInv
  <1> SUFFICES ASSUME Init PROVE QuietInv
    OBVIOUS
  <1>1. /\ banked = Empty /\ DOMAIN Empty = {} /\ earlier = [p \in Runs |-> Empty]
        /\ \A p \in Runs : pc[p] = "new" /\ ~dirty[p] /\ paid[p] = {}
        /\ \A p \in Runs : \A r \in Requests : report[p][r] = Unasked
    BY EmptyCache DEF Init
  <1>2. Clean
    BY <1>1 DEF Clean
  <1>3. Quiet
    BY <1>1 DEF Quiet, Alone, Written, Carried, Rerun, Active, Holds
  <1>4. QED
    BY <1>2, <1>3 DEF QuietInv

\* A run that opens the file alone finds in it what the others reported.
LEMMA OpenKeepsQuiet ==
    ASSUME Inv, QuietInv, NEW p \in Runs, OpenCache(p) PROVE QuietInv'
  <1>1. /\ pc[p] = "new" /\ disturbed' = (disturbed \/ ~Idle)
        /\ mem' = [mem EXCEPT ![p] = IF noCache[p] THEN Empty ELSE file.entries]
        /\ earlier' = [earlier EXCEPT ![p] = banked]
        /\ pc' = [pc EXCEPT ![p] = "open"]
        /\ UNCHANGED <<file, noCache, dirty, report, given, paid, banked>>
    BY DEF OpenCache
  <1>2. pc'[p] = "open" /\ \A q \in Runs : q # p => pc'[q] = pc[q]
    BY <1>1 DEF Inv, TypeOK
  <1>3. Clean'
    BY <1>1, <1>2 DEF QuietInv, Clean
  <1>4. ASSUME ~disturbed' PROVE Quiet'
    <2>1. Clean /\ Quiet /\ Idle
      BY <1>1, <1>4 DEF QuietInv
    <2>2. \A q \in Runs : Active(q)' <=> q = p
      BY <1>2, <2>1 DEF Idle, Active
    <2>3. Holds(file.entries)
      BY <2>1 DEF Quiet, Written, Idle
    <2>4. Alone' /\ Written'
      BY <1>1, <1>2, <2>1, <2>2, <2>3 DEF Alone, Written, Holds, Idle
    <2>5. ~noCache[p] => mem'[p] = file.entries
      BY <1>1 DEF Inv, TypeOK
    <2>6. Carried'
      <3>1. earlier'[p] = banked
        BY <1>1, <2>1 DEF Clean
      <3>2. QED
        BY <1>1, <1>2, <2>2, <2>3, <2>5, <3>1 DEF Carried, Holds
    <2>7. \A q \in Runs : noCache'[q] \/ Rerun(q)'
      BY <1>1, <2>1 DEF Quiet, Clean, Rerun
    <2>8. QED
      BY <2>4, <2>6, <2>7 DEF Quiet
  <1>5. QED
    BY <1>3, <1>4 DEF QuietInv

\* A run that has a cache is not asked twice: what it may have to pay for is not
\* what earlier runs reported.
LEMMA HitKeepsQuiet ==
    ASSUME Inv, QuietInv, NEW p \in Runs, NEW r \in Requests, Hit(p, r) PROVE QuietInv'
  <1>1. /\ pc[p] = "open" /\ Cached(p, r)
        /\ report' = [report EXCEPT ![p][r] = Reported(mem[p][promptHash(r)])]
        /\ UNCHANGED <<file, pc, noCache, mem, dirty, given, paid, banked, earlier, disturbed>>
    BY DEF Hit, history
  <1>2. /\ report'[p][r] = Reported(mem[p][promptHash(r)])
        /\ \A q \in Runs : \A s \in Requests : q # p \/ s # r => report'[q][s] = report[q][s]
    BY <1>1 DEF Inv, TypeOK
  <1>3. Clean'
    BY <1>1, <1>2 DEF QuietInv, Clean
  <1>4. ASSUME ~disturbed' PROVE Quiet'
    <2>1. Clean /\ Quiet
      BY <1>1, <1>4 DEF QuietInv
    <2>2. Alone' /\ Written' /\ Carried'
      BY <1>1, <2>1 DEF Quiet, Alone, Written, Carried, Active, Holds
    <2>3. Active(p) /\ ~noCache[p]
      BY <1>1 DEF Active, Cached
    <2>4. Holds(mem[p]) /\ earlier[p] = banked
      BY <2>1, <2>3 DEF Quiet, Carried
    <2>5. r \in DOMAIN earlier[p] => report'[p][r] = earlier[p][r]
      BY <1>2, <2>4 DEF Holds
    <2>6. \A q \in Runs : noCache'[q] \/ Rerun(q)'
      <3> SUFFICES ASSUME NEW q \in Runs, ~noCache[q], NEW s \in DOMAIN earlier[q]
                   PROVE  s \notin paid[q] /\ report'[q][s] \in {Unasked, earlier[q][s]}
        BY <1>1 DEF Rerun
      <3>1. s \notin paid[q] /\ report[q][s] \in {Unasked, earlier[q][s]}
        BY <2>1 DEF Quiet, Rerun
      <3>2. CASE q = p /\ s = r
        BY <2>5, <3>1, <3>2
      <3>3. CASE ~(q = p /\ s = r)
        <4>1. report'[q][s] = report[q][s]
          BY <1>1, <3>3 DEF Inv, TypeOK
        <4>2. QED
          BY <3>1, <4>1
      <3>4. QED
        BY <3>2, <3>3
    <2>7. QED
      BY <2>2, <2>6 DEF Quiet
  <1>5. QED
    BY <1>3, <1>4 DEF QuietInv

\* What earlier runs reported on is in the memory of the run: it is asked for nothing
\* of it, and what it is asked for disturbs nothing of it.
LEMMA MissIsNews ==
    ASSUME Inv, QuietInv, ~disturbed, NEW p \in Runs, NEW r \in Requests,
           pc[p] = "open", ~noCache[p], ~Cached(p, r)
    PROVE  r \notin DOMAIN earlier[p] /\ r \notin DOMAIN banked
  BY DEF QuietInv, Quiet, Carried, Active, Holds, Cached

LEMMA FailureKeepsQuiet ==
    ASSUME Inv, QuietInv, NEW p \in Runs, NEW r \in Requests, ModelFails(p, r) PROVE QuietInv'
  <1>1. /\ pc[p] = "open" /\ ~Cached(p, r)
        /\ report' = [report EXCEPT ![p][r] = Error]
        /\ UNCHANGED <<file, pc, noCache, mem, dirty, given, paid, banked, earlier, disturbed>>
    BY DEF ModelFails, history
  <1>2. \A q \in Runs : \A s \in Requests : q # p \/ s # r => report'[q][s] = report[q][s]
    BY <1>1 DEF Inv, TypeOK
  <1>3. Clean'
    BY <1>1, <1>2 DEF QuietInv, Clean
  <1>4. ASSUME ~disturbed' PROVE Quiet'
    <2>1. Clean /\ Quiet
      BY <1>1, <1>4 DEF QuietInv
    <2>2. Alone' /\ Written' /\ Carried'
      BY <1>1, <2>1 DEF Quiet, Alone, Written, Carried, Active, Holds
    <2>3. \A q \in Runs : noCache'[q] \/ Rerun(q)'
      <3> SUFFICES ASSUME NEW q \in Runs, ~noCache[q], NEW s \in DOMAIN earlier[q]
                   PROVE  s \notin paid[q] /\ report'[q][s] \in {Unasked, earlier[q][s]}
        BY <1>1 DEF Rerun
      <3>1. s \notin paid[q] /\ report[q][s] \in {Unasked, earlier[q][s]}
        BY <2>1 DEF Quiet, Rerun
      <3>2. ~(q = p /\ s = r)
        BY <1>1, <1>4, MissIsNews
      <3>3. report'[q][s] = report[q][s]
        BY <1>1, <3>2 DEF Inv, TypeOK
      <3>4. QED
        BY <3>1, <3>3
    <2>4. QED
      BY <2>2, <2>3 DEF Quiet
  <1>5. QED
    BY <1>3, <1>4 DEF QuietInv

LEMMA AskKeepsQuiet ==
    ASSUME Inv, QuietInv, NEW p \in Runs, NEW r \in Requests, AskModel(p, r) PROVE QuietInv'
  <1>1. PICK a \in Answers(r) : /\ report' = [report EXCEPT ![p][r] = Reported(a)]
                                /\ Put(p, r, a)
    BY DEF AskModel
  <1>2. /\ pc[p] = "open" /\ ~Cached(p, r)
        /\ paid' = [paid EXCEPT ![p] = @ \cup {r}]
        /\ UNCHANGED <<file, pc, noCache, banked, earlier, disturbed>>
    BY DEF AskModel
  <1>3. /\ \A q \in Runs : \A s \in Requests : q # p \/ s # r => report'[q][s] = report[q][s]
        /\ paid'[p] = paid[p] \cup {r} /\ \A q \in Runs : q # p => paid'[q] = paid[q]
    BY <1>1, <1>2 DEF Inv, TypeOK
  <1>4. \A q \in Runs : q # p => mem'[q] = mem[q] /\ dirty'[q] = dirty[q]
    BY <1>1 DEF Put, Inv, TypeOK
  <1>5. noCache[p] => mem'[p] = mem[p] /\ dirty'[p] = dirty[p]
    BY <1>1 DEF Put
  <1>6. ~noCache[p] => mem'[p] = With(mem[p], promptHash(r), a) /\ dirty'[p]
    BY <1>1 DEF Put, Inv, TypeOK
  <1>7. Clean'
    BY <1>2, <1>3, <1>4, <1>5, <1>6 DEF QuietInv, Clean
  <1>8. ASSUME ~disturbed' PROVE Quiet'
    <2>1. Clean /\ Quiet /\ ~disturbed
      BY <1>2, <1>8 DEF QuietInv
    <2>2. Alone' /\ Written'
      BY <1>2, <2>1 DEF Quiet, Alone, Written, Active, Holds
    <2>3. Carried'
      <3> SUFFICES ASSUME NEW q \in Runs, Active(q), ~noCache[q]
                   PROVE  /\ Holds(mem'[q])
                          /\ earlier[q] = banked
                          /\ pc[q] = "open" /\ ~dirty'[q] => mem'[q] = file.entries
        BY <1>2 DEF Carried, Active, Holds
      <3>1. /\ Holds(mem[q]) /\ earlier[q] = banked
            /\ pc[q] = "open" /\ ~dirty[q] => mem[q] = file.entries
        BY <2>1 DEF Quiet, Carried
      <3>2. CASE q # p
        BY <1>4, <3>1, <3>2
      <3>3. CASE q = p
        <4>1. mem'[p] = With(mem[p], promptHash(r), a) /\ dirty'[p]
          BY <1>6, <3>3
        <4>2. promptHash(r) \notin DOMAIN mem[p]
          BY <1>2, <3>3 DEF Cached
        <4>3. \A x \in DOMAIN mem[p] : x \in DOMAIN mem'[p] /\ mem'[p][x] = mem[p][x]
          BY <4>1, <4>2 DEF With
        <4>4. Holds(mem'[p])
          BY <3>1, <3>3, <4>3 DEF Holds
        <4>5. QED
          BY <3>1, <3>3, <4>1, <4>4
      <3>4. QED
        BY <3>2, <3>3
    <2>4. \A q \in Runs : noCache'[q] \/ Rerun(q)'
      <3> SUFFICES ASSUME NEW q \in Runs, ~noCache[q], NEW s \in DOMAIN earlier[q]
                   PROVE  s \notin paid'[q] /\ report'[q][s] \in {Unasked, earlier[q][s]}
        BY <1>2 DEF Rerun
      <3>1. s \notin paid[q] /\ report[q][s] \in {Unasked, earlier[q][s]}
        BY <2>1 DEF Quiet, Rerun
      <3>2. ~(q = p /\ s = r)
        BY <1>2, <2>1, MissIsNews
      <3>3. report'[q][s] = report[q][s]
        BY <1>1, <3>2 DEF Inv, TypeOK
      <3>4. s \notin paid'[q]
        BY <1>3, <3>1, <3>2
      <3>5. QED
        BY <3>1, <3>3, <3>4
    <2>5. QED
      BY <2>2, <2>3, <2>4 DEF Quiet
  <1>9. QED
    BY <1>7, <1>8 DEF QuietInv

\* When a run ends, the file has what it banks.
LEMMA BankHolds ==
    ASSUME Inv, NEW p \in Runs, ~noCache[p], Holds(mem[p]), Bank(p),
           DOMAIN banked \subseteq Requests
    PROVE  /\ DOMAIN banked' \subseteq Requests
           /\ \A r \in DOMAIN banked' : /\ promptHash(r) \in DOMAIN mem[p]
                                       /\ Reported(mem[p][promptHash(r)]) = banked'[r]
  <1>1. banked' = [r \in DOMAIN banked \cup Answered(p) |->
                      IF r \in Answered(p) THEN report[p][r] ELSE banked[r]]
    BY DEF Bank
  <1>2. Answered(p) \subseteq Requests
    BY DEF Answered
  <1>3. \A r \in Answered(p) : /\ promptHash(r) \in DOMAIN mem[p]
                               /\ Reported(mem[p][promptHash(r)]) = report[p][r]
    BY DEF Inv, Remembered
  <1>4. QED
    BY <1>1, <1>2, <1>3 DEF Holds


\* A run that ends well leaves in the file what was in its memory.
LEMMA EndKeepsQuiet ==
    ASSUME Inv, QuietInv, NEW p \in Runs, NothingToFlush(p) \/ Write(p) PROVE QuietInv'
  <1>1. /\ Active(p) /\ Bank(p)
        /\ pc' = [pc EXCEPT ![p] = "done"]
        /\ UNCHANGED <<noCache, mem, report, given, paid, earlier, disturbed>>
    BY DEF NothingToFlush, Write, Active
  <1>2. /\ pc'[p] = "done" /\ \A q \in Runs : q # p => pc'[q] = pc[q]
        /\ \A q \in Runs : dirty'[q] => dirty[q]
    BY <1>1 DEF NothingToFlush, Write, Inv, TypeOK
  <1>3. noCache[p] => banked' = banked /\ file' = file
    BY <1>1 DEF Bank, NothingToFlush, Write, QuietInv, Clean
  <1>4. DOMAIN banked' \subseteq Requests
    <2>1. CASE noCache[p]
      BY <1>3, <2>1 DEF QuietInv, Clean
    <2>2. CASE ~noCache[p]
      <3>1. banked' = [r \in DOMAIN banked \cup Answered(p) |->
                          IF r \in Answered(p) THEN report[p][r] ELSE banked[r]]
        BY <1>1, <2>2 DEF Bank
      <3>2. QED
        BY <3>1 DEF Answered, QuietInv, Clean
    <2>3. QED
      BY <2>1, <2>2
  <1>5. Clean'
    BY <1>1, <1>2, <1>4 DEF QuietInv, Clean
  <1>6. ASSUME ~disturbed' PROVE Quiet'
    <2>1. Clean /\ Quiet /\ ~disturbed
      BY <1>1, <1>6 DEF QuietInv
    <2>2. \A q \in Runs : ~Active(q)'
      BY <1>1, <1>2, <2>1 DEF Quiet, Alone, Active
    <2>3. Holds(file.entries)'
      <3>1. CASE noCache[p]
        <4>1. \A q \in Runs : pc[q] # "writing"
          BY <1>1, <2>1, <3>1 DEF Quiet, Alone, Clean, Active
        <4>2. QED
          BY <1>3, <2>1, <3>1, <4>1 DEF Quiet, Written, Holds
      <3>2. CASE ~noCache[p]
        <4>1. Holds(mem[p])
          BY <1>1, <2>1, <3>2 DEF Quiet, Carried
        <4>2. \A r \in DOMAIN banked' : /\ promptHash(r) \in DOMAIN mem[p]
                                        /\ Reported(mem[p][promptHash(r)]) = banked'[r]
          BY <1>1, <2>1, <3>2, <4>1, BankHolds DEF Clean
        <4>3. file'.entries = mem[p]
          <5>1. CASE NothingToFlush(p)
            BY <1>1, <2>1, <3>2, <5>1 DEF NothingToFlush, Quiet, Carried
          <5>2. CASE Write(p)
            <6>1. file' = Whole(mem[p])
              BY <2>1, <5>2 DEF Write, Quiet, Written
            <6>2. QED
              BY <6>1 DEF Whole
          <5>3. QED
            BY <5>1, <5>2
        <4>4. QED
          BY <4>2, <4>3 DEF Holds
      <3>3. QED
        BY <3>1, <3>2
    <2>4. Alone' /\ Written' /\ Carried'
      BY <2>2, <2>3 DEF Alone, Written, Carried, Active
    <2>5. \A q \in Runs : noCache'[q] \/ Rerun(q)'
      BY <1>1, <2>1 DEF Quiet, Rerun
    <2>6. QED
      BY <2>4, <2>5 DEF Quiet
  <1>7. QED
    BY <1>5, <1>6 DEF QuietInv

LEMMA TruncateKeepsQuiet ==
    ASSUME Inv, QuietInv, NEW p \in Runs, Truncate(p) PROVE QuietInv'
  <1>1. /\ pc[p] = "open" /\ dirty[p] /\ file' = Blank
        /\ pc' = [pc EXCEPT ![p] = "writing"]
        /\ UNCHANGED <<noCache, mem, dirty, report, given, paid, banked, earlier, disturbed>>
    BY DEF Truncate, history
  <1>2. pc'[p] = "writing" /\ \A q \in Runs : q # p => pc'[q] = pc[q]
    BY <1>1 DEF Inv, TypeOK
  <1>3. Clean'
    BY <1>1, <1>2 DEF QuietInv, Clean
  <1>4. ASSUME ~disturbed' PROVE Quiet'
    <2>1. Clean /\ Quiet
      BY <1>1, <1>4 DEF QuietInv
    <2>2. Alone' /\ \A q \in Runs : Active(q)' <=> q = p
      BY <1>1, <1>2, <2>1 DEF Quiet, Alone, Active
    <2>3. Written'
      BY <1>1, <1>2 DEF Written, Blank
    <2>4. Carried'
      BY <1>1, <1>2, <2>1, <2>2 DEF Quiet, Carried, Active, Holds
    <2>5. \A q \in Runs : noCache'[q] \/ Rerun(q)'
      BY <1>1, <2>1 DEF Quiet, Rerun
    <2>6. QED
      BY <2>2, <2>3, <2>4, <2>5 DEF Quiet
  <1>5. QED
    BY <1>3, <1>4 DEF QuietInv

LEMMA DisturbanceKeepsQuiet ==
    ASSUME Inv, QuietInv, NEW p \in Runs, FlushFails(p) \/ Crash(p) PROVE QuietInv'
  <1>1. /\ disturbed' /\ \E to \in {"done", "dead"} : pc' = [pc EXCEPT ![p] = to]
        /\ UNCHANGED <<noCache, mem, dirty, report, paid, banked, earlier>>
    BY DEF FlushFails, Crash
  <1>2. \A q \in Runs : pc'[q] \in {pc[q], "done", "dead"}
    BY <1>1 DEF Inv, TypeOK
  <1>3. Clean'
    BY <1>1, <1>2 DEF QuietInv, Clean
  <1>4. QED
    BY <1>1, <1>3 DEF QuietInv

\* "Re-running over an unchanged trace is stable and free", for any number of runs
\* that neither overlap, crash nor fail to write.
THEOREM RerunsAreStable == Spec => []RerunIsStableAndFree
  <1>1. Inv /\ QuietInv /\ [Next]_vars => QuietInv'
    <2> SUFFICES ASSUME Inv, QuietInv, [Next]_vars PROVE QuietInv'
      OBVIOUS
    <2>1. CASE UNCHANGED vars
      BY <2>1 DEF vars, history, QuietInv, Clean, Quiet, Alone, Written, Carried, Active, Holds, Rerun
    <2>2. ASSUME NEW p \in Runs, OpenCache(p) \/ Flush(p) \/ Crash(p) PROVE QuietInv'
      BY <2>2, OpenKeepsQuiet, EndKeepsQuiet, TruncateKeepsQuiet, DisturbanceKeepsQuiet DEF Flush
    <2>3. ASSUME NEW p \in Runs, NEW r \in Requests, Ask(p, r) PROVE QuietInv'
      BY <2>3, HitKeepsQuiet, AskKeepsQuiet, FailureKeepsQuiet DEF Ask
    <2>4. QED
      BY <2>1, <2>2, <2>3 DEF Next
  <1>2. QuietInv => RerunIsStableAndFree
    BY DEF QuietInv, Quiet, RerunIsStableAndFree
  <1>3. QED
    BY <1>1, <1>2, QuietInit, Inductive, PTL DEF Spec
=============================================================================
