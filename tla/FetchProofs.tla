----------------------------- MODULE FetchProofs -----------------------------
(***************************************************************************)
(* Proofs about the settle poll (module Fetch), for any trace, settle      *)
(* window, wait, latency and exporter.                                     *)
(*                                                                         *)
(* The argument: `last` counts what an earlier answer held, so it never    *)
(* exceeds what is visible, and while it equals it, nothing was exported   *)
(* since that answer: the exporter has been silent at least for `age`.     *)
(* The same holds of what was visible when the call in flight was issued,  *)
(* up to the time in flight.  A stable answer has `last` records, so it is *)
(* exactly what was visible when its call was issued.                      *)
(***************************************************************************)
EXTENDS Fetch, FiniteSetTheorems, SequenceTheorems, TLAPS

-----------------------------------------------------------------------------
(* Finite sets of records.                                                 *)

LEMMA FiniteRecords == ASSUME NEW S, S \subseteq Spans
                       PROVE  IsFiniteSet(S) /\ Cardinality(S) \in Nat
  BY SpansAssumption, FS_Subset, FS_CardinalityType

LEMMA FewerRecords == ASSUME NEW T, T \subseteq Spans, NEW S, S \subseteq T
                      PROVE  /\ Cardinality(S) <= Cardinality(T)
                             /\ Cardinality(S) = Cardinality(T) => S = T
  BY FiniteRecords, FS_Subset

LEMMA NoRecords == ASSUME NEW S, S \subseteq Spans
                   PROVE  (Cardinality(S) = 0) <=> (S = {})
  BY FiniteRecords, FS_EmptySet

LEMMA WindowsShape == ASSUME TypeOK
                      PROVE  /\ Len(windows) \in {1, 2} /\ 1 \in 1..Len(windows)
                             /\ windows[Len(windows)] = Spans
                             /\ win = 1 \/ win = Len(windows)
                             /\ windows[1] \subseteq Spans
  <1>1. CASE windows = <<Spans>>
    <2>1. Len(windows) = 1 /\ windows[1] = Spans
      BY <1>1
    <2>2. win \in 1..1
      BY <2>1 DEF TypeOK
    <2>3. QED
      BY <2>1, <2>2
  <1>2. CASE \E B \in Bounds : windows = <<B, Spans>>
    <2>1. PICK B \in Bounds : windows = <<B, Spans>>
      BY <1>2
    <2>2. Len(windows) = 2 /\ windows[1] = B /\ windows[2] = Spans
      BY <2>1
    <2>3. win \in 1..2
      BY <2>2 DEF TypeOK
    <2>4. QED
      BY <2>2, <2>3, SpansAssumption
  <1>3. QED
    BY <1>1, <1>2 DEF TypeOK, Windows

\* A non-empty answer to a query that sees the whole trace lies between what was
\* visible when the call was issued and what is visible now.
LEMMA AnswerBetween ==
    ASSUME TypeOK, NEW R \in Answers
    PROVE  /\ R \subseteq visible
           /\ SeesWholeTrace /\ R # {} /\ asked.set \subseteq visible => asked.set \subseteq R
           /\ R = {} => asked.set = {}
  <1>1. R \in Returned(windows[win]) /\ (R # {} \/ win = Len(windows))
    BY DEF Answers
  <1>2. /\ R \subseteq visible /\ R \subseteq windows[win]
        /\ asked.set \cap windows[win] \subseteq R \/ Cardinality(R) >= Cap
    BY <1>1 DEF Returned
  <1>3. visible \subseteq Spans /\ asked.set \subseteq Spans
    BY DEF TypeOK
  <1>4. ASSUME SeesWholeTrace, R # {}, asked.set \subseteq visible PROVE asked.set \subseteq R
    <2>1. windows[win] = Spans
      <3>1. windows[win] \in {{}, Spans}
        BY <1>4, WindowsShape DEF SeesWholeTrace
      <3>2. QED
        BY <1>2, <1>4, <3>1
    <2>2. CASE Cardinality(R) >= Cap
      <3>1. Cardinality(R) >= Cardinality(Spans)
        BY <1>2, <1>3, <1>4, <2>2, FiniteRecords, TimeAssumption DEF SeesWholeTrace
      <3>2. R = Spans
        BY <1>2, <1>3, <3>1, FewerRecords, FiniteRecords
      <3>3. QED
        BY <1>3, <3>2
    <2>3. QED
      BY <1>2, <1>3, <2>1, <2>2
  <1>5. ASSUME R = {} PROVE asked.set = {}
    <2>1. windows[win] = Spans
      BY <1>1, <1>5, WindowsShape
    <2>2. ~(Cardinality(R) >= Cap)
      BY <1>5, FS_EmptySet, TimeAssumption
    <2>3. QED
      BY <1>2, <1>3, <1>5, <2>1, <2>2
  <1>6. QED
    BY <1>2, <1>4, <1>5

-----------------------------------------------------------------------------
(* Types.                                                                  *)

LEMMA LaterType == ASSUME NEW m \in Nat, NEW t \in 0..m
                   PROVE  Later(t, m) \in 0..m /\ t <= Later(t, m)
  BY DEF Later

LEMMA TypeInit == Init => TypeOK
  <1> SUFFICES ASSUME Init PROVE TypeOK
    OBVIOUS
  <1>1. Len(windows) \in Nat /\ Len(windows) >= 1
    <2>1. /\ \A B \in Bounds : <<B, Spans>> \in Seq(SUBSET Spans) /\ <<B, Spans>> # <<>>
          /\ <<Spans>> \in Seq(SUBSET Spans) /\ <<Spans>> # <<>>
      BY SpansAssumption
    <2>2. windows = <<Spans>> \/ \E B \in Bounds : windows = <<B, Spans>>
      BY DEF Init, Windows
    <2>3. windows \in Seq(SUBSET Spans) /\ windows # <<>>
      BY <2>1, <2>2
    <2>4. QED
      BY <2>3, EmptySeq
  <1>2. win \in 1..Len(windows)
    <2>1. win = 1
      BY DEF Init
    <2>2. 1 \in 1..Len(windows)
      BY <1>1
    <2>3. QED
      BY <2>1, <2>2, Zenon
  <1>3. asked \in [set : SUBSET Spans, quiet : Age]
    BY DEF Init, AskedNow, Age
  <1>4. result \in Result
    BY DEF Init, NoResult, Result
  <1>5. elapsed \in 0..(Wait + 1) /\ last \in Nat /\ age \in Age /\ since \in Nat
    BY TimeAssumption DEF Init, Age
  <1>6. QED
    BY <1>2, <1>3, <1>4, <1>5 DEF Init, TypeOK, Age

\* The steps that issue the first call of a query.
LEMMA AskTypes ==
    ASSUME TypeOK, NEW w \in 1..Len(windows), Ask(w)
    PROVE  /\ win' \in 1..Len(windows) /\ since' \in Nat
           /\ asked' \in [set : SUBSET Spans, quiet : Age]
  BY DEF Ask, AskedNow, TypeOK

LEMMA FinishTypes ==
    ASSUME TypeOK, NEW R \in SUBSET Spans, NEW b \in BOOLEAN, Finish(R, b)
    PROVE  TypeOK'
  <1>1. result' \in Result
    BY DEF Finish, Result
  <1>2. /\ phase' \in {"content", "done"} /\ outcome' \in {"ok", outcome}
        /\ win' \in {1, win} /\ since' \in {0, since}
    BY DEF Finish
  <1>3. UNCHANGED <<env, opts, asked, poll>>
    BY DEF Finish
  <1>4. windows' = windows /\ win' \in 1..Len(windows')
    BY <1>2, <1>3, WindowsShape DEF opts, TypeOK
  <1>5. QED
    BY <1>1, <1>2, <1>3, <1>4 DEF TypeOK, env, opts, poll

\* What a step that ends the fetch without a result does.
LEMMA StopTypes == ASSUME TypeOK, NEW how \in {"ok", "nospans", "error"}, Stop(how)
                   PROVE  TypeOK'
  BY DEF Stop, TypeOK, env, opts, poll

LEMMA TypeStep == TypeOK /\ [Next]_vars => TypeOK'
  <1> SUFFICES ASSUME TypeOK, [Next]_vars PROVE TypeOK'
    OBVIOUS
  <1>1. CASE Resolve
    <2>1. CASE NoSession
      BY <2>1, StopTypes DEF NoSession
    <2>2. CASE NoTraceID
      BY <2>2, StopTypes DEF NoTraceID
    <2>3. CASE Resolved
      <3>1. 1 \in 1..Len(windows)
        BY WindowsShape
      <3>2. QED
        BY <2>3, <3>1, AskTypes DEF Resolved, TypeOK, env, opts, poll
    <2>4. QED
      BY <1>1, <2>1, <2>2, <2>3 DEF Resolve
  <1>2. CASE NextWindow
    <2>1. win + 1 \in 1..Len(windows)
      BY <1>2, WindowsShape DEF NextWindow
    <2>2. QED
      BY <1>2, <2>1, AskTypes DEF NextWindow, TypeOK, env, opts, poll
  <1>3. CASE ReturnStable \/ ReturnUnstable
    <2>1. PICK R \in Answers, b \in BOOLEAN : Finish(R, b)
      BY <1>3 DEF ReturnStable, ReturnUnstable
    <2>2. R \in SUBSET Spans
      BY <2>1, AnswerBetween DEF TypeOK
    <2>3. QED
      BY <2>1, <2>2, FinishTypes
  <1>4. CASE NoSpans
    BY <1>4, StopTypes DEF NoSpans
  <1>5. CASE Sleep
    <2>1. PICK R \in Answers : /\ last' = Cardinality(R)
                               /\ age' = IF Unchanged(R) THEN age ELSE 0
      BY <1>5 DEF Sleep
    <2>2. last' \in Nat
      BY <2>1, AnswerBetween, FiniteRecords DEF TypeOK
    <2>3. age' \in Age
      BY <2>1, TimeAssumption DEF TypeOK, Age
    <2>4. asked' \in [set : SUBSET Spans, quiet : Age]
      BY <1>5, TimeAssumption DEF Sleep, NotAsked, Age
    <2>5. QED
      BY <1>5, <2>2, <2>3, <2>4 DEF Sleep, TypeOK, env, opts
  <1>6. CASE Wake
    <2>1. 1 \in 1..Len(windows)
      BY WindowsShape
    <2>2. QED
      BY <1>6, <2>1, AskTypes DEF Wake, TypeOK, env, opts, poll
  <1>7. CASE ContentNextWindow
    <2>1. win' \in 1..Len(windows)
      BY <1>7, WindowsShape DEF ContentNextWindow
    <2>2. QED
      BY <1>7, <2>1 DEF ContentNextWindow, TypeOK, env, opts, poll
  <1>8. CASE ContentFound \/ ContentMissing
    <2>1. PICK b \in BOOLEAN : ContentDone(b)
      BY <1>8 DEF ContentFound, ContentMissing
    <2>2. result' \in Result
      BY <2>1 DEF ContentDone, TypeOK, Result
    <2>3. QED
      BY <2>1, <2>2 DEF ContentDone, TypeOK, env, opts, poll
  <1>9. CASE CallFails \/ Cancelled
    BY <1>9, StopTypes DEF CallFails, Cancelled
  <1>10. CASE Export
    <2>1. visible' \in SUBSET Spans /\ sinceExport' \in Age
      BY <1>10, TimeAssumption DEF Export, TypeOK, Age
    <2>2. QED
      BY <1>10, <2>1 DEF Export, TypeOK, opts, poll
  <1>11. CASE Tick
    <2>1. sinceExport' \in Age /\ age' \in Age
      BY <1>11, LaterType, TimeAssumption DEF Tick, TypeOK, Age
    <2> DEFINE m == Wait + 1
    <2>2. m \in Nat /\ elapsed \in 0..m
      BY TimeAssumption DEF TypeOK
    <2>3. Later(elapsed, m) \in 0..m
      <3> HIDE DEF m
      <3> QED
        BY <2>2, LaterType
    <2>4. elapsed' \in 0..(Wait + 1) /\ since' \in Nat
      BY <1>11, <2>2, <2>3 DEF Tick, TypeOK
    <2>5. QED
      BY <1>11, <2>1, <2>4 DEF Tick, TypeOK, opts
  <1>12. CASE UNCHANGED vars
    BY <1>12 DEF vars, env, opts, poll, TypeOK
  <1>13. QED
    BY <1>1, <1>2, <1>3, <1>4, <1>5, <1>6, <1>7, <1>8, <1>9, <1>10, <1>11, <1>12
    DEF Next, Client, Poll, Content

\* The fetch's variables keep their types.
THEOREM TypeCorrect == Spec => []TypeOK
  BY TypeInit, TypeStep, PTL DEF Spec

-----------------------------------------------------------------------------
(* The inductive invariant.                                                *)

\* The exporter's silences are bounded, now and when the call was issued.
Silence == /\ Exporting => sinceExport <= MaxGap
           /\ asked.set \notin {{}, Spans} => asked.quiet <= MaxGap
           /\ asked.set \subseteq visible

\* As long as nothing more is visible than the last answer held, the exporter
\* has been silent since that answer.
Counted == /\ last <= Cardinality(visible)
           /\ last > 0 /\ Cardinality(visible) = last => age <= sinceExport

\* The same of what was visible when the call in flight was issued.
InFlight ==
    phase = "query" =>
        /\ since <= MaxLatency
        /\ last <= Cardinality(asked.set)
        /\ last > 0 /\ Cardinality(asked.set) = last => age <= asked.quiet + since

\* What a returned result is.
Delivered ==
    /\ outcome = "running" <=> phase # "done"
    /\ phase \notin {"content", "done"} => result.records = {}
    /\ phase = "content" \/ outcome = "ok" => result.records # {}
    /\ result.records # {} => outcome \in {"running", "ok"}
    /\ result.stable => result.records # {}
    /\ SeesWholeTrace /\ result.stable =>
          asked.set = result.records /\ asked.quiet + MaxLatency >= Settle
    /\ SeesWholeTrace /\ result.records # {} /\ ~result.stable =>
          elapsed > Wait /\ asked.set \subseteq result.records

\* Only a fetch by session resolves one.
BySession == phase = "resolve" => bySession

Inv == TypeOK /\ Silence /\ Counted /\ InFlight /\ Delivered /\ NoSpansIsTrue /\ BySession

LEMMA InvInit == Init => Inv
  <1> SUFFICES ASSUME Init PROVE Inv
    OBVIOUS
  <1>1. TypeOK
    BY TypeInit
  <1>2. Silence
    BY DEF Init, Silence, AskedNow, Exporting
  <1>3. Counted /\ InFlight
    BY <1>1, FiniteRecords, TimeAssumption DEF Init, Counted, InFlight, AskedNow, TypeOK
  <1>4. Delivered /\ NoSpansIsTrue /\ BySession
    BY DEF Init, Delivered, NoResult, NoSpansIsTrue, BySession
  <1>5. QED
    BY <1>1, <1>2, <1>3, <1>4 DEF Inv

\* Steps that issue a span query.
Asking == Resolved \/ NextWindow \/ Wake

LEMMA AskingKeepsInv == ASSUME Inv, TypeOK', Asking PROVE Inv'
  <1>1. /\ asked' = AskedNow /\ since' = 0 /\ phase' = "query"
        /\ phase \in {"resolve", "query", "sleep"}
        /\ UNCHANGED <<env, opts, poll, result, outcome>>
    BY DEF Asking, Resolved, NextWindow, Wake, Ask
  <1>2. UNCHANGED <<visible, sinceExport, windows, bySession, last, age, elapsed, result, outcome>>
    BY <1>1 DEF env, opts, poll
  <1>3. Silence'
    BY <1>1, <1>2 DEF Inv, Silence, Exporting, AskedNow
  <1>4. Counted' /\ InFlight'
    BY <1>1, <1>2, TimeAssumption DEF Inv, Counted, InFlight, AskedNow, TypeOK, Age
  <1>5. outcome = "running" /\ result.records = {} /\ ~result.stable
    BY <1>1 DEF Inv, Delivered, TypeOK, Result
  <1>6. Delivered' /\ NoSpansIsTrue' /\ BySession'
    BY <1>1, <1>2, <1>5 DEF Delivered, NoSpansIsTrue, BySession
  <1>7. QED
    BY <1>3, <1>4, <1>6 DEF Inv

\* Steps that end the fetch without a result.
LEMMA StoppingKeepsInv ==
    ASSUME Inv, TypeOK', NoSession \/ NoTraceID \/ NoSpans \/ CallFails \/ Cancelled
    PROVE  Inv'
  <1>1. PICK how \in {"nospans", "error"} : Stop(how)
    BY DEF NoSession, NoTraceID, NoSpans, CallFails, Cancelled
  <1>2. /\ phase' = "done" /\ outcome' = how
        /\ UNCHANGED <<visible, sinceExport, windows, bySession, since, asked, last, age,
                       elapsed, result>>
    BY <1>1 DEF Stop, env, opts, poll
  <1>3. phase \in {"resolve", "query", "sleep"}
    BY DEF NoSession, NoTraceID, NoSpans, CallFails, Cancelled
  <1>4. result.records = {} /\ ~result.stable
    BY <1>3 DEF Inv, Delivered, TypeOK, Result
  <1>5. Silence' /\ Counted' /\ InFlight'
    BY <1>2 DEF Inv, Silence, Counted, InFlight, Exporting
  <1>6. Delivered' /\ BySession'
    BY <1>1, <1>2, <1>4 DEF Delivered, BySession
  <1>7. NoSpansIsTrue'
    <2>1. CASE how = "error"
      BY <1>2, <2>1 DEF NoSpansIsTrue
    <2>2. CASE NoSpans
      <3>1. asked.set = {} /\ elapsed > Wait
        BY <2>2, AnswerBetween DEF NoSpans, Expired, Inv
      <3>2. QED
        BY <1>2, <3>1 DEF NoSpansIsTrue
    <2>3. CASE NoSession
      <3>1. {} \in Returned(Tagged) /\ phase = "resolve"
        BY <2>3 DEF NoSession
      <3>2. asked.set \cap Tagged = {}
        BY <3>1, FS_EmptySet, TimeAssumption DEF Returned
      <3>3. bySession
        BY <3>1 DEF Inv, BySession
      <3>4. QED
        BY <1>2, <3>2, <3>3 DEF NoSpansIsTrue
    <2>4. QED
      BY <1>1, <1>2, <2>1, <2>2, <2>3
      DEF NoSession, NoTraceID, NoSpans, CallFails, Cancelled, Stop
  <1>8. QED
    BY <1>5, <1>6, <1>7 DEF Inv

\* A returned answer: a stable one is exactly what was visible when it was asked
\* for, an unstable one at least that.
LEMMA ReturningKeepsInv == ASSUME Inv, TypeOK', ReturnStable \/ ReturnUnstable PROVE Inv'
  <1>1. PICK R \in Answers, b \in BOOLEAN :
            /\ Finish(R, b) /\ R # {}
            /\ b => Settled(R)
            /\ ~b => elapsed > Wait
    BY DEF ReturnStable, ReturnUnstable, Settled, Expired
  <1>2. /\ result' = [records |-> R, stable |-> b, content |-> FALSE]
        /\ \/ phase' = "done" /\ outcome' = "ok"
           \/ phase' = "content" /\ outcome' = outcome
        /\ UNCHANGED <<visible, sinceExport, windows, bySession, asked, last, age, elapsed>>
    BY <1>1 DEF Finish, env, opts, poll
  <1>3. phase = "query" /\ outcome = "running"
    BY DEF ReturnStable, ReturnUnstable, Inv, Delivered
  <1>4. Silence' /\ Counted' /\ InFlight' /\ BySession'
    BY <1>2, <1>3 DEF Inv, Silence, Counted, InFlight, Exporting, BySession
  <1>5. R \subseteq visible /\ (SeesWholeTrace => asked.set \subseteq R)
    BY <1>1, AnswerBetween DEF Inv, Silence
  <1>6. ASSUME SeesWholeTrace, b
        PROVE  asked.set = R /\ asked.quiet + MaxLatency >= Settle
    <2>1. R \subseteq Spans /\ asked.set \subseteq Spans
      BY <1>5 DEF Inv, TypeOK
    <2>2. Cardinality(R) = last /\ age >= Settle
      BY <1>1, <1>6 DEF Settled, Unchanged
    <2>3. last <= Cardinality(asked.set) /\ since <= MaxLatency
      BY <1>3 DEF Inv, InFlight
    <2>4. asked.set = R
      BY <1>5, <1>6, <2>1, <2>2, <2>3, FewerRecords, FiniteRecords
    <2>5. last > 0
      BY <1>1, <2>1, <2>2, NoRecords, FiniteRecords
    <2>6. age <= asked.quiet + since
      BY <1>3, <2>2, <2>4, <2>5 DEF Inv, InFlight
    <2>7. asked.quiet \in Nat /\ since \in Nat /\ age \in Nat
      BY DEF Inv, TypeOK, Age
    <2>8. QED
      BY <2>2, <2>3, <2>4, <2>6, <2>7, TimeAssumption
  <1>7. Delivered'
    <2>1. SeesWholeTrace' <=> SeesWholeTrace
      BY <1>2 DEF SeesWholeTrace
    <2>2. result'.records = R /\ result'.stable = b
      BY <1>2
    <2>3. QED
      BY <1>1, <1>2, <1>3, <1>5, <1>6, <2>1, <2>2 DEF Delivered
  <1>8. NoSpansIsTrue'
    BY <1>2, <1>3 DEF NoSpansIsTrue
  <1>9. QED
    BY <1>4, <1>7, <1>8 DEF Inv

LEMMA SleepKeepsInv == ASSUME Inv, TypeOK', Sleep PROVE Inv'
  <1>1. PICK R \in Answers : /\ last' = Cardinality(R)
                             /\ age' = IF Unchanged(R) THEN age ELSE 0
    BY DEF Sleep
  <1>2. /\ phase = "query" /\ phase' = "sleep" /\ asked' = NotAsked
        /\ UNCHANGED <<visible, sinceExport, windows, bySession, elapsed, result, outcome>>
    BY DEF Sleep, env, opts
  <1>3. outcome = "running" /\ result.records = {} /\ ~result.stable
    BY <1>2 DEF Inv, Delivered, TypeOK, Result
  <1>4. Silence' /\ InFlight' /\ BySession'
    BY <1>2 DEF Inv, Silence, InFlight, Exporting, NotAsked, BySession
  <1>5. Counted'
    <2>1. Cardinality(R) <= Cardinality(visible)
      BY AnswerBetween, FewerRecords DEF Inv, TypeOK
    <2>2. CASE Unchanged(R)
      BY <1>1, <1>2, <2>1, <2>2 DEF Inv, Counted, Unchanged
    <2>3. CASE ~Unchanged(R)
      BY <1>1, <1>2, <2>1, <2>3 DEF Inv, Counted, TypeOK, Age
    <2>4. QED
      BY <2>2, <2>3
  <1>6. Delivered' /\ NoSpansIsTrue'
    BY <1>2, <1>3 DEF Delivered, NoSpansIsTrue
  <1>7. QED
    BY <1>4, <1>5, <1>6 DEF Inv

LEMMA ExportKeepsInv == ASSUME Inv, TypeOK', Export PROVE Inv'
  <1>1. PICK more \in (SUBSET (Spans \ visible)) \ {{}} : visible' = visible \cup more
    BY DEF Export
  <1>2. /\ sinceExport' = 0 /\ visible \subseteq visible' /\ visible # visible'
        /\ UNCHANGED <<windows, bySession, phase, since, asked, last, age, elapsed,
                       result, outcome>>
    BY <1>1 DEF Export, opts, poll
  <1>3. Cardinality(visible) <= Cardinality(visible') /\ Cardinality(visible) # Cardinality(visible')
        /\ Cardinality(visible) \in Nat /\ Cardinality(visible') \in Nat
    BY <1>2, FewerRecords, FiniteRecords DEF TypeOK
  <1>4. Silence'
    BY <1>2, TimeAssumption DEF Inv, Silence
  <1>5. Counted'
    BY <1>2, <1>3 DEF Inv, Counted, TypeOK
  <1>6. InFlight' /\ Delivered' /\ NoSpansIsTrue' /\ BySession'
    BY <1>2 DEF Inv, InFlight, Delivered, NoSpansIsTrue, BySession, SeesWholeTrace
  <1>7. QED
    BY <1>4, <1>5, <1>6 DEF Inv

LEMMA TickKeepsInv == ASSUME Inv, TypeOK', Tick PROVE Inv'
  <1>1. /\ Exporting => sinceExport < MaxGap
        /\ since < (IF phase = "sleep" THEN Pause ELSE MaxLatency)
        /\ sinceExport' = Later(sinceExport, Settle) /\ since' = since + 1
        /\ age' = Later(age, Settle)
        /\ UNCHANGED <<visible, windows, bySession, phase, asked, last, result, outcome>>
    BY DEF Tick, opts
  <1>2. sinceExport \in 0..Settle /\ age \in 0..Settle /\ asked.quiet \in 0..Settle
        /\ since \in Nat /\ last \in Nat /\ Settle \in Nat /\ MaxGap \in Nat /\ MaxLatency \in Nat
    BY TimeAssumption DEF Inv, TypeOK, Age
  <1>3. Silence'
    BY <1>1, <1>2 DEF Inv, Silence, Exporting, Later
  <1>4. Counted'
    BY <1>1, <1>2 DEF Inv, Counted, Later
  <1>5. InFlight'
    BY <1>1, <1>2 DEF Inv, InFlight, Later
  <1>6. phase # "resolve" /\ elapsed > Wait => elapsed' > Wait
    BY TimeAssumption DEF Tick, Later, Inv, TypeOK
  <1>7. outcome = "running"
    BY DEF Tick, Inv, Delivered
  <1>8. Delivered'
    <2>1. SeesWholeTrace' <=> SeesWholeTrace
      BY <1>1 DEF SeesWholeTrace
    <2>2. result.records # {} => phase # "resolve"
      BY DEF Inv, Delivered
    <2>3. QED
      BY <1>1, <1>6, <2>1, <2>2 DEF Inv, Delivered
  <1>9. NoSpansIsTrue' /\ BySession'
    BY <1>1, <1>7 DEF Inv, NoSpansIsTrue, BySession
  <1>10. QED
    BY <1>3, <1>4, <1>5, <1>8, <1>9 DEF Inv

LEMMA ContentKeepsInv == ASSUME Inv, TypeOK', Content PROVE Inv'
  <1>1. /\ phase = "content" /\ phase' \in {"content", "done"}
        /\ outcome' = IF phase' = "done" THEN "ok" ELSE outcome
        /\ result'.records = result.records /\ result'.stable = result.stable
        /\ UNCHANGED <<visible, sinceExport, windows, bySession, asked, last, age, elapsed>>
    BY DEF Content, ContentNextWindow, ContentFound, ContentMissing, ContentDone, env, opts,
           poll, Inv, TypeOK, Result
  <1>2. Silence' /\ Counted' /\ InFlight' /\ BySession'
    BY <1>1 DEF Inv, Silence, Counted, InFlight, Exporting, BySession
  <1>3. SeesWholeTrace' <=> SeesWholeTrace
    BY <1>1 DEF SeesWholeTrace
  <1>4. outcome = "running"
    BY <1>1 DEF Inv, Delivered
  <1>5. Delivered' /\ NoSpansIsTrue'
    BY <1>1, <1>3, <1>4 DEF Inv, Delivered, NoSpansIsTrue
  <1>6. QED
    BY <1>2, <1>5 DEF Inv

LEMMA InvStep == Inv /\ [Next]_vars => Inv'
  <1> SUFFICES ASSUME Inv, [Next]_vars PROVE Inv'
    OBVIOUS
  <1>1. TypeOK'
    BY TypeStep DEF Inv
  <1>2. CASE Asking
    BY <1>1, <1>2, AskingKeepsInv
  <1>3. CASE NoSession \/ NoTraceID \/ NoSpans \/ CallFails \/ Cancelled
    BY <1>1, <1>3, StoppingKeepsInv
  <1>4. CASE ReturnStable \/ ReturnUnstable
    BY <1>1, <1>4, ReturningKeepsInv
  <1>5. CASE Sleep
    BY <1>1, <1>5, SleepKeepsInv
  <1>6. CASE Export
    BY <1>1, <1>6, ExportKeepsInv
  <1>7. CASE Tick
    BY <1>1, <1>7, TickKeepsInv
  <1>8. CASE Content
    BY <1>1, <1>8, ContentKeepsInv
  <1>9. CASE UNCHANGED vars
    BY <1>1, <1>9 DEF vars, env, opts, poll, Inv, Silence, Counted, InFlight, Delivered,
                      NoSpansIsTrue, BySession, SeesWholeTrace, Exporting
  <1>10. QED
    BY <1>2, <1>3, <1>4, <1>5, <1>6, <1>7, <1>8, <1>9
    DEF Next, Client, Poll, Resolve, Asking

LEMMA Inductive == Spec => []Inv
  BY InvInit, InvStep, PTL DEF Spec

-----------------------------------------------------------------------------
(* The properties of a fetch.                                              *)

\* A stable result was quiet for Settle, less the latency of one API call.
THEOREM QuietBeforeStable == Spec => []StableWasQuiet
  <1>1. Inv => StableWasQuiet
    BY DEF Inv, Delivered, StableWasQuiet
  <1>2. QED
    BY <1>1, Inductive, PTL

\* A stable result is the whole trace whenever the exporter is never silent for
\* Settle less one API call, and the windows and the cap let the poll see it all.
THEOREM CompleteWhenStable == Spec => []StableIsComplete
  <1>1. ASSUME Inv PROVE StableIsComplete
    <2> SUFFICES ASSUME SeesWholeTrace, MaxGap + MaxLatency < Settle, result.stable
                 PROVE  result.records = Spans
      BY DEF StableIsComplete
    <2>1. asked.set = result.records /\ asked.quiet + MaxLatency >= Settle /\ asked.set # {}
      BY <1>1 DEF Inv, Delivered
    <2>2. asked.quiet > MaxGap
      BY <1>1, <2>1, TimeAssumption DEF Inv, TypeOK, Age
    <2>3. asked.set \in {{}, Spans}
      BY <1>1, <2>2, TimeAssumption DEF Inv, Silence, TypeOK, Age
    <2>4. QED
      BY <2>1, <2>3
  <1>2. QED
    BY <1>1, Inductive, PTL

\* "No spans found" is the truth about the last query, and comes after the wait.
THEOREM NoSpansIsRight == Spec => []NoSpansIsTrue
  BY Inductive, PTL DEF Inv

\* Neither the content query nor its failure costs the fetch its spans.
THEOREM SpansReturned == Spec => []SpansSurviveContent
  <1>1. Inv => SpansSurviveContent
    BY DEF Inv, Delivered, SpansSurviveContent
  <1>2. QED
    BY <1>1, Inductive, PTL

\* An unstable result comes after the wait, with all that was visible.
THEOREM UnstableIsHonest == Spec => []UnstableIsLate
  <1>1. Inv => UnstableIsLate
    BY DEF Inv, Delivered, UnstableIsLate
  <1>2. QED
    BY <1>1, Inductive, PTL
=============================================================================
