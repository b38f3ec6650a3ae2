-------------------------------- MODULE Fetch --------------------------------
(***************************************************************************)
(* internal/fetch/cloudwatch.go: Client.Fetch, the settle poll that pulls  *)
(* one trace out of CloudWatch Logs while the runtime may still be         *)
(* exporting it, and withContent, the query for its message bodies.        *)
(*                                                                         *)
(* Time advances in ticks.  Only differences of time.Now() matter to the   *)
(* code, so the model keeps ages instead of a clock, each saturating where *)
(* the code stops telling values apart.  An API call takes up to           *)
(* MaxLatency ticks; what it returns holds every record that was visible   *)
(* when it was issued, and may hold records that became visible meanwhile. *)
(*                                                                         *)
(* The exporter and the log service are the environment (external).        *)
(***************************************************************************)
EXTENDS Naturals, Sequences, FiniteSets

CONSTANTS
    Spans,       \* the records of the trace, all those that will ever be exported
    Tagged,      \* those that carry the session id
    Bounds,      \* what the window derived from the trace id's start time may hold
    Cap,         \* queryWindow stops paginating at this many records (10000)
    Settle,      \* Options.Settle
    Wait,        \* Options.Wait
    Pause,       \* the sleep between two polls
    MaxLatency,  \* longest API call
    MaxGap       \* longest silence of an exporter that has started and not
                 \* finished; above Settle it stands for no limit at all

ASSUME SpansAssumption == /\ IsFiniteSet(Spans) /\ Tagged \subseteq Spans
                          /\ Bounds \subseteq SUBSET Spans
ASSUME TimeAssumption  == /\ {Settle, Pause, Cap} \subseteq Nat \ {0}
                          /\ {Wait, MaxLatency, MaxGap} \subseteq Nat

VARIABLES
    visible,      \* records a query would find now (environment)
    sinceExport,  \* ticks since visible last grew, up to Settle (environment)
    windows,      \* windows(traceID), as the records each range can find
    bySession,    \* resolve the trace id from --session first
    noContent,    \* Options.NoContent
    phase,        \* "resolve", "query", "sleep", "content" or "done"
    win,          \* the window of the API call in flight
    since,        \* ticks since the phase, or its API call, began
    asked,        \* what was visible, and for how long, when the call was issued
    elapsed,      \* ticks since the deadline was set, up to Wait + 1
    last,         \* last
    age,          \* time.Since(stableSince), up to Settle
    result,       \* Result: Records, Stable, ContentRecords # nil
    outcome       \* "running", "ok", "nospans" or "error"

env  == <<visible, sinceExport>>
opts == <<windows, bySession, noContent>>
poll == <<elapsed, last, age>>
vars == <<env, opts, phase, win, since, asked, poll, result, outcome>>

Result    == [records : SUBSET Spans, stable : BOOLEAN, content : BOOLEAN]
NoResult  == [records |-> {}, stable |-> FALSE, content |-> FALSE]
NotAsked  == [set |-> {}, quiet |-> 0]
AskedNow  == [set |-> visible, quiet |-> sinceExport]

\* The scan ranges tried in order.  The --since range is taken to hold the whole
\* trace; an id without a start time has no other.
Windows == {<<Spans>>} \cup {<<B, Spans>> : B \in Bounds}

Exporting == visible \notin {{}, Spans}

Init ==
    /\ visible \in SUBSET Spans
    /\ sinceExport \in 0..Settle
    /\ Exporting => sinceExport <= MaxGap
    /\ windows \in Windows
    /\ bySession \in BOOLEAN
    /\ noContent \in BOOLEAN
    /\ phase = IF bySession THEN "resolve" ELSE "query"
    /\ win = 1
    /\ since = 0
    /\ asked = AskedNow
    /\ elapsed = 0
    /\ last = 0
    /\ age = Settle          \* the zero time.Time is long ago
    /\ result = NoResult
    /\ outcome = "running"

-----------------------------------------------------------------------------
(* The environment: the exporter, and time.                                *)

Export ==
    /\ phase # "done"
    /\ \E more \in (SUBSET (Spans \ visible)) \ {{}} : visible' = visible \cup more
    /\ sinceExport' = 0
    /\ UNCHANGED <<opts, phase, win, since, asked, poll, result, outcome>>

\* One more tick, up to the limit m.
Later(t, m) == IF t < m THEN t + 1 ELSE m

Tick ==
    /\ phase # "done"
    /\ Exporting => sinceExport < MaxGap
    /\ since < (IF phase = "sleep" THEN Pause ELSE MaxLatency)
    /\ sinceExport' = Later(sinceExport, Settle)
    /\ since' = since + 1
    /\ age' = Later(age, Settle)
    /\ elapsed' = IF phase = "resolve" THEN 0 ELSE Later(elapsed, Wait + 1)
    /\ UNCHANGED <<visible, opts, phase, win, asked, last, result, outcome>>

-----------------------------------------------------------------------------
(* API calls.                                                              *)

\* The records queryWindow can hand back for a window: all that were visible in
\* it when the call was issued, unless the pages were cut at the cap.
Returned(window) ==
    {R \in SUBSET (visible \cap window) :
        asked.set \cap window \subseteq R \/ Cardinality(R) >= Cap}

Ask(w) == win' = w /\ since' = 0 /\ asked' = AskedNow

\* Mutant of NextWindow: one window too many.
NextWindow_Past ==
    /\ phase = "query"
    /\ win <= Len(windows)
    /\ {} \in Returned(windows[win])
    /\ Ask(win + 1)
    /\ UNCHANGED <<env, opts, phase, poll, result, outcome>>

\* Nothing in this window: query goes on to the next one.
NextWindow ==
    /\ phase = "query"
    /\ win < Len(windows)
    /\ {} \in Returned(windows[win])
    /\ Ask(win + 1)
    /\ UNCHANGED <<env, opts, phase, poll, result, outcome>>

\* Mutant of Answers: the first window's answer is final, empty or not.
Answers_FirstWindow == Returned(windows[win])

\* What one call of query hands back.
Answers == {R \in Returned(windows[win]) : R # {} \/ win = Len(windows)}

Stop(how) ==
    /\ phase' = "done"
    /\ outcome' = how
    /\ UNCHANGED <<env, opts, win, since, asked, poll, result>>

\* A call failed, or its context was cancelled; the content query is apart.
CallFails == phase \in {"resolve", "query"} /\ Stop("error")

Cancelled == phase = "sleep" /\ Stop("error")

-----------------------------------------------------------------------------
(* Resolving the session.                                                  *)

\* The query by session id found nothing: the fetch ends here.
NoSession == phase = "resolve" /\ {} \in Returned(Tagged) /\ Stop("nospans")

Matched == \E R \in Returned(Tagged) : R # {}

\* Records were found and none has a trace id field.
NoTraceID == phase = "resolve" /\ Matched /\ Stop("error")

\* The first trace id found is the trace to fetch; the deadline starts here.
Resolved ==
    /\ phase = "resolve"
    /\ Matched
    /\ phase' = "query"
    /\ Ask(1)
    /\ UNCHANGED <<env, opts, poll, result, outcome>>

-----------------------------------------------------------------------------
(* The poll: what Fetch does with the records R a query handed back.       *)

Unchanged(R) == Cardinality(R) = last

\* Mutant of Settled: the sizes are not compared.
Settled_AnySize(R) == R # {} /\ age >= Settle

\* The span set has the size it had, and has had it for Settle.
Settled(R) == Unchanged(R) /\ R # {} /\ age >= Settle

Expired == elapsed > Wait

\* Where the records say their bodies are: nowhere, where the spans are, or in
\* a group or stream of its own, the only case that is queried.
Sources == {"none", "same", "other"}

Finish(R, stable) ==
    /\ result' = [records |-> R, stable |-> stable, content |-> FALSE]
    /\ \E source \in Sources :
          IF noContent \/ source # "other"
          THEN phase' = "done" /\ outcome' = "ok" /\ UNCHANGED <<win, since>>
          ELSE phase' = "content" /\ win' = 1 /\ since' = 0 /\ UNCHANGED outcome
    /\ UNCHANGED <<env, opts, asked, poll>>

ReturnStable == phase = "query" /\ \E R \in Answers : Settled(R) /\ Finish(R, TRUE)

\* Mutant of ReturnUnstable: the deadline is not looked at.
ReturnUnstable_Early ==
    /\ phase = "query"
    /\ \E R \in Answers : ~Settled(R) /\ R # {} /\ Finish(R, FALSE)

ReturnUnstable ==
    /\ phase = "query"
    /\ Expired
    /\ \E R \in Answers : ~Settled(R) /\ R # {} /\ Finish(R, FALSE)

NoSpans == phase = "query" /\ Expired /\ {} \in Answers /\ Stop("nospans")

\* Mutant of Sleep: growth does not reset stableSince.
Sleep_KeepsAge ==
    /\ phase = "query"
    /\ ~Expired
    /\ \E R \in Answers : ~Settled(R) /\ last' = Cardinality(R)
    /\ phase' = "sleep"
    /\ since' = 0
    /\ asked' = NotAsked
    /\ UNCHANGED <<env, opts, win, elapsed, age, result, outcome>>

\* Mutant of Sleep: the deadline is computed inside the loop.
Sleep_NewDeadline ==
    /\ phase = "query"
    /\ ~Expired
    /\ \E R \in Answers :
          /\ ~Settled(R)
          /\ last' = Cardinality(R)
          /\ age' = IF Unchanged(R) THEN age ELSE 0
    /\ phase' = "sleep"
    /\ since' = 0
    /\ elapsed' = 0
    /\ asked' = NotAsked
    /\ UNCHANGED <<env, opts, win, result, outcome>>

Sleep ==
    /\ phase = "query"
    /\ ~Expired
    /\ \E R \in Answers :
          /\ ~Settled(R)
          /\ last' = Cardinality(R)
          /\ age' = IF Unchanged(R) THEN age ELSE 0
    /\ phase' = "sleep"
    /\ since' = 0
    /\ asked' = NotAsked
    /\ UNCHANGED <<env, opts, win, elapsed, result, outcome>>

Wake ==
    /\ phase = "sleep"
    /\ since = Pause
    /\ phase' = "query"
    /\ Ask(1)
    /\ UNCHANGED <<env, opts, poll, result, outcome>>

-----------------------------------------------------------------------------
(* withContent: one query, over the same windows, every failure non-fatal. *)

ContentNextWindow ==
    /\ phase = "content"
    /\ win < Len(windows)
    /\ win' = win + 1
    /\ since' = 0
    /\ UNCHANGED <<env, opts, phase, asked, poll, result, outcome>>

ContentDone(found) ==
    /\ phase = "content"
    /\ result' = [result EXCEPT !.content = found]
    /\ phase' = "done"
    /\ outcome' = "ok"
    /\ UNCHANGED <<env, opts, win, since, asked, poll>>

ContentFound == ContentDone(TRUE)

\* A call failed, or the last window was empty too.
ContentMissing == ContentDone(FALSE)

-----------------------------------------------------------------------------
Poll == ReturnStable \/ ReturnUnstable \/ NoSpans \/ Sleep
Resolve == NoSession \/ NoTraceID \/ Resolved
Content == ContentNextWindow \/ ContentFound \/ ContentMissing

Client == Resolve \/ NextWindow \/ Poll \/ Wake \/ Content

Next == Client \/ CallFails \/ Cancelled \/ Export \/ Tick

Spec == Init /\ [][Next]_vars

\* Calls return and timers fire, time passes, and an exporter that has started
\* goes on: none of these waits for anything else.
FairSpec == Spec /\ WF_vars(Client) /\ WF_vars(Tick) /\ WF_vars(Exporting /\ Export)

-----------------------------------------------------------------------------
(* Properties.                                                             *)

Age == 0..Settle

TypeOK ==
    /\ visible \in SUBSET Spans
    /\ sinceExport \in Age
    /\ windows \in Windows
    /\ bySession \in BOOLEAN
    /\ noContent \in BOOLEAN
    /\ phase \in {"resolve", "query", "sleep", "content", "done"}
    /\ win \in 1..Len(windows)
    /\ since \in Nat
    /\ asked \in [set : SUBSET Spans, quiet : Age]
    /\ elapsed \in 0..(Wait + 1)
    /\ last \in Nat
    /\ age \in Age
    /\ result \in Result
    /\ outcome \in {"running", "ok", "nospans", "error"}

\* The poll sees the whole trace: no window but the --since one finds a part of
\* it only, and it fits under the pagination cap.
SeesWholeTrace == windows[1] \in {{}, Spans} /\ Cardinality(Spans) <= Cap

\* A stable result was quiet for Settle, less one API call: the age of the span
\* set is taken when an answer arrives, so the time the last call was in flight
\* counts as silence although nothing was observed during it.
StableWasQuiet ==
    SeesWholeTrace /\ result.stable => asked.quiet + MaxLatency >= Settle

\* A stable result is the whole trace, when the exporter's silences and the
\* API's latency together stay under Settle.
StableIsComplete ==
    SeesWholeTrace /\ MaxGap + MaxLatency < Settle /\ result.stable
    => result.records = Spans

\* "No spans found" is told after the wait, of a trace that had none when it was
\* last looked for in the widest range; or at once, of a session with none.
NoSpansIsTrue ==
    outcome = "nospans" =>
        \/ asked.set = {} /\ elapsed > Wait
        \/ bySession /\ asked.set \cap Tagged = {}

\* A fetch that has its spans returns them, whatever its content query does.
SpansSurviveContent == result.records # {} => outcome \in {"running", "ok"}

\* An unstable result is returned only once the wait is over, and it still has
\* every record that was visible when the last call was issued.
UnstableIsLate ==
    SeesWholeTrace /\ outcome = "ok" /\ ~result.stable
    => elapsed > Wait /\ asked.set \subseteq result.records

\* Every fetch ends: the poll has a deadline and the content query no loop.
Ends == <>(phase = "done")
=============================================================================
