----------------------------- MODULE JudgeCache -----------------------------
(***************************************************************************)
(* internal/engine/judge: several axda evaluate runs that share one judge  *)
(* cache file (.axda/judge-cache.json), as CI jobs over one checkout do.   *)
(*                                                                         *)
(* A run reads the file once when it starts (OpenCache), answers its       *)
(* requests from memory or from the model (Judge.Judge, Extractor.Facts),  *)
(* and rewrites the whole file when it ends (Flush), in two steps that the *)
(* operating system does not join: truncate, write.                        *)
(*                                                                         *)
(* The model and the file system are external.  The model may answer the   *)
(* same request differently each time: that is what the cache is for.      *)
(***************************************************************************)

CONSTANTS
    Runs,      \* the axda evaluate processes
    Requests,  \* what they may ask: [use, effort, prompt]
    Faults     \* what may go wrong: a subset of {"overlap", "crash", "writeError"}

ASSUME FaultsAssumption == Faults \subseteq {"overlap", "crash", "writeError"}

JudgeUse   == "judge"
ExtractUse == "extract"

Request == [use : {JudgeUse, ExtractUse}, effort : STRING, prompt : STRING]

ASSUME RequestsAssumption == Requests \subseteq Request

\* What the model can answer that gets as far as the cache: a decoded verdict
\* for a judge; for an extraction the raw rows, which may be well-formed or not.
Answers(r) == IF r.use = JudgeUse THEN {"pass", "fail"} ELSE {"rows", "malformed"}
Answer     == {"pass", "fail", "rows", "malformed"}

Error   == "error"
Unasked == "unasked"

VARIABLES
    file,    \* the cache file: what it holds and whether it parses
    pc,      \* pc[p]: "new", "open", "writing", "done" or "dead"
    noCache, \* --no-judge-cache
    mem,     \* Cache.entries of each run
    dirty,   \* Cache.dirty
    report,  \* report[p][r]: what run p reported for request r, last
    given,   \* given[r]: every answer the model ever gave to r (history)
    paid,    \* paid[p]: the requests run p had the model answer (history)
    banked,  \* answers reported by runs that ended well (history)
    earlier, \* banked, when run p started (history)
    disturbed \* runs have overlapped, crashed or failed to write (history)

history == <<given, paid, banked, earlier, disturbed>>
vars == <<file, pc, noCache, mem, dirty, report, history>>

Empty == <<>>

\* An absent or truncated file is blank; a file whose bytes do not parse is torn.
Blank    == [state |-> "blank", entries |-> Empty]
Torn     == [state |-> "torn",  entries |-> Empty]
Whole(m) == [state |-> "whole", entries |-> m]

\* Mutant of promptHash: the effort is left out.
promptHash_NoEffort(r) == IF r.use = JudgeUse THEN <<r.prompt>> ELSE <<"extract:", r.prompt>>

\* The prompt hash, as what it tells apart: the effort, the prompt, and the mark
\* an extraction puts before its prompt.  (All runs here use one model.)
promptHash(r) == IF r.use = JudgeUse THEN <<r.effort, r.prompt>>
                                     ELSE <<r.effort, "extract:", r.prompt>>

Keys == {promptHash(r) : r \in Requests}

Init ==
    /\ file = Blank
    /\ pc = [p \in Runs |-> "new"]
    /\ noCache \in [Runs -> BOOLEAN]
    /\ mem = [p \in Runs |-> Empty]
    /\ dirty = [p \in Runs |-> FALSE]
    /\ report = [p \in Runs |-> [r \in Requests |-> Unasked]]
    /\ given = [r \in Requests |-> {}]
    /\ paid = [p \in Runs |-> {}]
    /\ banked = Empty
    /\ earlier = [p \in Runs |-> Empty]
    /\ disturbed = FALSE

\* f with k bound to v, f's domain extended if need be.
With(f, k, v) == [x \in DOMAIN f \cup {k} |-> IF x = k THEN v ELSE f[x]]

Idle == \A q \in Runs : pc[q] \notin {"open", "writing"}

\* OpenCache: what does not parse is a cold cache.
OpenCache(p) ==
    /\ pc[p] = "new"
    /\ "overlap" \in Faults \/ Idle
    /\ pc' = [pc EXCEPT ![p] = "open"]
    /\ mem' = [mem EXCEPT ![p] = IF noCache[p] THEN Empty ELSE file.entries]
    /\ earlier' = [earlier EXCEPT ![p] = banked]
    /\ disturbed' = (disturbed \/ ~Idle)
    /\ UNCHANGED <<file, noCache, dirty, report, given, paid, banked>>

-----------------------------------------------------------------------------
(* Judge.Judge and Extractor.Facts.                                        *)

\* Cache.Get
Cached(p, r) == ~noCache[p] /\ promptHash(r) \in DOMAIN mem[p]

\* What the caller is handed: rows that do not parse fail the extraction after
\* they were cached.
Reported(a) == IF a = "malformed" THEN Error ELSE a

Hit(p, r) ==
    /\ pc[p] = "open"
    /\ Cached(p, r)
    /\ report' = [report EXCEPT ![p][r] = Reported(mem[p][promptHash(r)])]
    /\ UNCHANGED <<file, pc, noCache, mem, dirty, history>>

\* Mutant of Put: what the caller is handed is cached, errors included.
Put_Reported(p, r, a) ==
    IF noCache[p] THEN UNCHANGED <<mem, dirty>>
    ELSE /\ mem' = [mem EXCEPT ![p] = With(@, promptHash(r), Reported(a))]
         /\ dirty' = [dirty EXCEPT ![p] = TRUE]

\* Mutant of Put: the entry is only there for the next run.
Put_NotKept(p, r, a) ==
    IF noCache[p] THEN UNCHANGED <<mem, dirty>>
    ELSE dirty' = [dirty EXCEPT ![p] = TRUE] /\ UNCHANGED mem

\* Mutant of Put: dirty is not set.
Put_NotDirty(p, r, a) ==
    IF noCache[p] THEN UNCHANGED <<mem, dirty>>
    ELSE mem' = [mem EXCEPT ![p] = With(@, promptHash(r), a)] /\ UNCHANGED dirty

\* Cache.Put
Put(p, r, a) ==
    IF noCache[p] THEN UNCHANGED <<mem, dirty>>
    ELSE /\ mem' = [mem EXCEPT ![p] = With(@, promptHash(r), a)]
         /\ dirty' = [dirty EXCEPT ![p] = TRUE]

AskModel(p, r) ==
    /\ pc[p] = "open"
    /\ ~Cached(p, r)
    /\ \E a \in Answers(r) :
          /\ given' = [given EXCEPT ![r] = @ \cup {a}]
          /\ report' = [report EXCEPT ![p][r] = Reported(a)]
          /\ Put(p, r, a)
    /\ paid' = [paid EXCEPT ![p] = @ \cup {r}]
    /\ UNCHANGED <<file, pc, noCache, banked, earlier, disturbed>>

\* Mutant of ModelFails: the zero Verdict is cached with the error.
ModelFails_Cached(p, r) ==
    /\ pc[p] = "open"
    /\ ~Cached(p, r)
    /\ report' = [report EXCEPT ![p][r] = Error]
    /\ Put(p, r, CHOOSE a \in Answers(r) : TRUE)
    /\ UNCHANGED <<file, pc, noCache, history>>

\* A transport error, a refusal, or an answer without a usable tool call: an
\* error for the caller and nothing for the cache.
ModelFails(p, r) ==
    /\ pc[p] = "open"
    /\ ~Cached(p, r)
    /\ report' = [report EXCEPT ![p][r] = Error]
    /\ UNCHANGED <<file, pc, noCache, mem, dirty, history>>

-----------------------------------------------------------------------------
(* The deferred Flush.                                                     *)

Answered(p) == {r \in Requests : report[p][r] \notin {Unasked, Error}}

Bank(p) == banked' = IF noCache[p] THEN banked
                     ELSE [r \in DOMAIN banked \cup Answered(p) |->
                              IF r \in Answered(p) THEN report[p][r] ELSE banked[r]]

\* No cache, or nothing to write.
NothingToFlush(p) ==
    /\ pc[p] = "open"
    /\ ~dirty[p]
    /\ pc' = [pc EXCEPT ![p] = "done"]
    /\ Bank(p)
    /\ UNCHANGED <<file, noCache, mem, dirty, report, given, paid, earlier, disturbed>>

\* os.WriteFile opens the file with O_TRUNC ...
Truncate(p) ==
    /\ pc[p] = "open"
    /\ dirty[p]
    /\ pc' = [pc EXCEPT ![p] = "writing"]
    /\ file' = Blank
    /\ UNCHANGED <<noCache, mem, dirty, report, history>>

\* ... and writes from offset zero.  When another run wrote meanwhile, the tail
\* of a longer file stays behind.
Write(p) ==
    /\ pc[p] = "writing"
    /\ file' \in {Whole(mem[p])} \cup (IF file.state = "blank" THEN {} ELSE {Torn})
    /\ pc' = [pc EXCEPT ![p] = "done"]
    /\ dirty' = [dirty EXCEPT ![p] = FALSE]
    /\ Bank(p)
    /\ UNCHANGED <<noCache, mem, report, given, paid, earlier, disturbed>>

\* Neither a directory that cannot be made nor a write that fails is an
\* evaluation failure: the run warns and ends.
FlushFails(p) ==
    /\ "writeError" \in Faults
    /\ \/ pc[p] = "open" /\ dirty[p] /\ UNCHANGED file
       \/ pc[p] = "writing" /\ file' \in {file, Torn}
    /\ pc' = [pc EXCEPT ![p] = "done"]
    /\ disturbed' = TRUE
    /\ UNCHANGED <<noCache, mem, dirty, report, given, paid, banked, earlier>>

\* The process is killed; a write it was in may have been cut short.
Crash(p) ==
    /\ "crash" \in Faults
    /\ \/ pc[p] = "open" /\ UNCHANGED file
       \/ pc[p] = "writing" /\ file' \in {file, Torn}
    /\ pc' = [pc EXCEPT ![p] = "dead"]
    /\ disturbed' = TRUE
    /\ UNCHANGED <<noCache, mem, dirty, report, given, paid, banked, earlier>>

Flush(p) == NothingToFlush(p) \/ Truncate(p) \/ Write(p) \/ FlushFails(p)

Ask(p, r) == Hit(p, r) \/ AskModel(p, r) \/ ModelFails(p, r)

Next == \E p \in Runs : \/ OpenCache(p) \/ Flush(p) \/ Crash(p)
                        \/ \E r \in Requests : Ask(p, r)

Spec == Init /\ [][Next]_vars

-----------------------------------------------------------------------------
(* Properties.                                                             *)

\* The entries of a cache, in memory or on disk.
Cache == UNION {[K -> Answer] : K \in SUBSET Keys}

TypeOK ==
    /\ file.state \in {"blank", "torn", "whole"} /\ file.entries \in Cache
    /\ pc \in [Runs -> {"new", "open", "writing", "done", "dead"}]
    /\ noCache \in [Runs -> BOOLEAN]
    /\ mem \in [Runs -> Cache]
    /\ dirty \in [Runs -> BOOLEAN]
    /\ report \in [Runs -> [Requests -> Answer \cup {Error, Unasked}]]
    /\ given \in [Requests -> SUBSET Answer]
    /\ paid \in [Runs -> SUBSET Requests]
    /\ disturbed \in BOOLEAN

\* A verdict is never reported for a request the model did not give it to:
\* whatever the runs overwrite, tear or lose, a hit was an answer to the same
\* effort, prompt and use.
ReportedWasGiven ==
    \A p \in Runs : \A r \in Answered(p) : report[p][r] \in given[r]

\* A failed call is never remembered: a request the model has not answered is
\* in no cache, so the next run asks again.
FailuresAreNotCached ==
    \A r \in Requests : given[r] = {} =>
        /\ promptHash(r) \notin DOMAIN file.entries
        /\ \A p \in Runs : promptHash(r) \notin DOMAIN mem[p]

\* Two clauses of one run that ask the same thing get the same answer: once a
\* run has an answer to a request, its report of it does not change.
OneAnswerPerRun ==
    [][\A p \in Runs : \A r \in Requests :
          ~noCache[p] /\ r \in Answered(p) => report'[p][r] = report[p][r]]_vars

Rerun(p) ==
    \A r \in DOMAIN earlier[p] : r \notin paid[p] /\ report[p][r] \in {Unasked, earlier[p][r]}

\* "Re-running over an unchanged trace is stable and free": as long as runs neither
\* overlap, crash nor fail to write, what a run that ended well reported a later
\* run reports again, without asking the model.  (A run that overlaps others
\* rewrites the file from what it read, and drops what they wrote since.)
RerunIsStableAndFree == ~disturbed => \A p \in Runs : noCache[p] \/ Rerun(p)
=============================================================================
