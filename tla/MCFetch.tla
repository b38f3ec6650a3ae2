------------------------------ MODULE MCFetch ------------------------------
(* What the window derived from the trace id can hold, for TLC. *)
EXTENDS Fetch

\* A right guess and a wrong one.
MCBounds == {Spans, {}}

\* A trace longer than the window: a record of it stays out.
MCLongTrace == {Spans \ {s} : s \in Spans}
=============================================================================
