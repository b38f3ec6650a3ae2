------------------------------ MODULE MCCache ------------------------------
(* A few requests over one transcript, for TLC. *)
EXTENDS JudgeCache, TLC

R(u, e) == [use |-> u, effort |-> e, prompt |-> "transcript"]

\* The same prompt judged at two efforts, and an extraction of it.
MCRequests == {R(JudgeUse, "low"), R(JudgeUse, "high"), R(ExtractUse, "low")}

MCTwoRequests == {R(JudgeUse, "low"), R(ExtractUse, "low")}

\* The runs are interchangeable.
RunSymmetry == Permutations(Runs)
=============================================================================
