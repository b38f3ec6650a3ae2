----------------------------- MODULE MCSession -----------------------------
(* Small sessions for TLC. *)
EXTENDS Session

T(v, f) == [value |-> v, form |-> f]

Nothing == {}
Plain   == {T("amount", "plain")}
Other   == {T("order", "plain")}
Grouped == {T("amount", "grouped")}

MCTokens == Plain \cup Other \cup Grouped

MCPlainOnly == {Plain}
MCChat == {Nothing, Plain, Other}

MCTools  == {<<"v", "e">>, <<"r", "e">>}
MCVerify == <<"v", "e">>
MCRefund == <<"r", Star>>

\* refund is passed a value or not, verify returns one or not.
MCArgs    == [n \in Tools |-> IF matches(MCRefund, n) THEN {Nothing, Plain} ELSE {Nothing}]
MCResults == [n \in Tools |-> IF n = MCVerify THEN {Nothing, Other} ELSE {Nothing}]

\* Everything; no results; no inputs; no outputs.
MCCaptures == {Contents} \cup {Contents \ {c} : c \in {"results", "inputs", "outputs"}}

\* A fine clock, and two that give pairs of events one stamp.
MCClocks == {[e \in Events |-> e], [e \in Events |-> (e + 1) \div 2],
             [e \in Events |-> (e \div 2) + 1]}

\* float64 tells stamps apart, except the third and the fourth.
MCFloat == [t \in 0..MaxStamp |-> IF t = 4 THEN 3 ELSE t]

\* A value that is written with a separator.
MCForms == {Plain, Grouped}
MCAll   == {Contents}
=============================================================================
