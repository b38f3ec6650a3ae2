----------------------------- MODULE SpanOrder -----------------------------
(***************************************************************************)
(* sortSpans of internal/adapter/raw.go: the depths by which it orders     *)
(* spans that start together.  The comparison asks for the depths of two   *)
(* spans, in whichever order the sort compares them; each question is a    *)
(* recursion up the parents, over a memo that all of them share, with a    *)
(* guard against parents that go round in circles.                         *)
(***************************************************************************)
EXTENDS Naturals, Sequences, FiniteSets, FiniteSetsExt

CONSTANTS
    Ids,      \* the spans of the trace
    Missing,  \* the parent of a span may be one that is not in the trace
    Guard     \* how deep the recursion may go (64)

ASSUME IdsAssumption   == IsFiniteSet(Ids) /\ Missing \notin Ids /\ Ids \cup {Missing} \subseteq STRING \ {""}
ASSUME GuardAssumption == Guard \in Nat

VARIABLES
    parent,  \* byID: the parent of each span, "" for none
    depth,   \* the memo
    stack,   \* the calls of d in progress: [id, guard], the first one first
    value,   \* what the call that returned last returned, {} if none is to be taken up
    asked    \* the answers so far, by span

sortVars == <<parent, depth, stack, value, asked>>

Top(id) == id \in Ids => parent[id] = ""

Bind(f, id, v) == [x \in DOMAIN f \cup {id} |-> IF x = id THEN v ELSE f[x]]

SortInit ==
    /\ parent \in [Ids -> Ids \cup {Missing, ""}]
    /\ depth = <<>>
    /\ stack = <<>>
    /\ value = {}
    /\ asked = <<>>

\* The comparison asks for a span's depth.
Ask ==
    /\ stack = <<>>
    /\ \E id \in Ids : stack' = <<[id |-> id, guard |-> 0]>>
    /\ UNCHANGED <<parent, depth, value, asked>>

call == stack[Len(stack)]

Active == stack # <<>> /\ value = {}

Recall ==
    /\ Active
    /\ call.id \in DOMAIN depth
    /\ value' = {depth[call.id]}
    /\ UNCHANGED <<parent, depth, stack, asked>>

\* Mutant of GiveUp: there is no guard, and the recursion does not come back.
GiveUp_Never == FALSE /\ UNCHANGED sortVars

\* Mutant of GiveUp: the guard is hit one parent early.
GiveUp_Early ==
    /\ Active
    /\ call.id \notin DOMAIN depth
    /\ call.guard >= Guard
    /\ value' = {call.guard}
    /\ UNCHANGED <<parent, depth, stack, asked>>

\* The guard is not remembered, but those that are waiting for it count from it.
GiveUp ==
    /\ Active
    /\ call.id \notin DOMAIN depth
    /\ call.guard > Guard
    /\ value' = {call.guard}
    /\ UNCHANGED <<parent, depth, stack, asked>>

Root ==
    /\ Active
    /\ call.id \notin DOMAIN depth
    /\ call.guard <= Guard
    /\ Top(call.id)
    /\ depth' = Bind(depth, call.id, 0)
    /\ value' = {0}
    /\ UNCHANGED <<parent, stack, asked>>

Recurse ==
    /\ Active
    /\ call.id \notin DOMAIN depth
    /\ call.guard <= Guard
    /\ ~Top(call.id)
    /\ stack' = Append(stack, [id |-> parent[call.id], guard |-> call.guard + 1])
    /\ UNCHANGED <<parent, depth, value, asked>>

\* Mutant of Return: a depth that is in the memo is not written over.
Return_Once ==
    /\ Len(stack) > 1 /\ value # {}
    /\ stack' = SubSeq(stack, 1, Len(stack) - 1)
    /\ \E v \in value :
          /\ depth' = IF stack[Len(stack) - 1].id \in DOMAIN depth THEN depth
                      ELSE Bind(depth, stack[Len(stack) - 1].id, v + 1)
          /\ value' = {v + 1}
    /\ UNCHANGED <<parent, asked>>

\* A call returns to the one that made it, which remembers its own depth and
\* returns it.
Return ==
    /\ Len(stack) > 1 /\ value # {}
    /\ stack' = SubSeq(stack, 1, Len(stack) - 1)
    /\ \E v \in value :
          /\ depth' = Bind(depth, stack[Len(stack) - 1].id, v + 1)
          /\ value' = {v + 1}
    /\ UNCHANGED <<parent, asked>>

\* The comparison has its answer.
Answer ==
    /\ Len(stack) = 1 /\ value # {}
    /\ asked' = Bind(asked, call.id, value \cup (IF call.id \in DOMAIN asked THEN asked[call.id] ELSE {}))
    /\ stack' = <<>>
    /\ value' = {}
    /\ UNCHANGED <<parent, depth>>

Step == Recall \/ GiveUp \/ Root \/ Recurse \/ Return \/ Answer

SortNext == Ask \/ Step

\* The recursion waits for nothing; the sort need not ask again.
SortSpec == SortInit /\ [][SortNext]_sortVars /\ WF_sortVars(Step)

-----------------------------------------------------------------------------
(* Properties.                                                             *)

\* The n-th span above id, as far as there is one.
Above(id) ==
    LET a[n \in 0..(Cardinality(Ids) + 1)] ==
            IF n = 0 THEN id ELSE IF Top(a[n - 1]) THEN a[n - 1] ELSE parent[a[n - 1]]
    IN  a

\* The number of parents above id, none if they go round in a circle.
Heights(id) == {n \in DOMAIN Above(id) : Top(Above(id)[n])}

\* Sets of spans that hold all the relatives of each: its parent and its children.
Families == {F \in SUBSET (Ids \cup {Missing}) :
                \A id \in Ids : parent[id] # "" => (id \in F <=> parent[id] \in F)}

\* No chain of the family is deeper than the guard, or goes round in a circle.
Shallow(F) == \A id \in F \cap Ids : Heights(id) # {} /\ Min(Heights(id)) <= Guard

\* A span's depth is the number of its ancestors, whichever spans were asked about
\* before, as long as no chain of its family is deeper than the guard; so a parent
\* comes before its child.
DepthIsTrue ==
    \A F \in Families : Shallow(F) =>
        \A id \in F \cap DOMAIN asked : asked[id] = {Min(Heights(id))}

\* A span's depth is the same whenever it is asked for, even if its chain is too
\* deep or goes round in a circle: the comparison is an order, as a sort requires.
OneAnswer == \A id \in DOMAIN asked : Cardinality(asked[id]) = 1

\* Every question is answered: circles do not keep the recursion.
CallsReturn == stack # <<>> ~> stack = <<>>
=============================================================================
