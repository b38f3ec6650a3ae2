----------------------------- MODULE NameMatch -----------------------------
(***************************************************************************)
(* The two name matchers: matchName of internal/contract/registry.go, for  *)
(* clauses evaluated in Go, and match.rego, for the embedded policy.  A    *)
(* name and a pattern are sequences of characters.                         *)
(***************************************************************************)
EXTENDS Naturals, Sequences

Star == "*"

HasPrefix(s, p) == Len(p) <= Len(s) /\ SubSeq(s, 1, Len(p)) = p
HasSuffix(s, p) == Len(p) <= Len(s) /\ SubSeq(s, Len(s) - Len(p) + 1, Len(s)) = p
HasPart(s, p)   == \E i \in 0..Len(s) : HasPrefix(SubSeq(s, i + 1, Len(s)), p)

\* Mutant of matchName: a leading wildcard is looked for before a pair of them.
matchName_Order(pattern, name) ==
    LET n == Len(pattern)
    IN  IF pattern = <<>> \/ pattern = <<Star>> THEN TRUE
        ELSE IF HasPrefix(pattern, <<Star>>) THEN HasSuffix(name, SubSeq(pattern, 2, n))
        ELSE IF HasSuffix(pattern, <<Star>>) THEN HasPrefix(name, SubSeq(pattern, 1, n - 1))
        ELSE pattern = name

\* The first case that applies; strings.Contains is HasPart.
matchName(pattern, name) ==
    LET n      == Len(pattern)
        leads  == HasPrefix(pattern, <<Star>>)
        trails == HasSuffix(pattern, <<Star>>)
    IN  IF pattern = <<>> \/ pattern = <<Star>> THEN TRUE
        ELSE IF leads /\ trails /\ n > 2 THEN HasPart(name, SubSeq(pattern, 2, n - 1))
        ELSE IF leads THEN HasSuffix(name, SubSeq(pattern, 2, n))
        ELSE IF trails THEN HasPrefix(name, SubSeq(pattern, 1, n - 1))
        ELSE pattern = name

\* match.rego: any of the rules.
matches(pattern, name) ==
    LET n      == Len(pattern)
        leads  == HasPrefix(pattern, <<Star>>)
        trails == HasSuffix(pattern, <<Star>>)
    IN  \/ pattern = name
        \/ pattern = <<Star>>
        \/ trails /\ ~leads /\ HasPrefix(name, SubSeq(pattern, 1, n - 1))
        \/ leads /\ ~trails /\ HasSuffix(name, SubSeq(pattern, 2, n))
        \/ leads /\ trails /\ n > 2 /\ HasPart(name, SubSeq(pattern, 2, n - 1))

any_matches(patterns, name) == \E p \in patterns : matches(p, name)
=============================================================================
