----------------------------- MODULE MCCompile -----------------------------
(* Contracts that differ in one respect each, and the files beside them. *)
EXTENDS Compile

Module(rules, text) == [rules |-> [r \in rules |-> text], imports |-> {"data.axda.match.matches"}]

\* Two policies of their own, one with a second rule, one that another file adds
\* to, a newer version of it, a broken one, and one at a path of the embedded policy.
MCFiles ==
    [path \in {"a.rego", "new.rego", "b.rego", "broken.rego", tool} |->
        CASE path = "a.rego"   -> [Module({"data.acme.v", "data.acme.w"}, "a")
                                      EXCEPT !.rules["data.acme.w"] = "a too"]
          [] path = "new.rego" -> Module({"data.acme.v"}, "new")
          [] path = "b.rego"   -> Module({"data.acme.v"}, "b")
          [] path = "broken.rego" -> [rules |-> <<>>, imports |-> {"data.missing"}]
          [] path = tool       -> Module({"data.acme.v"}, "a")]

None == [texts |-> {}, as |-> ""]

\* A parameter of one text, and how it is written.
Text1(text, as) == [texts |-> {text}, as |-> as]
Word(text) == Text1(text, text)

MCRubrics == [f \in {"rubric.md"} |-> Word("be brief")]

A == [name |-> "acme.a", namespace |-> "acme", engine |-> "rego", source |-> "a.rego",
      query |-> "data.acme.v", severity |-> ""]
B == [A EXCEPT !.name = "acme.b", !.source = "b.rego", !.severity = "minor"]

MCClauses ==
    {<<>>, <<A>>, <<B>>, <<A, B>>,
     <<A, [A EXCEPT !.query = "data.acme.w"]>>,
     <<[A EXCEPT !.source = "new.rego"]>>,
     <<[A EXCEPT !.source = tool]>>,
     <<[A EXCEPT !.query = "data.acme.typo"]>>, <<[A EXCEPT !.query = Query("tool.denylist")]>>,
     <<B, [A EXCEPT !.source = "broken.rego"]>>,
     <<[A EXCEPT !.source = "missing.rego"]>>,
     <<[A EXCEPT !.name = "tool.a", !.namespace = "tool"]>>}

Use(kind, params) == [kind |-> kind, params |-> params, severity |-> ""]
Limit(max) == Use("tool.call_limit", [max |-> max])
Allow  == Use("tool.allowlist", [tools |-> Text1("t", "[t]")])
Severe == [Use("tool.denylist", [tools |-> Text1("t", "[t]")]) EXCEPT !.severity = "major"]
Judge  == Use("quality.judge", [rubric_file |-> Word("rubric.md"), blocking |-> Word("true")])

\* One tool whose name has a space, and two tools: printed alike, marshalled each its way.
Spaced == Use("tool.allowlist", [tools |-> Text1("t u", "[t u] of one")])
Two    == Use("tool.allowlist", [tools |-> [texts |-> {"t", "u"}, as |-> "[t u] of two"]])

MCMust ==
    {<<>>, <<Allow>>, <<Use("allowed_tools", [tools |-> Text1("t", "[t]")])>>,
     <<Use("acme.a", <<>>)>>, <<Use("acme.b", <<>>), Allow>>, <<Allow, Use("acme.b", <<>>)>>,
     <<Use("acme.a", [blocking |-> Word("false")]), Use("acme.a", <<>>)>>,
     <<Judge>>, <<Use("quality.judge", <<>>)>>, <<Use("tool.typo", <<>>)>>}

\* Clauses that print alike, that have no JSON, and whose JSON is the same.
MCPrinted ==
    {<<Spaced, Two>>, <<Two, Spaced>>, <<Limit(Word("1")), Limit(Word(".inf"))>>, <<Limit(Word(".inf"))>>,
     <<Limit(Word("1.0")), Limit(Word("1e6"))>>, <<Limit(Word("1000000")), Limit(Word("1"))>>,
     <<Limit(Word("1e6")), Limit(Word("1.0")), Limit(Word("1"))>>,
     <<Limit(Word("1")), Limit(Word("1e6")), Limit(Word("1.0"))>>}

Document(clauses, allowed, invariants, must, must_not, values) ==
    [readable |-> TRUE, clauses |-> clauses, allowed |-> allowed, denied |-> None,
     invariants |-> invariants, must |-> must, must_not |-> must_not, values |-> values]

Value(root, valid, literal) == [root |-> root, valid |-> valid, literal |-> literal]

MCDocuments ==
    {Document(cs, None, <<>>, must, <<>>, {}) : cs \in MCClauses, must \in MCMust}
    \cup {Document(<<>>, None, <<>>, must, <<>>, {}) : must \in MCPrinted}
    \cup {Document(<<>>, Text1("t", "[t]"), invariants, <<>>, must_not, values) :
             invariants \in {<<>>, <<Word("refund")>>},
             must_not \in {<<>>, <<Severe>>, <<[Severe EXCEPT !.severity = ""]>>, <<Limit(Word("1"))>>},
             values \in {{}, {Value("refund", TRUE, "1")}, {Value("refund", FALSE, "1")}}}
    \cup {[Document(<<>>, Text1("t", "[t]"), <<>>, <<>>, <<>>, {}) EXCEPT !.values = {Value("refund", TRUE, "1.0")}]}
    \cup {[Document(<<>>, None, <<>>, <<>>, <<>>, {}) EXCEPT !.denied = Text1("t", "[t]")]}
    \cup {[Document(<<>>, Text1("t", "[t]"), <<>>, <<>>, <<>>, {}) EXCEPT !.readable = FALSE]}

\* fmt.Sprint of what is written one way.
Printed(as) ==
    CASE as \in {"[t u] of one", "[t u] of two"} -> "[t u]"
      [] as = "1.0" -> "1"
      [] as = "1e6" -> "1e+06"
      [] OTHER -> as

Json(as) ==
    CASE as = "1.0" -> "1"
      [] as = "1e6" -> "1000000"
      [] OTHER -> as

MCMarshal(x) ==
    IF "root" \in DOMAIN x THEN <<x.root, Json(x.literal)>>
    ELSE IF \E n \in DOMAIN x : x[n].as = ".inf" THEN NoJSON
    ELSE [n \in DOMAIN x |-> Json(x[n].as)]

\* Some order of what is printed.
PrintedKeys == {<<k[1], [n \in DOMAIN k[2] |-> Printed(k[2][n].as)]>> : k \in Keys}
MCPlaces ==
    LET sorted == FoldSet(LAMBDA k, s : Append(s, k), <<>>, PrintedKeys)
    IN  [k \in PrintedKeys |-> CHOOSE i \in DOMAIN sorted : sorted[i] = k]
MCPlace(kind, params) == MCPlaces[<<kind, [n \in DOMAIN params |-> Printed(params[n].as)]>>]
=============================================================================
