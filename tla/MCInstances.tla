---------------------------- MODULE MCInstances ----------------------------
(***************************************************************************)
(* Values of the constants of what MCOperation puts together.              *)
(***************************************************************************)
EXTENDS MCWiring, Ledger, Contracts, Schemas, Reports, ProjectIdentity

\* Ledger: builds of two layouts and two registries, and a reader.
CONSTANTS old, alt, new, rd
SampleVersions == (old :> 1) @@ (alt :> 1) @@ (new :> 2) @@ (rd :> 1)
SampleRegistries == (old :> "c1") @@ (alt :> "c2") @@ (new :> "c2")

\* Contracts: every way two fields may be typed, required and redacted, and versions,
\* units, measures, modes and identities over a text and a number.
AcceptsOf(t, v) == t = "any" \/ t = v
TypedAs(t, r, u) == [type |-> t, required |-> r, unit |-> u]
DefinedAs(m, v, fs, red, ms, i) ==
  [mode |-> m, version |-> v, fields |-> fs, redact |-> red, measures |-> ms, identity |-> i]
OfFields ==
  UNION {{DefinedAs("event", 1, [f \in F |-> TypedAs(ty[f], rq[f], "none")], red, {}, "-")
          : ty \in [F -> {"text", "num"}], rq \in [F -> BOOLEAN], red \in SUBSET F}
         : F \in SUBSET {"f", "g"}}
OfMeaning ==
  {DefinedAs(m, v, [f \in {"f", "g"} |-> IF f = "f" THEN TypedAs("text", rq, "none")
                                         ELSE TypedAs(t, FALSE, u)], red, ms, i)
   : m \in {"event", "snapshot"}, v \in {1, 2}, rq \in BOOLEAN, t \in {"num", "any"},
     u \in {"none", "usd"}, red \in {{}, {"f"}}, ms \in {{}, {"g"}}, i \in {"-", "f"}}
SampleDefinitions == {d \in OfFields \cup OfMeaning : Valid(d)}

\* Schemas: files that add kinds and bindings, clash over them, or are broken.
K(n) == [name |-> n, fields |-> {"name", "project"}, valid |-> TRUE]
From(transforms) ==
  [transforms |-> transforms, from |-> "usable", when |-> "usable", pattern |-> "grouped"]
B(e, k) == [event |-> e, kind |-> k, map |-> [name |-> From({"capture"})]]
Fixed == [From({"const"}) EXCEPT !.from = "blank"]
Unmapped ==
  {[name |-> m] : m \in {From({"len", "const"}), [From({}) EXCEPT !.from = "blank"],
                         [Fixed EXCEPT !.when = "blank"], [Fixed EXCEPT !.from = "unreadable"],
                         [From({"capture"}) EXCEPT !.pattern = "plain"]}}
  \cup {[title |-> Fixed], [project |-> Fixed]}
SchemaFile(ks, bs) == [kinds |-> ks, bindings |-> bs, parses |-> TRUE, native |-> FALSE]
SampleCore == [SchemaFile(<<K("session")>>, <<B("End", "session")>>) EXCEPT !.native = TRUE]
SampleFiles ==
  {SchemaFile(<<K("a")>>, <<B("Stop", "a")>>),
   SchemaFile(<<K("b")>>, <<B("Stop", "a"), B("Stop", "b")>>),
   SchemaFile(<<K("a"), K("b")>>, <<>>), SchemaFile(<<K("c"), K("session")>>, <<>>),
   SchemaFile(<<>>, <<B("Stop", "a")>>),
   SchemaFile(<<K("c"), [K("d") EXCEPT !.valid = FALSE]>>, <<>>),
   [SchemaFile(<<>>, <<>>) EXCEPT !.parses = FALSE],
   [SchemaFile(<<K("c")>>, <<>>) EXCEPT !.native = TRUE],
   SchemaFile(<<K("c")>>, <<[B("Stop", "c") EXCEPT !.map = [name |-> Fixed]]>>),
   SchemaFile(<<[K("e") EXCEPT !.fields = {"name", "size", "file", "used"}]>>,
              <<[B("Stop", "e") EXCEPT !.map = [name |-> From({}), size |-> From({"len"}),
                                                file |-> From({"repo_path"}),
                                                used |-> From({"present"})]]>>)}
  \cup {SchemaFile(<<K("c")>>, <<B("Stop", "c"), [B("Stop", "b") EXCEPT !.map = m]>>)
        : m \in Unmapped}

\* Reports: records that differ from `Base` in at most two respects; if one is the wire version or the
\* label, the other is a time, the contract or the project, and a measure that is no number is the only
\* one.
Base == [version |-> 1, contract |-> "today", project |-> "p", label |-> "x", named |-> NoProject,
         identity |-> "a", group |-> "x", amount |-> 1, occurred |-> 1, observed |-> 1]
Differing(r) == LET other == {f \in DOMAIN Base : r[f] # Base[f]}
                IN IF r.project = NoProject THEN other \ {"label"} ELSE other
SampleRecords ==
  {r \in Entry :
     /\ Cardinality(Differing(r)) <= IF r.amount = BadAmount THEN 1 ELSE 2
     /\ Differing(r) \cap {"version", "label"} # {} =>
          Differing(r) \cap {"identity", "group", "amount"} = {}}
SampleSpends == {s \in Spend : s.ts > 0 /\ s.label # "x" /\ (s.cost = 1 <=> s.observed)}
SampleQuestions ==
  {q \in Question : /\ q.group \in {"x", NoName} /\ (q.by = "project" <=> q.group = NoName)
                    /\ q.since > 1 => q.project = NoProject}
SampleKinds ==
  {[mode |-> "event", identity |-> TRUE, declares |-> FALSE],
   [mode |-> "snapshot", identity |-> TRUE, declares |-> TRUE]}
SampleOrder ==
  [k \in {"p", "x", "a", "none", "-"} |->
     CASE k = "a" -> 1 [] k = "p" -> 2 [] k = "x" -> 3 [] OTHER -> 4]

\* Projects: a folder inside another, two beside it, and a link to the inner one in one of those.
SamplePaths == "a" :> <<"a">> @@ "as" :> <<"as", "a">> @@ "b" :> <<"b">> @@ "c" :> <<"c">>
               @@ "l" :> <<"l", "c">>
SampleTargets == "l" :> "as"
-----------------------------------------------------------------------------
\* What the configuration gives the constants: TLC computes a definition once, and what it is
\* told to put for a constant every time, so those only name one.
VersionOf == SampleVersions
CurrentOf == SampleRegistries
DefinitionsOf == SampleDefinitions
CoreOf == SampleCore
FilesOf == SampleFiles
RecordsOf == SampleRecords
SpendsOf == SampleSpends
QuestionsOf == SampleQuestions
AskedKinds == SampleKinds
OrderOf == SampleOrder
AboveOf == SamplePaths
LinksOf == SampleTargets
=============================================================================
