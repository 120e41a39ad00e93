------------------------------ MODULE MCWiring ------------------------------
EXTENDS Wiring, TLC
CONSTANTS local, corp, Corp, odd

SampleUrls == [e \in Endpoints |-> CASE e = Corp -> corp [] e = odd -> NoUrl [] OTHER -> e]

\* The keys that have a value.
Some(f) == [k \in {x \in DOMAIN f : f[x] # "absent"} |-> f[k]]
Found(env, hooks) == [load |-> "found", env |-> [ok |-> TRUE, set |-> env],
                      hooks |-> [ok |-> TRUE, at |-> hooks], managedOnly |-> FALSE]
AsEvent(groups) == [ok |-> TRUE, groups |-> groups]
OlderHooks == [Stop |-> AsEvent(<<<<"theirs", "stale">>>>)]

Start(fs, section) == [files |-> fs, export |-> section, active |-> {"Stop"}]
Nobody == [s \in Scopes |-> IF s = "process" THEN Found(<<>>, <<>>) ELSE Empty]
Of(user, project, managed, process) ==
  [user |-> Found(user, OlderHooks), project |-> Found(project, <<>>),
   managed |-> Found(managed, <<>>), process |-> Found(process, <<>>)]

\* Every way the other scopes may set up a collector, beside a repository that names one.
Environments ==
  {Start(Of(Some([protocol |-> p, endpoint |-> e, signal_protocol |-> sp,
                  signal_endpoint |-> se]), [endpoint |-> corp], m, s), <<>>)
   : p \in {"absent", "grpc"}, e \in {"absent", local, Corp},
     sp \in {"absent", "grpc"}, se \in {"absent", corp},
     m \in {<<>>, [endpoint |-> corp], [protocol |-> "grpc"], [headers |-> "header"],
            [signal_protocol |-> "grpc"], [protocol |-> "http/json"]},
     s \in {<<>>, [signal_protocol |-> "grpc"], [endpoint |-> corp]}}

\* Telemetry turned off, or sent elsewhere.
Refusals ==
  {Start(Of(Some([telemetry |-> t, exporter |-> x, protocol |-> p]), <<>>, <<>>, <<>>), <<>>)
   : t \in {"absent", "0", "1"}, x \in {"absent", "none", "otlp"}, p \in {"absent", "grpc"}}

\* Every way one event may be wired, by up to two groups of two entries and three in all.
AnyGroup == UNION {[1..n -> HookEntry] : n \in 0..2}
AnyPair  == {<<g, h>> : g, h \in AnyGroup} \ {<<g, h>> : g, h \in [1..2 -> HookEntry]}
AnyHooks == {[Stop |-> AsEvent(gs)] : gs \in {<<>>} \cup {<<g>> : g \in AnyGroup} \cup AnyPair}
            \cup {<<>>, [Stop |-> [ok |-> FALSE, groups |-> <<>>]]}
Hooked == {Start([Nobody EXCEPT !["user"] = Found(<<>>, hooks)], <<>>) : hooks \in AnyHooks}
          \cup {[Start([Nobody EXCEPT !["user"] = Found(<<>>, [Stop |-> AsEvent(<<g>>)])], <<>>)
                 EXCEPT !.active = {}] : g \in AnyGroup}

\* Files that cannot be wired.
Unusable ==
  {Start([Nobody EXCEPT !["user"] = f], <<>>)
   : f \in {Empty, [Empty EXCEPT !.load = "malformed"], [Empty EXCEPT !.load = "other"],
            [Empty EXCEPT !.load = "found", !.env.ok = FALSE],
            [Empty EXCEPT !.load = "found", !.hooks.ok = FALSE]}}

\* Every entry an [[export]] section may hold.
AnyEntry ==
  [endpoint : {Corp, odd}, mode : {"raw", "other"},
   signals : {{}, {{}}, {{"logs"}}, {{"metrics", "logs"}}, {{"traces"}}},
   kinds : {{}, {"kind"}, {"no kind"}}, limit : {{}, {DefaultLimit}, {1}, {0}},
   projects : {{}, {{}}, {{"label"}}, {{" "}}}, exclude : {{}, {{}}, {{"path"}}},
   accounts : {{}, {{}}, {{"email"}}, {{"name"}}}, timeout : {{}}, headers : {{}}]
AnyRequest ==
  {[PlainEntry(Corp, "raw") EXCEPT !.timeout = t, !.headers = h]
   : t \in {{}, {1}, {0}, {300000}, {300001}}, h \in {{}, {"header"}, {"no header"}}}
Sections == {Start(Nobody, <<entry>>) : entry \in {x \in AnyEntry \cup AnyRequest : ValidEntry(x)}}
            \cup {Start(Nobody, <<PlainEntry(corp, "raw"), entry>>)
                  : entry \in {PlainEntry(Corp, "raw"), PlainEntry(odd, "raw"),
                               PlainEntry(local, "raw")}}

\* Claude Code reports to a collector, which nobody has inserted hatel in front of.
OnePlainStart == {Start(Of([endpoint |-> Corp], <<>>, <<>>, <<>>), <<>>)}

\* The collector wants credentials.
Authorized ==
  {Start(Of([endpoint |-> Corp, headers |-> h], <<>>, <<>>, <<>>), <<>>) : h \in {"header", "no header"}}

SampleStarts == Environments \cup Authorized \cup Refusals \cup Hooked \cup Unusable \cup Sections
SampleEdits  == {<<>>, <<PlainEntry(corp, "enriched")>>}

\* What the configurations give the constants.
UrlOf == SampleUrls
StartsOf == SampleStarts
EditsOf == SampleEdits
PlainStart == OnePlainStart
=============================================================================
