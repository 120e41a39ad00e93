---------------------------- MODULE Destinations ----------------------------
(***************************************************************************)
(* The [[export]] section of the configuration file (export.rs,            *)
(* settings.rs): what an entry must be to become a destination, how        *)
(* destinations are written back, and how one is added or replaced.  There *)
(* is no state here; Wiring has it.                                        *)
(*                                                                         *)
(* An endpoint is a spelling; Url gives the form a parsed URL has, to      *)
(* which equivalent spellings lead.  An option is a set of at most one     *)
(* value, so an absent key is {} and a list that is present but empty is   *)
(* {{}}.                                                                   *)
(***************************************************************************)
EXTENDS Integers, Sequences, SequencesExt, FiniteSets

CONSTANTS
  Endpoints,      \* spellings of endpoints, without surrounding space and trailing slashes
  Url,            \* spelling -> the URL it parses to, NoUrl when no destination may have it
  NoUrl,
  MaxTargets      \* 32

ASSUME DestinationsAssumption ==
  /\ Url \in [Endpoints -> Endpoints \cup {NoUrl}] /\ NoUrl \notin Endpoints
  /\ \A e \in Endpoints : Url[e] # NoUrl => Url[Url[e]] = Url[e]
  /\ MaxTargets \in Nat

Modes          == {"raw", "enriched"}
DefaultSignals == {"metrics", "logs"}
DefaultLimit   == 8
Limits         == 1..100
Timeouts       == 1..300000

\* An entry that only names an endpoint and a mode.  `limit` stands for retry_attempts, queue_days
\* and queue_bytes, which have a default and a range each.
PlainEntry(e, mode) ==
  [endpoint |-> e, mode |-> mode, signals |-> {}, kinds |-> {}, limit |-> {}, projects |-> {},
   exclude |-> {}, accounts |-> {}, timeout |-> {}, headers |-> {}]

\* A filter list: absent, or present with entries that can name what the key matches.
Listed(option, valid) == \A list \in option : list # {} /\ list \subseteq valid

Defaulted(option, default) == IF option = {} THEN default ELSE CHOOSE v \in option : TRUE

\* One entry that validate accepts, its endpoint aside.
ValidEntry(raw) ==
  LET signals == Defaulted(raw.signals, DefaultSignals) IN
  /\ Url[raw.endpoint] # NoUrl /\ raw.mode \in Modes
  /\ raw.projects = {} \/ raw.exclude = {}
  /\ Listed(raw.projects, {"label", "path"}) /\ Listed(raw.exclude, {"label", "path"})
  /\ Listed(raw.accounts, {"email"})
  /\ raw.accounts # {} => raw.kinds = {}
  /\ signals \subseteq DefaultSignals /\ raw.kinds \subseteq {"kind"}
  /\ signals # {} \/ raw.kinds # {}
  /\ Defaulted(raw.limit, DefaultLimit) \in Limits
  /\ raw.timeout \subseteq Timeouts /\ raw.headers \subseteq {"header"}

\* The section validate accepts: two entries of one endpoint would count deltas twice.
ValidSection(raws) ==
  /\ Len(raws) <= MaxTargets
  /\ \A i \in DOMAIN raws : ValidEntry(raws[i])
  /\ \A i, j \in DOMAIN raws : Url[raws[i].endpoint] = Url[raws[j].endpoint] => i = j

Filter(raw) ==
  CASE raw.projects # {} -> [only |-> TRUE, projects |-> Defaulted(raw.projects, {})]
    [] raw.exclude # {} -> [only |-> FALSE, projects |-> Defaulted(raw.exclude, {})]
    [] OTHER -> [only |-> FALSE, projects |-> {}]

\* ExportTarget, from its entry.
Target(raw) ==
  [endpoint |-> Url[raw.endpoint], mode |-> raw.mode, kinds |-> raw.kinds,
   signals |-> Defaulted(raw.signals, DefaultSignals),
   limit |-> Defaulted(raw.limit, DefaultLimit),
   filter |-> Filter(raw), accounts |-> raw.accounts,
   timeout |-> raw.timeout, headers |-> raw.headers]

Validate(raws) == [i \in DOMAIN raws |-> Target(raws[i])]

\* The two lists of a filter mixed up when it is written back.
WrongToRaw(t) ==
  [endpoint |-> t.endpoint, mode |-> t.mode, kinds |-> t.kinds,
   signals |-> {t.signals} \ {DefaultSignals}, limit |-> {t.limit} \ {DefaultLimit},
   projects |-> IF t.filter.projects # {} THEN {t.filter.projects} ELSE {},
   exclude |-> {}, accounts |-> t.accounts, timeout |-> t.timeout, headers |-> t.headers]

\* ExportConfig::to_raw, of one destination: what a default says is left out.
ToRaw(t) ==
  [endpoint |-> t.endpoint, mode |-> t.mode, kinds |-> t.kinds,
   signals |-> {t.signals} \ {DefaultSignals}, limit |-> {t.limit} \ {DefaultLimit},
   projects |-> IF t.filter.only THEN {t.filter.projects} ELSE {},
   exclude |-> IF ~t.filter.only /\ t.filter.projects # {} THEN {t.filter.projects} ELSE {},
   accounts |-> t.accounts, timeout |-> t.timeout, headers |-> t.headers]

ToRaws(targets) == [i \in DOMAIN targets |-> ToRaw(targets[i])]

\* ExportConfig::upsert: the destination replaces the one of its endpoint, or is the last.  Its
\* endpoint is trimmed, which is all that happens to its spelling here.
Upsert(targets, t) ==
  LET same == {i \in DOMAIN targets : targets[i].endpoint = t.endpoint} IN
  IF same = {} THEN Append(targets, t) ELSE [targets EXCEPT ![CHOOSE i \in same : TRUE] = t]

\* Writing destinations back and reading them again changes none of them.
SurvivesSave(raws) ==
  ValidSection(raws) =>
    LET targets == Validate(raws) IN
    ValidSection(ToRaws(targets)) /\ Validate(ToRaws(targets)) = targets
=============================================================================
