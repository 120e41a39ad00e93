------------------------------ MODULE Schemas ------------------------------
(***************************************************************************)
(* How a registry is put together (schema.rs, Registry of registry.rs):    *)
(* the core schema and the plugin files the configuration lists, each of   *)
(* which declares kinds and binds hook events to kinds.  A report, the     *)
(* receiver and the doctor build it strictly, from every file or not at    *)
(* all; a hook builds it resiliently, from the files that merge.  The      *)
(* list is explored by adding files to it.                                 *)
(***************************************************************************)
EXTENDS Naturals, Sequences, SequencesExt, FiniteSets

CONSTANTS
  Core,        \* the core schema file
  Files,       \* plugin schema files
  Targets,     \* the kinds the destinations of the configuration select
  MaxPlugins   \* bound: files the list may have

VARIABLES
  plugins      \* the list of the configuration

pvars == <<plugins>>

\* Where a field's value comes from: the transforms set for it, a constant among them, what it is
\* read from and on which condition, and whether the pattern of a capture compiles and has a group.
FieldMap == [transforms : SUBSET {"capture", "len", "present", "basename", "repo_path", "const"},
             from : {"usable", "blank", "unreadable"}, when : {"usable", "blank", "unreadable"},
             pattern : {"grouped", "plain", "broken"}]

\* A file declares kinds, some of which KindSpec::from_raw refuses, binds events to kinds, and may
\* name native counters, which only the core may.
KindSpec == [name : STRING, fields : SUBSET STRING, valid : BOOLEAN]
Schema == [kinds : Seq(KindSpec),
           bindings : Seq([event : STRING, kind : STRING,
                           map : UNION {[F -> FieldMap] : F \in SUBSET STRING}]),
           parses : BOOLEAN, native : BOOLEAN]

ASSUME SchemasAssumption == \A f \in {Core} \cup Files :
  /\ f \in [kinds : Seq(KindSpec), bindings : Seq(ToSet(f.bindings)),
            parses : BOOLEAN, native : BOOLEAN]
  /\ \A b \in ToSet(f.bindings) : \A x \in DOMAIN b.map : b.map[x] \in FieldMap

NoRegistry == [ok |-> TRUE, kinds |-> {}, fields |-> {}, bindings |-> {}]

\* add_kind, after from_raw: kinds have distinct names.
AddKind(reg, kind) ==
  IF reg.ok /\ kind.valid /\ kind.name \notin reg.kinds
  THEN [reg EXCEPT !.kinds = @ \cup {kind.name}, !.fields = @ \cup ({kind.name} \X kind.fields)]
  ELSE [reg EXCEPT !.ok = FALSE]

\* FieldMap::validate: a field has one transform at most, and a source unless it is a constant.
Unambiguous(map) ==
  /\ Cardinality(map.transforms) <= 1
  /\ map.from # "blank" \/ "const" \in map.transforms
  /\ map.when # "blank" /\ "unreadable" \notin {map.from, map.when}

Mapped(map) == Unambiguous(map) /\ ("capture" \in map.transforms => map.pattern = "grouped")

\* bind: fields of the allow-list, of a registered kind, and an event to a kind only once.
Bind(reg, b) ==
  IF /\ reg.ok /\ b.kind \in reg.kinds
     /\ ~\E c \in reg.bindings : c.event = b.event /\ c.kind = b.kind
     /\ \A f \in DOMAIN b.map : f # "project" /\ <<b.kind, f>> \in reg.fields /\ Mapped(b.map[f])
  THEN [reg EXCEPT !.bindings = @ \cup {b}]
  ELSE [reg EXCEPT !.ok = FALSE]

\* merge: what came before an error stays merged.
Merge(reg, file) ==
  IF ~file.parses \/ (file.native /\ file # Core) THEN [reg EXCEPT !.ok = FALSE]
  ELSE FoldLeft(Bind, FoldLeft(AddKind, reg, file.kinds), file.bindings)

\* The core schema is part of the binary, and sound (load_core).
ASSUME CoreAssumption == Merge(NoRegistry, Core).ok

\* build_registry, with the targets of the destinations.
Strict(list) ==
  LET reg == FoldLeft(LAMBDA r, f : IF r.ok THEN Merge(r, f) ELSE r, Merge(NoRegistry, Core), list)
  IN [reg EXCEPT !.ok = @ /\ Targets \subseteq reg.kinds]

\* A file is merged in place, and what precedes its error stays.
WrongResilient(list) ==
  FoldLeft(LAMBDA r, f : [Merge(r, f) EXCEPT !.ok = TRUE], Merge(NoRegistry, Core), list)

\* build_registry_resilient: each file is tried on a copy.
Resilient(list) ==
  FoldLeft(LAMBDA r, f : IF Merge(r, f).ok THEN Merge(r, f) ELSE r, Merge(NoRegistry, Core), list)

-----------------------------------------------------------------------------
(* What a hook makes of an event its registry binds.                       *)

\* An event: what the first source of a map with a value holds, whether the conditions hold, and
\* whether the pattern is found in it.
Event == [holds : BOOLEAN, value : {"none", "text", "number", "document"}, found : BOOLEAN]

\* FieldMap::apply: the value a field gets, or none.  A transform of a text gives nothing of
\* anything else, and a document is never taken whole.
Apply(map, event) ==
  LET of(transforms) == map.transforms # {} /\ map.transforms \subseteq transforms IN
  CASE ~event.holds                       -> {}
    [] event.holds /\ of({"const"})       -> {"constant"}
    [] event.holds /\ of({"present"})     -> {"flag"}
    [] event.holds /\ of({"len"})         -> IF event.value = "text" THEN {"number"} ELSE {}
    [] event.holds /\ of({"basename", "repo_path"}) -> {event.value} \cap {"text"}
    [] event.holds /\ of({"capture"})     ->
         IF event.found THEN {event.value} \cap {"text"} ELSE {}
    [] event.holds /\ map.transforms = {} -> {event.value} \cap {"text", "number"}

\* process_event: the fields of the record a binding makes, the project among them where the kind
\* declares it.
RecordFields(reg, b, event) ==
  {f \in DOMAIN b.map : Apply(b.map[f], event) # {}} \cup
  {f \in {"project"} : <<b.kind, f>> \in reg.fields}
-----------------------------------------------------------------------------
AddPlugin(f) == Len(plugins) < MaxPlugins /\ plugins' = Append(plugins, f)

PInit == plugins = <<>>

PNext == \E f \in Files : AddPlugin(f)

PSpec == PInit /\ [][PNext]_pvars
-----------------------------------------------------------------------------
KindsOf(file)    == {file.kinds[i].name : i \in DOMAIN file.kinds}
FieldsOf(file)   == UNION {{file.kinds[i].name} \X file.kinds[i].fields : i \in DOMAIN file.kinds}
BindingsOf(file) == ToSet(file.bindings)
Pairs(bindings)  == {<<b.event, b.kind>> : b \in bindings}

\* What the core and the files at some places of a list declare together.
Declared(list, places) == KindsOf(Core) \cup UNION {KindsOf(list[i]) : i \in places}
Allowed(list, places)  == FieldsOf(Core) \cup UNION {FieldsOf(list[i]) : i \in places}
Bound(list, places)    == BindingsOf(Core) \cup UNION {BindingsOf(list[i]) : i \in places}

Distinct(s) == \A i, j \in DOMAIN s : s[i] = s[j] => i = j

\* A file merges after the files at some places: on its own account, and beside them.
MergesAfter(list, places, f) ==
  /\ f.parses /\ (f.native => f = Core)
  /\ \A i \in DOMAIN f.kinds : f.kinds[i].valid
  /\ \A i \in DOMAIN f.bindings :
       /\ \A x \in DOMAIN f.bindings[i].map :
            /\ x # "project" /\ Mapped(f.bindings[i].map[x])
            /\ <<f.bindings[i].kind, x>> \in Allowed(list, places) \cup FieldsOf(f)
       /\ f.bindings[i].kind \in Declared(list, places) \cup KindsOf(f)
  /\ Distinct([i \in DOMAIN f.kinds |-> f.kinds[i].name])
  /\ Distinct([i \in DOMAIN f.bindings |-> <<f.bindings[i].event, f.bindings[i].kind>>])
  /\ KindsOf(f) \cap Declared(list, places) = {}
  /\ Pairs(BindingsOf(f)) \cap Pairs(Bound(list, places)) = {}

\* The places a list's files are merged at.
Merged(list) ==
  CHOOSE places \in SUBSET DOMAIN list :
    \A i \in DOMAIN list : i \in places <=> MergesAfter(list, {j \in places : j < i}, list[i])

(* A hook's registry is made of whole files: the core, and every plugin    *)
(* that stands beside the ones before it.  No kind or binding of a file    *)
(* that does not is in it, and where the strict build succeeds the hook    *)
(* records under the very registry a report reads with                     *)
(* (build_registry_resilient and build_registry).                          *)
WholeFiles ==
  plugins # <<>> => LET built == Resilient(plugins) IN
  /\ built.kinds = Declared(plugins, Merged(plugins))
  /\ built.bindings = Bound(plugins, Merged(plugins))
  /\ Strict(plugins).ok => Strict(plugins) = built
  /\ Strict(plugins).ok <=> Merged(plugins) = DOMAIN plugins /\ Targets \subseteq built.kinds

(* Whatever an event holds, the record a binding of the hook's registry    *)
(* makes of it has only fields its kind allows, so strict mode never       *)
(* refuses it for one; a project exactly where the kind declares it; and   *)
(* no field with a document the event shaped (bind, FieldMap::apply, and   *)
(* process_event of hook.rs).                                              *)
BoundRecordsFit ==
  plugins # <<>> => LET built == Resilient(plugins) IN
  \A b \in built.bindings, event \in Event :
    /\ {b.kind} \X RecordFields(built, b, event) \subseteq built.fields
    /\ "project" \in RecordFields(built, b, event) <=> <<b.kind, "project">> \in built.fields
    /\ \A f \in DOMAIN b.map : "document" \notin Apply(b.map[f], event)

\* A hook's registry is made of whole files, and its records fit it.
RegistryStands == WholeFiles /\ BoundRecordsFit
=============================================================================
