------------------------------- MODULE Wiring -------------------------------
(***************************************************************************)
(* How hatel is wired into Claude Code (claude_settings.rs, init.rs):      *)
(* `init` merges the telemetry environment and the lifecycle hooks into a  *)
(* settings file, `init --remove` takes the hooks out again, and           *)
(* `init --insert` puts the receiver in front of a collector Claude Code   *)
(* reports to.  The commands read whole files, change them in memory and   *)
(* rename new ones over them; people edit the same files meanwhile, and a  *)
(* command may fail or be killed between any two of its steps.             *)
(*                                                                         *)
(* The metrics signal stands for the signals, `exporter` for the two       *)
(* exporter keys, and the project scope for both repository scopes.  One   *)
(* command runs at a time.                                                 *)
(***************************************************************************)
EXTENDS Destinations

CONSTANTS
  Local,        \* the receiver's endpoint
  Events,       \* EVENTS
  Others,       \* what hook entries that are not ours may be
  Starts,       \* settings files, configuration files and active events to start from
  ConfigEdits,  \* what a person leaves in the [[export]] section
  \* Bounds of the model.
  MaxCommands, MaxEdits, MaxFailures

VARIABLES
  files,     \* scope -> its settings file; "process" is the environment commands are run in
  config,    \* the configuration file: whether it parses, and its [[export]] section
  activeEvents,  \* the events the registry needs
  command,   \* the command that runs
  commands, edits, failures,
  replaced,  \* history: endpoints an insert took out of a settings file
  removed    \* history: endpoints a person took out of the configuration

wvars == <<files, config, activeEvents, command, commands, edits, failures, replaced, removed>>

Precedence == <<"process", "user", "project", "managed">>   \* lowest first
Scopes     == ToSet(Precedence)

Empty   == [load |-> "absent", env |-> [ok |-> TRUE, set |-> <<>>],
            hooks |-> [ok |-> TRUE, at |-> <<>>], managedOnly |-> FALSE]
Resting == [name |-> "none", at |-> "done", scope |-> "user", held |-> Empty, targets |-> <<>>,
            endpoint |-> "none", headers |-> {}, inserted |-> FALSE, undisturbed |-> TRUE]
-----------------------------------------------------------------------------
(* What Claude Code is configured to: settings_env and effective_env.      *)

EnvOf(fs, s) == IF fs[s].load = "found" /\ fs[s].env.ok THEN fs[s].env.set ELSE <<>>

\* What a repository says of telemetry counts only where it turns an exporter off.
Ignored(fs, s, k) ==
  /\ s = "project"
  /\ k = "exporter" => EnvOf(fs, s)[k] # "none" \/ k \in DOMAIN EnvOf(fs, "process")

Setting(fs, k) ==
  {i \in DOMAIN Precedence :
     k \in DOMAIN EnvOf(fs, Precedence[i]) /\ ~Ignored(fs, Precedence[i], k)}

Source(fs, k) == IF Setting(fs, k) = {} THEN "none" ELSE Precedence[Max(Setting(fs, k))]

\* A managed destination hides what a developer set for one signal; managed credentials hide
\* every destination a developer set.
Hidden(fs, k) ==
  /\ Source(fs, k) # "managed"
  /\ \/ k = "signal_protocol" /\ Source(fs, "protocol") = "managed"
     \/ k = "signal_endpoint" /\ "managed" \in {Source(fs, "endpoint"), Source(fs, "headers")}
     \/ k = "endpoint" /\ Source(fs, "headers") = "managed"

EffectiveSource(fs, k) == IF Hidden(fs, k) THEN "none" ELSE Source(fs, k)
Effective(fs, k) == EnvOf(fs, EffectiveSource(fs, k))[k]
Has(fs, k)       == EffectiveSource(fs, k) # "none"
-----------------------------------------------------------------------------
(* wire and unwire, of one file.  An entry of a hook group is someone      *)
(* else's, or one of ours: "mine" is what is written now, "stale" names    *)
(* another binary, and "sync" holds the session up.                        *)

Ours      == {"mine", "stale", "sync"}
HookEntry == Ours \cup Others
MyGroup == <<"mine">>

\* What is left of a list, in order, without what is to go (Vec::retain).
Without(list, gone) ==
  LET kept[i \in 0..Len(list)] ==
        IF i = 0 THEN <<>>
        ELSE IF list[i] \in gone THEN kept[i - 1] ELSE Append(kept[i - 1], list[i])
  IN kept[Len(list)]

\* A group with an entry of ours goes as a whole.
WrongStrip(groups, keepMine) ==
  [i \in DOMAIN groups |->
     IF ToSet(groups[i]) \cap (IF keepMine THEN Ours \ {"mine"} ELSE Ours) # {}
     THEN <<>> ELSE groups[i]]

\* strip_our_entries, one entry at a time; an entry that is current may stay.
Strip(groups, keepMine) ==
  [i \in DOMAIN groups |-> Without(groups[i], IF keepMine THEN Ours \ {"mine"} ELSE Ours)]

\* What wire makes of one event's groups.
WireEvent(groups, isActive) ==
  LET stripped == Strip(groups, isActive)
      kept     == Without(stripped, {<<>>})
  IN IF ~isActive THEN IF stripped = groups THEN groups ELSE kept
     ELSE IF \E i \in DOMAIN kept : "mine" \in ToSet(kept[i]) THEN kept
     ELSE Append(kept, MyGroup)

Broken(f, telemetry, events) ==
  \/ telemetry /\ ~f.env.ok
  \/ ~f.hooks.ok
  \/ \E e \in events \cap DOMAIN f.hooks.at : ~f.hooks.at[e].ok

HookGroups(f, e) == IF e \in DOMAIN f.hooks.at THEN f.hooks.at[e].groups ELSE <<>>
Usable(f, e) == e \in DOMAIN f.hooks.at => f.hooks.at[e].ok

\* The events of the vocabulary an event entry stays, or comes, in the file for: an inactive one
\* goes when stripping it emptied it.
Keeps(f, e, events) ==
  \/ e \in events \/ (e \in DOMAIN f.hooks.at /\ ~Usable(f, e))
  \/ /\ e \in DOMAIN f.hooks.at
     /\ \/ WireEvent(HookGroups(f, e), FALSE) # <<>>
        \/ Strip(HookGroups(f, e), FALSE) = HookGroups(f, e)

WireHooks(f, events) ==
  [e \in {x \in Events : Keeps(f, x, events)} |->
     IF Usable(f, e) THEN [ok |-> TRUE, groups |-> WireEvent(HookGroups(f, e), e \in events)]
     ELSE f.hooks.at[e]]

Telemetry == [telemetry |-> "1", exporter |-> "otlp", protocol |-> "http/json", endpoint |-> Local]

\* A key is added where it is absent, and never changed.
WireEnv(env) == [k \in DOMAIN env \cup DOMAIN Telemetry |-> IF k \in DOMAIN env THEN env[k]
                                                            ELSE Telemetry[k]]

Wire(f, telemetry, events) ==
  [f EXCEPT !.load = "found", !.hooks.at = WireHooks(f, events),
            !.env.set = IF telemetry THEN WireEnv(@) ELSE @]

UnwireEvent(groups) == Without(Strip(groups, FALSE), {<<>>})

Unwire(f) ==
  [f EXCEPT !.hooks.at =
     [e \in {x \in DOMAIN f.hooks.at : Usable(f, x) => UnwireEvent(HookGroups(f, x)) # <<>>} |->
        IF Usable(f, e) THEN [ok |-> TRUE, groups |-> UnwireEvent(HookGroups(f, e))]
        ELSE f.hooks.at[e]]]

\* Whether one of ours is among an event's entries.
WiresOurs(f, e) ==
  /\ Usable(f, e)
  /\ \E i \in DOMAIN HookGroups(f, e) : ToSet(HookGroups(f, e)[i]) \cap Ours # {}

\* Managed settings may have Claude Code run no hooks but theirs.
ManagedOnly(fs) == fs["managed"].load = "found" /\ fs["managed"].managedOnly
Honored(fs)     == IF ManagedOnly(fs) THEN {"managed"} ELSE Scopes

WiredIn(fs, e, scopes) == {s \in scopes : fs[s].load = "found" /\ WiresOurs(fs[s], e)}

\* What the doctor reads: event_wiring, of the scopes Claude Code honors,
EventWiring(fs, e) ==
  LET wired == WiredIn(fs, e, Honored(fs)) IN
  IF wired = {} THEN "missing"
  ELSE IF \E s \in wired : \E i \in DOMAIN HookGroups(fs[s], e) : "sync" \in ToSet(HookGroups(fs[s], e)[i])
  THEN "blocking" ELSE "concurrent"

\* hook_wired_but_blocked, and wired_hook_commands: which binaries their entries run.
WiredButBlocked(fs) ==
  ManagedOnly(fs) /\ \E e \in Events : WiredIn(fs, e, Scopes \ {"managed"}) # {}

WiredCommands(fs) ==
  {IF x = "stale" THEN "another" ELSE "ours"
   : x \in Ours \cap UNION {UNION {ToSet(FlattenSeq(HookGroups(fs[s], e)))
                                  : s \in WiredIn(fs, e, Honored(fs))} : e \in Events}}

\* What an environment variable of the telemetry block keeps native telemetry from: a required one
\* off or elsewhere, or the protocol of what goes to a local receiver.
EnvBlocked(f) ==
  LET set      == f.env.set
      endpoint == IF "signal_endpoint" \in DOMAIN set THEN "signal_endpoint" ELSE "endpoint"
      protocol == IF "signal_protocol" \in DOMAIN set THEN "signal_protocol" ELSE "protocol"
  IN {k \in {"telemetry", "exporter"} \cap DOMAIN set : set[k] # Telemetry[k]}
     \cup {k \in {protocol} \cap DOMAIN set :
              set[k] # "http/json" /\ endpoint \in DOMAIN set /\ set[endpoint] = Local}

EnvChanged(f, telemetry) == telemetry /\ ~(DOMAIN Telemetry \subseteq DOMAIN f.env.set)
EventsChanged(f, events) ==
  \E e \in Events :
    /\ Usable(f, e)
    /\ \/ Strip(HookGroups(f, e), e \in events) # HookGroups(f, e)
       \/ e \in events /\ ~\E i \in DOMAIN HookGroups(f, e) : "mine" \in ToSet(HookGroups(f, e)[i])
-----------------------------------------------------------------------------
(* The commands.                                                           *)

Starting ==
  /\ command.at = "done" /\ commands < MaxCommands /\ commands' = commands + 1
  /\ UNCHANGED <<files, config, activeEvents, edits, failures, replaced, removed>>

Begun(name, scope) == [Resting EXCEPT !.name = name, !.scope = scope]

Parsed(f) == f.load \in {"absent", "found"}

\* run: wire, and write the file unless that changed nothing.
InitCommand(scope) ==
  LET f == files[scope] IN
  /\ Starting
  /\ command' =
       IF Parsed(f) /\ ~Broken(f, scope = "user", activeEvents)
          /\ (EnvChanged(f, scope = "user") \/ EventsChanged(f, activeEvents))
       THEN [Begun("init", scope) EXCEPT !.at = "write", !.held = Wire(f, scope = "user", activeEvents)]
       ELSE Begun("init", scope)

RemoveCommand(scope) ==
  LET f == files[scope] IN
  /\ Starting
  /\ command' =
       IF f.load = "found" /\ f.hooks.ok /\ \E e \in Events : WiresOurs(f, e)
       THEN [Begun("remove", scope) EXCEPT !.at = "write", !.held = Unwire(f)]
       ELSE Begun("remove", scope)

\* repoint fails where a protocol that counts is set elsewhere.
CanRepoint(fs, scope) ==
  LET k == IF Has(fs, "signal_protocol") THEN "signal_protocol" ELSE "protocol" IN
  Has(fs, k) /\ Effective(fs, k) # "http/json" => EffectiveSource(fs, k) = scope

Repoint(env) ==
  [k \in DOMAIN env |->
     CASE k = "endpoint" -> Local
       [] k \in {"protocol", "signal_protocol"} -> "http/json"
       [] OTHER -> env[k]]

\* insert, up to the first file it writes: everything is read, prepared and validated before.
\* A file that sets the endpoint is there and is an object.
InsertCommand ==
  LET scope == EffectiveSource(files, "endpoint")
      f     == files[scope]
  IN
  /\ Starting
  /\ command' =
       IF /\ ~Has(files, "signal_endpoint")
          /\ scope \notin {"none", "managed", "process"} /\ Effective(files, "endpoint") # Local
          /\ ~Broken(f, TRUE, activeEvents) /\ CanRepoint(files, scope)
       THEN [Begun("insert", scope) EXCEPT !.at = "load", !.endpoint = Effective(files, "endpoint"),
               !.headers = IF Has(files, "headers") THEN {Effective(files, "headers")} ELSE {},
               !.held = [Wire(f, TRUE, activeEvents) EXCEPT !.env.set = Repoint(@)]]
       ELSE Begun("insert", scope)

\* The settings file is written first.
WrongSteps == [load |-> "write", write |-> "reread", reread |-> "save", save |-> "done"]
Steps      == [load |-> "reread", reread |-> "save", save |-> "write", write |-> "done"]

\* ExportConfig::load and upsert: an invalid section is not overwritten.
LoadExport ==
  /\ command.name = "insert" /\ command.at = "load"
  /\ \E mode \in Modes :
       command' =
         IF config.parses /\ ValidSection(config.export)
         THEN [command EXCEPT !.at = Steps["load"],
                 !.targets = Upsert(Validate(config.export),
                   [Target(PlainEntry(command.endpoint, mode)) EXCEPT
                      !.endpoint = command.endpoint, !.headers = command.headers])]
         ELSE [command EXCEPT !.at = "done"]
  /\ UNCHANGED <<files, config, activeEvents, commands, edits, failures, replaced, removed>>

\* ExportConfig::save: the file is read once more, for the sections insert does not own,
RereadSettings ==
  /\ command.name = "insert" /\ command.at = "reread"
  /\ command' = [command EXCEPT !.at = IF config.parses THEN Steps["reread"] ELSE "done"]
  /\ UNCHANGED <<files, config, activeEvents, commands, edits, failures, replaced, removed>>

\* and written, over whatever an editor made of it since.
SaveExport ==
  /\ command.name = "insert" /\ command.at = "save"
  /\ config' = [parses |-> TRUE, export |-> ToRaws(command.targets)]
  /\ command' = [command EXCEPT !.at = Steps["save"]]
  /\ removed' = removed \ {command.targets[i].endpoint : i \in DOMAIN command.targets}
  /\ UNCHANGED <<files, activeEvents, commands, edits, failures, replaced>>

\* write_atomic
WriteSettings ==
  /\ command.at = "write"
  /\ files' = [files EXCEPT ![command.scope] = command.held]
  /\ IF command.name = "insert"
     THEN /\ command' = [command EXCEPT !.at = Steps["write"], !.inserted = TRUE]
          /\ replaced' = replaced \cup {command.endpoint}
     ELSE command' = [command EXCEPT !.at = "done"] /\ UNCHANGED replaced
  /\ UNCHANGED <<config, activeEvents, commands, edits, failures, removed>>

\* A file cannot be written, or the command is killed.
CommandFails ==
  /\ command.at # "done" /\ failures < MaxFailures /\ failures' = failures + 1
  /\ command' = [command EXCEPT !.at = "done"]
  /\ UNCHANGED <<files, config, activeEvents, commands, edits, replaced, removed>>
-----------------------------------------------------------------------------
(* People.                                                                 *)

Edited == /\ edits < MaxEdits /\ edits' = edits + 1
          /\ command' = [command EXCEPT !.undisturbed = FALSE]

\* Someone points Claude Code, in the user's settings, at a collector.
EditEndpoint(e) ==
  /\ Edited /\ files["user"].load = "found" /\ files["user"].env.ok
  /\ files' = [files EXCEPT !["user"].env.set =
                 [k \in DOMAIN @ \cup {"endpoint"} |-> IF k = "endpoint" THEN e ELSE @[k]]]
  /\ UNCHANGED <<config, activeEvents, commands, failures, replaced, removed>>

NamedIn(section) == {Url[section[i].endpoint] : i \in DOMAIN section}

EditConfig(parses, section) ==
  /\ Edited
  /\ config' = [parses |-> parses, export |-> section]
  /\ removed' = removed \cup {e \in Endpoints : Url[e] \in NamedIn(config.export) \ NamedIn(section)}
  /\ UNCHANGED <<files, activeEvents, commands, failures, replaced>>

\* What was written to name this binary names another.
Outdated(at) ==
  [e \in DOMAIN at |-> [at[e] EXCEPT !.groups =
     [i \in DOMAIN @ |-> [j \in DOMAIN @[i] |-> IF @[i][j] = "mine" THEN "stale" ELSE @[i][j]]]]]

\* hatel is upgraded: its hook is elsewhere, and other events are needed.
Upgrade(events) ==
  /\ Edited /\ activeEvents' = events
  /\ files' = [s \in Scopes |-> [files[s] EXCEPT !.hooks.at = Outdated(@)]]
  /\ UNCHANGED <<config, commands, failures, replaced, removed>>
-----------------------------------------------------------------------------
(* What there is to start from.                                            *)

\* An entry that parses: of an optional key there is one value or none.
IsOption(o) == \A v, w \in o : v = w
IsEntry(raw) ==
  raw.endpoint \in Endpoints
  /\ IsOption(raw.signals) /\ IsOption(raw.limit) /\ IsOption(raw.timeout)
  /\ IsOption(raw.projects) /\ IsOption(raw.exclude)
IsSection(raws) == raws \in Seq(ToSet(raws)) /\ \A i \in DOMAIN raws : IsEntry(raws[i])

IsFile(f) ==
  /\ f = [load |-> f.load, env |-> f.env, hooks |-> f.hooks, managedOnly |-> f.managedOnly]
  /\ f.env = [ok |-> f.env.ok, set |-> f.env.set]
  /\ "endpoint" \in DOMAIN f.env.set => f.env.set["endpoint"] \in Endpoints

\* An event has groups of entries, whether or not they can be used.
IsHooks(hooks) ==
  /\ hooks = [ok |-> hooks.ok, at |-> [e \in DOMAIN hooks.at |->
                [ok |-> hooks.at[e].ok, groups |-> hooks.at[e].groups]]]
  /\ DOMAIN hooks.at \subseteq Events
  /\ \A e \in DOMAIN hooks.at : hooks.at[e].groups \in Seq(Seq(HookEntry))

ASSUME WiringAssumption ==
  /\ Local \in Endpoints
  /\ \A start \in Starts :
       /\ start.files = [s \in Scopes |-> start.files[s]]
       /\ \A s \in Scopes : IsFile(start.files[s]) /\ IsHooks(start.files[s].hooks)
       /\ start.active \subseteq Events /\ IsSection(start.export)
  /\ \A section \in ConfigEdits : IsSection(section)

WInit ==
  /\ \E start \in Starts :
       files = start.files /\ config = [parses |-> TRUE, export |-> start.export]
       /\ activeEvents = start.active
  /\ command = Resting /\ commands = 0 /\ edits = 0 /\ failures = 0
  /\ replaced = {} /\ removed = {}

WNext ==
  \/ \E scope \in {"user", "project"} : InitCommand(scope) \/ RemoveCommand(scope)
  \/ InsertCommand \/ LoadExport \/ RereadSettings \/ SaveExport \/ WriteSettings \/ CommandFails
  \/ \E e \in Endpoints : EditEndpoint(e)
  \/ \E parses \in BOOLEAN, section \in ConfigEdits : EditConfig(parses, section)
  \/ \E events \in SUBSET Events : Upgrade(events)

WSpec == WInit /\ [][WNext]_wvars
-----------------------------------------------------------------------------
\* What is not ours among an event's entries, in order.
Theirs(f, e) == Without(FlattenSeq(HookGroups(f, e)), Ours)

\* What is ours and current among them.
Mine(f, e) == Without(FlattenSeq(HookGroups(f, e)), HookEntry \ {"mine"})

SameTheirs(f, g) == \A e \in Events : Usable(f, e) => Theirs(f, e) = Theirs(g, e)

(* Whatever a settings file holds, wiring it converges: a second run       *)
(* changes nothing, the diagnosis finds every active event captured, by    *)
(* this binary and without holding the session up, an entry is added where *)
(* there is none and never a second, no other event is wired, and no entry *)
(* or value of the user's is touched (wire_settings; event_wiring,         *)
(* wired_hook_commands).  Where managed settings allow only their own      *)
(* hooks, the diagnosis says so and finds nothing captured.  A run that    *)
(* reports no variable in the way leaves telemetry that the receiver, if   *)
(* it is where it goes, can read.                                          *)
WireConverges ==
  LET f == files["user"]
      w == Wire(f, TRUE, activeEvents)
      alone == [s \in Scopes |-> IF s = "user" THEN w ELSE Empty]
      only  == [alone EXCEPT !["managed"] = [Empty EXCEPT !.load = "found", !.managedOnly = TRUE]]
      of(signal, all) ==
        IF Has(alone, signal) THEN Effective(alone, signal) ELSE Effective(alone, all)
  IN Parsed(f) /\ ~Broken(f, TRUE, activeEvents) =>
       /\ Wire(w, TRUE, activeEvents) = w /\ ~EnvChanged(w, TRUE) /\ ~EventsChanged(w, activeEvents)
       /\ \A e \in activeEvents : EventWiring(alone, e) = "concurrent"
       /\ \A e \in activeEvents :
            Mine(w, e) = Mine(f, e) \/ (Mine(f, e) = <<>> /\ Mine(w, e) = MyGroup)
       /\ \A e \in Events \ activeEvents : Usable(f, e) => EventWiring(alone, e) = "missing"
       /\ SameTheirs(f, w) /\ WiredCommands(alone) \subseteq {"ours"}
       /\ \A e \in Events : EventWiring(only, e) = "missing"
       /\ WiredCommands(only) = {} /\ (activeEvents # {} => WiredButBlocked(only))
       /\ \A k \in DOMAIN f.env.set : w.env.set[k] = f.env.set[k]
       /\ EnvBlocked(w) = {} =>
            /\ Effective(alone, "telemetry") = "1" /\ Effective(alone, "exporter") = "otlp"
            /\ of("signal_endpoint", "endpoint") = Local =>
                 of("signal_protocol", "protocol") = "http/json"

(* Removing takes out every entry any install wrote, nothing of the user's *)
(* and no telemetry setting; on a wired file it leaves what it leaves of   *)
(* the file as it was before the wiring (unwire, the inverse of wire).     *)
UnwireUndoes ==
  LET f == files["user"] IN
  f.load = "found" /\ f.hooks.ok =>
    /\ \A e \in Events : ~WiresOurs(Unwire(f), e)
    /\ SameTheirs(f, Unwire(f)) /\ Unwire(f).env = f.env
    /\ ~Broken(f, TRUE, activeEvents) => Unwire(Wire(f, TRUE, activeEvents)).hooks = Unwire(f).hooks

\* Wiring and unwiring the file a command finds undo one another and touch nothing else.
WiringIsClean == command.at = "done" => WireConverges /\ UnwireUndoes

(* An insert that nobody disturbed leaves Claude Code reporting to the     *)
(* receiver, as the receiver reads it, whatever the scopes say together,   *)
(* and the endpoint it replaced among the destinations (insert, repoint).  *)
InsertRoutes ==
  command.name = "insert" /\ command.inserted /\ command.at = "done" /\ command.undisturbed =>
    /\ Has(files, "endpoint") /\ Effective(files, "endpoint") = Local
    /\ ~Has(files, "signal_endpoint")
    /\ LET k == IF Has(files, "signal_protocol") THEN "signal_protocol" ELSE "protocol" IN
       Has(files, k) /\ Effective(files, k) = "http/json"
    /\ Url[command.endpoint] \in NamedIn(config.export)

(* Wherever an insert fails or is killed, and whoever edits the files      *)
(* meanwhile, a collector taken out of Claude Code's settings is in the    *)
(* configuration, unless a person took it out of that (insert writes the   *)
(* configuration first).                                                   *)
CaptureFirst == \A e \in replaced : Url[e] \in NamedIn(config.export) \/ e \in removed

\* An insert loses no collector on its way, and leads where it should.
InsertDelivers == InsertRoutes /\ CaptureFirst

(* Writing the destinations of a section back and reading them again       *)
(* changes none of them, their filters included (to_raw).                  *)
SectionSurvives == SurvivesSave(config.export)

(* Inserting adds or replaces a destination by its endpoint, so the file   *)
(* it leaves loads (the doc of upsert: re-inserting the same endpoint does *)
(* not duplicate it).                                                      *)
InsertKeepsValid == command.inserted /\ command.undisturbed => ValidSection(config.export)
=============================================================================
