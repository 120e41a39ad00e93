------------------------------ MODULE Service ------------------------------
(***************************************************************************)
(* `hatel service`: the receiver kept by launchd or by systemd             *)
(* (service.rs).  A command compares the installed unit with the ones this *)
(* build and the earlier ones write, and then writes it, asks the manager  *)
(* to read it and to start it again, one call at a time: it can be killed  *)
(* between two, the manager can refuse one, and people edit the unit, stop *)
(* the receiver, upgrade the binary and break config.toml meanwhile.       *)
(*                                                                         *)
(* Build n writes units of layout n and knows the layouts before it.       *)
(***************************************************************************)
EXTENDS Integers, FiniteSets

CONSTANTS
  Platforms,   \* "launchd", "systemd"
  Binaries,    \* paths of the program
  LastBuild,   \* the newest build: 0 is a path with no program
  NoUnit, Torn,  \* no unit file; one cut short
  Stopped, Failed,  \* no process: by request, or not
  \* Bounds of the model.
  MaxRuns,     \* commands begun
  MaxUpsets    \* things others do

Builds == 0..LastBuild

VARIABLES
  platform,
  unit,        \* the unit file
  loaded,      \* the unit as the manager last read it
  enabled,     \* the manager starts it at login
  receiver,    \* the process: what it was started from, or why there is none
  disk,        \* the build at each path
  sound,       \* serve::startup succeeds: config.toml loads
  task,        \* the command running, or the last one
  runs, upsets

manager  == <<loaded, enabled, receiver>>
budgets  == <<runs, upsets>>
svars    == <<platform, unit, loaded, enabled, receiver, disk, sound, task, runs, upsets>>

UnitFile == [layout : Builds \ {0}, binary : Binaries, edited : BOOLEAN]
UnitContent  == UnitFile \cup {NoUnit, Torn}
Process  == [from : UnitFile, build : Builds \ {0}]
Alive(r) == r \notin {Stopped, Failed}

Task == [action : {"install", "restart", "remove", "none"}, binary : Binaries, build : Builds,
         installed : {"none", "current", "earlier", "another", "other"},
         step : {"check", "truncate", "fill", "reread", "enable", "start", "ask", "again", "unload",
                 "load", "look", "stop", "delete", "done"},
         code : {0, 1}, reread : BOOLEAN,
         saw : UnitContent, began : Process \cup {Stopped, Failed}, disturbed : BOOLEAN]

ASSUME ServiceAssumption ==
  /\ Platforms \subseteq {"launchd", "systemd"} /\ LastBuild \in Nat \ {0}
  /\ {Stopped, Failed} \cap Process = {} /\ Stopped # Failed
  /\ NoUnit \notin UnitFile /\ Torn \notin UnitFile \cup {NoUnit} /\ Binaries # {}
  /\ {MaxRuns, MaxUpsets} \subseteq Nat

UnitOf(build, binary) == [layout |-> build, binary |-> binary, edited |-> FALSE]

\* An edit taken for an earlier release's unit.
WrongInstalled(u, exe, build) ==
  CASE u = NoUnit -> "none"
    [] u = UnitOf(build, exe) -> "current"
    [] u \in UnitFile /\ u # UnitOf(build, exe) /\ u.binary = exe /\ u.layout <= build -> "earlier"
    [] u \in UnitFile /\ ~u.edited /\ u.binary # exe /\ u.layout <= build -> "another"
    [] OTHER -> "other"

\* installed_unit: byte equality with what some build wrote.
InstalledUnit(u, exe, build) ==
  CASE u = NoUnit -> "none"
    [] u = UnitOf(build, exe) -> "current"
    [] u \in UnitFile /\ ~u.edited /\ u.binary = exe /\ u.layout < build -> "earlier"
    [] u \in UnitFile /\ ~u.edited /\ u.binary # exe /\ u.layout <= build -> "another"
    [] OTHER -> "other"

At(step)     == task.step = step
Goes(step)   == task' = [task EXCEPT !.step = step]
Ends(code)   == task' = [task EXCEPT !.step = "done", !.code = code]
Fails(code) == task' = [task EXCEPT !.step = "done", !.code = code, !.disturbed = TRUE]
Disturbed    == [task EXCEPT !.disturbed = TRUE]

\* What runs once the manager starts unit u: nothing, without a program or a configuration.
Started(u) ==
  IF u \in UnitFile /\ disk[u.binary] # 0 /\ sound
  THEN [from |-> u, build |-> disk[u.binary]] ELSE Failed
-----------------------------------------------------------------------------
(* A command.                                                              *)

Begin(action, exe) ==
  /\ At("done") /\ runs < MaxRuns /\ runs' = runs + 1 /\ disk[exe] # 0
  /\ task' = [action |-> action, binary |-> exe, build |-> disk[exe], installed |-> "none",
              step |-> IF action = "remove" THEN "stop" ELSE "check", code |-> 0,
              reread |-> TRUE, saw |-> unit, began |-> receiver, disturbed |-> FALSE]
  /\ UNCHANGED <<platform, unit, manager, disk, sound, upsets>>

\* Only what an install of a unit nobody edited writes.
Rewrites(action, installed) ==
  \/ action = "install" /\ installed # "other"
  \/ action = "restart" /\ installed = "earlier"

\* receiver_would_start: what serve checks first, as this process resolves it.
WouldStart == sound

\* kept_unit: a restart leaves another binary's unit, and one no release wrote.
KeptUnit(installed) == installed \in {"another", "other"}

\* installed_unit and receiver_would_start, before anything changes.
Check ==
  /\ At("check")
  /\ LET found == InstalledUnit(unit, task.binary, task.build)
         idle  == task.action = "restart" /\ found = "none" IN
     task' = [task EXCEPT !.installed = found, !.saw = unit,
       !.step = CASE idle \/ ~WouldStart -> "done"
                  [] ~idle /\ WouldStart /\ Rewrites(task.action, found) -> "truncate"
                  [] OTHER -> "ask",
       !.code = IF ~idle /\ (~WouldStart \/ (task.action = "install" /\ found = "other"))
                THEN 1 ELSE 0]
  /\ UNCHANGED <<platform, unit, manager, disk, sound, budgets>>

\* write_unit creates the file, then fills it.
TruncateUnit ==
  /\ At("truncate") /\ unit' = Torn /\ Goes("fill")
  /\ UNCHANGED <<platform, manager, disk, sound, budgets>>

FillUnit ==
  /\ At("fill") /\ unit' = UnitOf(task.build, task.binary)
  /\ Goes(CASE platform = "systemd" -> "reread"
            [] platform = "launchd" /\ task.action = "install" -> "unload"
            [] OTHER -> "ask")
  /\ UNCHANGED <<platform, manager, disk, sound, budgets>>

WriteFails ==
  /\ task.step \in {"truncate", "fill"} /\ Fails(1)
  /\ UNCHANGED <<platform, unit, manager, disk, sound, budgets>>

\* Without reading the file again.
WrongReread(ok) ==
  /\ At("reread")
  /\ Goes(IF task.action = "install" THEN "enable" ELSE "ask")
  /\ UNCHANGED <<platform, unit, manager, disk, sound, budgets>>

\* daemon_reload: a restart goes on without it, as far as the receiver does not run.
Reread(ok) ==
  /\ At("reread")
  /\ IF ok
     THEN loaded' = unit /\ Goes(IF task.action = "restart" THEN "ask" ELSE "enable")
     ELSE /\ loaded' = loaded
          /\ task' = [Disturbed EXCEPT !.reread = FALSE,
               !.step = IF task.action = "restart" THEN "ask" ELSE "done",
               !.code = IF task.action = "restart" THEN 0 ELSE 1]
  /\ UNCHANGED <<platform, unit, enabled, receiver, disk, sound, budgets>>

Enable(ok) ==
  /\ At("enable")
  /\ IF ok THEN enabled' = TRUE /\ Goes("start") ELSE enabled' = enabled /\ Fails(1)
  /\ UNCHANGED <<platform, unit, loaded, receiver, disk, sound, budgets>>

StartUnit(ok) ==
  /\ At("start")
  /\ IF ok THEN receiver' = Started(loaded) /\ Ends(0) ELSE receiver' = receiver /\ Fails(1)
  /\ UNCHANGED <<platform, unit, loaded, enabled, disk, sound, budgets>>

\* Whether there is anything to restart: an install that kept the unit still fails.
Asked(up) ==
  CASE ~up -> Ends(task.code)
    [] up /\ ~task.reread -> Ends(1)
    [] up /\ task.reread /\ platform = "launchd" /\ task.installed # "other" -> Goes("unload")
    [] OTHER -> Goes("again")

\* is-active, or `launchctl print`: a manager out of reach has nothing running.
Ask(reached) ==
  /\ At("ask") /\ (platform = "launchd" => reached)
  /\ IF reached THEN Asked(IF platform = "launchd" THEN loaded # NoUnit ELSE Alive(receiver))
     ELSE Fails(task.code)
  /\ UNCHANGED <<platform, unit, manager, disk, sound, budgets>>

\* try-restart, which does nothing for one stopped since; kickstart.  Both fail without a unit.
Again(ok) ==
  /\ At("again") /\ (ok => loaded # NoUnit)
  /\ IF ok
     THEN /\ receiver' = IF Alive(receiver) \/ platform = "launchd"
                         THEN Started(loaded) ELSE receiver
          /\ Ends(task.code)
     ELSE receiver' = receiver /\ Fails(1)
  /\ UNCHANGED <<platform, unit, loaded, enabled, disk, sound, budgets>>

Unload ==
  /\ At("unload") /\ loaded' = NoUnit /\ receiver' = Stopped /\ Goes("load")
  /\ UNCHANGED <<platform, unit, enabled, disk, sound, budgets>>

\* `launchctl load -w` exits 0 even when it loads nothing.
LoadUnit(ok) ==
  /\ At("load")
  /\ IF ok /\ unit \in UnitFile
     THEN loaded' = unit /\ enabled' = TRUE /\ receiver' = Started(unit) /\ Goes("look")
     ELSE UNCHANGED manager /\ task' = [Disturbed EXCEPT !.step = "look"]
  /\ UNCHANGED <<platform, unit, disk, sound, budgets>>

LookUp ==
  /\ At("look") /\ Ends(IF loaded = NoUnit THEN 1 ELSE task.code)
  /\ UNCHANGED <<platform, unit, manager, disk, sound, budgets>>

\* disable --now, or unload; either may fail unnoticed.
StopUnit(ok) ==
  /\ At("stop") /\ Goes("delete")
  /\ IF ok /\ unit # NoUnit
     THEN /\ receiver' = Stopped
          /\ enabled' = (enabled /\ platform = "launchd")
          /\ loaded' = IF platform = "launchd" THEN NoUnit ELSE loaded
     ELSE UNCHANGED manager
  /\ UNCHANGED <<platform, unit, disk, sound, budgets>>

\* remove_unit, and a last daemon-reload, whose failure nobody hears.
Delete(ok) ==
  /\ At("delete") /\ unit' = NoUnit /\ Ends(0)
  /\ loaded' = IF platform = "systemd" /\ ok THEN NoUnit ELSE loaded
  /\ UNCHANGED <<platform, enabled, receiver, disk, sound, budgets>>

KillCommand ==
  /\ ~At("done") /\ Fails(1)
  /\ UNCHANGED <<platform, unit, manager, disk, sound, budgets>>
-----------------------------------------------------------------------------
(* What others do.                                                         *)

Upset == upsets < MaxUpsets /\ upsets' = upsets + 1 /\ task' = Disturbed

EditUnit ==
  /\ Upset /\ unit \in UnitFile /\ unit' = [unit EXCEPT !.edited = TRUE]
  /\ UNCHANGED <<platform, manager, disk, sound, runs>>

EditConfiguration ==
  /\ Upset /\ sound' = ~sound
  /\ UNCHANGED <<platform, unit, manager, disk, runs>>

\* An upgrade in place, or a program removed.
Replace(binary, build) ==
  /\ Upset /\ build # disk[binary] /\ disk' = [disk EXCEPT ![binary] = build]
  /\ UNCHANGED <<platform, unit, manager, sound, runs>>

StopReceiver ==
  /\ Upset /\ Alive(receiver) /\ receiver' = Stopped
  /\ loaded' = IF platform = "launchd" THEN NoUnit ELSE loaded
  /\ UNCHANGED <<platform, unit, enabled, disk, sound, runs>>

\* KeepAlive, or Restart=on-failure.
CrashAndRelaunch ==
  /\ Upset /\ (Alive(receiver) \/ receiver = Failed) /\ loaded \in UnitFile
  /\ receiver' = Started(loaded)
  /\ UNCHANGED <<platform, unit, loaded, enabled, disk, sound, runs>>

LogIn ==
  /\ Upset /\ At("done")
  /\ loaded' = IF unit = Torn \/ (platform = "launchd" /\ ~enabled) THEN NoUnit ELSE unit
  /\ receiver' = IF enabled /\ unit \in UnitFile THEN Started(unit) ELSE Stopped
  /\ UNCHANGED <<platform, unit, enabled, disk, sound, runs>>
-----------------------------------------------------------------------------
NoTask == [action |-> "none", binary |-> CHOOSE b \in Binaries : TRUE, build |-> 0,
           installed |-> "none", step |-> "done", code |-> 0, reread |-> TRUE, saw |-> NoUnit,
           began |-> Stopped, disturbed |-> FALSE]

\* A machine with a unit some build wrote and a receiver running from it, or with neither.
SInit ==
  /\ platform \in Platforms
  /\ disk \in [Binaries -> Builds] /\ sound \in BOOLEAN
  /\ \E b \in Binaries :
       \/ unit \in {u \in UnitFile : u.binary = b /\ u.layout <= disk[b]} /\ sound
          /\ loaded = unit /\ enabled = TRUE
          /\ receiver = [from |-> unit, build |-> unit.layout]
       \/ unit = NoUnit /\ loaded = NoUnit /\ enabled = FALSE /\ receiver = Stopped
  /\ task = NoTask
  /\ runs = 0 /\ upsets = 0

SNext ==
  \/ \E a \in {"install", "restart", "remove"}, exe \in Binaries : Begin(a, exe)
  \/ Check \/ TruncateUnit \/ FillUnit \/ WriteFails \/ Unload \/ LookUp
  \/ \E ok \in BOOLEAN :
       \/ Reread(ok) \/ Enable(ok) \/ StartUnit(ok) \/ Ask(ok) \/ Again(ok) \/ LoadUnit(ok)
       \/ StopUnit(ok) \/ Delete(ok)
  \/ KillCommand
  \/ EditUnit \/ EditConfiguration \/ StopReceiver \/ CrashAndRelaunch \/ LogIn
  \/ \E b \in Binaries, build \in Builds : Replace(b, build)

SSpec == SInit /\ [][SNext]_svars
-----------------------------------------------------------------------------
\* A command that ended with nothing refused, killed or changed meanwhile.
Ended(actions) == At("done") /\ task.action \in actions /\ ~task.disturbed

(* A unit edited by hand is replaced only by its owner: no install and no  *)
(* restart writes over an edit it had seen, only an install moves the      *)
(* service to another binary, and a restart that says it kept the unit has *)
(* not written it (Installed, kept_unit, service.rs).                      *)
HandEditsKept ==
  [][unit' # unit /\ unit \in UnitFile /\ task' # Disturbed =>
       \/ task.action = "remove"
       \/ /\ ~unit.edited /\ (unit.binary # task.binary => task.action = "install")
          /\ ~(task.action = "restart" /\ KeptUnit(task.installed))
       \/ unit # task.saw]_svars

(* A receiver that ran when an install or a restart began runs when it     *)
(* ends, unless the manager refused, the command was killed, or somebody   *)
(* changed something meanwhile: a command never stops a receiver for one   *)
(* that cannot start (receiver_would_start).                               *)
NeverAnOutage  == Ended({"install", "restart"}) /\ Alive(task.began) => Alive(receiver)

\* The same, where the program a unit names is still on disk.
NoOutage ==
  (\A u \in {unit, loaded} \cap UnitFile : disk[u.binary] # 0) => NeverAnOutage

(* A command that succeeds has done what an upgrade needs and no more: the *)
(* receiver runs this build's unit from this build, unless the unit is     *)
(* another's; an installed one starts at login; a receiver stopped on      *)
(* purpose stays stopped at a restart.                                     *)
Upgraded == receiver = [from |-> UnitOf(task.build, task.binary), build |-> disk[task.binary]]

UpgradeReaches ==
  Ended({"install", "restart"}) /\ task.code = 0 =>
    /\ task.action = "install" => Upgraded /\ enabled
    /\ (task.action = "restart" /\ Alive(receiver)
        /\ (task.installed = "earlier" \/ (task.installed = "current" /\ loaded = unit))) => Upgraded
    /\ (task.action = "restart" /\ task.began = Stopped) => ~Alive(receiver)

\* An undisturbed command brings what it promises and stops nothing it cannot start.
CommandsDeliver == NoOutage /\ UpgradeReaches

(* A restart that reports the receiver restarted has brought a unit hatel  *)
(* wrote for this binary up to this build's (service.rs:8-10).  Not so     *)
(* after a reload that failed or was never reached: the file is this       *)
(* build's by then, so nothing has systemd read it.                        *)
RestartApplies ==
  Ended({"restart"}) /\ task.code = 0 /\ task.installed \in {"current", "earlier"} /\ Alive(receiver)
    => Upgraded
=============================================================================
