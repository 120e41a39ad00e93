------------------------------ MODULE MCUpkeep ------------------------------
(***************************************************************************)
(* Instances of what keeps a machine's receiver and its data: the cost     *)
(* files under a report that reads them, the service unit, the sweep of    *)
(* the ledger.  They touch no state of one another, so a behaviour is of   *)
(* one of them, and the others rest.                                       *)
(***************************************************************************)
EXTENDS CostSnapshot, Service, Retention

CONSTANTS d, k1

VARIABLE part

all == <<part, vars, svars, hvars>>
-----------------------------------------------------------------------------
ServiceRests ==
  /\ platform = "systemd" /\ disk = [b \in Binaries |-> LastBuild] /\ sound = TRUE
  /\ unit = NoUnit /\ loaded = NoUnit /\ enabled = FALSE /\ receiver = Stopped
  /\ task = NoTask /\ runs = 0 /\ upsets = 0
RetentionRests ==
  /\ clock = 0 /\ last = 0 /\ slept = 0 /\ live = Unset /\ held = {} /\ arrived = 0 /\ moves = 0
  /\ steady = FALSE /\ environ = Unset /\ settings = Unreadable

UpkeepInit ==
  /\ part \in {"costs", "service", "retention"}
  /\ Init
  /\ IF part = "service" THEN SInit ELSE ServiceRests
  /\ IF part = "retention" THEN HInit ELSE RetentionRests

InCosts     == part = "costs" /\ UNCHANGED <<part, svars, hvars>>
InService   == part = "service" /\ UNCHANGED <<part, vars, hvars>>
InRetention == part = "retention" /\ UNCHANGED <<part, vars, svars>>

\* Every action is a disjunct of its own, so that a run reports each.
UpkeepNext ==
  \/ InCosts /\ \E s \in Sessions : IngestMetrics(s)
  \/ InCosts /\ \E s \in Sessions : IngestEvents(s)
  \/ InCosts /\ Persist
  \/ InCosts /\ RecordChanges
  \/ InCosts /\ FinalCheckpoint
  \/ InCosts /\ WriteSnapshot
  \/ InCosts /\ ClearChanges
  \/ InCosts /\ Forget
  \/ InCosts /\ Sweep
  \/ InCosts /\ SkipSweep
  \/ InCosts /\ Load
  \/ InCosts /\ Drain
  \/ InCosts /\ Exit
  \/ InCosts /\ Crash
  \/ InCosts /\ BeginRead
  \/ InCosts /\ EndRead
  \/ InCosts /\ Advance
  \/ InCosts /\ StepBack
  \/ InService /\ \E a \in {"install", "restart", "remove"}, exe \in Binaries : Begin(a, exe)
  \/ InService /\ Check
  \/ InService /\ TruncateUnit
  \/ InService /\ FillUnit
  \/ InService /\ WriteFails
  \/ InService /\ Unload
  \/ InService /\ LookUp
  \/ InService /\ \E ok \in BOOLEAN : Reread(ok)
  \/ InService /\ \E ok \in BOOLEAN : Enable(ok)
  \/ InService /\ \E ok \in BOOLEAN : StartUnit(ok)
  \/ InService /\ \E ok \in BOOLEAN : Ask(ok)
  \/ InService /\ \E ok \in BOOLEAN : Again(ok)
  \/ InService /\ \E ok \in BOOLEAN : LoadUnit(ok)
  \/ InService /\ \E ok \in BOOLEAN : StopUnit(ok)
  \/ InService /\ \E ok \in BOOLEAN : Delete(ok)
  \/ InService /\ KillCommand
  \/ InService /\ EditUnit
  \/ InService /\ EditConfiguration
  \/ InService /\ StopReceiver
  \/ InService /\ CrashAndRelaunch
  \/ InService /\ LogIn
  \/ InService /\ \E b \in Binaries, build \in Builds : Replace(b, build)
  \/ InRetention /\ \E k \in StoredKinds : WriteRecord(k)
  \/ InRetention /\ Tick
  \/ InRetention /\ LookOnly
  \/ InRetention /\ SetClockBack
  \/ InRetention /\ StartSweeping
  \/ InRetention /\ StopSweeping
  \/ InRetention /\ \E done \in SUBSET StoredKinds : SweepLedger(done)
  \/ InRetention /\ \E s \in SettingsRead : EditStorage(s)

UpkeepSpec == UpkeepInit /\ [][UpkeepNext]_all
=============================================================================
