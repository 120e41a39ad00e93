----------------------------- MODULE MCRunning -----------------------------
(***************************************************************************)
(* Instances of the running receiver: its life, from its start to the end  *)
(* of its stop, and the cost totals it keeps meanwhile.  CostSnapshot has  *)
(* one receiver at a time, so the two share no state: a behaviour is of    *)
(* one of them, and the other rests where nothing it is fair to is         *)
(* enabled.                                                                *)
(***************************************************************************)
EXTENDS MCCostSnapshot, Receiver

CONSTANTS svc, man, p1

VARIABLE part

rest == <<part, vars, rvars>>

SamePort == (svc :> p1) @@ (man :> p1)
-----------------------------------------------------------------------------
\* A worker with nothing to flush, of a receiver without a snapshot.
CostsRest ==
  /\ now = MaxTime /\ snapshot = NoRows /\ changes = NoRows
  /\ mem = "unreadable" /\ rows = NoRows /\ changed = {} /\ unsaved = FALSE /\ baseline = NoRows
  /\ acc = [s \in Sessions |-> Unheard]
  /\ pc = "idle" /\ final = FALSE /\ stopping = FALSE /\ cutoff = 0 /\ reader = NoReader
  /\ reported = [s \in Sessions |-> Nothing] /\ heard = [s \in Sessions |-> 0]
  /\ behind = {}
  /\ saved = NoRows /\ lapse = FALSE /\ faults = 0

RunningInit ==
  /\ part \in {"costs", "receiver"}
  /\ IF part = "costs" THEN Init ELSE CostsRest
  /\ RInit /\ (part = "costs" => conf = CHOOSE x \in Dirs : TRUE)

InCosts    == part = "costs" /\ UNCHANGED <<part, rvars>>
InReceiver == part = "receiver" /\ UNCHANGED <<part, vars>>

\* Every action is a disjunct of its own, so that a run reports each.
RunningNext ==
  \/ InCosts /\ \E s \in Sessions : IngestMetrics(s)
  \/ InCosts /\ \E s \in Sessions : IngestEvents(s)
  \/ InCosts /\ Persist
  \/ InCosts /\ RecordChanges
  \/ InCosts /\ FinalCheckpoint
  \/ InCosts /\ WriteSnapshot
  \/ InCosts /\ ClearChanges
  \/ InCosts /\ Forget
  \/ InCosts /\ Sweep
  \/ InCosts /\ SkipSweep
  \/ InCosts /\ Load
  \/ InCosts /\ Drain
  \/ InCosts /\ Exit
  \/ InCosts /\ Crash
  \/ InCosts /\ BeginRead
  \/ InCosts /\ EndRead
  \/ InCosts /\ Advance
  \/ InReceiver /\ \E r \in Receivers : StartReceiver(r)
  \/ InReceiver /\ \E r \in Receivers : Startup(r)
  \/ InReceiver /\ \E r \in Receivers : Lock(r)
  \/ InReceiver /\ \E r \in Receivers : Bind(r)
  \/ InReceiver /\ \E r \in Receivers : BootFails(r)
  \/ InReceiver /\ \E r \in Receivers : Retry(r)
  \/ InReceiver /\ \E r \in Receivers : RequestStop(r)
  \/ InReceiver /\ \E r \in Receivers : FlushReads(r)
  \/ InReceiver /\ \E r \in Receivers : FlushWrites(r)
  \/ InReceiver /\ \E r \in Receivers : Stops(r)
  \/ InReceiver /\ \E r \in Receivers : Drained(r)
  \/ InReceiver /\ \E r \in Receivers : DurableStops(r)
  \/ InReceiver /\ \E r \in Receivers : PermitsReturn(r)
  \/ InReceiver /\ \E r \in Receivers : WorkerEnds(r)
  \/ InReceiver /\ \E r \in Receivers : FinalFlush(r)
  \/ InReceiver /\ \E r \in Receivers : ExitReceiver(r)
  \/ InReceiver /\ \E r \in Receivers : KillReceiver(r)
  \/ InReceiver /\ \E q \in Requests : Permit(q)
  \/ InReceiver /\ \E q \in Requests : Body(q)
  \/ InReceiver /\ \E q \in Requests : Decode(q)
  \/ InReceiver /\ \E q \in Requests : Disconnect(q)
  \/ InReceiver /\ \E q \in Requests, r \in Receivers : Asks(q, r)
  \/ InReceiver /\ \E x \in Dirs \cup {BrokenFile} : Edit(x)

RunningSpec == RunningInit /\ [][RunningNext]_rest /\ Fairness /\ RFairness
=============================================================================
