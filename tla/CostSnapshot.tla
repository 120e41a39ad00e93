---------------------------- MODULE CostSnapshot ----------------------------
(***************************************************************************)
(* The receiver's per-session cost totals and the two files that keep      *)
(* them: cost_snapshot.jsonl, rewritten at each retention sweep, and       *)
(* cost_changes.jsonl, the rows changed since (cost.rs).                   *)
(*                                                                         *)
(* Requests add the metrics they carry to the accumulator (accumulator.rs) *)
(* while one blocking worker flushes: it computes the sessions' rows,      *)
(* takes them into its in-memory snapshot and rewrites the changes file;   *)
(* at a sweep it drops expired rows, rewrites the snapshot file, removes   *)
(* the changes file and forgets the expired sessions (serve.rs).  Any      *)
(* write may fail and the receiver may die between any two; a report reads *)
(* the two files meanwhile, without a lock.                                *)
(*                                                                         *)
(* A file is written to a temporary and renamed, so a write is one step; a *)
(* file that is missing holds no row.  A row is reduced to its time, one   *)
(* metric's total and that metric's breakdown by series.  The project a    *)
(* row carries is not modelled here.                                       *)
(***************************************************************************)
EXTENDS Integers, FiniteSets, Functions

CONSTANTS
  Sessions,
  Series,         \* what the breakdown of a total distinguishes
  Delta,          \* sessions whose metric has delta temporality, not cumulative
  Horizon,        \* retention: how long a session is kept after it was heard
  ClockStepsBack, \* whether the wall clock may be set back
  \* Bounds of the model.
  MaxTime,        \* the clock stops here
  MaxReports,     \* metric batches per session
  MaxFaults       \* failed writes, crashes, unreadable files, clock steps

ASSUME CostAssumption ==
  /\ IsFiniteSet(Sessions) /\ IsFiniteSet(Series)
  /\ Delta \subseteq Sessions
  /\ ClockStepsBack \in BOOLEAN
  /\ Horizon \in Nat /\ MaxTime \in Nat /\ MaxReports \in Nat /\ MaxFaults \in Nat

VARIABLES
  now,       \* the wall clock
  snapshot,  \* cost_snapshot.jsonl: session -> row
  changes,   \* cost_changes.jsonl: session -> row
  mem,       \* the receiver's Costs: none (no receiver), loaded, unreadable
  rows,      \* Snapshot::rows
  changed,   \* Snapshot::changed
  unsaved,   \* Snapshot::unsaved
  baseline,  \* Costs::baseline, the rows the receiver started from
  acc,       \* Accumulator: session -> what this receiver heard of it
  pc,        \* where the worker is
  final,     \* whether the worker makes the last flush before the exit
  stopping,  \* whether the server has drained
  cutoff,    \* the sweep's retention.cutoff
  reader,    \* a report: what the files held when it read the first of them, and
             \* the sessions whose rows on disk the receiver had dropped by then
             \* or has since
  reported,  \* history: session -> series -> what was reported and not lost
  heard,     \* history: when each session was last heard
  behind,    \* history: sessions heard when the clock was not after that
  saved,     \* history: the rows as of the last write that succeeded
  lapse,     \* history: whether the last write of changed rows failed
  faults     \* faults so far

files   == <<snapshot, changes>>
memory  == <<mem, rows, changed, unsaved, baseline>>
history == <<reported, heard, behind, saved, lapse>>
vars == <<now, snapshot, changes, mem, rows, changed, unsaved, baseline, acc, pc, final, stopping,
          cutoff, reader, reported, heard, behind, saved, lapse, faults>>

Nothing == [k \in Series |-> 0]
Row     == [ts : Nat, total : Nat, by : [Series -> Nat]]
NoRow   == [ts |-> 0, total |-> 0, by |-> Nothing]
NoRows  == [s \in Sessions |-> NoRow]

\* A session this receiver has not heard, or heard without a metric: no series.
Unheard == [seen |-> 0, by |-> [k \in {} |-> 0]]

Max2(a, b) == IF a > b THEN a ELSE b

Held(table) == {s \in Sessions : table[s] # NoRow}

Only(table, S) == [s \in Sessions |-> IF s \in S THEN table[s] ELSE NoRow]

\* fold: the later row of a session wins, and a tie goes to the changes.
Fold(c, f) == [s \in Sessions |-> IF c[s].ts >= f[s].ts THEN c[s] ELSE f[s]]

\* What the files hold, to a reader or to the next receiver.
Disk == Fold(changes, snapshot)

-----------------------------------------------------------------------------
(***************************************************************************)
(* Requests: metrics and events, folded into the accumulator under its     *)
(* lock.  Each is stamped with the time it arrives, no two with the same.  *)
(***************************************************************************)

Observed(s) == DOMAIN acc[s].by # {}

\* A delta point adds to its series; a cumulative exporter reports the current
\* total of every series it has.
Folded(s, k) ==
  IF s \in Delta
  THEN [j \in DOMAIN acc[s].by \cup {k} |->
          (IF j \in DOMAIN acc[s].by THEN acc[s].by[j] ELSE 0) + (IF j = k THEN 1 ELSE 0)]
  ELSE [j \in {i \in Series : reported'[s][i] > 0} |-> reported'[s][j]]

Hear(s, by) ==
  /\ mem # "none" /\ ~stopping
  /\ now < MaxTime /\ now' = now + 1
  /\ acc' = [acc EXCEPT ![s] = [seen |-> Max2(acc[s].seen, now), by |-> by]]
  /\ heard' = [heard EXCEPT ![s] = Max2(@, now)]
  /\ behind' = IF heard[s] < now THEN behind ELSE behind \cup {s}
  /\ UNCHANGED <<files, memory, pc, final, stopping, cutoff, reader, saved, lapse, faults>>

IngestMetrics(s) ==
  /\ SumFunction(reported[s]) < MaxReports
  /\ \E k \in Series :
       /\ reported' = [reported EXCEPT ![s][k] = @ + 1]
       /\ Hear(s, Folded(s, k))

IngestEvents(s) == Hear(s, acc[s].by) /\ UNCHANGED reported

-----------------------------------------------------------------------------
(***************************************************************************)
(* The worker's flush.                                                     *)
(***************************************************************************)

\* merge_counts: a series of this run accumulates on the baseline or replaces
\* it; one that only the baseline has keeps its value.
Merged(base, by, delta) ==
  [k \in Series |->
     IF k \in DOMAIN by THEN (IF delta THEN base[k] ELSE 0) + by[k] ELSE base[k]]

WrongCurrentRow(s) ==
  [ts    |-> acc[s].seen,
   total |-> SumFunction(acc[s].by) + (IF s \in Delta THEN rows[s].total ELSE 0),
   by    |-> Merged(rows[s].by, acc[s].by, s \in Delta)]

\* The row of a session with metrics: what the receiver started from counts
\* only where the metric is delta.
CurrentRow(s) ==
  [ts    |-> acc[s].seen,
   total |-> SumFunction(acc[s].by) + (IF s \in Delta THEN baseline[s].total ELSE 0),
   by    |-> Merged(baseline[s].by, acc[s].by, s \in Delta)]

\* persist_cost and the first half of record: the rows that differ are taken.
\* Nothing is written when none differs and none is left from a failed write.
Persist ==
  LET differ == {s \in Sessions : Observed(s) /\ CurrentRow(s) # rows[s]}
  IN /\ pc \in {"idle", "waiting"} /\ ~final
     /\ final' = stopping
     /\ IF mem = "loaded"
        THEN /\ rows' = [s \in Sessions |-> IF s \in differ THEN CurrentRow(s) ELSE rows[s]]
             /\ changed' = changed \cup differ
             /\ unsaved' = (unsaved \/ differ # {})
             /\ pc' = IF unsaved' THEN "record" ELSE "idle"
        ELSE UNCHANGED <<rows, changed, unsaved>> /\ pc' = "idle"
     /\ UNCHANGED <<now, files, mem, baseline, acc, stopping, cutoff, reader, history, faults>>

WrongRecorded ==
  /\ pc' = "idle" /\ unsaved' = FALSE
  /\ \/ changes' = Only(rows, changed) /\ saved' = rows /\ lapse' = FALSE /\ UNCHANGED faults
     \/ faults < MaxFaults /\ faults' = faults + 1 /\ lapse' = TRUE /\ UNCHANGED <<changes, saved>>

\* The changes file is rewritten; a write that fails leaves it to the next record.
Recorded ==
  /\ pc' = "idle"
  /\ \/ /\ changes' = Only(rows, changed) /\ unsaved' = FALSE
        /\ saved' = rows /\ lapse' = FALSE
        /\ UNCHANGED faults
     \/ /\ faults < MaxFaults /\ faults' = faults + 1
        /\ lapse' = TRUE
        /\ UNCHANGED <<changes, unsaved, saved>>

RecordChanges ==
  /\ pc = "record" /\ Recorded
  /\ UNCHANGED <<now, snapshot, mem, rows, changed, baseline, acc, final, stopping, cutoff, reader,
                 reported, heard, behind>>

-----------------------------------------------------------------------------
(***************************************************************************)
(* The sweep, at the start and then after a flush, and the checkpoint it   *)
(* shares with the last flush.  Whether one is due is left open.           *)
(***************************************************************************)

\* A delta session last heard before the cutoff counts from zero if heard again.
AfterExpiry(since) ==
  [s \in Sessions |-> IF s \in Delta /\ heard[s] < since THEN Nothing ELSE reported[s]]

\* checkpoint drops the expired rows, then writes; without a readable snapshot
\* there is no checkpoint.
Drop(since, otherwise) ==
  /\ cutoff' = since
  /\ reported' = AfterExpiry(since)
  /\ IF mem = "loaded"
     THEN rows' = Only(rows, {s \in Sessions : rows[s].ts >= since}) /\ pc' = "snapshot"
     ELSE UNCHANGED rows /\ pc' = otherwise
  /\ reader' = [reader EXCEPT !.expired = @ \cup {s \in Held(rows) : reader.reading /\ rows'[s] = NoRow}]
  /\ UNCHANGED <<now, files, mem, changed, unsaved, baseline, acc, final, stopping,
                 heard, behind, saved, lapse, faults>>

Sweep == pc \in {"start", "idle"} /\ ~final /\ Drop(Max2(now - Horizon, 0), "forget")

\* The configuration file cannot be read: nothing is deleted.
SkipSweep ==
  /\ pc \in {"start", "idle"} /\ ~final
  /\ pc' = "waiting"
  /\ UNCHANGED <<now, files, memory, acc, final, stopping, cutoff, reader, history, faults>>

\* flush_on_stop, after its own flush: an unreadable configuration keeps all.
FinalCheckpoint ==
  /\ pc = "idle" /\ final
  /\ \E since \in {0, Max2(now - Horizon, 0)} : Drop(since, "exit")

AfterCheckpoint == IF final THEN "exit" ELSE "forget"

WrongSnapshotWritten ==
  \/ /\ snapshot' = rows /\ changed' = {} /\ unsaved' = TRUE /\ pc' = "clear"
     /\ saved' = rows /\ lapse' = FALSE
     /\ UNCHANGED faults
  \/ /\ faults < MaxFaults /\ faults' = faults + 1
     /\ pc' = "clear"
     /\ UNCHANGED <<snapshot, changed, unsaved, saved, lapse>>

SnapshotWritten ==
  \/ /\ snapshot' = rows /\ changed' = {} /\ unsaved' = TRUE /\ pc' = "clear"
     /\ saved' = rows /\ lapse' = FALSE
     /\ UNCHANGED faults
  \/ /\ faults < MaxFaults /\ faults' = faults + 1
     /\ pc' = AfterCheckpoint
     /\ UNCHANGED <<snapshot, changed, unsaved, saved, lapse>>

WriteSnapshot ==
  /\ pc = "snapshot" /\ SnapshotWritten
  /\ UNCHANGED <<now, changes, mem, rows, baseline, acc, final, stopping, cutoff, reader,
                 reported, heard, behind>>

\* The changes are removed once the snapshot holds them; where that fails the
\* next record rewrites them.
ClearChanges ==
  /\ pc = "clear" /\ pc' = AfterCheckpoint
  /\ \/ changes' = NoRows /\ unsaved' = FALSE /\ UNCHANGED faults
     \/ faults < MaxFaults /\ faults' = faults + 1 /\ UNCHANGED <<changes, unsaved>>
  /\ UNCHANGED <<now, snapshot, mem, rows, changed, baseline, acc, final, stopping, cutoff, reader,
                 history>>

\* The end of a sweep: the baseline keeps the sessions with a row, and the
\* accumulator, under a lock of its own, those heard since the cutoff.
Forget ==
  /\ pc = "forget" /\ pc' = "waiting"
  /\ baseline' = Only(baseline, Held(rows))
  /\ acc' = [s \in Sessions |-> IF acc[s].seen >= cutoff THEN acc[s] ELSE Unheard]
  /\ cutoff' = 0
  /\ UNCHANGED <<now, files, mem, rows, changed, unsaved, final, stopping, reader, history, faults>>

-----------------------------------------------------------------------------
(***************************************************************************)
(* The receiver's life.                                                    *)
(***************************************************************************)

\* What a receiver that ends takes with it: the delta reports the files lack.
Lost == [s \in Sessions |-> IF s \in Delta THEN Disk[s].by ELSE reported[s]]

Gone ==
  /\ mem' = "none" /\ pc' = "down"
  /\ rows' = NoRows /\ changed' = {} /\ unsaved' = FALSE /\ baseline' = NoRows
  /\ acc' = [s \in Sessions |-> Unheard]
  /\ final' = FALSE /\ stopping' = FALSE /\ cutoff' = 0
  /\ UNCHANGED <<now, files, reader, heard, behind, saved>>

\* Snapshot::load, in the receiver that holds the state lock.  A file that
\* cannot be read or parsed leaves the run without a snapshot.
Load ==
  /\ pc = "down" /\ pc' = "start"
  /\ \/ /\ mem' = "loaded"
        /\ rows' = Disk /\ baseline' = Disk /\ changed' = Held(changes)
        /\ UNCHANGED faults
     \/ /\ faults < MaxFaults /\ faults' = faults + 1
        /\ mem' = "unreadable"
        /\ UNCHANGED <<rows, baseline, changed>>
  /\ unsaved' = FALSE
  /\ UNCHANGED <<now, files, acc, final, stopping, cutoff, reader, history>>

\* A stop request: the server has drained and every request is accounted for.
Drain ==
  /\ mem # "none" /\ ~stopping
  /\ stopping' = TRUE
  /\ UNCHANGED <<now, files, memory, acc, pc, final, cutoff, reader, history, faults>>

\* A graceful exit loses only what it could not write or never had a snapshot for.
Exit ==
  /\ pc = "exit" /\ Gone
  /\ reported' = IF lapse \/ mem = "unreadable" THEN Lost ELSE reported
  /\ lapse' = FALSE
  /\ UNCHANGED faults

Crash ==
  /\ mem # "none" /\ Gone
  /\ faults < MaxFaults /\ faults' = faults + 1
  /\ reported' = Lost
  /\ lapse' = FALSE

NoReader == [reading |-> FALSE, changes |-> NoRows, snapshot |-> NoRows, expired |-> {}]

\* read_snapshot reads the changes, then the snapshot.
BeginRead ==
  /\ ~reader.reading
  /\ reader' = [reading |-> TRUE, changes |-> changes, snapshot |-> snapshot,
                expired |-> {s \in Sessions : mem = "loaded" /\ rows[s].total < Disk[s].total}]
  /\ UNCHANGED <<now, files, memory, acc, pc, final, stopping, cutoff, history, faults>>

WrongView == Fold(changes, reader.snapshot)

View == Fold(reader.changes, snapshot)

EndRead ==
  /\ reader.reading
  /\ reader' = NoReader
  /\ UNCHANGED <<now, files, memory, acc, pc, final, stopping, cutoff, history, faults>>

Advance ==
  /\ now < MaxTime /\ now' = now + 1
  /\ UNCHANGED <<files, memory, acc, pc, final, stopping, cutoff, reader, history, faults>>

StepBack ==
  /\ ClockStepsBack /\ \E t \in 1..(now - 1) : now' = t
  /\ faults < MaxFaults /\ faults' = faults + 1
  /\ UNCHANGED <<files, memory, acc, pc, final, stopping, cutoff, reader, history>>

-----------------------------------------------------------------------------
Init ==
  /\ now = 1
  /\ snapshot = NoRows /\ changes = NoRows
  /\ mem = "none" /\ rows = NoRows /\ changed = {} /\ unsaved = FALSE /\ baseline = NoRows
  /\ acc = [s \in Sessions |-> Unheard]
  /\ pc = "down" /\ final = FALSE /\ stopping = FALSE /\ cutoff = 0
  /\ reader = NoReader
  /\ reported = [s \in Sessions |-> Nothing]
  /\ heard = [s \in Sessions |-> 0] /\ behind = {}
  /\ saved = NoRows /\ lapse = FALSE
  /\ faults = 0

Worker == Persist \/ RecordChanges \/ FinalCheckpoint \/ WriteSnapshot \/ ClearChanges \/ Forget

Next ==
  \/ \E s \in Sessions : IngestMetrics(s) \/ IngestEvents(s)
  \/ Worker \/ Sweep \/ SkipSweep
  \/ Load \/ Drain \/ Exit \/ Crash
  \/ BeginRead \/ EndRead
  \/ Advance \/ StepBack

\* The worker's thread runs, a receiver that stopped is started again, and its
\* first sweep is made or skipped.
Fairness ==
  /\ WF_vars(Worker) /\ WF_vars(Load) /\ WF_vars(Exit)
  /\ WF_vars(pc = "start" /\ (Sweep \/ SkipSweep))

Spec     == Init /\ [][Next]_vars
FairSpec == Spec /\ Fairness

-----------------------------------------------------------------------------
(***************************************************************************)
(* Properties.                                                             *)
(***************************************************************************)

\* What a write reported as done stays what a report reads and the next receiver
\* loads, until another write succeeds: no failed write, crash, unreadable file
\* or half-made checkpoint loses or replaces it.  Of a session that was heard on a
\* clock set back the files can have two rows whose times say the wrong order.
SavedIsDurable == \A s \in Held(saved) \ behind : Disk[s] = saved[s]

\* A report that reads while the receiver writes misses no session that did not
\* expire meanwhile and shows none with less than it had when the report began
\* ("a read that races one finds each row in at least one of the two", cost.rs).
ReaderMissesNothing ==
  LET before == Fold(reader.changes, reader.snapshot)
  IN reader.reading =>
       \A s \in Held(before) \ (reader.expired \cup behind) : View[s].total >= before[s].total

\* Across stops, restarts and failed writes every report counts exactly once:
\* the row a session has, or gets at the next flush, is what was reported of it
\* and not lost, in total and by series, whatever its temporality.
CountedOnce ==
  mem = "loaded" =>
    \A s \in Sessions \ behind :
      LET row == IF Observed(s) THEN CurrentRow(s) ELSE rows[s]
      IN s \in Delta \/ Observed(s) =>
           row.by = reported[s] /\ row.total = SumFunction(reported[s])

\* Once nothing more is reported and no step fails, what was reported is on
\* disk, unless the receiver started from files it could not read.
EventuallySaved ==
  <>[](\/ mem = "unreadable"
       \/ \A s \in Delta : Disk[s].by = reported[s] /\ Disk[s].total = SumFunction(reported[s]))

\* "A session last heard before the horizon leaves the snapshot and this
\* receiver's memory together, so one heard again counts only what it reports
\* from then on." (serve.rs, on sweep)
HeardAgainCountsAfresh ==
  mem = "loaded" /\ pc \in {"idle", "waiting"} =>
    \A s \in Delta : Observed(s) => CurrentRow(s).total <= SumFunction(reported[s])

=============================================================================
