------------------------- MODULE CostSnapshotProofs -------------------------
(***************************************************************************)
(* Theorems about CostSnapshot, for any sessions, series, retention and    *)
(* limits, and a clock that may be set back.                               *)
(*                                                                         *)
(* CInv is inductive: the types; what the worker's place tells; that no    *)
(* row is dated later than its session was heard; that a cumulative row is *)
(* never more than was reported; how the rows in memory stand to those on  *)
(* file, to the accumulator and to the baseline; and what a report that    *)
(* reads still finds.  What decides is the tie: a row of the changes file  *)
(* that is as new as the row in memory is that row, so writing the         *)
(* snapshot beside old changes replaces nothing.                           *)
(*                                                                         *)
(* EInv adds, for behaviours within the retention, that nothing reported   *)
(* is lost or counted again: it is in the baseline and the accumulator     *)
(* while a receiver runs, and on disk while none does.                     *)
(***************************************************************************)
EXTENDS CostSnapshot, SumFacts, TLAPS

\* What a session has on file, in memory and in a report stays a row of its kind.
Table == [Sessions -> Row]

\* The series this receiver heard of a session.
Heards(s) == DOMAIN acc[s].by

CTypeOK ==
  /\ now \in Nat /\ cutoff \in Nat /\ faults \in Nat
  /\ snapshot \in Table /\ changes \in Table /\ rows \in Table /\ baseline \in Table
  /\ saved \in Table
  /\ mem \in {"none", "loaded", "unreadable"} /\ changed \in SUBSET Sessions
  /\ behind \in SUBSET Sessions
  /\ unsaved \in BOOLEAN /\ final \in BOOLEAN /\ stopping \in BOOLEAN /\ lapse \in BOOLEAN
  /\ acc = [s \in Sessions |-> [seen |-> acc[s].seen, by |-> acc[s].by]]
  /\ \A s \in Sessions :
       acc[s].seen \in Nat /\ Heards(s) \subseteq Series /\ acc[s].by \in [Heards(s) -> Nat]
  /\ pc \in {"down", "start", "waiting", "idle", "record", "snapshot", "clear", "forget", "exit"}
  /\ reader \in [reading : BOOLEAN, changes : Table, snapshot : Table, expired : SUBSET Sessions]
  /\ reported \in [Sessions -> [Series -> Nat]] /\ heard \in [Sessions -> Nat]

\* Where the worker is tells what the receiver has.
Standing ==
  /\ pc = "down" => mem = "none" /\ ~final /\ ~lapse /\ \A s \in Sessions : acc[s] = Unheard
  /\ mem = "none" => pc = "down"
  /\ pc \in {"record", "snapshot", "clear"} => mem = "loaded"
  /\ pc = "clear" => snapshot = rows /\ saved = rows /\ changed = {}
  /\ final => stopping /\ pc \in {"record", "idle", "snapshot", "clear", "exit"}
  /\ pc = "exit" => final
  /\ pc \notin {"snapshot", "clear", "forget", "exit"} => cutoff = 0

\* No row is dated after its session was last heard; what the accumulator has of a session that
\* was never heard behind its time it heard when the session was last heard.
Stamped ==
  /\ now > 0
  /\ \A s \in Sessions :
     /\ snapshot[s].ts <= heard[s] /\ changes[s].ts <= heard[s] /\ rows[s].ts <= heard[s]
     /\ acc[s].seen <= heard[s]
     /\ s \notin behind => acc[s].seen \in {0, heard[s]}
     /\ Observed(s) => acc[s].seen > 0
     /\ \A k \in DOMAIN acc[s].by : acc[s].by[k] > 0

\* A row of a session is none, or has a time and a total.
Proper(row) == row = NoRow \/ (row.ts > 0 /\ row.total > 0)

ProperRows ==
  \A s \in Sessions : Proper(snapshot[s]) /\ Proper(changes[s]) /\ Proper(rows[s])

\* A cumulative exporter never reports less than a row has.
Cumulative ==
  \A s \in Sessions \ Delta :
    /\ Observed(s) => acc[s].by = [j \in {i \in Series : reported[s][i] > 0} |-> reported[s][j]]
    /\ snapshot[s].total <= SumFunction(reported[s])
    /\ changes[s].total <= SumFunction(reported[s])
    /\ rows[s].total <= SumFunction(reported[s])

\* What a session's row in memory is to the files, the accumulator and the baseline.
RowInMemory(s) ==
  /\ s \in changed \/ rows[s] = snapshot[s] \/ rows[s] = NoRow
  /\ rows[s] # NoRow =>
       /\ snapshot[s].ts <= rows[s].ts /\ changes[s].ts <= rows[s].ts
       /\ changes[s].ts = rows[s].ts => changes[s] = rows[s]
       /\ ~Observed(s) => rows[s] = baseline[s]
       /\ Observed(s) => rows[s].total <= CurrentRow(s).total
       /\ pc \in {"snapshot", "clear", "forget"} => cutoff <= rows[s].ts
  /\ Observed(s) /\ changes[s].ts = acc[s].seen =>
       /\ changes[s] = CurrentRow(s)
       /\ rows[s] = NoRow => acc[s].seen < cutoff
  /\ Observed(s) /\ rows[s].ts = acc[s].seen => rows[s] = CurrentRow(s)

InMemory == mem = "loaded" => \A s \in Sessions \ behind : RowInMemory(s)

\* What a report that began with row `was` of a session still finds.
AtLeast(row, was) == was.ts <= row.ts /\ was.total <= row.total

Before == Fold(reader.changes, reader.snapshot)

Readable ==
  reader.reading => \A s \in Held(Before) \ (reader.expired \cup behind) :
    /\ Proper(Before[s])
    /\ AtLeast(Disk[s], Before[s])
    /\ mem = "loaded" => rows[s] # NoRow /\ AtLeast(rows[s], Before[s])
    /\ snapshot[s] = reader.snapshot[s] \/ AtLeast(snapshot[s], Before[s])

CInv == /\ CTypeOK /\ Standing /\ Stamped /\ ProperRows /\ Cumulative /\ InMemory
        /\ Readable /\ SavedIsDurable

\* Nothing expires before the horizon: a row that is missing in memory is missing everywhere.
NothingExpired ==
  /\ now <= Horizon /\ cutoff = 0
  /\ mem = "loaded" => \A s \in Sessions :
       /\ rows[s] = NoRow => snapshot[s] = NoRow /\ changes[s] = NoRow /\ baseline[s] = NoRow
       /\ ~Observed(s) => rows[s] = baseline[s]

\* A row's total is the sum of its breakdown, and a cumulative one's breakdown what was reported,
\* or less.
Whole(s, row) ==
  /\ row.total = SumFunction(row.by)
  /\ s \notin Delta => \A k \in Series : row.by[k] <= reported[s][k]

WholeRows ==
  \A s \in Sessions \ behind :
    Whole(s, snapshot[s]) /\ Whole(s, changes[s]) /\ Whole(s, rows[s]) /\ Whole(s, baseline[s])

Heard(s, k) == IF k \in DOMAIN acc[s].by THEN acc[s].by[k] ELSE 0

\* The delta reports: all in the baseline and the accumulator while a receiver runs, all on disk
\* while none does; and what is in memory is on disk unless a write failed or is to come.
Conserved ==
  /\ pc = "down" => \A s \in Delta \ behind : Disk[s].by = reported[s]
  /\ mem = "loaded" =>
       /\ \A s \in Delta \ behind, k \in Series : reported[s][k] = baseline[s].by[k] + Heard(s, k)
       /\ ~lapse /\ pc # "record" => \A s \in Sessions \ behind : Disk[s] = rows[s]
       /\ final => \A s \in Sessions : Observed(s) => rows[s] = CurrentRow(s)

EInv == NothingExpired /\ WholeRows /\ Conserved

-----------------------------------------------------------------------------
(***************************************************************************)
(* Rows.                                                                   *)
(***************************************************************************)

LEMMA NoRowFacts ==
  /\ NoRow \in Row /\ NoRow.ts = 0 /\ NoRow.total = 0 /\ NoRow.by = Nothing
  /\ NoRows \in Table /\ \A s \in Sessions : NoRows[s] = NoRow
BY DEF NoRow, Row, Nothing, NoRows, Table

LEMMA RowFacts ==
  ASSUME NEW t \in Table, NEW s \in Sessions
  PROVE  /\ t[s] \in Row /\ t[s].ts \in Nat /\ t[s].total \in Nat /\ t[s].by \in [Series -> Nat]
         /\ Proper(t[s]) => (t[s].ts = 0 <=> t[s] = NoRow) /\ (t[s].total = 0 <=> t[s] = NoRow)
BY NoRowFacts DEF Table, Row, Proper

LEMMA OnlyFacts ==
  ASSUME NEW t \in Table, NEW S
  PROVE  /\ Only(t, S) \in Table
         /\ \A s \in Sessions : Only(t, S)[s] = IF s \in S THEN t[s] ELSE NoRow
BY NoRowFacts DEF Table, Only

LEMMA FoldFacts ==
  ASSUME NEW c \in Table, NEW f \in Table
  PROVE  /\ Fold(c, f) \in Table
         /\ \A s \in Sessions : Fold(c, f)[s] = IF c[s].ts >= f[s].ts THEN c[s] ELSE f[s]
         /\ \A s \in Sessions : c[s].ts <= Fold(c, f)[s].ts /\ f[s].ts <= Fold(c, f)[s].ts
BY DEF Table, Fold, Row

\* Two tables are the same when they are row by row.
LEMMA TableEqual ==
  ASSUME NEW t \in Table, NEW u \in Table, \A s \in Sessions : t[s] = u[s]
  PROVE  t = u
BY DEF Table

LEMMA MaxOf ==
  ASSUME NEW a \in Int, NEW b \in Int
  PROVE  Max2(a, b) \in Int /\ Max2(a, b) >= a /\ Max2(a, b) >= b /\ Max2(a, b) \in {a, b}
BY DEF Max2

\* What is counted by series has a total.
LEMMA CountNat ==
  ASSUME NEW D \in SUBSET Series, NEW f \in [D -> Nat]
  PROVE  SumFunction(f) \in Nat /\ IsFiniteSet(D)
<1>1. IsFiniteSet(D) /\ DOMAIN f = D /\ \A x \in D : f[x] \in Nat
  BY CostAssumption, FS_Subset
<1> QED
  BY <1>1, SumNat DEF SumFunction

\* What the accumulator has of a session.
LEMMA AccFacts ==
  ASSUME CTypeOK, NEW s \in Sessions
  PROVE  /\ acc[s].seen \in Nat /\ Heards(s) \subseteq Series /\ IsFiniteSet(Heards(s))
         /\ acc[s].by \in [Heards(s) -> Nat] /\ acc[s] = [seen |-> acc[s].seen, by |-> acc[s].by]
         /\ SumFunction(acc[s].by) \in Nat
<1>1. /\ acc[s].seen \in Nat /\ Heards(s) \subseteq Series
      /\ acc[s].by \in [Heards(s) -> Nat] /\ acc[s] = [seen |-> acc[s].seen, by |-> acc[s].by]
  BY DEF CTypeOK
<1> QED
  BY <1>1, CountNat

LEMMA CurrentRowFacts ==
  ASSUME CTypeOK, NEW s \in Sessions
  PROVE  /\ CurrentRow(s) \in Row
         /\ CurrentRow(s).ts = acc[s].seen
         /\ CurrentRow(s).total =
              SumFunction(acc[s].by) + (IF s \in Delta THEN baseline[s].total ELSE 0)
         /\ CurrentRow(s).by = Merged(baseline[s].by, acc[s].by, s \in Delta)
<1>1. baseline[s].total \in Nat /\ baseline[s].by \in [Series -> Nat]
  BY RowFacts DEF CTypeOK
<1>2. Merged(baseline[s].by, acc[s].by, s \in Delta) \in [Series -> Nat]
  <2> SUFFICES ASSUME NEW k \in Series
               PROVE  (IF k \in DOMAIN acc[s].by
                       THEN (IF s \in Delta THEN baseline[s].by[k] ELSE 0) + acc[s].by[k]
                       ELSE baseline[s].by[k]) \in Nat
    BY DEF Merged
  <2>1. k \in DOMAIN acc[s].by => acc[s].by[k] \in Nat
    BY AccFacts DEF Heards
  <2>2. baseline[s].by[k] \in Nat
    BY <1>1
  <2> QED
    BY <2>1, <2>2
<1>3. SumFunction(acc[s].by) + (IF s \in Delta THEN baseline[s].total ELSE 0) \in Nat
  <2>1. SumFunction(acc[s].by) \in Nat
    BY AccFacts
  <2>2. (IF s \in Delta THEN baseline[s].total ELSE 0) \in Nat
    <3>1. CASE s \in Delta
      BY <1>1, <3>1
    <3>2. CASE s \notin Delta
      BY <3>2
    <3> QED
      BY <3>1, <3>2
  <2> QED
    BY <2>1, <2>2
<1>4. acc[s].seen \in Nat
  BY AccFacts
<1> QED
  BY <1>2, <1>3, <1>4 DEF CurrentRow, Row

\* A session heard with a metric has counted something.
LEMMA ObservedCounts ==
  ASSUME CTypeOK, Stamped, NEW s \in Sessions, Observed(s)
  PROVE  SumFunction(acc[s].by) > 0 /\ acc[s].seen > 0 /\ Proper(CurrentRow(s))
<1>1. acc[s].seen > 0
  BY DEF Stamped
<1>2. SumFunctionOnSet(acc[s].by, Heards(s)) > 0
  <2> DEFINE f == acc[s].by
             D == Heards(s)
  <2>1. IsFiniteSet(D) /\ \A x \in D : f[x] \in Nat
    BY AccFacts
  <2>2. PICK y \in D : f[y] > 0
    BY DEF Observed, Stamped, Heards
  <2> HIDE DEF f, D
  <2>3. SumFunctionOnSet(f, D) > 0
    BY <2>1, <2>2, SumPositive
  <2> QED
    BY <2>3 DEF f, D
<1>3. SumFunction(acc[s].by) > 0
  BY <1>2 DEF SumFunction, Heards
<1>4. baseline[s].total \in Nat
  BY RowFacts DEF CTypeOK
<1>5. CurrentRow(s).total > 0
  <2>1. SumFunction(acc[s].by) \in Nat
    BY AccFacts
  <2> QED
    BY <1>3, <1>4, <2>1, CurrentRowFacts
<1>6. CurrentRow(s).ts > 0
  BY <1>1, CurrentRowFacts
<1> QED
  BY <1>1, <1>3, <1>5, <1>6 DEF Proper

-----------------------------------------------------------------------------
(***************************************************************************)
(* Each step: the types, and where the worker is.                          *)
(***************************************************************************)

LEMMA HearTypes ==
  ASSUME CTypeOK, Standing, NEW s \in Sessions, IngestMetrics(s) \/ IngestEvents(s)
  PROVE  /\ CTypeOK' /\ Standing'
         /\ now' = now + 1 /\ UNCHANGED <<files, memory, reader, saved, pc, cutoff, final, lapse>>
         /\ heard' = [heard EXCEPT ![s] = Max2(@, now)]
         /\ acc' = [acc EXCEPT ![s] = [seen |-> Max2(acc[s].seen, now), by |-> acc'[s].by]]
         /\ \A t \in Sessions : t # s => acc'[t] = acc[t] /\ reported'[t] = reported[t]
         /\ behind' = IF heard[s] < now THEN behind ELSE behind \cup {s}
<1>1. PICK by : /\ Hear(s, by)
                /\ \/ by = acc[s].by /\ UNCHANGED reported
                   \/ \E k \in Series : /\ reported' = [reported EXCEPT ![s][k] = @ + 1]
                                        /\ by = Folded(s, k)
  BY DEF IngestMetrics, IngestEvents
<1>2. reported' \in [Sessions -> [Series -> Nat]]
  <2>1. reported \in [Sessions -> [Series -> Nat]]
    BY DEF CTypeOK
  <2>2. CASE UNCHANGED reported
    BY <2>1, <2>2
  <2>3. ASSUME NEW k \in Series, reported' = [reported EXCEPT ![s][k] = @ + 1]
        PROVE  reported' \in [Sessions -> [Series -> Nat]]
    <3>1. reported[s] \in [Series -> Nat] /\ reported[s][k] + 1 \in Nat
      BY <2>1
    <3>2. [reported[s] EXCEPT ![k] = @ + 1] \in [Series -> Nat]
      BY <3>1
    <3>3. reported' = [reported EXCEPT ![s] = [reported[s] EXCEPT ![k] = @ + 1]]
      BY <2>1, <2>3
    <3> QED
      BY <2>1, <3>2, <3>3
  <2> QED
    BY <1>1, <2>2, <2>3
<1>3. DOMAIN by \subseteq Series /\ by \in [DOMAIN by -> Nat]
  <2>1. CASE by = acc[s].by
    BY <2>1, AccFacts DEF Heards
  <2>2. ASSUME NEW k \in Series, by = Folded(s, k)
        PROVE  DOMAIN by \subseteq Series /\ by \in [DOMAIN by -> Nat]
    <3>1. CASE s \in Delta
      <4>1. by = [j \in DOMAIN acc[s].by \cup {k} |->
                   (IF j \in DOMAIN acc[s].by THEN acc[s].by[j] ELSE 0) + (IF j = k THEN 1 ELSE 0)]
        BY <2>2, <3>1 DEF Folded
      <4>2. \A j \in DOMAIN acc[s].by : acc[s].by[j] \in Nat /\ j \in Series
        BY AccFacts DEF Heards
      <4> QED
        BY <4>1, <4>2
    <3>2. CASE s \notin Delta
      BY <1>2, <2>2, <3>2 DEF Folded
    <3> QED
      BY <3>1, <3>2
  <2> QED
    BY <1>1, <2>1, <2>2
<1>4. /\ acc' = [acc EXCEPT ![s] = [seen |-> Max2(acc[s].seen, now), by |-> by]]
      /\ acc'[s] = [seen |-> Max2(acc[s].seen, now), by |-> by]
      /\ \A t \in Sessions : t # s => acc'[t] = acc[t]
  BY <1>1 DEF Hear, CTypeOK
<1>5. Max2(acc[s].seen, now) \in Nat /\ Max2(heard[s], now) \in Nat
  <2>1. acc[s].seen \in Nat /\ heard[s] \in Nat /\ now \in Nat
    BY AccFacts DEF CTypeOK
  <2> QED
    BY <2>1 DEF Max2
<1>6. /\ acc' = [t \in Sessions |-> [seen |-> acc'[t].seen, by |-> acc'[t].by]]
      /\ \A t \in Sessions :
           acc'[t].seen \in Nat /\ Heards(t)' \subseteq Series /\ acc'[t].by \in [Heards(t)' -> Nat]
  <2>1. ASSUME NEW t \in Sessions
        PROVE  /\ acc'[t] = [seen |-> acc'[t].seen, by |-> acc'[t].by]
               /\ acc'[t].seen \in Nat /\ Heards(t)' \subseteq Series
               /\ acc'[t].by \in [Heards(t)' -> Nat]
    <3>1. CASE t = s
      BY <1>3, <1>4, <1>5, <3>1 DEF Heards
    <3>2. CASE t # s
      BY <1>4, <3>2, AccFacts DEF Heards
    <3> QED
      BY <3>1, <3>2
  <2>2. acc' = [t \in Sessions |-> acc'[t]]
    BY <1>4 DEF CTypeOK
  <2> QED
    BY <2>1, <2>2
<1>7. /\ now' = now + 1 /\ UNCHANGED <<files, memory, reader, saved, pc, cutoff, final, lapse>>
      /\ UNCHANGED <<stopping, faults>> /\ mem # "none"
      /\ heard' = [heard EXCEPT ![s] = Max2(@, now)]
      /\ behind' = IF heard[s] < now THEN behind ELSE behind \cup {s}
  BY <1>1 DEF Hear
<1>8. heard' \in [Sessions -> Nat] /\ behind' \in SUBSET Sessions
  BY <1>5, <1>7 DEF CTypeOK
<1>9. CTypeOK'
  BY <1>2, <1>6, <1>7, <1>8 DEF CTypeOK, files, memory
<1>10. Standing'
  BY <1>7 DEF Standing, files, memory
<1>11. \A t \in Sessions : t # s => reported'[t] = reported[t]
  BY <1>1 DEF CTypeOK
<1> QED
  BY <1>4, <1>7, <1>9, <1>10, <1>11

LEMMA PersistTypes ==
  ASSUME CTypeOK, Standing, Persist
  PROVE  CTypeOK' /\ Standing'
<1>1. /\ rows' \in Table /\ changed' \in SUBSET Sessions
      /\ unsaved' \in BOOLEAN /\ pc' \in {"record", "idle"}
  <2>1. CASE mem = "loaded"
    BY <2>1, CurrentRowFacts DEF Persist, CTypeOK, Table
  <2>2. CASE mem # "loaded"
    BY <2>2 DEF Persist, CTypeOK
  <2> QED
    BY <2>1, <2>2
<1>2. /\ UNCHANGED <<now, files, mem, baseline, acc, stopping, cutoff, reader, history, faults>>
      /\ final' = stopping /\ pc \in {"idle", "waiting"}
      /\ pc' = "record" => mem = "loaded"
  BY DEF Persist
<1> QED
  BY <1>1, <1>2 DEF CTypeOK, Standing, files, history, Heards

LEMMA RecordTypes ==
  ASSUME CTypeOK, Standing, RecordChanges
  PROVE  CTypeOK' /\ Standing'
<1>1. /\ changes' \in Table /\ saved' \in Table /\ unsaved' \in BOOLEAN /\ lapse' \in BOOLEAN
      /\ faults' \in Nat /\ pc = "record" /\ pc' = "idle"
  <2>1. pc = "record" /\ pc' = "idle"
    BY DEF RecordChanges, Recorded
  <2>2. rows \in Table /\ Only(rows, changed) \in Table
    BY OnlyFacts DEF CTypeOK
  <2>3. CASE changes' = Only(rows, changed) /\ unsaved' = FALSE /\ saved' = rows /\ lapse' = FALSE
             /\ UNCHANGED faults
    BY <2>1, <2>2, <2>3 DEF CTypeOK
  <2>4. CASE faults' = faults + 1 /\ lapse' = TRUE /\ UNCHANGED <<changes, unsaved, saved>>
    BY <2>1, <2>4 DEF CTypeOK
  <2> QED
    BY <2>3, <2>4 DEF RecordChanges, Recorded
<1>2. UNCHANGED <<now, snapshot, mem, rows, changed, baseline, acc, final, stopping, cutoff, reader,
                  reported, heard, behind>>
  BY DEF RecordChanges
<1> QED
  BY <1>1, <1>2 DEF CTypeOK, Standing, Heards

LEMMA DropTypes ==
  ASSUME CTypeOK, Standing, Sweep \/ FinalCheckpoint
  PROVE  /\ CTypeOK' /\ Standing'
         /\ UNCHANGED <<now, files, mem, changed, unsaved, baseline, acc, final, stopping,
                        heard, behind, saved, lapse, faults>>
         /\ cutoff' \in {0, Max2(now - Horizon, 0)} /\ pc \in {"start", "idle"}
         /\ pc' \in {"snapshot", "forget", "exit"} /\ (pc' = "snapshot" <=> mem = "loaded")
         /\ reported' = AfterExpiry(cutoff')
         /\ mem # "loaded" => rows' = rows
         /\ mem = "loaded" => rows' = Only(rows, {s \in Sessions : rows[s].ts >= cutoff'})
         /\ reader' = [reader EXCEPT !.expired =
              @ \cup {s \in Held(rows) : reader.reading /\ rows'[s] = NoRow}]
<1>1. PICK since, otherwise :
        /\ Drop(since, otherwise) /\ since \in {0, Max2(now - Horizon, 0)}
        /\ pc \in {"start", "idle"}
        /\ \/ ~final /\ otherwise = "forget"
           \/ final /\ otherwise = "exit"
  <2>1. CASE Sweep
    BY <2>1 DEF Sweep
  <2>2. CASE FinalCheckpoint
    BY <2>2 DEF FinalCheckpoint
  <2> QED
    BY <2>1, <2>2
<1>2. /\ UNCHANGED <<now, files, mem, changed, unsaved, baseline, acc, final, stopping,
                     heard, behind, saved, lapse, faults>>
      /\ cutoff' = since /\ reported' = AfterExpiry(since)
      /\ pc' = IF mem = "loaded" THEN "snapshot" ELSE otherwise
      /\ mem # "loaded" => rows' = rows
      /\ mem = "loaded" => rows' = Only(rows, {s \in Sessions : rows[s].ts >= since})
      /\ reader' = [reader EXCEPT !.expired =
           @ \cup {s \in Held(rows) : reader.reading /\ rows'[s] = NoRow}]
  BY <1>1 DEF Drop
<1>3. since \in Nat
  <2>1. now \in Nat /\ Horizon \in Nat
    BY CostAssumption DEF CTypeOK
  <2> QED
    BY <1>1, <2>1 DEF Max2
<1>4. rows' \in Table
  BY <1>2, OnlyFacts DEF CTypeOK
<1>5. reported' \in [Sessions -> [Series -> Nat]]
  BY <1>2 DEF AfterExpiry, CTypeOK, Nothing
<1>6. reader' \in [reading : BOOLEAN, changes : Table, snapshot : Table, expired : SUBSET Sessions]
  BY <1>2 DEF CTypeOK, Held
<1>7. CTypeOK'
  BY <1>1, <1>2, <1>3, <1>4, <1>5, <1>6 DEF CTypeOK, files, Heards
<1>8. Standing'
  BY <1>1, <1>2 DEF Standing, files
<1> QED
  BY <1>1, <1>2, <1>7, <1>8

LEMMA SnapshotTypes ==
  ASSUME CTypeOK, Standing, WriteSnapshot
  PROVE  CTypeOK' /\ Standing'
<1>1. /\ snapshot' \in Table /\ saved' \in Table /\ unsaved' \in BOOLEAN /\ lapse' \in BOOLEAN
      /\ changed' \in SUBSET Sessions /\ faults' \in Nat /\ pc = "snapshot"
      /\ pc' \in {"clear", "exit", "forget"}
      /\ pc' = "clear" => snapshot' = rows /\ saved' = rows /\ changed' = {}
      /\ pc' = "exit" => final
      /\ final => pc' \in {"clear", "exit"}
  <2>1. pc = "snapshot" /\ AfterCheckpoint \in {"exit", "forget"}
        /\ (AfterCheckpoint = "exit" <=> final)
    BY DEF WriteSnapshot, AfterCheckpoint
  <2>2. CASE /\ snapshot' = rows /\ changed' = {} /\ unsaved' = TRUE /\ pc' = "clear"
             /\ saved' = rows /\ lapse' = FALSE /\ UNCHANGED faults
    BY <2>1, <2>2 DEF CTypeOK
  <2>3. CASE /\ faults' = faults + 1 /\ pc' = AfterCheckpoint
             /\ UNCHANGED <<snapshot, changed, unsaved, saved, lapse>>
    BY <2>1, <2>3 DEF CTypeOK
  <2> QED
    BY <2>2, <2>3 DEF WriteSnapshot, SnapshotWritten
<1>2. UNCHANGED <<now, changes, mem, rows, baseline, acc, final, stopping, cutoff, reader,
                  reported, heard, behind>>
  BY DEF WriteSnapshot
<1> QED
  BY <1>1, <1>2 DEF CTypeOK, Standing, Heards

LEMMA ClearTypes ==
  ASSUME CTypeOK, Standing, ClearChanges
  PROVE  CTypeOK' /\ Standing'
<1>1. /\ changes' \in Table /\ unsaved' \in BOOLEAN /\ faults' \in Nat /\ pc = "clear"
      /\ pc' \in {"exit", "forget"} /\ (pc' = "exit" <=> final)
  <2>1. pc = "clear" /\ pc' \in {"exit", "forget"} /\ (pc' = "exit" <=> final)
    BY DEF ClearChanges, AfterCheckpoint
  <2>2. CASE changes' = NoRows /\ unsaved' = FALSE /\ UNCHANGED faults
    BY <2>1, <2>2, NoRowFacts DEF CTypeOK
  <2>3. CASE faults' = faults + 1 /\ UNCHANGED <<changes, unsaved>>
    BY <2>1, <2>3 DEF CTypeOK
  <2> QED
    BY <2>2, <2>3 DEF ClearChanges
<1>2. UNCHANGED <<now, snapshot, mem, rows, changed, baseline, acc, final, stopping, cutoff, reader,
                  reported, heard, behind, saved, lapse>>
  BY DEF ClearChanges, history
<1> QED
  BY <1>1, <1>2 DEF CTypeOK, Standing, Heards

LEMMA ForgetTypes ==
  ASSUME CTypeOK, Standing, Forget
  PROVE  CTypeOK' /\ Standing'
<1>1. /\ baseline' \in Table
      /\ acc' = [s \in Sessions |-> IF acc[s].seen >= cutoff THEN acc[s] ELSE Unheard]
      /\ cutoff' = 0 /\ pc = "forget" /\ pc' = "waiting"
  BY OnlyFacts DEF Forget, CTypeOK
<1>2. UNCHANGED <<now, files, mem, rows, changed, unsaved, final, stopping, reader, history,
                  faults>>
  BY DEF Forget
<1>3. /\ acc' = [s \in Sessions |-> [seen |-> acc'[s].seen, by |-> acc'[s].by]]
      /\ \A s \in Sessions :
           acc'[s].seen \in Nat /\ Heards(s)' \subseteq Series /\ acc'[s].by \in [Heards(s)' -> Nat]
  <2>1. ASSUME NEW s \in Sessions
        PROVE  /\ acc'[s] = [seen |-> acc'[s].seen, by |-> acc'[s].by]
               /\ acc'[s].seen \in Nat /\ Heards(s)' \subseteq Series
               /\ acc'[s].by \in [Heards(s)' -> Nat]
    <3>1. CASE acc[s].seen >= cutoff
      BY <1>1, <3>1, AccFacts DEF Heards
    <3>2. CASE ~(acc[s].seen >= cutoff)
      <4>1. acc'[s] = [seen |-> 0, by |-> [k \in {} |-> 0]]
        BY <1>1, <3>2 DEF Unheard
      <4> QED
        BY <4>1 DEF Heards
    <3> QED
      BY <3>1, <3>2
  <2>2. acc' = [s \in Sessions |-> acc'[s]]
    BY <1>1
  <2> QED
    BY <2>1, <2>2
<1> QED
  BY <1>1, <1>2, <1>3 DEF CTypeOK, Standing, files, history

LEMMA LoadTypes ==
  ASSUME CTypeOK, Standing, Load
  PROVE  CTypeOK' /\ Standing'
<1>1. /\ rows' \in Table /\ baseline' \in Table /\ changed' \in SUBSET Sessions
      /\ mem' \in {"loaded", "unreadable"} /\ faults' \in Nat /\ unsaved' = FALSE
      /\ pc = "down" /\ pc' = "start"
  BY FoldFacts DEF Load, CTypeOK, Disk, Held
<1>2. UNCHANGED <<now, files, acc, final, stopping, cutoff, reader, history>>
  BY DEF Load
<1> QED
  BY <1>1, <1>2 DEF CTypeOK, Standing, files, history, Heards

LEMMA GoneTypes ==
  ASSUME CTypeOK, Standing, Exit \/ Crash
  PROVE  /\ CTypeOK' /\ Standing' /\ Gone
         /\ reported' \in {reported, Lost}
<1>1. Gone /\ reported' \in {reported, Lost} /\ faults' \in Nat /\ lapse' = FALSE
  BY DEF Exit, Crash, CTypeOK
<1>2. Lost \in [Sessions -> [Series -> Nat]]
  <2>1. \A s \in Sessions : Disk[s].by \in [Series -> Nat]
    BY FoldFacts, RowFacts DEF Disk, CTypeOK
  <2> QED
    BY <2>1 DEF Lost, CTypeOK
<1>3. /\ acc' = [s \in Sessions |-> [seen |-> acc'[s].seen, by |-> acc'[s].by]]
      /\ \A s \in Sessions :
           acc'[s].seen \in Nat /\ Heards(s)' \subseteq Series /\ acc'[s].by \in [Heards(s)' -> Nat]
      /\ \A s \in Sessions : acc'[s] = Unheard
  BY <1>1 DEF Gone, Unheard, Heards
<1>4. CTypeOK'
  BY <1>1, <1>2, <1>3, NoRowFacts DEF Gone, CTypeOK, files
<1> QED
  BY <1>1, <1>3, <1>4 DEF Gone, Standing

LEMMA RestTypes ==
  ASSUME CTypeOK, Standing, SkipSweep \/ Drain \/ BeginRead \/ EndRead \/ Advance \/ StepBack
  PROVE  CTypeOK' /\ Standing'
<1>1. CASE SkipSweep
  BY <1>1 DEF SkipSweep, CTypeOK, Standing, files, memory, history, Heards
<1>2. CASE Drain
  BY <1>2 DEF Drain, CTypeOK, Standing, files, memory, history, Heards
<1>3. CASE BeginRead
  <2>1. reader' \in [reading : BOOLEAN, changes : Table, snapshot : Table,
                     expired : SUBSET Sessions]
    BY <1>3 DEF BeginRead, CTypeOK
  <2> QED
    BY <1>3, <2>1 DEF BeginRead, CTypeOK, Standing, files, memory, history, Heards
<1>4. CASE EndRead
  <2>1. reader' \in [reading : BOOLEAN, changes : Table, snapshot : Table,
                     expired : SUBSET Sessions]
    BY <1>4, NoRowFacts DEF EndRead, NoReader
  <2> QED
    BY <1>4, <2>1 DEF EndRead, CTypeOK, Standing, files, memory, history, Heards
<1>5. CASE Advance
  BY <1>5 DEF Advance, CTypeOK, Standing, files, memory, history, Heards
<1>6. CASE StepBack
  <2>1. /\ now' \in Nat /\ faults' \in Nat
        /\ UNCHANGED <<files, memory, acc, pc, final, stopping, cutoff, reader, history>>
    BY <1>6 DEF StepBack, CTypeOK
  <2> QED
    BY <2>1 DEF CTypeOK, Standing, files, memory, history, Heards
<1> QED
  BY <1>1, <1>2, <1>3, <1>4, <1>5, <1>6

-----------------------------------------------------------------------------
(***************************************************************************)
(* What no step but a request changes: the times and totals of the rows.   *)
(***************************************************************************)

\* A row that a session may have next: one it has somewhere, none, or the one its reports make.
Kept(s, row) ==
  \/ row \in {snapshot[s], changes[s], rows[s], NoRow}
  \/ mem = "loaded" /\ Observed(s) /\ row = CurrentRow(s)

\* Of a cumulative session the accumulator has all that was reported.
LEMMA SumOfPositive ==
  ASSUME NEW g \in [Series -> Nat], NEW f, f = [j \in {i \in Series : g[i] > 0} |-> g[j]]
  PROVE  SumFunction(f) = SumFunction(g)
<1> DEFINE D == {i \in Series : g[i] > 0}
<1>1. IsFiniteSet(Series) /\ D \subseteq Series /\ \A x \in D : g[x] = f[x]
  BY CostAssumption
<1>2. (\A x \in D : f[x] \in Int /\ g[x] = f[x]) /\ \A x \in Series \ D : g[x] = 0
  BY <1>1
<1>3. DOMAIN g = Series /\ DOMAIN f = D
  OBVIOUS
<1> HIDE DEF D
<1>4. SumFunctionOnSet(g, Series) = SumFunctionOnSet(f, D)
  BY <1>1, <1>2, SumWithin
<1> QED
  BY <1>3, <1>4 DEF SumFunction

LEMMA CumulativeTotal ==
  ASSUME CTypeOK, NEW s \in Sessions \ Delta,
         acc[s].by = [j \in {i \in Series : reported[s][i] > 0} |-> reported[s][j]]
  PROVE  SumFunction(acc[s].by) = SumFunction(reported[s])
<1>1. reported[s] \in [Series -> Nat]
  BY DEF CTypeOK
<1> QED
  BY <1>1, SumOfPositive

LEMMA KeptFacts ==
  ASSUME CTypeOK, Stamped, ProperRows, Cumulative, NEW s \in Sessions, NEW row, Kept(s, row)
  PROVE  /\ row \in Row /\ row.ts <= heard[s] /\ Proper(row)
         /\ s \notin Delta => row.total <= SumFunction(reported[s])
<1>1. CASE Observed(s) /\ row = CurrentRow(s)
  <2>1. row \in Row /\ Proper(row) /\ row.ts = acc[s].seen
    BY <1>1, CurrentRowFacts, ObservedCounts
  <2>2. acc[s].seen <= heard[s] /\ heard[s] \in Nat
    BY DEF Stamped, CTypeOK
  <2>3. row.ts <= heard[s]
    BY <2>1, <2>2
  <2>4. ASSUME s \notin Delta PROVE row.total = SumFunction(reported[s]) /\ row.total \in Nat
    <3>1. SumFunction(acc[s].by) = SumFunction(reported[s])
      BY <1>1, <2>4, CumulativeTotal DEF Cumulative
    <3>2. SumFunction(acc[s].by) \in Nat
      BY AccFacts
    <3> QED
      BY <1>1, <2>4, <3>1, <3>2, CurrentRowFacts
  <2> QED
    BY <2>1, <2>3, <2>4
<1>2. CASE row \in {snapshot[s], changes[s], rows[s]}
  <2>1. row \in Row
    BY <1>2, RowFacts DEF CTypeOK
  <2> QED
    BY <1>2, <2>1 DEF Stamped, ProperRows, Cumulative
<1>3. CASE row = NoRow
  <2>1. SumFunctionOnSet(reported[s], Series) \in Nat /\ DOMAIN reported[s] = Series
    <3> DEFINE g == reported[s]
    <3>1. g \in [Series -> Nat] /\ IsFiniteSet(Series)
      BY CostAssumption DEF CTypeOK
    <3> HIDE DEF g
    <3>2. SumFunctionOnSet(g, Series) \in Nat
      BY <3>1, SumNat
    <3> QED
      BY <3>1, <3>2 DEF g
  <2>2. heard[s] \in Nat
    BY DEF CTypeOK
  <2> QED
    BY <1>3, <2>1, <2>2, NoRowFacts DEF Proper, SumFunction
<1> QED
  BY <1>1, <1>2, <1>3 DEF Kept

LEMMA QuietRows ==
  ASSUME CTypeOK, CTypeOK', Stamped, ProperRows, Cumulative,
         heard' = heard, behind' = behind, now' > 0,
         \A s \in Sessions : /\ acc'[s] \in {acc[s], Unheard}
                             /\ s \notin Delta => reported'[s] = reported[s]
                             /\ Kept(s, snapshot'[s]) /\ Kept(s, changes'[s]) /\ Kept(s, rows'[s])
  PROVE  Stamped' /\ ProperRows' /\ Cumulative'
<1> SUFFICES ASSUME NEW s \in Sessions
             PROVE  /\ snapshot'[s].ts <= heard'[s] /\ changes'[s].ts <= heard'[s]
                    /\ rows'[s].ts <= heard'[s]
                    /\ acc'[s].seen <= heard'[s]
                    /\ s \notin behind => acc'[s].seen \in {0, heard'[s]}
                    /\ DOMAIN acc'[s].by # {} => acc'[s].seen > 0
                    /\ \A k \in DOMAIN acc'[s].by : acc'[s].by[k] > 0
                    /\ Proper(snapshot'[s]) /\ Proper(changes'[s]) /\ Proper(rows'[s])
                    /\ s \notin Delta =>
                         /\ DOMAIN acc'[s].by # {} =>
                              acc'[s].by =
                                [j \in {i \in Series : reported'[s][i] > 0} |-> reported'[s][j]]
                         /\ snapshot'[s].total <= SumFunction(reported'[s])
                         /\ changes'[s].total <= SumFunction(reported'[s])
                         /\ rows'[s].total <= SumFunction(reported'[s])
  BY DEF Stamped, ProperRows, Cumulative, Observed, Proper
<1>2. heard[s] \in Nat
  BY DEF CTypeOK
<1>3. Kept(s, snapshot'[s]) /\ Kept(s, changes'[s]) /\ Kept(s, rows'[s])
  OBVIOUS
<1>4. ASSUME NEW row, Kept(s, row)
      PROVE  /\ row.ts <= heard'[s] /\ Proper(row)
             /\ s \notin Delta => row.total <= SumFunction(reported'[s])
  <2>1. /\ row.ts <= heard[s] /\ Proper(row)
        /\ s \notin Delta => row.total <= SumFunction(reported[s])
    BY <1>4, KeptFacts
  <2> QED
    BY <2>1
<1>5. CASE acc'[s] = acc[s]
  <2>1. /\ acc'[s].seen <= heard'[s]
        /\ s \notin behind => acc'[s].seen \in {0, heard'[s]}
        /\ DOMAIN acc'[s].by # {} => acc'[s].seen > 0
        /\ \A k \in DOMAIN acc'[s].by : acc'[s].by[k] > 0
    BY <1>5 DEF Stamped, Observed
  <2>2. s \notin Delta /\ DOMAIN acc'[s].by # {} =>
          acc'[s].by = [j \in {i \in Series : reported'[s][i] > 0} |-> reported'[s][j]]
    BY <1>5 DEF Cumulative, Observed
  <2> QED
    BY <1>2, <1>3, <1>4, <2>1, <2>2
<1>6. CASE acc'[s] = Unheard
  <2>1. acc'[s].seen = 0 /\ DOMAIN acc'[s].by = {}
    BY <1>6 DEF Unheard
  <2> QED
    BY <1>2, <1>3, <1>4, <2>1
<1> QED
  BY <1>5, <1>6

-----------------------------------------------------------------------------
(***************************************************************************)
(* Each step keeps the times and the totals of the rows.                   *)
(***************************************************************************)

\* A delta metric adds to what its session has; a cumulative one takes the place of less.
LEMMA HeardMore ==
  ASSUME CTypeOK, CTypeOK', Stamped, Cumulative, NEW s \in Sessions,
         IngestMetrics(s) \/ IngestEvents(s)
  PROVE  /\ \A k \in DOMAIN acc'[s].by : acc'[s].by[k] > 0
         /\ SumFunction(reported[s]) <= SumFunction(reported'[s])
         /\ Observed(s) => Observed(s)' /\ SumFunction(acc[s].by) <= SumFunction(acc'[s].by)
         /\ ~Observed(s)' => ~Observed(s)
         /\ s \notin Delta /\ Observed(s)' =>
              acc'[s].by = [j \in {i \in Series : reported'[s][i] > 0} |-> reported'[s][j]]
<1> DEFINE f == acc[s].by
           D == DOMAIN acc[s].by
<1>1. /\ f \in [D -> Nat] /\ D \subseteq Series /\ IsFiniteSet(D) /\ \A j \in D : f[j] > 0
      /\ SumFunction(f) \in Nat
  BY AccFacts DEF Heards, Stamped
<1>2. IsFiniteSet(Series) /\ reported[s] \in [Series -> Nat] /\ reported'[s] \in [Series -> Nat]
  BY CostAssumption DEF CTypeOK
<1>3. SumFunctionOnSet(reported[s], Series) \in Nat
  <2> DEFINE g == reported[s]
  <2>1. \A x \in Series : g[x] \in Nat
    BY <1>2
  <2> HIDE DEF g
  <2>2. SumFunctionOnSet(g, Series) \in Nat
    BY <1>2, <2>1, SumNat
  <2> QED
    BY <2>2 DEF g
<1>4. SumFunction(reported[s]) \in Nat
  BY <1>2, <1>3 DEF SumFunction
<1>5. CASE IngestEvents(s)
  <2>1. UNCHANGED reported /\ acc'[s].by = f
    BY <1>5 DEF IngestEvents, Hear, CTypeOK
  <2>2. Observed(s)' <=> Observed(s)
    BY <2>1 DEF Observed
  <2>3. s \notin Delta /\ Observed(s) =>
          f = [j \in {i \in Series : reported[s][i] > 0} |-> reported[s][j]]
    BY DEF Cumulative
  <2>4. /\ SumFunction(acc'[s].by) = SumFunction(f)
        /\ SumFunction(reported'[s]) = SumFunction(reported[s])
    BY <2>1
  <2> QED
    BY <1>1, <1>4, <2>1, <2>2, <2>3, <2>4
<1>6. CASE IngestMetrics(s)
  <2>1. PICK k \in Series : /\ reported' = [reported EXCEPT ![s][k] = @ + 1]
                            /\ Hear(s, Folded(s, k))
    BY <1>6 DEF IngestMetrics
  <2> DEFINE g == Folded(s, k)
             E == DOMAIN g
             r == reported[s]
             q == reported'[s]
  <2>2. acc'[s].by = g
    BY <2>1 DEF Hear, CTypeOK
  <2>3. \A x \in Series : q[x] = IF x = k THEN r[x] + 1 ELSE r[x]
    BY <2>1 DEF CTypeOK
  <2>4. SumFunction(r) <= SumFunction(q)
    <3>1. \A x \in Series : r[x] \in Int /\ q[x] \in Int /\ r[x] <= q[x]
      BY <1>2, <2>3
    <3>2. DOMAIN r = Series /\ DOMAIN q = Series
      BY <1>2
    <3> HIDE DEF r, q
    <3>3. SumFunctionOnSet(r, Series) <= SumFunctionOnSet(q, Series)
      BY <1>2, <3>1, SumLeq
    <3> QED
      BY <3>2, <3>3 DEF SumFunction
  <2>5. CASE s \in Delta
    <3>1. g = [j \in D \cup {k} |-> (IF j \in D THEN f[j] ELSE 0) + (IF j = k THEN 1 ELSE 0)]
      BY <2>5 DEF Folded
    <3>2. E = D \cup {k} /\ \A j \in E : g[j] \in Nat /\ g[j] > 0
      <4>1. ASSUME NEW j \in D \cup {k} PROVE g[j] \in Nat /\ g[j] > 0
        <5>1. g[j] = (IF j \in D THEN f[j] ELSE 0) + (IF j = k THEN 1 ELSE 0)
          BY <3>1
        <5>2. j \in D => f[j] \in Nat /\ f[j] > 0
          BY <1>1
        <5> QED
          BY <5>1, <5>2
      <4> QED
        BY <3>1, <4>1
    <3> DEFINE h == [j \in E |-> IF j \in D THEN f[j] ELSE 0]
    <3>3. \A j \in E : h[j] \in Int /\ g[j] \in Int /\ h[j] <= g[j]
      <4>1. ASSUME NEW j \in E PROVE h[j] \in Int /\ g[j] \in Int /\ h[j] <= g[j]
        <5>1. g[j] = (IF j \in D THEN f[j] ELSE 0) + (IF j = k THEN 1 ELSE 0)
          BY <3>1, <3>2
        <5>2. j \in D => f[j] \in Nat
          BY <1>1
        <5>3. h[j] = IF j \in D THEN f[j] ELSE 0
          OBVIOUS
        <5> QED
          BY <5>1, <5>2, <5>3
      <4> QED
        BY <4>1
    <3>4. IsFiniteSet(E) /\ D \subseteq E
      BY <1>1, <3>2, FS_AddElement
    <3>5. (\A j \in D : f[j] \in Int /\ h[j] = f[j]) /\ \A j \in E \ D : h[j] = 0
      BY <1>1, <3>4
    <3>6. SumFunctionOnSet(f, D) <= SumFunctionOnSet(g, E)
      <4> HIDE DEF f, g, h, D, E
      <4>1. SumFunctionOnSet(h, E) <= SumFunctionOnSet(g, E)
        BY <3>3, <3>4, SumLeq
      <4>2. SumFunctionOnSet(h, E) = SumFunctionOnSet(f, D)
        BY <3>4, <3>5, SumWithin
      <4> QED
        BY <4>1, <4>2
    <3>7. SumFunction(f) <= SumFunction(g)
      BY <3>6 DEF SumFunction
    <3>8. Observed(s)'
      BY <2>2, <3>2 DEF Observed
    <3> HIDE DEF g, f
    <3> QED
      BY <2>2, <2>4, <2>5, <3>2, <3>7, <3>8 DEF f
  <2>6. CASE s \notin Delta
    <3>1. g = [j \in {i \in Series : q[i] > 0} |-> q[j]]
      BY <2>6 DEF Folded
    <3>2. q[k] > 0
      BY <1>2, <2>3
    <3>3. Observed(s)'
      BY <2>2, <3>1, <3>2 DEF Observed
    <3>4. \A j \in DOMAIN g : g[j] > 0
      BY <3>1
    <3>5. Observed(s) => SumFunction(f) = SumFunction(r)
      BY <2>6, CumulativeTotal DEF Cumulative
    <3>6. SumFunction(g) = SumFunction(q)
      <4> DEFINE C == {i \in Series : q[i] > 0}
      <4>1. C \subseteq Series /\ (\A x \in C : g[x] \in Int /\ q[x] = g[x])
        BY <1>2, <3>1
      <4>2. \A x \in Series \ C : q[x] = 0
        BY <1>2
      <4>3. DOMAIN g = C /\ DOMAIN q = Series
        BY <1>2, <3>1
      <4> HIDE DEF g, q, C
      <4>4. SumFunctionOnSet(q, Series) = SumFunctionOnSet(g, C)
        BY <1>2, <4>1, <4>2, SumWithin
      <4> QED
        BY <4>3, <4>4 DEF SumFunction
    <3>7. Observed(s) => SumFunction(f) <= SumFunction(g)
      BY <2>4, <3>5, <3>6
    <3> QED
      BY <2>2, <2>4, <3>1, <3>3, <3>4, <3>7
  <2> QED
    BY <2>5, <2>6
<1> QED
  BY <1>5, <1>6

LEMMA HearRows ==
  ASSUME CTypeOK, Standing, Stamped, ProperRows, Cumulative, NEW s \in Sessions,
         IngestMetrics(s) \/ IngestEvents(s)
  PROVE  /\ Stamped' /\ ProperRows' /\ Cumulative'
         /\ s \notin behind' => acc'[s].seen = now /\ heard[s] < now /\ s \notin behind
<1>1. /\ CTypeOK' /\ now' = now + 1 /\ UNCHANGED <<files, memory, reader, saved, pc, cutoff>>
      /\ heard' = [heard EXCEPT ![s] = Max2(@, now)]
      /\ acc' = [acc EXCEPT ![s] = [seen |-> Max2(acc[s].seen, now), by |-> acc'[s].by]]
      /\ \A t \in Sessions : t # s => acc'[t] = acc[t] /\ reported'[t] = reported[t]
      /\ behind' = IF heard[s] < now THEN behind ELSE behind \cup {s}
  BY HearTypes
<1>2. /\ \A k \in DOMAIN acc'[s].by : acc'[s].by[k] > 0
      /\ SumFunction(reported[s]) <= SumFunction(reported'[s])
      /\ s \notin Delta /\ Observed(s)' =>
           acc'[s].by = [j \in {i \in Series : reported'[s][i] > 0} |-> reported'[s][j]]
  BY <1>1, HeardMore
<1>3. acc[s].seen \in Nat /\ heard[s] \in Nat /\ now \in Nat /\ acc[s].seen <= heard[s] /\ now > 0
  <2>1. acc[s].seen \in Nat /\ heard[s] \in Nat /\ now \in Nat
    BY AccFacts DEF CTypeOK
  <2> QED
    BY <2>1 DEF Stamped
<1>4. /\ acc'[s].seen <= heard'[s] /\ acc'[s].seen > 0 /\ heard[s] <= heard'[s]
      /\ heard[s] < now => acc'[s].seen = now /\ heard'[s] = now
  <2>1. heard'[s] = Max2(heard[s], now)
    BY <1>1 DEF CTypeOK
  <2>2. acc'[s].seen = Max2(acc[s].seen, now)
    <3>1. acc'[s] = [seen |-> Max2(acc[s].seen, now), by |-> acc'[s].by]
      BY <1>1 DEF CTypeOK
    <3> QED
      BY <3>1
  <2> QED
    BY <1>3, <2>1, <2>2 DEF Max2
<1>11. s \notin behind' =>
         acc'[s].seen = now /\ heard[s] < now /\ s \notin behind /\ heard'[s] = now
  BY <1>1, <1>4
<1>5. \A t \in Sessions : t # s => heard'[t] = heard[t]
  BY <1>1 DEF CTypeOK
<1>6. UNCHANGED <<snapshot, changes, rows>>
  BY <1>1 DEF files, memory
<1>7. ASSUME NEW t \in Sessions
      PROVE  /\ heard[t] <= heard'[t]
             /\ acc'[t].seen <= heard'[t]
             /\ t \notin behind' => acc'[t].seen \in {0, heard'[t]}
             /\ Observed(t)' => acc'[t].seen > 0
             /\ \A k \in DOMAIN acc'[t].by : acc'[t].by[k] > 0
  <2>1. CASE t = s
    BY <1>2, <1>4, <1>11, <2>1
  <2>2. CASE t # s
    <3>1. heard'[t] = heard[t] /\ acc'[t] = acc[t] /\ (t \in behind => t \in behind')
      BY <1>1, <1>5, <2>2
    <3>2. heard[t] \in Nat
      BY DEF CTypeOK
    <3> QED
      BY <3>1, <3>2 DEF Stamped, Observed
  <2> QED
    BY <2>1, <2>2
<1>8. Stamped'
  <2>1. ASSUME NEW t \in Sessions
        PROVE  /\ snapshot'[t].ts <= heard'[t] /\ changes'[t].ts <= heard'[t]
               /\ rows'[t].ts <= heard'[t]
    <3>1. snapshot[t].ts <= heard[t] /\ changes[t].ts <= heard[t] /\ rows[t].ts <= heard[t]
      BY DEF Stamped
    <3>2. /\ snapshot[t].ts \in Nat /\ changes[t].ts \in Nat /\ rows[t].ts \in Nat
          /\ heard[t] \in Nat /\ heard'[t] \in Nat
      BY <1>1, RowFacts DEF CTypeOK
    <3> QED
      BY <1>6, <1>7, <3>1, <3>2
  <2>2. now' > 0
    BY <1>1, <1>3
  <2> QED
    BY <1>7, <2>1, <2>2 DEF Stamped
<1>9. ProperRows'
  BY <1>6 DEF ProperRows, Proper
<1>10. Cumulative'
  <2> SUFFICES ASSUME NEW t \in Sessions \ Delta
               PROVE  /\ Observed(t)' => acc'[t].by =
                           [j \in {i \in Series : reported'[t][i] > 0} |-> reported'[t][j]]
                      /\ snapshot[t].total <= SumFunction(reported'[t])
                      /\ changes[t].total <= SumFunction(reported'[t])
                      /\ rows[t].total <= SumFunction(reported'[t])
    BY <1>6 DEF Cumulative
  <2>1. /\ snapshot[t].total <= SumFunction(reported[t])
        /\ changes[t].total <= SumFunction(reported[t])
        /\ rows[t].total <= SumFunction(reported[t])
    BY DEF Cumulative
  <2>2. snapshot[t].total \in Nat /\ changes[t].total \in Nat /\ rows[t].total \in Nat
    BY RowFacts DEF CTypeOK
  <2>3. SumFunction(reported[t]) \in Nat /\ SumFunction(reported'[t]) \in Nat
    <3> DEFINE g == reported[t]
               h == reported'[t]
    <3>1. g \in [Series -> Nat] /\ h \in [Series -> Nat] /\ IsFiniteSet(Series)
      BY <1>1, CostAssumption DEF CTypeOK
    <3>2. DOMAIN g = Series /\ DOMAIN h = Series
      BY <3>1
    <3> HIDE DEF g, h
    <3>3. SumFunctionOnSet(g, Series) \in Nat /\ SumFunctionOnSet(h, Series) \in Nat
      BY <3>1, SumNat
    <3>4. SumFunction(g) \in Nat /\ SumFunction(h) \in Nat
      BY <3>2, <3>3 DEF SumFunction
    <3> QED
      BY <3>4 DEF g, h
  <2>4. CASE t = s
    BY <1>2, <2>1, <2>2, <2>3, <2>4
  <2>5. CASE t # s
    BY <1>1, <2>1, <2>5 DEF Cumulative, Observed
  <2> QED
    BY <2>4, <2>5
<1> QED
  BY <1>8, <1>9, <1>10, <1>11

\* The steps of the worker, the receiver and a report.
Quiet ==
  \/ Worker \/ Sweep \/ SkipSweep \/ Load \/ Drain \/ Exit \/ Crash
  \/ BeginRead \/ EndRead \/ Advance \/ StepBack

LEMMA QuietTypes ==
  ASSUME CTypeOK, Standing, Quiet
  PROVE  CTypeOK' /\ Standing'
BY PersistTypes, RecordTypes, DropTypes, SnapshotTypes, ClearTypes, ForgetTypes, LoadTypes,
   GoneTypes, RestTypes DEF Quiet, Worker

\* What a session has next is what one of its tables had, or the row its reports make.
LEMMA QuietKept ==
  ASSUME CTypeOK, Standing, Stamped, Quiet
  PROVE  /\ heard' = heard /\ behind' = behind /\ now' > 0
         /\ \A s \in Sessions : /\ acc'[s] \in {acc[s], Unheard}
                                /\ s \notin Delta => reported'[s] = reported[s]
                                /\ Kept(s, snapshot'[s]) /\ Kept(s, changes'[s])
                                /\ Kept(s, rows'[s])
<1>0. now \in Nat /\ reported \in [Sessions -> [Series -> Nat]] /\ rows \in Table
      /\ snapshot \in Table /\ changes \in Table
      /\ acc = [s \in Sessions |-> [seen |-> acc[s].seen, by |-> acc[s].by]] /\ now > 0
  BY DEF CTypeOK, Stamped
<1>1. ASSUME UNCHANGED <<heard, behind, now, acc, reported, snapshot, changes, rows>>
      PROVE  /\ heard' = heard /\ behind' = behind /\ now' > 0
             /\ \A s \in Sessions : /\ acc'[s] \in {acc[s], Unheard}
                                    /\ s \notin Delta => reported'[s] = reported[s]
                                    /\ Kept(s, snapshot'[s]) /\ Kept(s, changes'[s])
                                    /\ Kept(s, rows'[s])
  BY <1>0, <1>1 DEF Kept
<1>2. CASE Persist
  <2>1. UNCHANGED <<heard, behind, now, acc, reported, snapshot, changes>>
    BY <1>2 DEF Persist, files, history
  <2>2. \A s \in Sessions : Kept(s, rows'[s])
    <3>1. CASE mem = "loaded"
      BY <1>2, <3>1 DEF Persist, Kept
    <3>2. CASE mem # "loaded"
      BY <1>2, <3>2 DEF Persist, Kept
    <3> QED
      BY <3>1, <3>2
  <2> QED
    BY <1>0, <2>1, <2>2 DEF Kept
<1>3. CASE RecordChanges
  <2>1. UNCHANGED <<heard, behind, now, acc, reported, snapshot, rows>>
    BY <1>3 DEF RecordChanges
  <2>2. changes' \in {changes, Only(rows, changed)}
    BY <1>3 DEF RecordChanges, Recorded
  <2>3. \A s \in Sessions : Kept(s, changes'[s])
    BY <1>0, <2>2, OnlyFacts DEF Kept
  <2> QED
    BY <1>0, <2>1, <2>3 DEF Kept
<1>4. CASE FinalCheckpoint \/ Sweep
  <2>1. /\ UNCHANGED <<heard, behind, now, acc, snapshot, changes>>
        /\ reported' = AfterExpiry(cutoff')
        /\ mem # "loaded" => rows' = rows
        /\ mem = "loaded" => rows' = Only(rows, {s \in Sessions : rows[s].ts >= cutoff'})
    BY <1>4, DropTypes DEF files
  <2>2. \A s \in Sessions : Kept(s, rows'[s])
    BY <1>0, <2>1, OnlyFacts DEF Kept
  <2>3. \A s \in Sessions : s \notin Delta => reported'[s] = reported[s]
    BY <2>1 DEF AfterExpiry
  <2> QED
    BY <1>0, <2>1, <2>2, <2>3 DEF Kept
<1>5. CASE WriteSnapshot
  <2>1. UNCHANGED <<heard, behind, now, acc, reported, changes, rows>>
    BY <1>5 DEF WriteSnapshot
  <2>2. snapshot' \in {snapshot, rows}
    BY <1>5 DEF WriteSnapshot, SnapshotWritten
  <2> QED
    BY <1>0, <2>1, <2>2 DEF Kept
<1>6. CASE ClearChanges
  <2>1. UNCHANGED <<heard, behind, now, acc, reported, snapshot, rows>>
    BY <1>6 DEF ClearChanges, history
  <2>2. changes' \in {changes, NoRows}
    BY <1>6 DEF ClearChanges
  <2> QED
    BY <1>0, <2>1, <2>2, NoRowFacts DEF Kept
<1>7. CASE Forget
  <2>1. UNCHANGED <<heard, behind, now, reported, snapshot, changes, rows>>
        /\ acc' = [s \in Sessions |-> IF acc[s].seen >= cutoff THEN acc[s] ELSE Unheard]
    BY <1>7 DEF Forget, files, history
  <2> QED
    BY <1>0, <2>1 DEF Kept
<1>8. CASE Load
  <2>1. UNCHANGED <<heard, behind, now, reported, snapshot, changes, acc>> /\ rows' \in {rows, Disk}
    BY <1>8 DEF Load, files, history
  <2>2. \A s \in Sessions : Kept(s, rows'[s])
    BY <1>0, <2>1, FoldFacts DEF Kept, Disk
  <2> QED
    BY <1>0, <2>1, <2>2 DEF Kept
<1>9. CASE Exit \/ Crash
  <2>1. /\ UNCHANGED <<heard, behind, now, snapshot, changes>> /\ reported' \in {reported, Lost}
        /\ acc' = [s \in Sessions |-> Unheard] /\ rows' = NoRows
    BY <1>9, GoneTypes DEF Gone, files
  <2>2. \A s \in Sessions : s \notin Delta => reported'[s] = reported[s]
    BY <2>1 DEF Lost
  <2> QED
    BY <1>0, <2>1, <2>2, NoRowFacts DEF Kept
<1>10. CASE SkipSweep \/ Drain \/ BeginRead \/ EndRead
  BY <1>1, <1>10 DEF SkipSweep, Drain, BeginRead, EndRead, files, memory, history
<1>11. CASE Advance
  <2>1. UNCHANGED <<heard, behind, acc, reported, snapshot, changes, rows>> /\ now' = now + 1
    BY <1>11 DEF Advance, files, memory, history
  <2> QED
    BY <1>0, <2>1 DEF Kept
<1>12. CASE StepBack
  <2>1. UNCHANGED <<heard, behind, acc, reported, snapshot, changes, rows>> /\ now' > 0
    BY <1>0, <1>12 DEF StepBack, files, memory, history
  <2> QED
    BY <1>0, <2>1 DEF Kept
<1> QED
  BY <1>2, <1>3, <1>4, <1>5, <1>6, <1>7, <1>8, <1>9, <1>10, <1>11, <1>12 DEF Quiet, Worker

-----------------------------------------------------------------------------
(***************************************************************************)
(* Each step keeps the rows in memory what they are to the rest.           *)
(***************************************************************************)

\* The numbers a session's rows have.
LEMMA Numbers ==
  ASSUME CTypeOK, Standing, Stamped, ProperRows, NEW s \in Sessions
  PROVE  /\ snapshot[s].ts \in Nat /\ changes[s].ts \in Nat /\ rows[s].ts \in Nat
         /\ rows[s].total \in Nat /\ acc[s].seen \in Nat /\ heard[s] \in Nat
         /\ baseline[s].total \in Nat /\ cutoff \in Nat
         /\ rows[s] # NoRow <=> rows[s].ts > 0
         /\ changes[s] # NoRow <=> changes[s].ts > 0
         /\ snapshot[s] # NoRow <=> snapshot[s].ts > 0
         /\ Observed(s) => acc[s].seen > 0
         /\ Observed(s) /\ s \notin behind => acc[s].seen = heard[s]
         /\ snapshot[s].ts <= heard[s] /\ changes[s].ts <= heard[s] /\ rows[s].ts <= heard[s]
<1>1. /\ snapshot[s].ts \in Nat /\ changes[s].ts \in Nat /\ rows[s].ts \in Nat
      /\ rows[s].total \in Nat /\ baseline[s].total \in Nat
  BY RowFacts DEF CTypeOK
<1>2. /\ rows[s] # NoRow <=> rows[s].ts > 0
      /\ changes[s] # NoRow <=> changes[s].ts > 0
      /\ snapshot[s] # NoRow <=> snapshot[s].ts > 0
  BY <1>1, NoRowFacts DEF ProperRows, Proper
<1>3. acc[s].seen \in Nat /\ heard[s] \in Nat /\ cutoff \in Nat
  BY AccFacts DEF CTypeOK
<1>4. /\ s \notin behind => acc[s].seen \in {0, heard[s]}
      /\ Observed(s) => acc[s].seen > 0
      /\ snapshot[s].ts <= heard[s] /\ changes[s].ts <= heard[s] /\ rows[s].ts <= heard[s]
  BY DEF Stamped
<1>5. Observed(s) /\ s \notin behind => acc[s].seen = heard[s]
  BY <1>3, <1>4
<1> QED
  BY <1>1, <1>2, <1>3, <1>4, <1>5

\* The row that a session's reports make, and whether they make one, hang on the accumulator and
\* the baseline alone.
LEMMA SameReports ==
  ASSUME NEW s \in Sessions, acc'[s] = acc[s], baseline'[s] = baseline[s]
  PROVE  CurrentRow(s)' = CurrentRow(s) /\ (Observed(s)' <=> Observed(s))
BY DEF CurrentRow, Observed

LEMMA HearMemory ==
  ASSUME CTypeOK, Standing, Stamped, ProperRows, Cumulative, InMemory, mem = "loaded",
         NEW s \in Sessions, IngestMetrics(s) \/ IngestEvents(s),
         NEW t \in Sessions, t \notin behind'
  PROVE  RowInMemory(t)'
<1>1. /\ CTypeOK' /\ UNCHANGED <<files, memory, reader, saved, pc, cutoff>>
      /\ \A u \in Sessions : u # s => acc'[u] = acc[u]
      /\ t \notin behind
  BY HearTypes
<1>2. UNCHANGED <<snapshot, changes, rows, baseline, changed>>
  BY <1>1 DEF files, memory
<1>3. RowInMemory(t)
  BY <1>1 DEF InMemory
<1>4. CASE t # s
  <2>1. acc'[t] = acc[t]
    BY <1>1, <1>4
  <2>2. CurrentRow(t)' = CurrentRow(t) /\ (Observed(t)' <=> Observed(t))
    BY <1>2, <2>1, SameReports
  <2> QED
    BY <1>1, <1>2, <1>3, <2>1, <2>2 DEF RowInMemory
<1>5. CASE t = s
  <2>1. Stamped' /\ acc'[s].seen = now /\ heard[s] < now /\ now \in Nat
    BY <1>5, HearRows DEF CTypeOK
  <2>2. changes[s].ts # now /\ rows[s].ts # now
    BY <2>1, Numbers
  <2>3. /\ Observed(s) => Observed(s)' /\ SumFunction(acc[s].by) <= SumFunction(acc'[s].by)
        /\ ~Observed(s)' => ~Observed(s)
        /\ s \notin Delta /\ Observed(s)' =>
             acc'[s].by = [j \in {i \in Series : reported'[s][i] > 0} |-> reported'[s][j]]
        /\ SumFunction(reported[s]) <= SumFunction(reported'[s])
    BY <1>1, HeardMore
  <2>4. SumFunction(acc'[s].by) \in Nat /\ SumFunction(acc[s].by) \in Nat
    <3>1. Heards(s)' \in SUBSET Series /\ acc'[s].by \in [Heards(s)' -> Nat]
      BY <1>1 DEF CTypeOK
    <3> QED
      BY <3>1, CountNat, AccFacts
  <2>5. ASSUME rows[s] # NoRow, Observed(s)' PROVE rows[s].total <= CurrentRow(s)'.total
    <3>1. CurrentRow(s)'.total =
            SumFunction(acc'[s].by) + (IF s \in Delta THEN baseline[s].total ELSE 0)
      BY <1>2 DEF CurrentRow
    <3>2. rows[s].total \in Nat /\ baseline[s].total \in Nat
      BY Numbers
    <3>3. CASE s \in Delta
      <4>1. CASE Observed(s)
        <5>1. rows[s].total <= CurrentRow(s).total
          BY <1>3, <1>5, <2>5, <4>1 DEF RowInMemory
        <5>2. CurrentRow(s).total = SumFunction(acc[s].by) + baseline[s].total
          BY <3>3, CurrentRowFacts
        <5> QED
          BY <2>3, <2>4, <3>1, <3>2, <3>3, <4>1, <5>1, <5>2
      <4>2. CASE ~Observed(s)
        <5>1. rows[s] = baseline[s]
          BY <1>3, <1>5, <2>5, <4>2 DEF RowInMemory
        <5> QED
          BY <2>4, <3>1, <3>2, <3>3, <5>1
      <4> QED
        BY <4>1, <4>2
    <3>4. CASE s \notin Delta
      <4>1. SumFunction(acc'[s].by) = SumFunction(reported'[s])
        <5>1. reported'[s] \in [Series -> Nat]
          BY <1>1 DEF CTypeOK
        <5> QED
          BY <2>3, <2>5, <3>4, <5>1, SumOfPositive
      <4>2. rows'[s].total <= SumFunction(reported'[s])
        BY <3>4, HearRows DEF Cumulative
      <4> QED
        BY <1>2, <2>4, <3>1, <3>2, <3>4, <4>1, <4>2
    <3> QED
      BY <3>3, <3>4
  <2> QED
    BY <1>1, <1>2, <1>3, <1>5, <2>1, <2>2, <2>3, <2>5 DEF RowInMemory
<1> QED
  BY <1>4, <1>5

LEMMA PersistMemory ==
  ASSUME CTypeOK, Standing, Stamped, ProperRows, InMemory, mem = "loaded", Persist,
         NEW s \in Sessions \ behind
  PROVE  RowInMemory(s)'
<1>1. /\ UNCHANGED <<snapshot, changes, mem, baseline, acc, cutoff>>
      /\ pc' \in {"record", "idle"} /\ changed \subseteq changed'
      /\ Observed(s) /\ CurrentRow(s) # rows[s] => s \in changed'
      /\ Observed(s) => rows'[s] = CurrentRow(s)
      /\ ~Observed(s) => rows'[s] = rows[s]
  BY DEF Persist, files, CTypeOK
<1>2. CurrentRow(s)' = CurrentRow(s) /\ (Observed(s)' <=> Observed(s))
  BY <1>1, SameReports
<1>3. RowInMemory(s)
  BY DEF InMemory
<1>4. CASE Observed(s)
  <2>1. CurrentRow(s).ts = acc[s].seen /\ CurrentRow(s) \in Row /\ CurrentRow(s).total \in Nat
    BY CurrentRowFacts DEF Row
  <2>2. /\ rows'[s] = CurrentRow(s) /\ rows'[s].ts = acc[s].seen /\ acc[s].seen > 0
        /\ snapshot[s].ts <= acc[s].seen /\ changes[s].ts <= acc[s].seen
    BY <1>1, <1>4, <2>1, Numbers
  <2>3. rows'[s] # NoRow
    BY <2>2, NoRowFacts
  <2>4. s \in changed' \/ rows'[s] = snapshot[s] \/ rows'[s] = NoRow
    BY <1>1, <1>3, <1>4, <2>2, <2>3 DEF RowInMemory
  <2>5. changes[s].ts = acc[s].seen => changes[s] = CurrentRow(s)
    BY <1>3, <1>4 DEF RowInMemory
  <2> QED
    BY <1>1, <1>2, <1>4, <2>1, <2>2, <2>3, <2>4, <2>5 DEF RowInMemory
<1>5. CASE ~Observed(s)
  BY <1>1, <1>2, <1>3, <1>5 DEF RowInMemory
<1> QED
  BY <1>4, <1>5

LEMMA RecordMemory ==
  ASSUME CTypeOK, Standing, Stamped, ProperRows, InMemory, mem = "loaded", RecordChanges,
         NEW s \in Sessions \ behind
  PROVE  RowInMemory(s)'
<1>1. /\ UNCHANGED <<snapshot, mem, rows, changed, baseline, acc, cutoff>> /\ pc' = "idle"
      /\ changes' \in {changes, Only(rows, changed)}
  BY DEF RecordChanges, Recorded
<1>2. CurrentRow(s)' = CurrentRow(s) /\ (Observed(s)' <=> Observed(s))
  BY <1>1, SameReports
<1>3. RowInMemory(s)
  BY DEF InMemory
<1>4. changes'[s] \in {changes[s], rows[s], NoRow}
  BY <1>1, OnlyFacts DEF CTypeOK
<1>5. CASE changes'[s] = changes[s]
  BY <1>1, <1>2, <1>3, <1>5 DEF RowInMemory
<1>6. CASE changes'[s] = rows[s]
  <2>1. Observed(s) => acc[s].seen > 0
    BY Numbers
  <2>2. rows[s].ts \in Nat /\ NoRow.ts = 0
    BY Numbers, NoRowFacts
  <2> QED
    BY <1>1, <1>2, <1>3, <1>6, <2>1, <2>2 DEF RowInMemory
<1>7. CASE changes'[s] = NoRow
  <2>1. Observed(s) => acc[s].seen > 0
    BY Numbers
  <2>2. rows[s] # NoRow => rows[s].ts > 0
    BY Numbers
  <2>3. changes'[s].ts = 0
    BY <1>7, NoRowFacts
  <2>4. rows[s].ts \in Nat /\ acc[s].seen \in Nat
    BY Numbers
  <2> QED
    BY <1>1, <1>2, <1>3, <2>1, <2>2, <2>3, <2>4 DEF RowInMemory
<1> QED
  BY <1>4, <1>5, <1>6, <1>7

LEMMA DropMemory ==
  ASSUME CTypeOK, Standing, Stamped, ProperRows, InMemory, mem = "loaded",
         Sweep \/ FinalCheckpoint, NEW s \in Sessions \ behind
  PROVE  RowInMemory(s)'
<1>1. /\ UNCHANGED <<snapshot, changes, mem, changed, baseline, acc>>
      /\ pc' = "snapshot" /\ pc \in {"start", "idle"} /\ CTypeOK'
      /\ rows' = Only(rows, {t \in Sessions : rows[t].ts >= cutoff'})
  BY DropTypes DEF files
<1>2. CurrentRow(s)' = CurrentRow(s) /\ (Observed(s)' <=> Observed(s))
  BY <1>1, SameReports
<1>3. RowInMemory(s)
  BY DEF InMemory
<1>4. rows'[s] = IF rows[s].ts >= cutoff' THEN rows[s] ELSE NoRow
  BY <1>1, OnlyFacts DEF CTypeOK
<1>5. cutoff = 0 /\ cutoff' \in Nat
  BY <1>1 DEF Standing, CTypeOK
<1>6. CASE rows[s].ts >= cutoff'
  <2>1. rows'[s] = rows[s] /\ (Observed(s) => acc[s].seen \in Nat)
    BY <1>4, <1>6, Numbers
  <2>2. Observed(s) /\ changes[s].ts = acc[s].seen => rows[s] # NoRow
    BY <1>3, <1>5, <2>1 DEF RowInMemory
  <2> QED
    BY <1>1, <1>2, <1>3, <1>6, <2>1, <2>2 DEF RowInMemory
<1>7. CASE ~(rows[s].ts >= cutoff')
  <2>1. rows'[s] = NoRow /\ rows'[s].ts = 0
    BY <1>4, <1>7, NoRowFacts
  <2>2. Observed(s) => acc[s].seen > 0 /\ acc[s].seen \in Nat
    BY Numbers
  <2>3. ASSUME Observed(s), changes[s].ts = acc[s].seen
        PROVE  changes[s] = CurrentRow(s) /\ acc[s].seen < cutoff'
    <3>1. changes[s] = CurrentRow(s) /\ rows[s] # NoRow
      BY <1>3, <1>5, <2>2, <2>3 DEF RowInMemory
    <3>2. changes[s].ts <= rows[s].ts /\ rows[s].ts \in Nat /\ changes[s].ts \in Nat
      BY <1>3, <3>1, Numbers DEF RowInMemory
    <3> QED
      BY <1>5, <1>7, <2>3, <3>1, <3>2
  <2> QED
    BY <1>1, <1>2, <2>1, <2>2, <2>3 DEF RowInMemory
<1> QED
  BY <1>6, <1>7

LEMMA SnapshotMemory ==
  ASSUME CTypeOK, Standing, Stamped, ProperRows, InMemory, mem = "loaded", WriteSnapshot,
         NEW s \in Sessions \ behind
  PROVE  RowInMemory(s)'
<1>1. /\ UNCHANGED <<changes, mem, rows, baseline, acc, cutoff>> /\ pc = "snapshot"
      /\ \/ snapshot' = rows
         \/ snapshot' = snapshot /\ changed' = changed
  BY DEF WriteSnapshot, SnapshotWritten
<1>2. CurrentRow(s)' = CurrentRow(s) /\ (Observed(s)' <=> Observed(s))
  BY <1>1, SameReports
<1>3. RowInMemory(s)
  BY DEF InMemory
<1>4. rows[s].ts \in Nat
  BY Numbers
<1>5. CASE snapshot' = rows
  BY <1>1, <1>2, <1>3, <1>4, <1>5 DEF RowInMemory
<1>6. CASE snapshot' = snapshot /\ changed' = changed
  BY <1>1, <1>2, <1>3, <1>6 DEF RowInMemory
<1> QED
  BY <1>1, <1>5, <1>6

LEMMA ClearMemory ==
  ASSUME CTypeOK, Standing, Stamped, ProperRows, InMemory, mem = "loaded", ClearChanges,
         NEW s \in Sessions \ behind
  PROVE  RowInMemory(s)'
<1>1. /\ UNCHANGED <<snapshot, mem, rows, changed, baseline, acc, cutoff>> /\ pc = "clear"
      /\ changes' \in {changes, NoRows}
  BY DEF ClearChanges
<1>2. CurrentRow(s)' = CurrentRow(s) /\ (Observed(s)' <=> Observed(s))
  BY <1>1, SameReports
<1>3. RowInMemory(s)
  BY DEF InMemory
<1>4. CASE changes' = changes
  BY <1>1, <1>2, <1>3, <1>4 DEF RowInMemory
<1>5. CASE changes' = NoRows
  <2>1. changes'[s].ts = 0
    BY <1>5, NoRowFacts
  <2>2. /\ Observed(s) => acc[s].seen > 0
        /\ rows[s] # NoRow => rows[s].ts > 0
        /\ rows[s].ts \in Nat /\ acc[s].seen \in Nat
    BY Numbers
  <2> QED
    BY <1>1, <1>2, <1>3, <2>1, <2>2 DEF RowInMemory
<1> QED
  BY <1>1, <1>4, <1>5

\* What is forgotten of a session that still has a row was older than the row, and that cannot be.
LEMMA ForgetMemory ==
  ASSUME CTypeOK, Standing, Stamped, ProperRows, InMemory, mem = "loaded", Forget,
         NEW s \in Sessions \ behind
  PROVE  RowInMemory(s)'
<1>1. /\ UNCHANGED <<snapshot, changes, mem, rows, changed>> /\ pc = "forget" /\ pc' = "waiting"
      /\ baseline' = Only(baseline, Held(rows)) /\ cutoff' = 0
      /\ acc'[s] = IF acc[s].seen >= cutoff THEN acc[s] ELSE Unheard
  BY DEF Forget, files, CTypeOK
<1>2. RowInMemory(s)
  BY DEF InMemory
<1>3. rows[s] # NoRow => baseline'[s] = baseline[s]
  BY <1>1, OnlyFacts DEF CTypeOK, Held
<1>4. Observed(s)' => acc'[s] = acc[s] /\ acc[s].seen >= cutoff /\ Observed(s)
  <2>1. acc'[s] = Unheard => ~Observed(s)'
    BY DEF Unheard, Observed
  <2> QED
    BY <1>1, <2>1 DEF Observed
<1>5. /\ cutoff \in Nat /\ acc[s].seen \in Nat /\ rows[s].ts \in Nat /\ rows[s].ts <= heard[s]
      /\ rows[s] # NoRow <=> rows[s].ts > 0
      /\ Observed(s) => acc[s].seen = heard[s] /\ acc[s].seen > 0
  BY Numbers
<1>6. ASSUME rows[s] # NoRow, ~Observed(s)' PROVE ~Observed(s)
  <2>1. cutoff <= rows[s].ts
    BY <1>1, <1>2, <1>6 DEF RowInMemory
  <2>2. Observed(s) => acc[s].seen >= cutoff
    BY <1>5, <2>1
  <2> QED
    BY <1>1, <1>6, <2>2 DEF Observed
<1>7. ASSUME Observed(s)', rows[s] # NoRow PROVE CurrentRow(s)' = CurrentRow(s)
  BY <1>3, <1>4, <1>7, SameReports
<1>8. ASSUME Observed(s)', changes[s].ts = acc'[s].seen
      PROVE  changes[s] = CurrentRow(s)' /\ rows[s] # NoRow
  <2>1. changes[s] = CurrentRow(s) /\ (rows[s] = NoRow => acc[s].seen < cutoff)
    BY <1>2, <1>4, <1>8 DEF RowInMemory
  <2>2. rows[s] # NoRow
    BY <1>4, <1>5, <1>8, <2>1
  <2> QED
    BY <1>7, <1>8, <2>1, <2>2
<1>9. ASSUME Observed(s)', rows[s].ts = acc'[s].seen PROVE rows[s] = CurrentRow(s)'
  <2>1. rows[s] = CurrentRow(s) /\ rows[s] # NoRow
    BY <1>2, <1>4, <1>5, <1>9 DEF RowInMemory
  <2> QED
    BY <1>7, <1>9, <2>1
<1> QED
  BY <1>1, <1>2, <1>3, <1>4, <1>6, <1>7, <1>8, <1>9 DEF RowInMemory

LEMMA LoadMemory ==
  ASSUME CTypeOK, Standing, Stamped, ProperRows, Load, mem' = "loaded", NEW s \in Sessions \ behind
  PROVE  RowInMemory(s)'
<1>1. /\ UNCHANGED <<snapshot, changes, acc>> /\ pc = "down" /\ pc' = "start"
      /\ rows' = Disk /\ baseline' = Disk /\ changed' = Held(changes)
  BY DEF Load, files
<1>2. ~Observed(s)'
  BY <1>1 DEF Standing, Unheard, Observed
<1>3. Disk[s] = (IF changes[s].ts >= snapshot[s].ts THEN changes[s] ELSE snapshot[s])
      /\ changes[s].ts <= Disk[s].ts /\ snapshot[s].ts <= Disk[s].ts
  BY FoldFacts DEF Disk, CTypeOK
<1>4. /\ snapshot[s].ts \in Nat /\ changes[s].ts \in Nat
      /\ changes[s] # NoRow <=> changes[s].ts > 0
      /\ snapshot[s] # NoRow <=> snapshot[s].ts > 0
  BY Numbers
<1>5. s \in changed' \/ rows'[s] = snapshot[s] \/ rows'[s] = NoRow
  BY <1>1, <1>3, <1>4 DEF Held
<1>6. changes[s].ts = Disk[s].ts => changes[s] = Disk[s]
  BY <1>3, <1>4
<1> QED
  BY <1>1, <1>2, <1>3, <1>5, <1>6 DEF RowInMemory

LEMMA QuietMemory ==
  ASSUME CTypeOK, Standing, Stamped, ProperRows, InMemory, Quiet
  PROVE  InMemory'
<1> SUFFICES ASSUME mem' = "loaded", NEW s \in Sessions \ behind
             PROVE  RowInMemory(s)'
  BY QuietKept DEF InMemory
<1>1. CASE Load
  BY <1>1, LoadMemory
<1>2. CASE Exit \/ Crash
  BY <1>2 DEF Exit, Crash, Gone
<1>3. CASE SkipSweep \/ Drain \/ BeginRead \/ EndRead \/ Advance \/ StepBack
  <2>1. /\ UNCHANGED <<files, memory, acc, cutoff>>
        /\ pc' \in {pc, "waiting"}
    BY <1>3 DEF SkipSweep, Drain, BeginRead, EndRead, Advance, StepBack
  <2>2. UNCHANGED <<snapshot, changes, mem, rows, changed, baseline, acc, cutoff>>
    BY <2>1 DEF files, memory
  <2>3. CurrentRow(s)' = CurrentRow(s) /\ (Observed(s)' <=> Observed(s))
    BY <2>2, SameReports
  <2>4. RowInMemory(s)
    BY <2>2 DEF InMemory
  <2> QED
    BY <2>1, <2>2, <2>3, <2>4 DEF RowInMemory
<1>4. CASE Worker \/ Sweep
  <2>1. mem = "loaded"
    BY <1>4, DropTypes DEF Worker, Persist, RecordChanges, WriteSnapshot, ClearChanges, Forget
  <2> QED
    BY <1>4, <2>1, PersistMemory, RecordMemory, DropMemory, SnapshotMemory, ClearMemory,
       ForgetMemory DEF Worker
<1> QED
  BY <1>1, <1>2, <1>3, <1>4 DEF Quiet

-----------------------------------------------------------------------------
(***************************************************************************)
(* What the files hold after each step.                                    *)
(***************************************************************************)

LEMMA DiskRow ==
  ASSUME CTypeOK, NEW s \in Sessions
  PROVE  /\ Disk \in Table
         /\ Disk[s] = IF changes[s].ts >= snapshot[s].ts THEN changes[s] ELSE snapshot[s]
         /\ changes[s].ts <= Disk[s].ts /\ snapshot[s].ts <= Disk[s].ts
BY FoldFacts DEF Disk, CTypeOK

\* A write that fails leaves the files, and the failure is known unless the changes were written.
WriteFailed == UNCHANGED <<files, saved>> /\ (lapse' = TRUE \/ (lapse' = lapse /\ pc # "record"))

\* Where a row is in memory, a write that succeeds leaves that row on file.
LEMMA WrittenRow ==
  ASSUME CTypeOK, Standing, Stamped, ProperRows, InMemory,
         RecordChanges \/ WriteSnapshot \/ ClearChanges,
         NEW s \in Sessions \ behind, rows[s] # NoRow
  PROVE  Disk'[s] = rows[s] \/ WriteFailed
<1>1. mem = "loaded"
  BY DEF RecordChanges, WriteSnapshot, ClearChanges, Standing
<1>2. RowInMemory(s)
  BY <1>1 DEF InMemory
<1>3. /\ rows[s].ts > 0 /\ rows[s].ts \in Nat /\ snapshot[s].ts \in Nat /\ changes[s].ts \in Nat
      /\ snapshot[s].ts <= rows[s].ts /\ changes[s].ts <= rows[s].ts
      /\ changes[s].ts = rows[s].ts => changes[s] = rows[s]
      /\ s \in changed \/ rows[s] = snapshot[s]
  BY <1>2, Numbers DEF RowInMemory
<1>4. Disk'[s] = IF changes'[s].ts >= snapshot'[s].ts THEN changes'[s] ELSE snapshot'[s]
  BY DEF Disk, Fold
<1>5. CASE RecordChanges
  <2>1. /\ snapshot' = snapshot
        /\ changes' = Only(rows, changed) \/ (UNCHANGED <<changes, saved>> /\ lapse' = TRUE)
    <3>1. snapshot' = snapshot /\ Recorded
      BY <1>5 DEF RecordChanges
    <3> QED
      BY <3>1, Zenon DEF Recorded
  <2>2. CASE changes' = Only(rows, changed)
    <3>1. changes'[s] = IF s \in changed THEN rows[s] ELSE NoRow
      BY <2>2, OnlyFacts DEF CTypeOK
    <3>2. CASE s \in changed
      BY <1>3, <1>4, <2>1, <3>1, <3>2
    <3>3. CASE s \notin changed
      BY <1>3, <1>4, <2>1, <3>1, <3>3, NoRowFacts
    <3> QED
      BY <3>2, <3>3
  <2> QED
    BY <2>1, <2>2 DEF files, WriteFailed
<1>6. CASE WriteSnapshot
  <2>1. /\ changes' = changes /\ (snapshot' = rows \/ UNCHANGED <<snapshot, saved, lapse>>)
        /\ pc = "snapshot"
    BY <1>6 DEF WriteSnapshot, SnapshotWritten
  <2>2. CASE snapshot' = rows
    BY <1>3, <1>4, <2>1, <2>2
  <2> QED
    BY <2>1, <2>2 DEF files, WriteFailed
<1>7. CASE ClearChanges
  <2>1. /\ snapshot' = snapshot /\ snapshot = rows /\ UNCHANGED <<saved, lapse>>
        /\ pc = "clear" /\ changes' \in {changes, NoRows}
    BY <1>7 DEF ClearChanges, Standing, history
  <2>2. CASE changes' = NoRows
    BY <1>3, <1>4, <2>1, <2>2, NoRowFacts
  <2> QED
    BY <2>1, <2>2 DEF files, WriteFailed
<1> QED
  BY <1>5, <1>6, <1>7

\* The steps that leave the files.
LEMMA FilesStay ==
  ASSUME CTypeOK, Standing, Quiet
  PROVE  RecordChanges \/ WriteSnapshot \/ ClearChanges \/ UNCHANGED <<files, saved>>
BY DropTypes DEF Quiet, Worker, Persist, Forget, SkipSweep, Load, Drain, Exit, Crash, Gone,
   BeginRead, EndRead, Advance, StepBack, history

LEMMA SavedStays ==
  ASSUME CTypeOK, Standing, Stamped, ProperRows, InMemory, SavedIsDurable, Quiet
  PROVE  SavedIsDurable'
<1> SUFFICES ASSUME NEW s \in Sessions \ behind, saved'[s] # NoRow
             PROVE  Disk'[s] = saved'[s]
  BY QuietKept DEF SavedIsDurable, Held
<1>1. CASE UNCHANGED <<files, saved>>
  BY <1>1 DEF SavedIsDurable, Held, Disk, Fold, files
<1>2. CASE (RecordChanges \/ WriteSnapshot \/ ClearChanges) /\ ~UNCHANGED <<files, saved>>
  <2>1. saved' = rows
    <3>1. CASE RecordChanges
      BY <1>2, <3>1 DEF RecordChanges, Recorded, files
    <3>2. CASE WriteSnapshot
      BY <1>2, <3>2 DEF WriteSnapshot, SnapshotWritten, files
    <3>3. CASE ClearChanges
      BY <3>3 DEF ClearChanges, Standing, history
    <3> QED
      BY <1>2, <3>1, <3>2, <3>3
  <2> QED
    BY <1>2, <2>1, WrittenRow DEF WriteFailed
<1> QED
  BY <1>1, <1>2, FilesStay

-----------------------------------------------------------------------------
(***************************************************************************)
(* What a report that reads still finds.                                   *)
(***************************************************************************)
LEMMA BeforeRow ==
  ASSUME CTypeOK, NEW s \in Sessions
  PROVE  /\ Before \in Table /\ Before[s].ts \in Nat /\ Before[s].total \in Nat
         /\ Before[s] = IF reader.changes[s].ts >= reader.snapshot[s].ts
                        THEN reader.changes[s] ELSE reader.snapshot[s]
         /\ reader.changes[s].ts <= Before[s].ts /\ reader.snapshot[s].ts <= Before[s].ts
         /\ reader.changes[s].ts \in Nat /\ reader.snapshot[s].ts \in Nat
<1>1. reader.changes \in Table /\ reader.snapshot \in Table
  BY DEF CTypeOK
<1>2. /\ Before \in Table
      /\ Before[s] = IF reader.changes[s].ts >= reader.snapshot[s].ts
                     THEN reader.changes[s] ELSE reader.snapshot[s]
      /\ reader.changes[s].ts <= Before[s].ts /\ reader.snapshot[s].ts <= Before[s].ts
  BY <1>1, FoldFacts DEF Before
<1> QED
  BY <1>1, <1>2, RowFacts

LEMMA AtLeastSelf ==
  ASSUME NEW t \in Table, NEW s \in Sessions
  PROVE  AtLeast(t[s], t[s])
<1>1. t[s].ts \in Nat /\ t[s].total \in Nat
  BY RowFacts
<1> QED
  BY <1>1 DEF AtLeast

\* A report's row of a session that it must still find, and that session as the invariant has it.
Finds(s) ==
  /\ Proper(Before[s])
  /\ AtLeast(Disk[s], Before[s])
  /\ mem = "loaded" => rows[s] # NoRow /\ AtLeast(rows[s], Before[s])
  /\ snapshot[s] = reader.snapshot[s] \/ AtLeast(snapshot[s], Before[s])

LEMMA ReadableFinds ==
  ASSUME Readable, reader.reading, NEW s \in Sessions \ behind, Before[s] # NoRow,
         s \notin reader.expired
  PROVE  Finds(s)
BY DEF Readable, Finds, Held

LEMMA FindsStays ==
  ASSUME NEW s \in Sessions, Finds(s), UNCHANGED <<reader, files, rows, mem>>
  PROVE  Finds(s)'
BY DEF Finds, Proper, AtLeast, Before, Disk, Fold, files

LEMMA WriteFinds ==
  ASSUME CTypeOK, Standing, Stamped, ProperRows, InMemory, NEW s \in Sessions \ behind, Finds(s),
         RecordChanges \/ WriteSnapshot \/ ClearChanges
  PROVE  Finds(s)'
<1>1. mem = "loaded" /\ UNCHANGED <<reader, rows, mem>>
  BY DEF RecordChanges, WriteSnapshot, ClearChanges, Standing
<1>2. Before' = Before
  BY <1>1 DEF Before
<1>3. rows[s] # NoRow /\ AtLeast(rows[s], Before[s])
  BY <1>1 DEF Finds
<1>4. CASE UNCHANGED <<files, saved>>
  BY <1>1, <1>4, FindsStays
<1>5. CASE Disk'[s] = rows[s]
  <2>1. snapshot'[s] \in {snapshot[s], rows[s]}
    BY DEF RecordChanges, WriteSnapshot, SnapshotWritten, ClearChanges
  <2>2. snapshot'[s] = reader.snapshot[s] \/ AtLeast(snapshot'[s], Before[s])
    BY <1>3, <2>1 DEF Finds
  <2>3. AtLeast(Disk'[s], Before[s])
    BY <1>3, <1>5
  <2>4. AtLeast(rows'[s], Before'[s]) /\ rows'[s] # NoRow
    BY <1>1, <1>2, <1>3
  <2>5. Proper(Before'[s])
    BY <1>2 DEF Finds
  <2> QED
    BY <1>1, <1>2, <2>2, <2>3, <2>4, <2>5 DEF Finds, AtLeast, Proper
<1> QED
  BY <1>3, <1>4, <1>5, WrittenRow DEF WriteFailed

LEMMA PersistFinds ==
  ASSUME CTypeOK, Standing, Stamped, ProperRows, InMemory, NEW s \in Sessions \ behind, Finds(s),
         Persist
  PROVE  Finds(s)'
<1>1. UNCHANGED <<reader, files, mem>>
  BY DEF Persist
<1>2. CASE rows'[s] = rows[s]
  BY <1>1, <1>2 DEF Finds, Proper, AtLeast, Before, Disk, Fold, files
<1>3. CASE rows'[s] # rows[s]
  <2>1. mem = "loaded" /\ Observed(s) /\ rows'[s] = CurrentRow(s)
    BY <1>3 DEF Persist, CTypeOK
  <2>2. RowInMemory(s)
    BY <2>1 DEF InMemory
  <2>3. rows[s] # NoRow /\ AtLeast(rows[s], Before[s])
    BY <2>1 DEF Finds
  <2>4. rows[s].total <= CurrentRow(s).total
    BY <2>1, <2>2, <2>3 DEF RowInMemory
  <2>5. CurrentRow(s).ts = acc[s].seen /\ rows[s].ts <= acc[s].seen /\ acc[s].seen > 0
        /\ rows[s].ts \in Nat /\ acc[s].seen \in Nat /\ rows[s].total \in Nat
        /\ CurrentRow(s).total \in Nat
    BY <2>1, Numbers, CurrentRowFacts DEF Row
  <2>6. Before[s].ts \in Nat /\ Before[s].total \in Nat
    BY BeforeRow
  <2>7. AtLeast(CurrentRow(s), Before[s])
    BY <2>3, <2>4, <2>5, <2>6 DEF AtLeast
  <2>8. CurrentRow(s) # NoRow
    BY <2>5, NoRowFacts
  <2>9. Before' = Before /\ Disk' = Disk /\ snapshot' = snapshot
    BY <1>1 DEF Before, Disk, Fold, files
  <2> QED
    BY <1>1, <2>1, <2>7, <2>8, <2>9 DEF Finds, AtLeast, Proper
<1> QED
  BY <1>2, <1>3

LEMMA QuietReadable ==
  ASSUME CTypeOK, Standing, Stamped, ProperRows, InMemory, Readable, Quiet
  PROVE  Readable'
<1> SUFFICES ASSUME reader'.reading, NEW s \in Sessions \ behind, Before'[s] # NoRow,
                    s \notin reader'.expired
             PROVE  Finds(s)'
  BY QuietKept DEF Readable, Finds, Held
<1>1. CASE BeginRead
  <2>1. /\ reader' =
             [reading |-> TRUE, changes |-> changes, snapshot |-> snapshot,
              expired |-> {t \in Sessions : mem = "loaded" /\ rows[t].total < Disk[t].total}]
        /\ UNCHANGED <<snapshot, changes, rows, mem>>
    BY <1>1 DEF BeginRead, files, memory
  <2>2. Before' = Disk /\ Disk' = Disk
    BY <2>1 DEF Before, Disk, Fold
  <2>3. /\ Disk \in Table /\ Disk[s] \in {snapshot[s], changes[s]}
        /\ Disk[s].ts = snapshot[s].ts \/ Disk[s].ts = changes[s].ts
    BY DiskRow
  <2>4. Proper(Disk[s]) /\ AtLeast(Disk[s], Disk[s]) /\ Disk[s] # NoRow
    BY <2>2, <2>3, AtLeastSelf DEF ProperRows
  <2>5. Disk[s].total > 0 /\ Disk[s].total \in Nat
    BY <2>3, <2>4, RowFacts DEF Proper
  <2>6. ASSUME mem = "loaded" PROVE rows[s] # NoRow /\ AtLeast(rows[s], Disk[s])
    <3>1. ~(rows[s].total < Disk[s].total) /\ rows[s].total \in Nat
      BY <2>1, <2>6, Numbers
    <3>2. rows[s] # NoRow
      BY <2>5, <3>1, NoRowFacts
    <3>3. snapshot[s].ts <= rows[s].ts /\ changes[s].ts <= rows[s].ts
      BY <2>6, <3>2 DEF InMemory, RowInMemory
    <3> QED
      BY <2>3, <2>5, <3>1, <3>2, <3>3 DEF AtLeast
  <2> QED
    BY <2>1, <2>2, <2>4, <2>6 DEF Finds, Proper, AtLeast
<1>2. CASE EndRead
  BY <1>2 DEF EndRead, NoReader
<1>3. ASSUME UNCHANGED <<reader.reading, reader.changes, reader.snapshot>>,
             reader.expired \subseteq reader'.expired
      PROVE  Finds(s) /\ Before' = Before
  <2>1. Before' = Before
    BY <1>3 DEF Before
  <2> QED
    BY <1>3, <2>1, ReadableFinds
<1>4. CASE RecordChanges \/ WriteSnapshot \/ ClearChanges
  <2>1. UNCHANGED reader
    BY <1>4 DEF RecordChanges, WriteSnapshot, ClearChanges
  <2> QED
    BY <1>3, <1>4, <2>1, WriteFinds
<1>5. CASE Persist
  <2>1. UNCHANGED reader
    BY <1>5 DEF Persist
  <2> QED
    BY <1>3, <1>5, <2>1, PersistFinds
<1>6. CASE Sweep \/ FinalCheckpoint
  <2>1. /\ UNCHANGED <<files, mem>>
        /\ mem # "loaded" => rows' = rows
        /\ mem = "loaded" => rows' = Only(rows, {t \in Sessions : rows[t].ts >= cutoff'})
        /\ reader' = [reader EXCEPT !.expired =
             @ \cup {t \in Held(rows) : reader.reading /\ rows'[t] = NoRow}]
    BY <1>6, DropTypes
  <2>2. UNCHANGED <<reader.reading, reader.changes, reader.snapshot>>
        /\ reader'.expired =
              reader.expired \cup {t \in Held(rows) : reader.reading /\ rows'[t] = NoRow}
    BY <2>1 DEF CTypeOK
  <2>3. Finds(s) /\ Before' = Before
    BY <1>3, <2>2
  <2>4. mem = "loaded" => rows'[s] = rows[s]
    <3>1. mem = "loaded" => rows[s] # NoRow /\ rows'[s] \in {rows[s], NoRow}
      BY <2>1, <2>3, OnlyFacts DEF Finds, CTypeOK
    <3>2. rows[s] # NoRow => rows'[s] # NoRow
      BY <2>2 DEF Held
    <3> QED
      BY <3>1, <3>2
  <2>5. Disk' = Disk /\ snapshot' = snapshot
    BY <2>1 DEF Disk, Fold, files
  <2> QED
    BY <2>1, <2>2, <2>3, <2>4, <2>5 DEF Finds, Proper, AtLeast
<1>7. CASE Load
  <2>1. /\ UNCHANGED <<files, reader>>
        /\ mem' = "loaded" => rows' = Disk
    BY <1>7 DEF Load
  <2>2. Finds(s) /\ Before' = Before /\ Disk' = Disk /\ snapshot' = snapshot
    BY <1>3, <2>1 DEF Disk, Fold, files
  <2>3. Before[s] # NoRow /\ Before[s].ts > 0 /\ Before[s].ts \in Nat
    BY <2>2, BeforeRow DEF Finds, Proper
  <2>4. Disk[s].ts >= Before[s].ts /\ Disk[s].ts \in Nat
    <3>1. Disk \in Table
      BY DiskRow
    <3> QED
      BY <2>2, <3>1, RowFacts DEF Finds, AtLeast
  <2>5. Disk[s] # NoRow
    BY <2>3, <2>4, NoRowFacts
  <2> QED
    BY <2>1, <2>2, <2>5 DEF Finds, Proper, AtLeast
<1>8. CASE Exit \/ Crash
  <2>1. UNCHANGED <<files, reader>> /\ mem' = "none"
    BY <1>8 DEF Exit, Crash, Gone
  <2>2. Finds(s) /\ Before' = Before /\ Disk' = Disk /\ snapshot' = snapshot
    BY <1>3, <2>1 DEF Disk, Fold, files
  <2> QED
    BY <2>1, <2>2 DEF Finds, Proper, AtLeast
<1>9. CASE Forget \/ SkipSweep \/ Drain \/ Advance \/ StepBack
  <2>1. UNCHANGED <<reader, files, rows, mem>>
    BY <1>9 DEF Forget, SkipSweep, Drain, Advance, StepBack, memory
  <2> QED
    BY <1>3, <2>1, FindsStays
<1> QED
  BY <1>1, <1>2, <1>4, <1>5, <1>6, <1>7, <1>8, <1>9 DEF Quiet, Worker

-----------------------------------------------------------------------------
(***************************************************************************)
(* The theorems.                                                           *)
(***************************************************************************)
LEMMA CInit ==
  Init => CInv
<1> SUFFICES ASSUME Init PROVE CInv
  OBVIOUS
<1>1. CTypeOK
  BY NoRowFacts DEF Init, CTypeOK, Unheard, NoReader, Nothing, Heards
<1>2. Standing
  BY DEF Init, Standing
<1>3. \A s \in Sessions : snapshot[s] = NoRow /\ changes[s] = NoRow /\ rows[s] = NoRow
                          /\ heard[s] = 0 /\ acc[s] = Unheard
  BY DEF Init, NoRows
<1>4. Stamped
  BY <1>3, NoRowFacts DEF Init, Stamped, Unheard, Observed
<1>5. ProperRows
  BY <1>3 DEF ProperRows, Proper
<1>6. Cumulative
  <2> SUFFICES ASSUME NEW s \in Sessions
               PROVE  ~Observed(s) /\ 0 <= SumFunction(reported[s])
    BY <1>3, NoRowFacts DEF Cumulative
  <2>1. ~Observed(s)
    BY <1>3 DEF Observed, Unheard
  <2>2. reported[s] \in [Series -> Nat]
    BY <1>1 DEF CTypeOK
  <2> QED
    BY <2>1, <2>2, CountNat
<1>7. InMemory /\ Readable
  BY DEF Init, InMemory, Readable, NoReader
<1>8. SavedIsDurable
  BY DEF Init, SavedIsDurable, Held, NoRows
<1> QED
  BY <1>1, <1>2, <1>4, <1>5, <1>6, <1>7, <1>8 DEF CInv

LEMMA CStep ==
  ASSUME CInv, [Next]_vars
  PROVE  CInv'
<1> USE DEF CInv
<1>1. CASE UNCHANGED vars
  <2> USE <1>1 DEF vars
  <2>1. CTypeOK' /\ Standing'
    BY DEF CTypeOK, Standing, Heards
  <2>2. Stamped' /\ ProperRows' /\ Cumulative'
    BY DEF Stamped, ProperRows, Proper, Cumulative, Observed
  <2>3. ASSUME NEW s \in Sessions, RowInMemory(s) PROVE RowInMemory(s)'
    BY <2>3, SameReports DEF RowInMemory
  <2>4. InMemory'
    BY <2>3 DEF InMemory
  <2>5. Before' = Before /\ Disk' = Disk
    BY DEF Before, Disk, Fold
  <2>6. Readable' /\ SavedIsDurable'
    BY <2>5 DEF Readable, Proper, AtLeast, Held, SavedIsDurable
  <2> QED
    BY <2>1, <2>2, <2>4, <2>6
<1>2. ASSUME NEW s \in Sessions, IngestMetrics(s) \/ IngestEvents(s) PROVE CInv'
  <2>1. CTypeOK' /\ Standing' /\ UNCHANGED <<files, memory, reader, saved>>
    BY <1>2, HearTypes
  <2>2. Stamped' /\ ProperRows' /\ Cumulative'
    BY <1>2, HearRows
  <2>3. UNCHANGED <<snapshot, changes, rows, mem>>
    BY <2>1 DEF files, memory
  <2>4. InMemory'
    BY <1>2, <2>3, HearMemory DEF InMemory
  <2>5. Disk' = Disk
    BY <2>3 DEF Disk, Fold
  <2>6. SavedIsDurable'
    <3>1. behind \subseteq behind'
      BY <1>2, HearTypes
    <3> QED
      BY <2>1, <2>5, <3>1 DEF SavedIsDurable, Held
  <2>7. Readable'
    <3>0. behind \subseteq behind'
      BY <1>2, HearTypes
    <3> SUFFICES ASSUME reader'.reading, NEW t \in Sessions \ behind, Before'[t] # NoRow,
                        t \notin reader'.expired
                 PROVE  Finds(t)'
      BY <3>0 DEF Readable, Finds, Held
    <3>1. Before' = Before
      BY <2>1 DEF Before
    <3>2. Finds(t)
      BY <2>1, <3>1, ReadableFinds
    <3> QED
      BY <2>1, <2>3, <3>2, FindsStays
  <2> QED
    BY <2>1, <2>2, <2>4, <2>6, <2>7
<1>3. CASE Quiet
  <2>1. CTypeOK' /\ Standing'
    BY <1>3, QuietTypes
  <2>2. Stamped' /\ ProperRows' /\ Cumulative'
    BY <1>3, <2>1, QuietKept, QuietRows
  <2>3. InMemory'
    BY <1>3, QuietMemory
  <2>4. Readable' /\ SavedIsDurable'
    BY <1>3, QuietReadable, SavedStays
  <2> QED
    BY <2>1, <2>2, <2>3, <2>4
<1> QED
  BY <1>1, <1>2, <1>3 DEF Next, Quiet

\* What CInv says of the files, the rows in memory, the accumulator and a report that reads holds
\* in every state.
THEOREM CostInvariant ==
  Spec => []CInv
<1>1. Init => CInv
  BY CInit
<1>2. CInv /\ [Next]_vars => CInv'
  BY CStep
<1> QED
  BY <1>1, <1>2, PTL DEF Spec

\* What a write of the changes or of the snapshot reported as done is what a
\* report reads and the next receiver loads, whatever fails, stops or is read
\* half-way after it (Snapshot::record, checkpoint and load, cost.rs).
THEOREM SavedAlwaysDurable ==
  Spec => []SavedIsDurable
<1>1. CInv => SavedIsDurable
  BY DEF CInv
<1> QED
  BY <1>1, CostInvariant, PTL

LEMMA ReadableViews ==
  ASSUME CInv
  PROVE  ReaderMissesNothing
<1> SUFFICES ASSUME reader.reading, NEW s \in Sessions \ behind, Before[s] # NoRow,
                    s \notin reader.expired
             PROVE  View[s].total >= Before[s].total
  BY DEF ReaderMissesNothing, Before, Held
<1>1. Finds(s)
  BY ReadableFinds DEF CInv
<1>2. View[s] = IF reader.changes[s].ts >= snapshot[s].ts THEN reader.changes[s] ELSE snapshot[s]
  BY DEF View, Fold
<1>3. /\ snapshot[s].ts \in Nat /\ snapshot[s].total \in Nat
  BY RowFacts DEF CInv, CTypeOK
<1>4. CTypeOK
  BY DEF CInv
<1>5. CASE snapshot[s] = reader.snapshot[s]
  <2>1. View[s] = Before[s]
    BY <1>2, <1>4, <1>5, BeforeRow
  <2> QED
    BY <1>4, <2>1, BeforeRow
<1>6. CASE AtLeast(snapshot[s], Before[s])
  <2>1. CASE reader.changes[s].ts >= snapshot[s].ts
    <3>1. reader.changes[s].ts = Before[s].ts
      BY <1>3, <1>4, <1>6, <2>1, BeforeRow DEF AtLeast
    <3>2. Before[s] = reader.changes[s]
      BY <1>4, <3>1, BeforeRow
    <3> QED
      BY <1>2, <1>4, <2>1, <3>2, BeforeRow
  <2>2. CASE ~(reader.changes[s].ts >= snapshot[s].ts)
    BY <1>2, <1>3, <1>4, <1>6, <2>2, BeforeRow DEF AtLeast
  <2> QED
    BY <2>1, <2>2
<1> QED
  BY <1>1, <1>5, <1>6 DEF Finds

\* A report that reads the changes and then the snapshot, with any number of
\* the receiver's writes before, between and after, finds each session that
\* was not dropped meanwhile, with no less than it had ("a read that races one
\* finds each row in at least one of the two", cost.rs).
THEOREM ReportMissesNothing ==
  Spec => []ReaderMissesNothing
<1>1. CInv => ReaderMissesNothing
  BY ReadableViews
<1> QED
  BY <1>1, CostInvariant, PTL

-----------------------------------------------------------------------------
(***************************************************************************)
(* Within the retention: what a session has is what was reported of it.    *)
(***************************************************************************)

\* The row that a session's reports make is what was reported, and so is its total.
LEMMA CurrentCounts ==
  ASSUME CInv, EInv, mem = "loaded", NEW s \in Sessions \ behind, Observed(s)
  PROVE  CurrentRow(s).by = reported[s] /\ CurrentRow(s).total = SumFunction(reported[s])
<1> USE DEF CInv
<1> DEFINE base == baseline[s].by
           f    == acc[s].by
           r    == reported[s]
<1>1. /\ base \in [Series -> Nat] /\ r \in [Series -> Nat] /\ IsFiniteSet(Series)
      /\ baseline[s].total \in Nat
  BY RowFacts, CostAssumption DEF CTypeOK
<1>2. f \in [Heards(s) -> Nat] /\ Heards(s) \subseteq Series /\ DOMAIN f = Heards(s)
      /\ SumFunction(f) \in Nat
  BY AccFacts
<1>3. Whole(s, baseline[s])
  BY DEF EInv, WholeRows
<1>4. CASE s \in Delta
  <2> DEFINE h == [k \in Series |-> Heard(s, k)]
  <2>1. \A k \in Series : r[k] = base[k] + h[k]
    BY <1>4 DEF EInv, Conserved
  <2>2. \A k \in Series : h[k] = IF k \in Heards(s) THEN f[k] ELSE 0
    BY DEF Heard, Heards
  <2>3. CurrentRow(s).by = r
    <3>1. CurrentRow(s).by = [k \in Series |-> IF k \in Heards(s) THEN base[k] + f[k] ELSE base[k]]
      BY <1>4 DEF CurrentRow, Merged, Heards
    <3>2. ASSUME NEW k \in Series
          PROVE  r[k] = IF k \in Heards(s) THEN base[k] + f[k] ELSE base[k]
      <4>1. base[k] \in Nat /\ r[k] = base[k] + h[k]
        BY <1>1, <2>1
      <4>2. CASE k \in Heards(s)
        BY <2>2, <4>1, <4>2
      <4>3. CASE k \notin Heards(s)
        BY <2>2, <4>1, <4>3
      <4> QED
        BY <4>2, <4>3
    <3>3. r = [k \in Series |-> r[k]]
      BY <1>1
    <3> QED
      BY <3>1, <3>2, <3>3
  <2>4. SumFunctionOnSet(r, Series)
        = SumFunctionOnSet(base, Series) + SumFunctionOnSet(f, Heards(s))
    <3>1. /\ \A k \in Series : base[k] \in Int /\ h[k] \in Int
          /\ \A k \in Heards(s) : f[k] \in Int /\ h[k] = f[k]
          /\ \A k \in Series \ Heards(s) : h[k] = 0
      BY <1>1, <1>2, <2>2
    <3> HIDE DEF base, f, r, h
    <3>2. SumFunctionOnSet(r, Series) = SumFunctionOnSet(base, Series) + SumFunctionOnSet(h, Series)
      BY <1>1, <2>1, <3>1, SumPlus
    <3>3. SumFunctionOnSet(h, Series) = SumFunctionOnSet(f, Heards(s))
      BY <1>1, <1>2, <3>1, SumWithin
    <3> QED
      BY <3>2, <3>3
  <2>5. SumFunction(r) = baseline[s].total + SumFunction(f)
    <3>1. /\ SumFunction(r) = SumFunctionOnSet(r, Series)
          /\ SumFunction(f) = SumFunctionOnSet(f, Heards(s))
          /\ SumFunction(base) = SumFunctionOnSet(base, Series)
      BY <1>1, <1>2 DEF SumFunction
    <3> QED
      BY <1>3, <2>4, <3>1 DEF Whole
  <2>6. CurrentRow(s).total = SumFunction(f) + baseline[s].total
    BY <1>4 DEF CurrentRow
  <2> QED
    BY <1>1, <1>2, <2>3, <2>5, <2>6
<1>5. CASE s \notin Delta
  <2>1. f = [j \in {i \in Series : r[i] > 0} |-> r[j]]
    BY <1>5 DEF Cumulative
  <2>2. \A k \in Series : base[k] <= r[k]
    BY <1>3, <1>5 DEF Whole
  <2>3. CurrentRow(s).by = r
    <3>1. CurrentRow(s).by = [k \in Series |-> IF k \in DOMAIN f THEN 0 + f[k] ELSE base[k]]
      BY <1>5 DEF CurrentRow, Merged
    <3>2. ASSUME NEW k \in Series PROVE r[k] = IF k \in DOMAIN f THEN 0 + f[k] ELSE base[k]
      <4>1. r[k] \in Nat /\ base[k] \in Nat /\ base[k] <= r[k]
        BY <1>1, <2>2
      <4>2. CASE r[k] > 0
        BY <2>1, <4>1, <4>2
      <4>3. CASE ~(r[k] > 0)
        BY <2>1, <4>1, <4>3
      <4> QED
        BY <4>2, <4>3
    <3>3. r = [k \in Series |-> r[k]]
      BY <1>1
    <3> QED
      BY <3>1, <3>2, <3>3
  <2>4. SumFunction(f) = SumFunction(r)
    BY <1>1, <2>1, SumOfPositive
  <2>5. CurrentRow(s).total = SumFunction(f) + 0
    BY <1>5 DEF CurrentRow
  <2> QED
    BY <1>2, <2>3, <2>4, <2>5
<1> QED
  BY <1>4, <1>5

\* Nothing is older than the retention: a checkpoint drops no row and a sweep forgets nothing.
LEMMA NothingDropped ==
  ASSUME CInv, EInv, Sweep \/ FinalCheckpoint
  PROVE  /\ rows' = rows /\ reported' = reported /\ cutoff' = 0
         /\ UNCHANGED <<now, snapshot, changes, mem, baseline, acc, heard, behind, final, lapse>>
         /\ pc \in {"start", "idle"} /\ pc' \in {"snapshot", "forget", "exit"}
<1> USE DEF CInv
<1>1. /\ UNCHANGED <<now, files, mem, baseline, acc, heard, behind, final, lapse>>
      /\ cutoff' \in {0, Max2(now - Horizon, 0)} /\ pc \in {"start", "idle"}
      /\ pc' \in {"snapshot", "forget", "exit"} /\ CTypeOK'
      /\ reported' = AfterExpiry(cutoff')
      /\ mem # "loaded" => rows' = rows
      /\ mem = "loaded" => rows' = Only(rows, {s \in Sessions : rows[s].ts >= cutoff'})
  BY DropTypes
<1>2. cutoff' = 0
  <2>1. now \in Nat /\ Horizon \in Nat /\ now <= Horizon
    BY CostAssumption DEF CTypeOK, EInv, NothingExpired
  <2>2. Max2(now - Horizon, 0) = 0
    BY <2>1 DEF Max2
  <2> QED
    BY <1>1, <2>2
<1>3. rows' = rows
  <2>1. rows \in Table /\ rows' \in Table
    BY <1>1 DEF CTypeOK
  <2>2. mem = "loaded" => \A s \in Sessions : rows'[s] = rows[s]
    BY <1>1, <1>2, <2>1, OnlyFacts, RowFacts
  <2> QED
    BY <1>1, <2>1, <2>2, TableEqual
<1>4. reported' = reported
  <2>1. reported \in [Sessions -> [Series -> Nat]] /\ \A s \in Sessions : ~(heard[s] < 0)
    BY DEF CTypeOK
  <2> QED
    BY <1>1, <1>2, <2>1 DEF AfterExpiry
<1> QED
  BY <1>1, <1>2, <1>3, <1>4 DEF files

LEMMA NothingForgotten ==
  ASSUME CInv, EInv, Forget, mem = "loaded"
  PROVE  baseline' = baseline /\ acc' = acc
<1> USE DEF CInv
<1>1. /\ baseline' = Only(baseline, Held(rows)) /\ cutoff = 0
      /\ acc' = [s \in Sessions |-> IF acc[s].seen >= cutoff THEN acc[s] ELSE Unheard]
  BY DEF Forget, EInv, NothingExpired
<1>2. baseline \in Table /\ baseline' \in Table
  BY <1>1, OnlyFacts DEF CTypeOK
<1>3. ASSUME NEW s \in Sessions PROVE baseline'[s] = baseline[s]
  <2>1. baseline'[s] = IF rows[s] # NoRow THEN baseline[s] ELSE NoRow
    BY <1>1, <1>2, OnlyFacts DEF Held
  <2>2. rows[s] = NoRow => baseline[s] = NoRow
    BY DEF EInv, NothingExpired
  <2> QED
    BY <2>1, <2>2
<1>4. \A s \in Sessions : acc[s].seen \in Nat
  BY AccFacts
<1>5. acc = [s \in Sessions |-> acc[s]]
  BY DEF CTypeOK
<1> QED
  BY <1>1, <1>2, <1>3, <1>4, <1>5, TableEqual

LEMMA NothingWhole ==
  ASSUME CTypeOK, NEW s \in Sessions
  PROVE  Whole(s, NoRow)
<1>1. SumFunctionOnSet(Nothing, Series) = 0
  <2>1. IsFiniteSet(Series) /\ IsFiniteSet({}) /\ {} \subseteq Series
    BY CostAssumption, FS_EmptySet
  <2>2. \A x \in Series : Nothing[x] = 0
    BY DEF Nothing
  <2>3. SumFunctionOnSet(Nothing, Series) = SumFunctionOnSet(Nothing, {})
    BY <2>1, <2>2, SumWithin
  <2> QED
    BY <2>3, SumOfNone
<1>2. DOMAIN Nothing = Series /\ \A k \in Series : Nothing[k] = 0
  BY DEF Nothing
<1>3. \A k \in Series : 0 <= reported[s][k]
  BY DEF CTypeOK
<1> QED
  BY <1>1, <1>2, <1>3, NoRowFacts DEF Whole, SumFunction

LEMMA QuietWhole ==
  ASSUME CInv, EInv, Quiet
  PROVE  WholeRows'
<1> USE DEF CInv
<1> SUFFICES ASSUME NEW s \in Sessions \ behind
             PROVE  /\ Whole(s, snapshot[s])' /\ Whole(s, changes[s])' /\ Whole(s, rows[s])'
                    /\ Whole(s, baseline[s])'
  BY QuietKept DEF WholeRows
<1>1. /\ s \notin Delta => reported'[s] = reported[s]
      /\ Kept(s, snapshot'[s]) /\ Kept(s, changes'[s]) /\ Kept(s, rows'[s])
  BY QuietKept
<1>2. Kept(s, baseline'[s]) \/ baseline'[s] = baseline[s]
  <2>1. CASE Load
    BY <2>1, DiskRow DEF Load, Kept
  <2>2. CASE Forget
    BY <2>2, OnlyFacts DEF Forget, Kept, CTypeOK
  <2>3. CASE Exit \/ Crash
    BY <2>3, NoRowFacts DEF Exit, Crash, Gone, Kept
  <2>4. CASE Sweep \/ FinalCheckpoint
    BY <2>4, DropTypes
  <2>5. CASE Persist \/ RecordChanges \/ WriteSnapshot \/ ClearChanges \/ SkipSweep \/ Drain
             \/ BeginRead \/ EndRead \/ Advance \/ StepBack
    BY <2>5 DEF Persist, RecordChanges, WriteSnapshot, ClearChanges, SkipSweep, Drain, BeginRead,
                EndRead, Advance, StepBack, memory
  <2> QED
    BY <2>1, <2>2, <2>3, <2>4, <2>5 DEF Quiet, Worker
<1>3. ASSUME NEW row, Kept(s, row) \/ row = baseline[s]
      PROVE  Whole(s, row)
  <2>1. CASE row \in {snapshot[s], changes[s], rows[s], baseline[s]}
    BY <2>1 DEF EInv, WholeRows
  <2>2. CASE row = NoRow
    BY <2>2, NothingWhole
  <2>3. CASE mem = "loaded" /\ Observed(s) /\ row = CurrentRow(s)
    <3>1. row.by = reported[s] /\ row.total = SumFunction(reported[s])
      BY <2>3, CurrentCounts
    <3>2. \A k \in Series : reported[s][k] <= reported[s][k]
      BY DEF CTypeOK
    <3> QED
      BY <3>1, <3>2 DEF Whole
  <2> QED
    BY <1>3, <2>1, <2>2, <2>3 DEF Kept
<1> QED
  BY <1>1, <1>2, <1>3 DEF Whole

\* Where no row is in memory none is on file, so a write that succeeds leaves what is in memory.
LEMMA WrittenAll ==
  ASSUME CInv, EInv, RecordChanges \/ WriteSnapshot \/ ClearChanges, ~WriteFailed,
         NEW s \in Sessions \ behind
  PROVE  Disk'[s] = rows[s]
<1> USE DEF CInv
<1>1. mem = "loaded"
  BY DEF RecordChanges, WriteSnapshot, ClearChanges, Standing
<1>2. CASE rows[s] # NoRow
  BY <1>2, WrittenRow
<1>3. CASE rows[s] = NoRow
  <2>1. snapshot[s] = NoRow /\ changes[s] = NoRow
    BY <1>1, <1>3 DEF EInv, NothingExpired
  <2>2. snapshot'[s] \in {snapshot[s], rows[s]}
    BY DEF RecordChanges, WriteSnapshot, SnapshotWritten, ClearChanges
  <2>3. changes'[s] \in {changes[s], rows[s], NoRow}
    BY OnlyFacts, NoRowFacts DEF RecordChanges, Recorded, WriteSnapshot, ClearChanges, CTypeOK
  <2> QED
    BY <1>3, <2>1, <2>2, <2>3 DEF Disk, Fold
<1> QED
  BY <1>2, <1>3

\* What the worker and the receiver leave of the clock.
LEMMA QuietClock ==
  ASSUME CInv, EInv, Quiet, MaxTime \in 1..Horizon
  PROVE  now' <= Horizon /\ cutoff' = 0
<1> USE DEF CInv
<1>1. now <= Horizon /\ cutoff = 0 /\ now \in Nat /\ Horizon \in Nat /\ MaxTime \in Nat
  BY CostAssumption DEF EInv, NothingExpired, CTypeOK
<1>2. CASE Advance
  BY <1>1, <1>2 DEF Advance
<1>3. CASE Sweep \/ FinalCheckpoint
  BY <1>1, <1>3, NothingDropped
<1>5. CASE StepBack
  <2>1. now' <= now /\ now' \in Nat /\ UNCHANGED cutoff
    BY <1>1, <1>5 DEF StepBack
  <2> QED
    BY <1>1, <2>1
<1>4. CASE Persist \/ RecordChanges \/ WriteSnapshot \/ ClearChanges \/ Forget \/ SkipSweep \/ Load
           \/ Drain \/ Exit \/ Crash \/ BeginRead \/ EndRead
  BY <1>1, <1>4 DEF Persist, RecordChanges, WriteSnapshot, ClearChanges, Forget, SkipSweep, Load,
                    Drain, Exit, Crash, Gone, BeginRead, EndRead
<1> QED
  BY <1>2, <1>3, <1>4, <1>5 DEF Quiet, Worker

\* The steps that leave what the receiver has and the disk has of a session.
Unmoved ==
  /\ rows' = rows /\ baseline' = baseline /\ acc' = acc /\ reported' = reported /\ mem' = mem
  /\ final' = final /\ lapse' = lapse /\ behind' = behind /\ Disk' = Disk
  /\ pc' = "down" => pc = "down"

LEMMA UnmovedConserves ==
  ASSUME CInv, EInv, Unmoved, pc' = "record" \/ pc # "record"
  PROVE  Conserved'
<1>1. \A s \in Sessions, k \in Series : Heard(s, k)' = Heard(s, k)
  BY DEF Unmoved, Heard
<1>2. \A s \in Sessions : (Observed(s)' <=> Observed(s)) /\ CurrentRow(s)' = CurrentRow(s)
  BY DEF Unmoved, Observed, CurrentRow
<1>3. Conserved /\ Delta \subseteq Sessions
  BY CostAssumption DEF EInv
<1> USE DEF Unmoved
<1>4. pc' = "down" => \A s \in Delta \ behind : Disk'[s].by = reported'[s]
  BY <1>3 DEF Conserved
<1>5. ASSUME mem' = "loaded"
      PROVE  /\ \A s \in Delta \ behind, k \in Series :
                  reported'[s][k] = baseline'[s].by[k] + Heard(s, k)'
             /\ ~lapse' /\ pc' # "record" => \A s \in Sessions \ behind : Disk'[s] = rows'[s]
             /\ final' => \A s \in Sessions : Observed(s)' => rows'[s] = CurrentRow(s)'
  BY <1>1, <1>2, <1>3, <1>5 DEF Conserved
<1> QED
  BY <1>4, <1>5 DEF Conserved

LEMMA UnmovedExpires ==
  ASSUME CInv, EInv, Unmoved, now' <= Horizon, cutoff' = 0, UNCHANGED files
  PROVE  NothingExpired'
<1>1. \A s \in Sessions : Observed(s)' <=> Observed(s)
  BY DEF Unmoved, Observed
<1> QED
  BY <1>1 DEF Unmoved, EInv, NothingExpired, files

\* What a session without a row in memory has at the end of its receiver.
LEMMA UnheardDelta ==
  ASSUME CInv, EInv, mem = "loaded", NEW s \in Delta \ behind, ~Observed(s)
  PROVE  rows[s] = baseline[s] /\ rows[s].by = reported[s]
<1> USE DEF CInv
<1>1. s \in Sessions
  BY CostAssumption
<1>2. rows[s] = baseline[s]
  BY <1>1 DEF EInv, NothingExpired
<1>3. baseline[s].by \in [Series -> Nat] /\ reported[s] \in [Series -> Nat]
  BY <1>1, RowFacts DEF CTypeOK
<1>4. \A k \in Series : reported[s][k] = baseline[s].by[k] + 0
  BY DEF EInv, Conserved, Heard, Observed
<1>5. \A k \in Series : reported[s][k] = baseline[s].by[k]
  BY <1>3, <1>4
<1>6. baseline[s].by = reported[s]
  BY <1>3, <1>5
<1> QED
  BY <1>2, <1>6

LEMMA PersistExact ==
  ASSUME CInv, EInv, Persist
  PROVE  NothingExpired' /\ Conserved'
<1> USE DEF CInv
<1>1. /\ UNCHANGED <<now, snapshot, changes, mem, baseline, acc, cutoff, reported, lapse, behind>>
      /\ pc \in {"idle", "waiting"} /\ pc' \in {"idle", "record"}
      /\ mem # "loaded" => rows' = rows
  BY DEF Persist, files, history
<1>2. /\ \A s \in Sessions : (Observed(s)' <=> Observed(s)) /\ CurrentRow(s)' = CurrentRow(s)
      /\ \A s \in Sessions, k \in Series : Heard(s, k)' = Heard(s, k)
      /\ Disk' = Disk
  BY <1>1 DEF Observed, CurrentRow, Heard, Disk, Fold
<1>3. ASSUME mem = "loaded", NEW s \in Sessions
      PROVE  rows'[s] = IF Observed(s) THEN CurrentRow(s) ELSE rows[s]
  BY <1>3 DEF Persist
<1>4. NothingExpired /\ Conserved
  BY DEF EInv
<1>5. ASSUME mem = "loaded", NEW s \in Sessions, rows'[s] = NoRow PROVE rows[s] = NoRow
  <2>1. ~Observed(s)
    <3>1. Observed(s) => CurrentRow(s).ts > 0
      BY ObservedCounts, CurrentRowFacts
    <3> QED
      BY <1>3, <1>5, <3>1, NoRowFacts
  <2> QED
    BY <1>3, <1>5, <2>1
<1>6. NothingExpired'
  BY <1>1, <1>2, <1>3, <1>4, <1>5 DEF NothingExpired
<1>7. ASSUME mem = "loaded", ~lapse, pc' # "record", NEW s \in Sessions \ behind
      PROVE  Disk[s] = rows'[s]
  <2>1. Disk[s] = rows[s]
    BY <1>1, <1>4, <1>7 DEF Conserved
  <2>2. ~(Observed(s) /\ CurrentRow(s) # rows[s])
    <3>1. unsaved' = FALSE
      BY <1>1, <1>7 DEF Persist
    <3> QED
      BY <1>7, <3>1 DEF Persist
  <2> QED
    BY <1>3, <1>7, <2>1, <2>2
<1>8. ASSUME mem' = "loaded"
      PROVE  /\ \A s \in Delta \ behind, k \in Series :
                  reported'[s][k] = baseline'[s].by[k] + Heard(s, k)'
             /\ ~lapse' /\ pc' # "record" => \A s \in Sessions \ behind : Disk'[s] = rows'[s]
             /\ final' => \A s \in Sessions : Observed(s)' => rows'[s] = CurrentRow(s)'
  <2>1. mem = "loaded"
    BY <1>1, <1>8
  <2>2. \A s \in Delta \ behind, k \in Series : reported[s][k] = baseline[s].by[k] + Heard(s, k)
    BY <1>4, <2>1 DEF Conserved
  <2>3. \A s \in Delta \ behind, k \in Series : Heard(s, k)' = Heard(s, k)
    BY <1>2, CostAssumption
  <2> QED
    BY <1>1, <1>2, <1>3, <1>7, <2>1, <2>2, <2>3
<1>9. Conserved'
  BY <1>1, <1>8 DEF Conserved
<1> QED
  BY <1>6, <1>9

LEMMA WriteExact ==
  ASSUME CInv, EInv, RecordChanges \/ WriteSnapshot \/ ClearChanges
  PROVE  NothingExpired' /\ Conserved'
<1> USE DEF CInv
<1>1. /\ UNCHANGED <<now, mem, rows, baseline, acc, final, cutoff, reported, behind>>
      /\ mem = "loaded" /\ pc' # "down"
      /\ pc' # "record"
      /\ snapshot' \in {snapshot, rows}
  BY DEF RecordChanges, Recorded, WriteSnapshot, SnapshotWritten, ClearChanges, AfterCheckpoint,
         Standing, history
<1>2. /\ \A s \in Sessions : (Observed(s)' <=> Observed(s)) /\ CurrentRow(s)' = CurrentRow(s)
      /\ \A s \in Sessions, k \in Series : Heard(s, k)' = Heard(s, k)
  BY <1>1 DEF Observed, CurrentRow, Heard
<1>3. NothingExpired /\ Conserved
  BY DEF EInv
<1>4. ASSUME NEW s \in Sessions, rows[s] = NoRow
      PROVE  snapshot'[s] = NoRow /\ changes'[s] = NoRow
  <2>1. snapshot[s] = NoRow /\ changes[s] = NoRow
    BY <1>1, <1>3, <1>4 DEF NothingExpired
  <2>2. changes'[s] \in {changes[s], rows[s], NoRow}
    BY OnlyFacts, NoRowFacts DEF RecordChanges, Recorded, WriteSnapshot, ClearChanges, CTypeOK
  <2> QED
    BY <1>1, <1>4, <2>1, <2>2
<1>5. NothingExpired'
  BY <1>1, <1>2, <1>3, <1>4 DEF NothingExpired
<1>6. ASSUME ~lapse', NEW s \in Sessions \ behind PROVE Disk'[s] = rows[s]
  <2>1. ASSUME WriteFailed PROVE Disk'[s] = rows[s]
    <3>1. lapse' = lapse /\ pc # "record" /\ Disk' = Disk
      BY <1>6, <2>1 DEF WriteFailed, Disk, Fold, files
    <3> QED
      BY <1>1, <1>3, <1>6, <3>1 DEF Conserved
  <2> QED
    BY <2>1, WrittenAll
<1>7. ASSUME mem' = "loaded"
      PROVE  /\ \A s \in Delta \ behind, k \in Series :
                  reported'[s][k] = baseline'[s].by[k] + Heard(s, k)'
             /\ ~lapse' /\ pc' # "record" => \A s \in Sessions \ behind : Disk'[s] = rows'[s]
             /\ final' => \A s \in Sessions : Observed(s)' => rows'[s] = CurrentRow(s)'
  <2>1. \A s \in Delta \ behind, k \in Series : reported[s][k] = baseline[s].by[k] + Heard(s, k)
    BY <1>1, <1>3 DEF Conserved
  <2>2. \A s \in Delta \ behind, k \in Series : Heard(s, k)' = Heard(s, k)
    BY <1>2, CostAssumption
  <2>3. final => \A s \in Sessions : Observed(s) => rows[s] = CurrentRow(s)
    BY <1>1, <1>3 DEF Conserved
  <2> QED
    BY <1>1, <1>2, <1>6, <2>1, <2>2, <2>3
<1>8. Conserved'
  BY <1>1, <1>7 DEF Conserved
<1> QED
  BY <1>5, <1>8

LEMMA EndExact ==
  ASSUME CInv, EInv, Exit \/ Crash
  PROVE  NothingExpired' /\ Conserved'
<1> USE DEF CInv
<1>1. /\ mem' = "none" /\ pc' = "down" /\ cutoff' = 0 /\ UNCHANGED <<now, files, behind>>
      /\ \/ reported' = Lost
         \/ reported' = reported /\ pc = "exit" /\ ~lapse /\ mem # "unreadable"
  BY DEF Exit, Crash, Gone
<1>2. NothingExpired /\ Conserved /\ Disk' = Disk
  BY <1>1 DEF EInv, Disk, Fold, files
<1>3. NothingExpired'
  BY <1>1, <1>2 DEF NothingExpired
<1>4. CASE reported' = Lost
  <2>1. \A s \in Delta \ behind : reported'[s] = Disk[s].by
    BY <1>4, CostAssumption DEF Lost
  <2>2. \A s \in Delta \ behind : Disk'[s].by = reported'[s]
    BY <1>2, <2>1
  <2>3. mem' # "loaded"
    BY <1>1
  <2> QED
    BY <1>1, <1>3, <2>2, <2>3 DEF Conserved
<1>5. CASE reported' = reported /\ pc = "exit" /\ ~lapse /\ mem # "unreadable"
  <2>1. mem = "loaded" /\ final
    BY <1>5 DEF Standing, CTypeOK
  <2>2. /\ \A s \in Sessions \ behind : Disk[s] = rows[s]
        /\ \A s \in Sessions : Observed(s) => rows[s] = CurrentRow(s)
    BY <1>2, <1>5, <2>1 DEF Conserved
  <2>3. ASSUME NEW s \in Delta \ behind PROVE rows[s].by = reported[s]
    <3>1. s \in Sessions
      BY CostAssumption
    <3>2. CASE Observed(s)
      BY <2>1, <2>2, <3>1, <3>2, CurrentCounts
    <3>3. CASE ~Observed(s)
      BY <2>1, <3>3, UnheardDelta
    <3> QED
      BY <3>2, <3>3
  <2>4. ASSUME NEW s \in Delta \ behind PROVE Disk'[s].by = reported'[s]
    <3>1. s \in Sessions \ behind
      BY CostAssumption
    <3>2. Disk[s] = rows[s]
      BY <2>2, <3>1
    <3> QED
      BY <1>2, <1>5, <2>3, <3>2
  <2>5. mem' # "loaded"
    BY <1>1
  <2> QED
    BY <1>1, <1>3, <2>4, <2>5 DEF Conserved
<1> QED
  BY <1>1, <1>3, <1>4, <1>5

LEMMA LoadExact ==
  ASSUME CInv, EInv, Load
  PROVE  NothingExpired' /\ Conserved'
<1> USE DEF CInv
<1>1. /\ UNCHANGED <<now, snapshot, changes, acc, cutoff, reported, final, lapse, behind>>
      /\ mem' = "loaded" => rows' = Disk /\ baseline' = Disk
      /\ pc = "down" /\ pc' = "start"
  BY DEF Load, files, history
<1>2. NothingExpired /\ Conserved /\ Disk' = Disk /\ ~lapse' /\ ~final'
  BY <1>1 DEF EInv, Disk, Fold, Standing
<1>3. \A s \in Sessions : ~Observed(s)' /\ \A k \in Series : Heard(s, k)' = 0
  BY <1>1 DEF Standing, Unheard, Observed, Heard
<1>4. ASSUME NEW s \in Sessions, Disk[s] = NoRow PROVE snapshot[s] = NoRow /\ changes[s] = NoRow
  <2>1. Disk[s].ts = 0 /\ snapshot[s].ts <= Disk[s].ts /\ changes[s].ts <= Disk[s].ts
    BY <1>4, DiskRow, NoRowFacts
  <2> QED
    BY <2>1, Numbers
<1>5. NothingExpired'
  BY <1>1, <1>2, <1>3, <1>4 DEF NothingExpired
<1>6. ASSUME NEW s \in Delta \ behind, NEW k \in Series
      PROVE  reported[s][k] = Disk[s].by[k] + Heard(s, k)'
  <2>1. s \in Sessions
    BY CostAssumption
  <2>2. Disk[s].by = reported[s]
    BY <1>1, <1>2 DEF Conserved
  <2>3. reported[s][k] \in Nat
    BY <2>1 DEF CTypeOK
  <2> QED
    BY <1>3, <2>1, <2>2, <2>3
<1>7. Conserved'
  BY <1>1, <1>2, <1>3, <1>6 DEF Conserved
<1> QED
  BY <1>5, <1>7

LEMMA QuietExact ==
  ASSUME CInv, EInv, Quiet, MaxTime \in 1..Horizon
  PROVE  EInv'
<1> USE DEF CInv
<1>1. now' <= Horizon /\ cutoff' = 0 /\ WholeRows'
  BY QuietClock, QuietWhole
<1>2. ASSUME Unmoved, UNCHANGED files, pc' = "record" \/ pc # "record"
      PROVE  NothingExpired' /\ Conserved'
  BY <1>1, <1>2, UnmovedConserves, UnmovedExpires
<1>3. CASE Sweep \/ FinalCheckpoint
  <2>1. Unmoved /\ UNCHANGED files /\ pc # "record"
    BY <1>3, NothingDropped DEF Unmoved, files, Disk, Fold
  <2> QED
    BY <1>1, <1>2, <2>1 DEF EInv
<1>4. CASE Forget
  <2>1. /\ UNCHANGED <<files, mem, rows, reported, final, lapse, behind>>
        /\ pc = "forget" /\ pc' = "waiting"
    BY <1>4 DEF Forget, history
  <2>2. CASE mem = "loaded"
    <3>1. Unmoved
      BY <1>4, <2>1, <2>2, NothingForgotten DEF Unmoved, Disk, Fold, files
    <3> QED
      BY <1>1, <1>2, <2>1, <3>1 DEF EInv
  <2>3. CASE mem # "loaded"
    BY <1>1, <2>1, <2>3 DEF EInv, NothingExpired, Conserved
  <2> QED
    BY <2>2, <2>3
<1>5. CASE SkipSweep \/ Drain \/ BeginRead \/ EndRead \/ Advance \/ StepBack
  <2>1. /\ UNCHANGED <<files, memory, acc, reported, final, lapse, behind>>
        /\ pc' \in {pc, "waiting"} /\ (pc' # pc => pc \in {"start", "idle"})
    BY <1>5 DEF SkipSweep, Drain, BeginRead, EndRead, Advance, StepBack, history
  <2>2. Unmoved /\ UNCHANGED files /\ (pc' = "record" \/ pc # "record")
    BY <2>1 DEF Unmoved, Disk, Fold, files, memory
  <2> QED
    BY <1>1, <1>2, <2>2 DEF EInv
<1>6. CASE Persist \/ RecordChanges \/ WriteSnapshot \/ ClearChanges \/ Load \/ Exit \/ Crash
  BY <1>1, <1>6, PersistExact, WriteExact, LoadExact, EndExact DEF EInv
<1> QED
  BY <1>3, <1>4, <1>5, <1>6 DEF Quiet, Worker

\* One more report of a session: its series counts one more, in what was reported and in the
\* accumulator alike.
LEMMA HearExact ==
  ASSUME CInv, EInv, NEW s \in Sessions, IngestMetrics(s) \/ IngestEvents(s), MaxTime \in 1..Horizon
  PROVE  EInv'
<1> USE DEF CInv
<1>1. /\ CTypeOK' /\ now' = now + 1
      /\ UNCHANGED <<files, memory, reader, saved, pc, cutoff, final, lapse>>
      /\ \A t \in Sessions : t # s => acc'[t] = acc[t] /\ reported'[t] = reported[t]
      /\ behind \subseteq behind'
  BY HearTypes
<1>2. UNCHANGED <<snapshot, changes, rows, baseline, mem>> /\ Disk' = Disk
  BY <1>1 DEF files, memory, Disk, Fold
<1>3. now < MaxTime /\ ~stopping /\ mem # "none"
  BY DEF IngestMetrics, IngestEvents, Hear
<1>4. ~final /\ pc # "down" /\ now' <= Horizon /\ cutoff' = 0
  <2>1. now \in Nat /\ MaxTime \in Nat /\ Horizon \in Nat
    BY CostAssumption DEF CTypeOK
  <2> QED
    BY <1>1, <1>3, <2>1 DEF Standing, EInv, NothingExpired
<1>5. PICK k \in Series \cup {0} :
        /\ \A j \in Series : reported'[s][j] = IF j = k /\ IngestMetrics(s) THEN reported[s][j] + 1
                                               ELSE reported[s][j]
        /\ IngestMetrics(s) => k \in Series /\ acc'[s].by = Folded(s, k)
        /\ ~IngestMetrics(s) => acc'[s].by = acc[s].by
  <2>1. CASE IngestMetrics(s)
    <3>1. PICK j \in Series : reported' = [reported EXCEPT ![s][j] = @ + 1] /\ Hear(s, Folded(s, j))
      BY <2>1 DEF IngestMetrics
    <3>2. acc'[s].by = Folded(s, j)
      BY <3>1 DEF Hear, CTypeOK
    <3>3. \A i \in Series : reported'[s][i] = IF i = j THEN reported[s][i] + 1 ELSE reported[s][i]
      BY <3>1 DEF CTypeOK
    <3> QED
      BY <2>1, <3>2, <3>3
  <2>2. CASE ~IngestMetrics(s)
    <3>1. UNCHANGED reported /\ acc'[s].by = acc[s].by
      BY <2>2 DEF IngestEvents, Hear, CTypeOK
    <3>2. \A j \in Series : reported'[s][j] = reported[s][j]
      BY <3>1
    <3> QED
      BY <2>2, <3>1, <3>2
  <2> QED
    BY <2>1, <2>2
<1>6. ASSUME NEW t \in Sessions, NEW j \in Series
      PROVE  reported[t][j] <= reported'[t][j]
  <2>1. reported[t][j] \in Nat
    BY DEF CTypeOK
  <2>2. CASE t = s
    BY <1>5, <2>1, <2>2
  <2>3. CASE t # s
    BY <1>1, <2>1, <2>3
  <2> QED
    BY <2>2, <2>3
<1>7. WholeRows'
  <2>1. ASSUME NEW t \in Sessions, NEW row \in Row, Whole(t, row)
        PROVE  row.total = SumFunction(row.by)
               /\ (t \notin Delta => \A j \in Series : row.by[j] <= reported'[t][j])
    <3>1. ASSUME t \notin Delta, NEW j \in Series PROVE row.by[j] <= reported'[t][j]
      <4>1. row.by[j] <= reported[t][j] /\ row.by[j] \in Nat
        BY <2>1, <3>1 DEF Whole, Row
      <4>2. reported[t][j] \in Nat /\ reported'[t][j] \in Nat
        BY <1>1 DEF CTypeOK
      <4> QED
        BY <1>6, <4>1, <4>2
    <3> QED
      BY <2>1, <3>1 DEF Whole
  <2>2. ASSUME NEW t \in Sessions \ behind'
        PROVE  /\ snapshot[t] \in Row /\ Whole(t, snapshot[t])
               /\ changes[t] \in Row /\ Whole(t, changes[t])
               /\ rows[t] \in Row /\ Whole(t, rows[t])
               /\ baseline[t] \in Row /\ Whole(t, baseline[t])
    BY <1>1, RowFacts DEF CTypeOK, EInv, WholeRows
  <2> QED
    BY <1>2, <2>1, <2>2 DEF WholeRows, Whole
<1>8. NothingExpired'
  <2>1. \A t \in Sessions : ~Observed(t)' => ~Observed(t)
    <3>1. ~Observed(s)' => ~Observed(s)
      BY <1>1, HeardMore
    <3>2. \A t \in Sessions : t # s => (Observed(t)' <=> Observed(t))
      BY <1>1 DEF Observed
    <3> QED
      BY <3>1, <3>2
  <2> QED
    BY <1>2, <1>4, <2>1 DEF EInv, NothingExpired
<1>9. ASSUME mem = "loaded", NEW t \in Delta \ behind', NEW j \in Series
      PROVE  reported'[t][j] = baseline[t].by[j] + Heard(t, j)'
  <2>1. t \in Sessions /\ reported[t][j] = baseline[t].by[j] + Heard(t, j)
    BY <1>1, <1>9, CostAssumption DEF EInv, Conserved
  <2>2. baseline[t].by[j] \in Nat
    <3>1. baseline[t].by \in [Series -> Nat]
      BY <2>1, RowFacts DEF CTypeOK
    <3> QED
      BY <3>1
  <2>3. Heard(t, j) \in Nat
    <3>1. j \in DOMAIN acc[t].by => acc[t].by[j] \in Nat
      BY <2>1, AccFacts DEF Heards
    <3> QED
      BY <3>1 DEF Heard
  <2>4. CASE t # s \/ ~IngestMetrics(s)
    <3>1. acc'[t].by = acc[t].by
      BY <1>1, <1>5, <2>1, <2>4
    <3>2. reported'[t][j] = reported[t][j]
      BY <1>1, <1>5, <2>1, <2>4
    <3> QED
      BY <2>1, <3>1, <3>2 DEF Heard
  <2>5. CASE t = s /\ IngestMetrics(s)
    <3>1. acc'[s].by = [i \in DOMAIN acc[s].by \cup {k} |->
              (IF i \in DOMAIN acc[s].by THEN acc[s].by[i] ELSE 0) + (IF i = k THEN 1 ELSE 0)]
      BY <1>5, <1>9, <2>5 DEF Folded
    <3>2. Heard(s, j)' = Heard(s, j) + (IF j = k THEN 1 ELSE 0)
      <4>1. Heard(s, j) \in Nat
        BY <2>3, <2>5
      <4>2. CASE j \in DOMAIN acc[s].by \cup {k}
        BY <3>1, <4>2 DEF Heard
      <4>3. CASE j \notin DOMAIN acc[s].by \cup {k}
        BY <3>1, <4>1, <4>3 DEF Heard
      <4> QED
        BY <4>2, <4>3
    <3>3. reported'[s][j] = reported[s][j] + (IF j = k THEN 1 ELSE 0)
      <4>1. reported[s][j] \in Nat
        BY DEF CTypeOK
      <4> QED
        BY <1>5, <2>5, <4>1
    <3> QED
      BY <2>1, <2>2, <2>3, <2>5, <3>2, <3>3
  <2> QED
    BY <2>4, <2>5
<1>10. Conserved'
  BY <1>1, <1>2, <1>4, <1>9 DEF EInv, Conserved
<1> QED
  BY <1>7, <1>8, <1>10 DEF EInv

LEMMA EInit ==
  ASSUME Init, MaxTime \in 1..Horizon
  PROVE  EInv
<1>1. CTypeOK
  BY CInit DEF CInv
<1>2. \A s \in Sessions : snapshot[s] = NoRow /\ changes[s] = NoRow /\ rows[s] = NoRow
                          /\ baseline[s] = NoRow /\ reported[s] = Nothing
  BY DEF Init, NoRows
<1>3. WholeRows
  BY <1>1, <1>2, NothingWhole DEF WholeRows
<1>4. Conserved
  BY <1>2, NoRowFacts, CostAssumption DEF Init, Conserved, Disk, Fold
<1>5. NothingExpired
  BY CostAssumption DEF Init, NothingExpired
<1> QED
  BY <1>3, <1>4, <1>5 DEF EInv

LEMMA EStep ==
  ASSUME MaxTime \in 1..Horizon, CInv, EInv, [Next]_vars
  PROVE  EInv'
<1>1. CASE UNCHANGED vars
  <2> USE <1>1 DEF vars
  <2>1. Unmoved /\ UNCHANGED files
    BY DEF Unmoved, Disk, Fold, files
  <2>2. now' <= Horizon /\ cutoff' = 0
    BY DEF EInv, NothingExpired
  <2>3. Conserved' /\ NothingExpired'
    BY <2>1, <2>2, UnmovedConserves, UnmovedExpires
  <2>4. WholeRows'
    BY DEF EInv, WholeRows, Whole
  <2> QED
    BY <2>3, <2>4 DEF EInv
<1>2. CASE Quiet
  BY <1>2, QuietExact
<1>3. ASSUME NEW s \in Sessions, IngestMetrics(s) \/ IngestEvents(s) PROVE EInv'
  BY <1>3, HearExact
<1> QED
  BY <1>1, <1>2, <1>3 DEF Next, Quiet

\* Within the retention: what was reported of a session heard in order and not lost is its row,
\* once, in total and by series, whatever writes failed and however often the receiver stopped,
\* died and started (persist_cost and merge_counts, cost.rs; load and sweep, serve.rs).
THEOREM ReportsCountedOnce ==
  ASSUME MaxTime \in 1..Horizon
  PROVE  Spec => []CountedOnce
<1>1. Init => EInv
  BY EInit
<1>2. CInv /\ EInv /\ [Next]_vars => EInv'
  BY EStep
<1>3. CInv /\ EInv => CountedOnce
  <2> SUFFICES ASSUME CInv, EInv, mem = "loaded", NEW s \in Sessions \ behind,
                      s \in Delta \/ Observed(s)
               PROVE  LET row == IF Observed(s) THEN CurrentRow(s) ELSE rows[s]
                      IN  row.by = reported[s] /\ row.total = SumFunction(reported[s])
    BY DEF CountedOnce
  <2>1. CASE Observed(s)
    BY <2>1, CurrentCounts
  <2>2. CASE ~Observed(s)
    <3>1. rows[s].by = reported[s]
      BY <2>2, UnheardDelta
    <3>2. rows[s].total = SumFunction(rows[s].by)
      BY DEF EInv, WholeRows, Whole
    <3> QED
      BY <2>2, <3>1, <3>2
  <2> QED
    BY <2>1, <2>2
<1> QED
  BY <1>1, <1>2, <1>3, CostInvariant, PTL DEF Spec

=============================================================================
