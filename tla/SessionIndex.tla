---------------------------- MODULE SessionIndex ----------------------------
(***************************************************************************)
(* The session index: which project a session belongs to (session.rs, and  *)
(* renew_index and prune_ledger of serve.rs).  A hook appends a line when  *)
(* a session starts; the receiver copies the attribution of a session it   *)
(* still hears from into a new line, a renewal, before the retention sweep *)
(* removes the files that hold it.                                         *)
(*                                                                         *)
(* The log is what RollingLog shows it to be: an append is one step, which *)
(* may rotate the active file, and a refresh reads all of it.  A line is   *)
(* stamped in the tick it is appended, so a file is the set of its lines   *)
(* and was last written at its newest.  The clock may run without a flush  *)
(* (the machine sleeps), but not inside a flush or a sweep.                *)
(***************************************************************************)
EXTENDS Integers, FiniteSets, FiniteSetsExt

CONSTANTS
  Sessions,
  Projects,     \* the rows of the index: a project each, or none
  Horizon,      \* retention
  Span,         \* rotation span
  \* Bounds of the model.
  MaxTime,      \* the clock stops here
  MaxStarts     \* session starts

ASSUME IndexAssumption ==
  /\ IsFiniteSet(Sessions) /\ IsFiniteSet(Projects)
  /\ {Horizon, Span, MaxTime, MaxStarts} \subseteq Nat /\ Span <= Horizon

VARIABLES
  now,
  active,     \* the lines of the active file, none when there is no such file
  archives,   \* the other files
  seen,       \* accumulator: session -> when this receiver last heard it
  due,        \* the renewals this flush has yet to write: session -> row
  pc,         \* the receiver's worker
  starts,     \* how many sessions started
  newest,     \* history: session -> its newest start
  raced,      \* history: sessions renewed since with another row than their newest start's
  promised    \* history: session -> when it was heard, as the last flush that renewed it, or found
              \* it written down lately, knew

log     == <<active, archives>>
history == <<starts, newest, raced, promised>>
vars    == <<now, log, seen, due, pc, history>>

Line    == [session : Sessions, row : Projects, ts : Nat, renewal : BOOLEAN]
Content == active \cup UNION archives
NoStart == {}
Nobody  == [s \in {} |-> 0]

Stamps(f)  == {l.ts : l \in f}
LinesOf(s) == {l \in Content : l.session = s}
Held       == {l.session : l \in Content}

\* Only the time of a line counts.
WrongOutranks(k, l) == k.ts > l.ts

\* A start outranks a renewal, then the later one wins.
Outranks(k, l) ==
  \/ ~k.renewal /\ l.renewal
  \/ k.renewal = l.renewal /\ k.ts > l.ts

\* latest: the row in force, of a session the index holds.
Row(s) == (CHOOSE l \in LinesOf(s) : \A k \in LinesOf(s) : ~Outranks(k, l)).row

\* The newest line of either kind.
Written(s) == Max(Stamps(LinesOf(s)))

-----------------------------------------------------------------------------
(***************************************************************************)
(* Writers.                                                                *)
(***************************************************************************)

\* rolling::append; an active file that reached its size is rotated first.
Appended(l) ==
  \/ active' = active \cup {l} /\ UNCHANGED archives
  \/ active # {} /\ active' = {l} /\ archives' = archives \cup {active}

\* record, by a hook.  A session starts at most once in a tick.
Start(s, p) ==
  /\ starts < MaxStarts /\ \A l \in newest[s] : l.ts < now
  /\ LET l == [session |-> s, row |-> p, ts |-> now, renewal |-> FALSE]
     IN Appended(l) /\ newest' = [newest EXCEPT ![s] = {l}]
  /\ starts' = starts + 1 /\ raced' = raced \ {s}
  /\ UNCHANGED <<now, seen, due, pc, promised>>

Hear(s) ==
  /\ pc # "down" /\ (s \in DOMAIN seen => seen[s] < now)
  /\ seen' = [r \in DOMAIN seen \cup {s} |-> IF r = s THEN now ELSE seen[r]]
  /\ UNCHANGED <<now, log, due, pc, history>>

-----------------------------------------------------------------------------
(***************************************************************************)
(* The receiver's flush and its sweep: one worker runs both.               *)
(***************************************************************************)

Recent(s) == seen[s] >= now - Span

\* Renewed a tick late.
WrongIsDue(s) == Recent(s) /\ seen[s] > Written(s) + Span + 1

\* Renewed again each time a session is heard, once its start is old.
WrongIsDueAgain(s) == Recent(s) /\ \A l \in newest[s] : seen[s] > l.ts + Span

IsDue(s) == Recent(s) /\ seen[s] > Written(s) + Span

\* due_renewal, in renew_index.
Flush ==
  /\ pc = "idle"
  /\ LET heard == DOMAIN seen \cap Held
     IN /\ due' = [s \in {r \in heard : IsDue(r)} |-> Row(s)]
        /\ promised' = [s \in Sessions |-> IF s \in heard /\ Recent(s) /\ ~IsDue(s)
                                           THEN seen[s] ELSE promised[s]]
  /\ pc' = IF due' = Nobody THEN "idle" ELSE "renew"
  /\ UNCHANGED <<now, log, seen, starts, newest, raced>>

Renewed(s) ==
  /\ pc = "renew" /\ s \in DOMAIN due
  /\ due' = [r \in DOMAIN due \ {s} |-> due[r]]
  /\ pc' = IF due' = Nobody THEN "idle" ELSE "renew"
  /\ UNCHANGED <<now, seen, starts, newest>>

\* renew
Renew(s) ==
  /\ Renewed(s)
  /\ Appended([session |-> s, row |-> due[s], ts |-> now, renewal |-> TRUE])
  /\ raced' = IF \E l \in newest[s] : l.row # due[s] THEN raced \cup {s} ELSE raced
  /\ promised' = [promised EXCEPT ![s] = seen[s]]

\* The append fails, which is only noted: the session is still due at the next flush.
RenewFails(s) == Renewed(s) /\ UNCHANGED <<log, raced, promised>>

Expired(f) == Max(Stamps(f)) < now - Horizon

\* prune_archives_of, in prune_ledger.
Prune ==
  /\ pc = "idle"
  /\ archives' = {f \in archives : ~Expired(f)}
  /\ pc' = "age"
  /\ UNCHANGED <<now, active, seen, due, history>>

\* rotate_aged, and forget_unheard_since at the end of the sweep.
Age ==
  /\ pc = "age"
  /\ IF \E l \in active : l.ts < now - Span
     THEN active' = {} /\ archives' = archives \cup {active}
     ELSE UNCHANGED log
  /\ seen' = [s \in {r \in DOMAIN seen : seen[r] >= now - Horizon} |-> seen[s]]
  /\ pc' = "idle"
  /\ UNCHANGED <<now, due, history>>

\* The receiver dies at any point of these, or stops between them.
Stop ==
  /\ pc # "down"
  /\ pc' = "down" /\ seen' = Nobody /\ due' = Nobody
  /\ UNCHANGED <<now, log, history>>

Serve == pc = "down" /\ pc' = "idle" /\ UNCHANGED <<now, log, seen, due, history>>

Advance ==
  /\ now < MaxTime /\ pc \in {"idle", "down"}
  /\ now' = now + 1
  /\ UNCHANGED <<log, seen, due, pc, history>>

Init ==
  /\ now = 0
  /\ active = {} /\ archives = {}
  /\ seen = Nobody /\ due = Nobody /\ pc = "idle"
  /\ starts = 0 /\ newest = [s \in Sessions |-> NoStart] /\ raced = {}
  /\ promised = [s \in Sessions |-> -1]

Next ==
  \/ \E s \in Sessions :
       \/ \E p \in Projects : Start(s, p)
       \/ Hear(s) \/ Renew(s) \/ RenewFails(s)
  \/ Flush \/ Prune \/ Age \/ Stop \/ Serve \/ Advance

Spec == Init /\ [][Next]_vars

-----------------------------------------------------------------------------
(***************************************************************************)
(* Properties.                                                             *)
(***************************************************************************)

\* A session keeps its attribution for the horizon less one span after it was
\* heard, however old its start is, provided a flush knew of it ("its project
\* lasts the horizon less at most one rotation span", prune_ledger).
HeardKeepsProject ==
  \A s \in Sessions :
    promised[s] >= 0 /\ now <= promised[s] - Span + Horizon => s \in Held

\* The row in force is that of the newest start as long as that start's line is
\* in the log, and afterwards too unless a renewal raced it with an older row.
NewestStartWins ==
  \A s \in Held :
    newest[s] \subseteq Content \/ s \notin raced => \E l \in newest[s] : Row(s) = l.row

\* Two renewals of a session are more than a span apart, across flushes, failed
\* writes and restarts of the receiver ("Renewing at most once a span bounds
\* what renewals add to the index"), and each is dated at most a span after the
\* activity that made it due, even when the machine slept between the two
\* (due_renewal).
RenewalsKeepTime ==
  [][\A s \in Sessions : Renew(s) =>
       /\ \A l \in LinesOf(s) : l.renewal => l.ts < now - Span
       /\ now <= seen[s] + Span]_vars

=============================================================================
