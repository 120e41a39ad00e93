------------------------------- MODULE Outbox -------------------------------
(***************************************************************************)
(* The ledger's records and their durable deliveries.                      *)
(*                                                                         *)
(* Writers (hooks, the command line, MCP, the receiver's projections)      *)
(* commit a record and one delivery row per destination their              *)
(* configuration selects, in one transaction (sink.rs, outbox.rs).  The    *)
(* receiver's outbox consumer (export/durable.rs) runs at most one task    *)
(* per destination: it reads a batch of due rows, screens it against the   *)
(* configuration, reads the configuration again, sends, and records the    *)
(* outcome row by row.  No lock spans those steps: records are written,    *)
(* the retention sweep removes records, the configuration file changes and *)
(* the receiver stops or dies between any two of them.                     *)
(*                                                                         *)
(* Rows of `deliveries` are the function rows, "none" where the table has  *)
(* no row; a queue row that does not exist counts as zero, which is what   *)
(* enqueue inserts before it adds to it.  write_new commits up to 500      *)
(* inserts in one transaction: its result is that of as many Store steps.  *)
(*                                                                         *)
(* A Wrong... operator is a plausible mistake in the definition that       *)
(* follows it; no action uses it.  Put in that definition's place, it      *)
(* makes a property fail (README.md lists which).                          *)
(***************************************************************************)
EXTENDS Integers, FiniteSets

CONSTANTS
  Ids,                \* record ids
  Dests,              \* destination endpoints, numbered in their sort order
  Policies,           \* what the configuration file can say
  Unreadable,         \* the configuration file cannot be read
  Unsendable,         \* records with no OTLP form
  Occurred,           \* when each record occurred
  Horizon,            \* retention: how long a record is kept after it occurred
  MaxRecordBytes,     \* the largest serialized record
  MaxPendingRecords,  \* outbox::MAX_PENDING_RECORDS
  DueBatch,           \* rows one delivery takes (LIMIT 16)
  PruneBatch,         \* records one retention transaction removes
  MaxActive,          \* delivery tasks at once (32)
  BackoffUnit,        \* first retry delay (5 s)
  BackoffCap,         \* longest retry delay (3600 s)
  RetryAfters,        \* values of a Retry-After header
  \* Bounds of the model.
  LastStore,          \* no record is stored after this time
  MaxTime,            \* the clock stops here
  MaxFaults           \* receiver stops, aborted steps, configuration changes

\* A destination as the configuration describes it: the records its kinds and
\* projects admit, its queue size, queue age and attempts.
Target == [allows : SUBSET Ids, queueBytes : Nat, queueAge : Nat \ {0}, retryAttempts : Nat \ {0}]

\* A readable configuration: the records whose contract the current definitions
\* read and may export, and the destinations listed with at least one kind.
Policy == [readable : SUBSET Ids, listed : SUBSET Dests, target : [Dests -> Target]]

ASSUME OutboxAssumption ==
  /\ IsFiniteSet(Ids)
  /\ Dests \subseteq Nat
  /\ Policies \subseteq Policy /\ Policies # {}
  /\ Unreadable \notin Policies
  /\ Occurred \in [Ids -> Nat]
  /\ RetryAfters \subseteq Nat /\ 0 \in RetryAfters
  /\ MaxRecordBytes \in Nat \ {0}
  /\ MaxPendingRecords \in Nat \ {0}
  /\ DueBatch \in Nat \ {0} /\ PruneBatch \in Nat \ {0} /\ MaxActive \in Nat \ {0}
  /\ Horizon \in Nat /\ BackoffUnit \in Nat /\ BackoffCap \in Nat
  /\ LastStore \in Nat /\ MaxTime \in Nat /\ MaxFaults \in Nat

VARIABLES
  now,       \* the wall clock
  policy,    \* the configuration file
  up,        \* whether a receiver runs
  records,   \* ids stored in `records`
  rows,      \* `deliveries`: destination -> record -> row
  queue,     \* `delivery_queues`: destination -> counters
  task,      \* the delivery task of each destination
  queued,    \* history: records that were ever pending for a destination
  copies,    \* history: how often the collector took a record, up to 2
  doubtful,  \* history: records whose last send has no recorded verdict
  faults     \* faults so far

ledger  == <<records, rows, queue>>
history == <<queued, copies, doubtful>>
vars    == <<now, policy, up, records, rows, queue, task, queued, copies, doubtful, faults>>

Statuses == {"none", "pending", "delivered", "failed", "expired", "cancelled", "capacity"}

NoRow == [status |-> "none", created |-> 0, next |-> 0, attempts |-> 0, size |-> 0]
Row   == [status : Statuses, created : Nat, next : Nat, attempts : Nat, size : 0 .. MaxRecordBytes]

\* What a task remembers of the rows it read, and a task with nothing to do.
Seen   == [created : Nat, attempts : Nat]
NoSeen == [r \in Ids |-> [created |-> 0, attempts |-> 0]]

Pcs == {"idle", "started", "loaded", "screening", "sending", "accepted", "rejected", "retry"}

Task == [pc : Pcs, at : Nat, todo : SUBSET Ids, batch : SUBSET Ids, seen : [Ids -> Seen],
         policy : Policies \cup {Unreadable}, taken : BOOLEAN, after : Nat]

Idle == [pc |-> "idle", at |-> 0, todo |-> {}, batch |-> {}, seen |-> NoSeen,
         policy |-> Unreadable, taken |-> FALSE, after |-> 0]

Min2(a, b) == IF a < b THEN a ELSE b
Max2(a, b) == IF a > b THEN a ELSE b

Pending(d) == {r \in Ids : rows[d][r].status = "pending"}

\* The bytes of the pending records of d, one element for each.
PendingBytes(d) ==
  {b \in Pending(d) \X (1 .. MaxRecordBytes) : b[2] <= rows[d][b[1]].size}

-----------------------------------------------------------------------------
(***************************************************************************)
(* Writing: the record and its queue entries are one transaction.          *)
(***************************************************************************)

HasRoom(q, target, size) ==
  /\ q.records < MaxPendingRecords
  /\ q.bytes + size <= target.queueBytes

NewRow(status, size) ==
  [status |-> status, created |-> now, next |-> now, attempts |-> 0, size |-> size]

\* A writer uses the configuration it read when it started, which the file may
\* have replaced since.
Commit(r) ==
  /\ now <= LastStore
  /\ \E p \in Policies, size \in 1 .. MaxRecordBytes :
       LET selected == {d \in p.listed : r \in p.target[d].allows}
           room     == {d \in selected : HasRoom(queue[d], p.target[d], size)}
       IN /\ records' = records \cup {r}
          /\ rows' = [d \in Dests |->
               IF d \in selected
               THEN [rows[d] EXCEPT ![r] =
                       NewRow(IF d \in room THEN "pending" ELSE "capacity", size)]
               ELSE rows[d]]
          /\ queue' = [d \in Dests |->
               IF d \in room
               THEN [records |-> queue[d].records + 1, bytes |-> queue[d].bytes + size]
               ELSE queue[d]]
          /\ queued' = [d \in Dests |-> IF d \in room THEN queued[d] \cup {r} ELSE queued[d]]
  /\ UNCHANGED <<now, policy, up, task, copies, doubtful, faults>>

\* An id already stored changes nothing: write_new skips it, write_record
\* accepts an equal record and refuses another.
Store(r) == r \notin records /\ Commit(r)

-----------------------------------------------------------------------------
(***************************************************************************)
(* One row's outcome: only a pending row changes, and a row that stops     *)
(* being pending gives its queue capacity back, in the same transaction.   *)
(***************************************************************************)

WrongRelease(d, S) == [queue EXCEPT ![d].records = @ - Cardinality(S)]

Release(d, S) ==
  [queue EXCEPT ![d] =
     [records |-> @.records - Cardinality(S),
      bytes   |-> @.bytes - Cardinality({b \in PendingBytes(d) : b[1] \in S})]]

WrongSettled(d, r) == {r}

Settled(d, r) == {r} \cap Pending(d)

WithOutcome(row, status, next, attempted) ==
  [status |-> status, created |-> row.created, next |-> next,
   attempts |-> row.attempts + attempted, size |-> row.size]

Finish(d, r, status, next, attempted) ==
  /\ rows' = [rows EXCEPT ![d] = [q \in Ids |->
       IF q \in Settled(d, r)
       THEN WithOutcome(rows[d][q], status, next, attempted) ELSE rows[d][q]]]
  /\ queue' = IF status = "pending" THEN queue ELSE Release(d, Settled(d, r))

-----------------------------------------------------------------------------
(***************************************************************************)
(* The delivery task of a destination.                                     *)
(***************************************************************************)

WrongActive == {}

Active == {d \in Dests : task[d].pc # "idle"}

\* The two-second tick starts a task for the first destinations, in order, that
\* have a pending row and no task, up to MaxActive.
Tick ==
  LET waiting == {d \in Dests \ Active : Pending(d) # {}}
      started == {d \in waiting :
                    Cardinality(Active \cup {e \in waiting : e < d}) < MaxActive}
  IN /\ up
     /\ started # {}
     /\ task' = [d \in Dests |-> IF d \in started THEN [Idle EXCEPT !.pc = "started"] ELSE task[d]]
     /\ UNCHANGED <<now, policy, up, ledger, history, faults>>

Due(d) == {r \in Pending(d) \cap records : rows[d][r].next <= now}

\* Up to DueBatch due rows, oldest first.
IsDueBatch(S, d) ==
  /\ S \subseteq Due(d)
  /\ Cardinality(S) = Min2(DueBatch, Cardinality(Due(d)))
  /\ \A r \in S, q \in Due(d) \ S : rows[d][r].created <= rows[d][q].created

Load(d) ==
  /\ task[d].pc = "started"
  /\ \E S \in SUBSET Ids :
       /\ IsDueBatch(S, d)
       /\ task' = [task EXCEPT ![d] =
            IF S = {} THEN Idle
            ELSE [Idle EXCEPT !.pc = "loaded", !.at = now, !.todo = S,
                    !.seen = [r \in Ids |->
                      IF r \in S
                      THEN [created |-> rows[d][r].created, attempts |-> rows[d][r].attempts]
                      ELSE NoSeen[r]]]]
  /\ UNCHANGED <<now, policy, up, ledger, history, faults>>

WrongCancelDestination(d) ==
  /\ rows' = [rows EXCEPT ![d] = [r \in Ids |->
       IF r \in Pending(d) THEN [rows[d][r] EXCEPT !.status = "cancelled"] ELSE rows[d][r]]]
  /\ queue' = queue

\* A destination the configuration no longer delivers to: every pending row is
\* cancelled and its queue counters return to zero.
CancelDestination(d) ==
  /\ rows' = [rows EXCEPT ![d] = [r \in Ids |->
       IF r \in Pending(d) THEN [rows[d][r] EXCEPT !.status = "cancelled"] ELSE rows[d][r]]]
  /\ queue' = [queue EXCEPT ![d] = [records |-> 0, bytes |-> 0]]

BeginScreen(d) ==
  /\ task[d].pc = "loaded"
  /\ \/ /\ policy = Unreadable
        /\ task' = [task EXCEPT ![d] = Idle]
        /\ UNCHANGED <<rows, queue>>
     \/ /\ policy # Unreadable /\ d \in policy.listed
        /\ task' = [task EXCEPT ![d].pc = "screening", ![d].policy = policy]
        /\ UNCHANGED <<rows, queue>>
     \/ /\ policy # Unreadable /\ d \notin policy.listed
        /\ task' = [task EXCEPT ![d] = Idle]
        /\ CancelDestination(d)
  /\ UNCHANGED <<now, policy, up, records, history, faults>>

\* Policy::blocked: what the configuration makes of a row as it was read, at time t.
Verdict(p, d, r, seen, t) ==
  CASE r \notin p.readable \/ r \notin p.target[d].allows    -> "cancelled"
    [] t - seen.created >= p.target[d].queueAge              -> "expired"
    [] seen.attempts >= p.target[d].retryAttempts            -> "failed"
    [] OTHER                                                 -> "pending"

\* The clock is the one read when the batch was.
Screen(d, r) ==
  LET t        == task[d]
      blocked  == Verdict(t.policy, d, r, t.seen[r], t.at)
      verdict  == IF blocked = "pending" /\ r \in Unsendable THEN "failed" ELSE blocked
      left     == t.todo \ {r}
      batch    == IF verdict = "pending" THEN t.batch \cup {r} ELSE t.batch
  IN /\ t.pc = "screening" /\ r \in t.todo
     /\ task' = [task EXCEPT ![d] =
          IF left \cup batch = {} THEN Idle ELSE [t EXCEPT !.todo = left, !.batch = batch]]
     /\ IF verdict = "pending"
        THEN UNCHANGED <<rows, queue>>
        ELSE Finish(d, r, verdict, t.at, 0)
     /\ UNCHANGED <<now, policy, up, records, history, faults>>

WrongSendable(d, p) == TRUE

\* The configuration is read again before the request: unless it still delivers
\* every record of the batch, nothing is sent and a later tick starts over.
Sendable(d, p) ==
  /\ p # Unreadable
  /\ d \in p.listed
  /\ \A r \in task[d].batch : Verdict(p, d, r, task[d].seen[r], now) = "pending"

Recheck(d) ==
  /\ task[d].pc = "screening" /\ task[d].todo = {}
  /\ task' = [task EXCEPT ![d] =
       IF Sendable(d, policy) THEN [@ EXCEPT !.pc = "sending", !.at = 0, !.policy = policy] ELSE Idle]
  /\ UNCHANGED <<now, policy, up, ledger, history, faults>>

-----------------------------------------------------------------------------
(***************************************************************************)
(* The collector, and what the client makes of its answer: accepted is a   *)
(* complete acknowledgement without a rejection; rejected any other status *)
(* or an acknowledgement that is invalid or rejects records; retry a       *)
(* network failure, a timeout, a 429 or 50x, or a cut acknowledgement.     *)
(***************************************************************************)

Collect(d) ==
  /\ task[d].pc = "sending" /\ ~task[d].taken
  /\ copies' = [copies EXCEPT ![d] = [r \in Ids |->
       IF r \in task[d].batch THEN Min2(2, copies[d][r] + 1) ELSE copies[d][r]]]
  /\ task' = [task EXCEPT ![d].taken = TRUE]
  /\ UNCHANGED <<now, policy, up, ledger, queued, doubtful, faults>>

Accepted(d) ==
  /\ task[d].pc = "sending" /\ task[d].taken
  /\ task' = [task EXCEPT ![d].pc = "accepted", ![d].at = now]
  /\ UNCHANGED <<now, policy, up, ledger, history, faults>>

Rejected(d) ==
  /\ task[d].pc = "sending"
  /\ task' = [task EXCEPT ![d].pc = "rejected", ![d].at = now]
  /\ UNCHANGED <<now, policy, up, ledger, history, faults>>

Lost(d) ==
  /\ task[d].pc = "sending"
  /\ \E after \in RetryAfters :
       task' = [task EXCEPT ![d].pc = "retry", ![d].at = now, ![d].after = after]
  /\ doubtful' = [doubtful EXCEPT ![d] = @ \cup task[d].batch]
  /\ UNCHANGED <<now, policy, up, ledger, queued, copies, faults>>

Doublings == <<1, 2, 4, 8, 16, 32, 64, 128, 256, 512, 1024>>
Backoff(attempts) == Min2(BackoffUnit * Doublings[Min2(attempts, 10) + 1], BackoffCap)

WrongNextAttempt(at, seen, target, after) == at + Max2(Backoff(seen.attempts), after)

\* The next attempt, no later than the end of the row's queue age.
NextAttempt(at, seen, target, after) ==
  Min2(at + Max2(Backoff(seen.attempts), after), seen.created + target.queueAge)

Outcome(d, r) ==
  LET t == task[d]
  IN CASE t.pc = "accepted" -> "delivered"
       [] t.pc = "retry" /\ t.seen[r].attempts + 1 < t.policy.target[d].retryAttempts -> "pending"
       [] OTHER             -> "failed"

Record(d, r) ==
  LET t == task[d]
  IN /\ t.pc \in {"accepted", "rejected", "retry"} /\ r \in t.batch
     /\ Finish(d, r, Outcome(d, r),
          IF Outcome(d, r) = "pending"
          THEN NextAttempt(t.at, t.seen[r], t.policy.target[d], t.after) ELSE t.at, 1)
     /\ task' = [task EXCEPT ![d] =
          IF t.batch = {r} THEN Idle ELSE [t EXCEPT !.batch = @ \ {r}]]
     /\ UNCHANGED <<now, policy, up, records, history, faults>>

-----------------------------------------------------------------------------
(***************************************************************************)
(* Retention, failures, the configuration file and the clock.              *)
(***************************************************************************)

\* One batch of the retention sweep, which only the receiver runs.
Prune(S) ==
  /\ up
  /\ S # {} /\ Cardinality(S) <= PruneBatch
  /\ S \subseteq {r \in records : Occurred[r] < now - Horizon}
  /\ records' = records \ S
  /\ rows' = [d \in Dests |-> [r \in Ids |-> IF r \in S THEN NoRow ELSE rows[d][r]]]
  /\ queue' = [d \in Dests |-> Release(d, S \cap Pending(d))[d]]
  /\ doubtful' = [d \in Dests |-> doubtful[d] \cup S]
  /\ UNCHANGED <<now, policy, up, task, queued, copies, faults>>

\* The records a task that ends now leaves without a recorded verdict.
Unsettled(d) ==
  IF task[d].pc \in {"sending", "accepted", "rejected", "retry"} THEN task[d].batch ELSE {}

\* A step fails: the database is busy for too long, or the configuration cannot
\* be read or names another store.  What was recorded stays recorded.
Abort(d) ==
  /\ task[d].pc \notin {"idle", "sending"}
  /\ faults < MaxFaults /\ faults' = faults + 1
  /\ task' = [task EXCEPT ![d] = Idle]
  /\ doubtful' = [doubtful EXCEPT ![d] = @ \cup Unsettled(d)]
  /\ UNCHANGED <<now, policy, up, ledger, queued, copies>>

\* The receiver stops or is killed; its tasks end where they are.
Stop ==
  /\ up /\ faults < MaxFaults /\ faults' = faults + 1
  /\ up' = FALSE
  /\ task' = [d \in Dests |-> Idle]
  /\ doubtful' = [d \in Dests |-> doubtful[d] \cup Unsettled(d)]
  /\ UNCHANGED <<now, policy, ledger, queued, copies>>

Start ==
  /\ ~up
  /\ up' = TRUE
  /\ UNCHANGED <<now, policy, ledger, task, history, faults>>

Configure ==
  /\ faults < MaxFaults /\ faults' = faults + 1
  /\ policy' \in (Policies \cup {Unreadable}) \ {policy}
  /\ UNCHANGED <<now, up, ledger, task, history>>

Advance ==
  /\ now < MaxTime
  /\ now' = now + 1
  /\ UNCHANGED <<policy, up, ledger, task, history, faults>>

-----------------------------------------------------------------------------
Init ==
  /\ now = 0
  /\ policy \in Policies
  /\ up = FALSE
  /\ records = {}
  /\ rows = [d \in Dests |-> [r \in Ids |-> NoRow]]
  /\ queue = [d \in Dests |-> [records |-> 0, bytes |-> 0]]
  /\ task = [d \in Dests |-> Idle]
  /\ queued = [d \in Dests |-> {}]
  /\ copies = [d \in Dests |-> [r \in Ids |-> 0]]
  /\ doubtful = [d \in Dests |-> {}]
  /\ faults = 0

Deliver(d) ==
  \/ Load(d) \/ BeginScreen(d) \/ Recheck(d)
  \/ \E r \in Ids : Screen(d, r) \/ Record(d, r)

Answer(d) == Accepted(d) \/ Rejected(d) \/ Lost(d)

Next ==
  \/ \E r \in Ids : Store(r)
  \/ \E S \in SUBSET Ids : Prune(S)
  \/ \E d \in Dests : Deliver(d) \/ Collect(d) \/ Answer(d) \/ Abort(d)
  \/ Tick \/ Stop \/ Start \/ Configure \/ Advance

\* The runtime runs a spawned task to its next step, a request ends within its
\* timeout, the service manager restarts the receiver, and time passes.
Fairness ==
  /\ WF_vars(Tick) /\ WF_vars(Start) /\ WF_vars(Advance)
  /\ \A d \in Dests : WF_vars(Deliver(d)) /\ WF_vars(Answer(d))

Spec     == Init /\ [][Next]_vars
FairSpec == Spec /\ Fairness

-----------------------------------------------------------------------------
(***************************************************************************)
(* Properties.                                                             *)
(***************************************************************************)

\* Every variable has its type; the counters never go below zero.
TypeOK ==
  /\ now \in Nat
  /\ policy \in Policies \cup {Unreadable}
  /\ up \in BOOLEAN
  /\ records \subseteq Ids
  /\ rows \in [Dests -> [Ids -> Row]]
  /\ queue \in [Dests -> [records : Nat, bytes : Nat]]
  /\ task \in [Dests -> Task]
  /\ queued \in [Dests -> SUBSET Ids]
  /\ copies \in [Dests -> [Ids -> 0 .. 2]]
  /\ doubtful \in [Dests -> SUBSET Ids]
  /\ faults \in Nat

\* The counters that admission reads are the number and the bytes of the rows
\* that are pending, whatever writers, deliveries and retention did meanwhile.
\* (enqueue, finish, cancel_destination and prune_kind each maintain them.)
QueueMatchesPending ==
  \A d \in Dests :
    /\ queue[d].records = Cardinality(Pending(d))
    /\ queue[d].bytes = Cardinality(PendingBytes(d))

\* A delivery row refers to a stored record, so `due` can always join it: no
\* outcome recorded after retention removed the record brings its row back.
RowsHaveRecords ==
  \A d \in Dests, r \in Ids : rows[d][r].status # "none" => r \in records

\* The collector takes a record twice only when a verdict on it was lost: an
\* unclear answer, a receiver that ended in between, or an outcome that could
\* not be recorded ("A lost acknowledgement can duplicate a delivery",
\* README.en.md), or when retention forgot the record before it came again.
DuplicateOnlyAfterDoubt ==
  \A d \in Dests, r \in Ids : copies[d][r] = 2 => r \in doubtful[d]

\* A request starts only with records that the configuration in force at that
\* moment reads, admits to the destination, and would still deliver by age and
\* attempts, whatever it said when the batch was screened.
NothingBlockedIsSent ==
  [][\A d \in Dests :
       task[d].pc # "sending" /\ task'[d].pc = "sending" =>
         /\ policy # Unreadable
         /\ d \in policy.listed
         /\ \A r \in task'[d].batch :
              /\ r \in policy.readable \cap policy.target[d].allows
              /\ rows[d][r].status = "pending" =>
                   /\ now - rows[d][r].created < policy.target[d].queueAge
                   /\ rows[d][r].attempts < policy.target[d].retryAttempts]_vars

\* Once the configuration stays readable, a pending row does not stay pending:
\* it is delivered, fails, expires, is cancelled, or its record is removed.
PendingSettles ==
  <>[](policy # Unreadable) =>
    \A d \in Dests, r \in Ids : r \in Pending(d) ~> r \notin Pending(d)

\* The outbox keeps the promise: admission by the counters is admission by the
\* rows that wait, a record and its deliveries appear and disappear together,
\* an outcome is final and given once, and only queued records leave.
Promise == INSTANCE DeliveryPromise WITH
  Limits <- [d \in Dests |-> {p.target[d].queueBytes : p \in {q \in Policies : d \in q.listed}}],
  state  <- [d \in Dests |-> [r \in Ids |-> rows[d][r].status]],
  size   <- [d \in Dests |-> [r \in Ids |-> rows[d][r].size]],
  taken  <- [d \in Dests |-> {r \in Ids : copies[d][r] > 0}]

KeepsPromise == Promise!Spec

=============================================================================
