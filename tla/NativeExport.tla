---------------------------- MODULE NativeExport ----------------------------
(***************************************************************************)
(* The native forwarder's queue and worker of one destination              *)
(* (export/exporter.rs).  Requests put the bodies they received into a     *)
(* bounded queue without waiting; the worker forwards them best-effort,    *)
(* once.  A destination filtered by project needs every session of a body  *)
(* in the session index: a body that beat its session's start hook is      *)
(* parked until the index holds its sessions or DEFER_TIMEOUT passes.      *)
(*                                                                         *)
(* The worker awaits a request after every forward.  Meanwhile bodies      *)
(* arrive, hooks append to the index, the configuration changes and time   *)
(* passes; the worker's copies of the configuration and of the index stay  *)
(* as old as the body it handles, but every forward reads the              *)
(* configuration again.  What a request ends in changes counters only.     *)
(***************************************************************************)
EXTENDS Integers, FiniteSets, Sequences, Functions, SequencesExt

CONSTANTS
  Bodies,
  Sessions,
  Projects,
  SessionsOf,    \* the sessions each body names; none: nothing can attribute it
  NativeOf,      \* the project a body itself names for a session, or None
  SizeOf,        \* bytes of each body
  Policies,      \* what the configuration can say of the destination
  None,          \* no project, no body, or no destination the configuration lists:
                 \* a file that cannot be read lists none
  QueueCap,      \* EXPORT_QUEUE_CAP
  MaxQueued,     \* this destination's share of MAX_QUEUED_BYTES
  MaxDeferred,   \* MAX_DEFERRED
  DeferTimeout,  \* DEFER_TIMEOUT
  \* Bounds of the model.
  MaxTime,       \* the clock stops here, or at a later deadline
  MaxStarts,     \* session starts
  MaxChanges     \* configuration changes

Undecided    == "undecided"     \* the index has no line of the session
Unattributed == "unattributed"  \* its start was recorded without a project

\* A configured destination: whether it filters by project and which it allows,
\* whether it needs the index for enrichment, and the bodies its signals,
\* accounts and mode let through.
Policy == [filtered : BOOLEAN, allowed : SUBSET Projects, enriched : BOOLEAN, admits : SUBSET Bodies]

ASSUME NativeAssumption ==
  /\ IsFiniteSet(Bodies) /\ None \notin Bodies \cup Projects \cup Policies
  /\ SessionsOf \in [Bodies -> SUBSET Sessions]
  /\ NativeOf \in [Bodies -> [Sessions -> Projects \cup {None}]]
  /\ SizeOf \in [Bodies -> Nat]
  /\ Policies \subseteq Policy
  /\ {Undecided, Unattributed} \cap Projects = {}
  /\ QueueCap \in Nat \ {0} /\ MaxQueued \in Nat /\ MaxDeferred \in Nat /\ DeferTimeout \in Nat
  /\ MaxTime \in Nat /\ MaxStarts \in Nat /\ MaxChanges \in Nat

VARIABLES
  now,
  policy,     \* what the configuration file says of the destination, or None
  index,      \* the session index: session -> project, unattributed, undecided
  reserved,   \* Route::queued_bytes
  arrived,    \* bodies a request has brought
  offered,    \* bodies whose bytes are reserved and not yet in the queue
  queue,      \* the channel
  target,     \* the worker's copy of the configuration, None when it has none
  cache,      \* the worker's copy of the index
  pc,         \* idle, retry, body, stopped
  body,       \* the body the worker handles, or None
  retry,      \* the parked bodies it looks at again
  parked,     \* Worker::deferred
  missing,    \* Deferred::missing of each parked body
  since,      \* Deferred::deferred_at of each parked body
  stopping,   \* the receiver has drained and told the worker to finish
  final,      \* the last look at the parked bodies
  sent,       \* history: the requests made for each body, up to 2
  unresolved, \* history: bodies counted as never attributed
  starts, changed

held   == <<queue, body, retry, parked>>
worker == <<target, cache, pc, body, retry, parked, missing, since, final>>
env    == <<now, policy, index, starts, changed>>
vars   == <<now, policy, index, reserved, arrived, offered, queue, target, cache, pc, body, retry,
            parked, missing, since, stopping, final, sent, unresolved, starts, changed>>

-----------------------------------------------------------------------------
(***************************************************************************)
(* Requests: reserve the bytes, then offer the body to the channel.        *)
(***************************************************************************)

Fits(b) == reserved + SizeOf[b] <= MaxQueued

Arrive(b) ==
  /\ b \notin arrived /\ ~stopping
  /\ arrived' = arrived \cup {b}
  /\ IF Fits(b)
     THEN reserved' = reserved + SizeOf[b] /\ offered' = offered \cup {b}
     ELSE UNCHANGED <<reserved, offered>>
  /\ UNCHANGED <<env, queue, worker, stopping, sent, unresolved>>

\* The drop keeps the bytes.
WrongFull(b) == queue' = queue /\ UNCHANGED reserved

Full(b) == queue' = queue /\ reserved' = reserved - SizeOf[b]

Offer(b) ==
  /\ b \in offered /\ offered' = offered \ {b}
  /\ IF Len(queue) < QueueCap THEN queue' = Append(queue, b) /\ UNCHANGED reserved ELSE Full(b)
  /\ UNCHANGED <<env, arrived, worker, stopping, sent, unresolved>>

-----------------------------------------------------------------------------
(***************************************************************************)
(* Forwarding.                                                             *)
(***************************************************************************)

Decided(s) == cache[s] # Undecided

\* The project of a session of b: what the index says, or else what b says.
ProjectOf(b, s) ==
  IF cache[s] = Unattributed THEN None
  ELSE IF cache[s] # Undecided THEN cache[s] ELSE NativeOf[b][s]

Missing(b) == {s \in SessionsOf[b] : ~Decided(s) /\ NativeOf[b][s] = None}

Attributable(b) == SessionsOf[b] # {} /\ \A s \in SessionsOf[b] : cache[s] # Unattributed

Resolved(b) == Attributable(b) /\ Missing(b) = {}

ProjectsOf(b) == {ProjectOf(b, s) : s \in SessionsOf[b]}

\* A filtered destination that is not told the projects gets the body.
WrongSends(b, pass, projects) ==
  /\ target # None /\ policy # None
  /\ b \in policy.admits
  /\ pass = "all" \/ (pass = "filtered") = policy.filtered
  /\ policy.filtered => projects = None \/ projects \subseteq policy.allowed

\* Every pass addresses every destination.
WrongSendsTwice(b, pass, projects) ==
  /\ target # None /\ policy # None
  /\ b \in policy.admits
  /\ policy.filtered => projects # None /\ projects \subseteq policy.allowed

\* Whether a forward sends b: the destination is configured, now and when the
\* worker last looked, and admits b; a pass addresses every destination, the
\* unfiltered or the filtered; and a filtered one needs known, allowed projects.
Sends(b, pass, projects) ==
  /\ target # None /\ policy # None
  /\ b \in policy.admits
  /\ pass = "all" \/ (pass = "filtered") = policy.filtered
  /\ policy.filtered => projects # None /\ projects \subseteq policy.allowed

Forward(b, pass, projects) ==
  sent' = IF Sends(b, pass, projects) THEN [sent EXCEPT ![b] = IF @ = 2 THEN 2 ELSE @ + 1] ELSE sent

Release(b) == reserved' = reserved - SizeOf[b]

-----------------------------------------------------------------------------
(***************************************************************************)
(* The worker.                                                             *)
(***************************************************************************)

Needed(t) == t # None /\ (t.enriched \/ t.filtered)

\* Before a body, the worker reads the configuration, and the index if that
\* needs it, and looks at every parked body again.
Take ==
  /\ pc = "idle" /\ queue # <<>>
  /\ body' = Head(queue) /\ queue' = Tail(queue)
  /\ target' = policy
  /\ cache' = IF Needed(target') THEN index ELSE cache
  /\ retry' = parked /\ parked' = <<>> /\ pc' = "retry"
  /\ UNCHANGED <<env, reserved, arrived, offered, missing, since, stopping, final, sent, unresolved>>

Expired(b) == now - since[b] >= DeferTimeout

LookAgain ==
  /\ cache' = IF Needed(target) THEN index ELSE cache
  /\ retry' = parked /\ parked' = <<>> /\ pc' = "retry"
  /\ UNCHANGED <<env, reserved, arrived, offered, queue, target, body, missing, since, stopping,
                 sent, unresolved>>

\* Only the index wakes it.
WrongWake ==
  /\ pc = "idle"
  /\ parked # <<>> /\ \A b \in ToSet(parked) : Missing(b) = {}
  /\ LookAgain /\ UNCHANGED final

\* The earliest deadline of a parked body wakes an idle worker.
Wake ==
  /\ pc = "idle"
  /\ \E b \in ToSet(parked) : Expired(b)
  /\ LookAgain /\ UNCHANGED final

\* Nothing is left in the queue of a receiver that stops.
FinalLook ==
  /\ pc = "idle" /\ stopping /\ queue = <<>>
  /\ LookAgain /\ final' = TRUE

\* One session decided is enough.
WrongReady(b) == missing[b] = {} \/ \E s \in missing[b] : Decided(s)

Ready(b) == \A s \in missing[b] : Decided(s)

\* One parked body: it waits on, or gets its final disposition.
Retry ==
  /\ pc = "retry" /\ retry # <<>>
  /\ LET b == Head(retry)
     IN IF ~final /\ ~Ready(b) /\ ~Expired(b)
        THEN /\ parked' = Append(parked, b)
             /\ UNCHANGED <<reserved, sent, unresolved>>
        ELSE /\ IF Resolved(b)
                THEN Forward(b, "filtered", ProjectsOf(b)) /\ UNCHANGED unresolved
                ELSE unresolved' = unresolved \cup {b} /\ UNCHANGED sent
             /\ Release(b) /\ UNCHANGED parked
  /\ retry' = Tail(retry)
  /\ UNCHANGED <<env, arrived, offered, queue, target, cache, pc, body, missing, since, stopping, final>>

Retried ==
  /\ pc = "retry" /\ retry = <<>>
  /\ pc' = CASE body # None -> "body" [] final -> "stopped" [] OTHER -> "idle"
  /\ UNCHANGED <<env, reserved, arrived, offered, queue, target, cache, body, retry, parked, missing,
                 since, stopping, final, sent, unresolved>>

\* The body itself.  An unfiltered destination has it at once; a filtered one if
\* its sessions resolve, and if they may later it is parked while there is room.
Handle ==
  /\ pc = "body" /\ pc' = "idle" /\ body' = None
  /\ LET b == body
         filtered == target # None /\ target.filtered
         park == filtered /\ Attributable(b) /\ Missing(b) # {} /\ Len(parked) < MaxDeferred
     IN /\ CASE ~filtered   -> Forward(b, "all", None)
             [] filtered /\ Resolved(b) -> Forward(b, "all", ProjectsOf(b))
             [] OTHER       -> Forward(b, "unfiltered", None)
        /\ IF park
           THEN /\ parked' = Append(parked, b)
                /\ missing' = [missing EXCEPT ![b] = Missing(b)]
                /\ since' = [since EXCEPT ![b] = now]
                /\ UNCHANGED <<reserved, unresolved>>
           ELSE /\ Release(b)
                /\ unresolved' = IF filtered /\ Attributable(b) /\ Missing(b) # {}
                                 THEN unresolved \cup {b} ELSE unresolved
                /\ UNCHANGED <<parked, missing, since>>
  /\ UNCHANGED <<env, arrived, offered, queue, target, cache, retry, stopping, final>>

-----------------------------------------------------------------------------
(***************************************************************************)
(* The world around it.                                                    *)
(***************************************************************************)

\* A session starts, or resumes in another repository.
StartSession(s) ==
  /\ starts < MaxStarts /\ starts' = starts + 1
  /\ \E p \in Projects \cup {Unattributed} : index' = [index EXCEPT ![s] = p]
  /\ UNCHANGED <<now, policy, changed, reserved, arrived, offered, queue, worker, stopping, sent, unresolved>>

Configure ==
  /\ changed < MaxChanges /\ changed' = changed + 1
  /\ policy' \in (Policies \cup {None}) \ {policy}
  /\ UNCHANGED <<now, index, starts, reserved, arrived, offered, queue, worker, stopping, sent, unresolved>>

\* The clock stops at MaxTime, unless a parked body waits for its deadline.
Advance ==
  /\ now < MaxTime \/ \E b \in ToSet(parked) : ~Expired(b)
  /\ now' = now + 1
  /\ UNCHANGED <<policy, index, starts, changed, reserved, arrived, offered, queue, worker, stopping,
                 sent, unresolved>>

\* The server has drained: every request that brought a body has ended.
Shutdown ==
  /\ ~stopping /\ offered = {}
  /\ stopping' = TRUE
  /\ UNCHANGED <<env, reserved, arrived, offered, queue, worker, sent, unresolved>>

Init ==
  /\ now = 0 /\ policy \in Policies
  /\ index = [s \in Sessions |-> Undecided]
  /\ reserved = 0 /\ arrived = {} /\ offered = {} /\ queue = <<>>
  /\ target = policy /\ cache = index
  /\ pc = "idle" /\ body = None /\ retry = <<>> /\ parked = <<>>
  /\ missing = [b \in Bodies |-> {}] /\ since = [b \in Bodies |-> 0]
  /\ stopping = FALSE /\ final = FALSE
  /\ sent = [b \in Bodies |-> 0] /\ unresolved = {}
  /\ starts = 0 /\ changed = 0

Worker == Take \/ Wake \/ FinalLook \/ Retry \/ Retried \/ Handle

Next ==
  \/ \E b \in Bodies : Arrive(b) \/ Offer(b)
  \/ Worker
  \/ \E s \in Sessions : StartSession(s)
  \/ Configure \/ Advance \/ Shutdown

\* The runtime runs the worker, each request ends within its timeout, and time
\* passes.
Fairness == WF_vars(Worker) /\ WF_vars(Advance)

Spec     == Init /\ [][Next]_vars
FairSpec == Spec /\ Fairness

-----------------------------------------------------------------------------
(***************************************************************************)
(* Properties.                                                             *)
(***************************************************************************)

\* The bodies the destination holds, each in one place.
Places == <<offered, ToSet(queue), {body} \ {None}, ToSet(retry), ToSet(parked)>>

\* The bytes reserved are those of the bodies that wait, are handled or are
\* parked, each counted once and given back once, and never exceed the ceiling:
\* a lost release would close the queue for good, a double one would open it.
ReservedIsHeld ==
  LET all == UNION ToSet(Places)
  IN /\ reserved = SumFunctionOnSet(SizeOf, all)
     /\ SumFunctionOnSet([i \in DOMAIN Places |-> Cardinality(Places[i])], DOMAIN Places) = Cardinality(all)
     /\ Len(queue) + Len(retry) + Len(parked) = Cardinality(ToSet(queue \o retry \o parked))
     /\ reserved <= MaxQueued

\* Whatever the worker's copies say, a body leaves only for a destination that
\* the configuration lists at that moment, and a filtered destination only gets
\* bodies whose every session has a known project that its filter then allows.
OnlyAllowedLeaves ==
  [][\A b \in Bodies :
       sent'[b] # sent[b] =>
         /\ policy # None /\ b \in policy.admits
         /\ policy.filtered =>
              /\ SessionsOf[b] # {}
              /\ \A s \in SessionsOf[b] : ProjectOf(b, s) \in policy.allowed]_vars

\* A body parked for sessions the index lacks is given up only when its time is
\* over, at the last look, or when the index decided all of them: the start of
\* an unrelated session never costs it its chance.
ParkedWaits ==
  [][\A b \in ToSet(retry) \cup ToSet(parked) :
       b \in unresolved' \ unresolved =>
         \/ final \/ Expired(b)
         \/ \A s \in missing[b] : Decided(s)]_vars

\* A parked body does not stay: it is forwarded or given up, though nothing else
\* arrives, so a session that is never indexed cannot hold the bytes.
ParkedSettles ==
  \A b \in Bodies : b \in ToSet(parked) ~> b \notin ToSet(parked) \cup ToSet(retry)

\* A destination gets a body again only if its configuration changed twice: one
\* change between a body's two passes may lose the body, never repeat it.
TwiceNeedsTwoChanges == changed < 2 => \A b \in Bodies : sent[b] < 2

\* "so no target ever receives the same body twice" (exporter.rs, on TargetSet).
\* A destination configured filtered, unfiltered and filtered again while a body
\* is parked refutes it: every pass reads the configuration anew.
NeverTwice == \A b \in Bodies : sent[b] < 2

=============================================================================
