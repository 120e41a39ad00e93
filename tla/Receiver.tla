------------------------------ MODULE Receiver ------------------------------
(***************************************************************************)
(* The life of a receiver (serve.rs): it reads the configuration, takes    *)
(* the lock on the state directory the configuration names, binds its      *)
(* port, serves, and stops in order.  Several receivers, with `--wait` or  *)
(* without, on the same port or on others, run over a configuration that   *)
(* is edited meanwhile.                                                    *)
(*                                                                         *)
(* A request is one body of metrics.  What a body aggregates is the        *)
(* request itself, and what a state directory's cost snapshot holds is the *)
(* set of requests saved in it: CostSnapshot has the sums.  Forwarding is  *)
(* NativeExport's, delivery is Outbox's; here both are a step of the stop. *)
(***************************************************************************)
EXTENDS Integers, FiniteSets

CONSTANTS
  Receivers,
  Waits,        \* those started with --wait
  Port,         \* receiver -> its port
  Dirs,         \* state directories a configuration may name
  Requests,
  Slots,        \* MAX_INGEST_REQUESTS
  \* Bounds of the model.
  MaxReceivers,  \* receivers started
  MaxRewrites,   \* rewrites of the configuration
  MaxMishaps     \* receivers killed, boots failed, snapshots not written

NoReceiver == "nobody"

ASSUME ReceiverAssumption ==
  /\ Waits \subseteq Receivers /\ NoReceiver \notin Receivers /\ IsFiniteSet(Requests)
  /\ Slots \in Nat \ {0} /\ {MaxReceivers, MaxRewrites, MaxMishaps} \subseteq Nat

VARIABLES
  conf,       \* the state directory the configuration names, BrokenFile when it does not load
  lock,       \* state directory -> who holds its lock
  port,       \* port -> who listens on it
  at,         \* receiver -> where its run is
  dir,        \* receiver -> the state directory its last startup resolved
  stop,       \* receivers a stop was requested of
  gathered,   \* receiver -> what it aggregated
  worker,     \* receiver -> the flush worker: none, idle, or writing what it read
  request,    \* request -> where it is
  kept,       \* state directory -> what its snapshot holds
  launches, rewrites, mishaps,
  spoiled     \* history: receivers whose last flush failed

rvars == <<conf, lock, port, at, dir, stop, gathered, worker, request, kept, launches, rewrites, mishaps,
           spoiled>>

held    == <<lock, port>>
bounds  == <<launches, rewrites, mishaps>>
data    == <<gathered, worker, request, kept>>

BrokenFile == "broken"
Ports  == {Port[r] : r \in Receivers}

NoWorker  == [at |-> "none", what |-> {}]
IdleFlush == [at |-> "idle", what |-> {}]
Away      == [at |-> "away", by |-> NoReceiver, connected |-> FALSE]

\* From the lock to the exit, a receiver may write its state directory.
Holding  == {"bind", "serving", "draining", "durable", "permits", "worker", "final", "export"}
Down     == {"down", "exited"}

Released(r) == /\ lock' = [d \in Dirs |-> IF lock[d] = r THEN NoReceiver ELSE lock[d]]
               /\ port' = [p \in Ports |-> IF port[p] = r THEN NoReceiver ELSE port[p]]

MovesTo(r, place) == at' = [at EXCEPT ![r] = place]
-----------------------------------------------------------------------------
(* Booting: startup, the lock, the port, again until both are had.         *)

StartReceiver(r) ==
  /\ at[r] \in Down /\ launches < MaxReceivers /\ launches' = launches + 1
  /\ MovesTo(r, "startup")
  /\ stop' = stop \ {r} /\ spoiled' = spoiled \ {r}
  /\ gathered' = [gathered EXCEPT ![r] = {}]
  /\ UNCHANGED <<conf, held, dir, worker, request, kept, rewrites, mishaps>>

\* Every attempt reads the configuration anew.
Startup(r) ==
  /\ at[r] = "startup"
  /\ IF conf = BrokenFile THEN MovesTo(r, "exited") /\ UNCHANGED dir
     ELSE MovesTo(r, "lock") /\ dir' = [dir EXCEPT ![r] = conf]
  /\ UNCHANGED <<conf, held, stop, data, bounds, spoiled>>

Lock(r) ==
  /\ at[r] = "lock"
  /\ IF lock[dir[r]] = NoReceiver
     THEN /\ lock' = [lock EXCEPT ![dir[r]] = r]
          /\ MovesTo(r, "bind")
     ELSE /\ MovesTo(r, IF r \in Waits THEN "wait" ELSE "exited")
          /\ UNCHANGED lock
  /\ UNCHANGED <<conf, port, dir, stop, data, bounds, spoiled>>

\* A waiting receiver keeps the lock.
WrongBind(r) ==
  /\ at[r] = "bind"
  /\ IF port[Port[r]] = NoReceiver
     THEN /\ port' = [port EXCEPT ![Port[r]] = r]
          /\ worker' = [worker EXCEPT ![r] = IdleFlush]
          /\ MovesTo(r, "serving")
     ELSE /\ MovesTo(r, IF r \in Waits THEN "wait" ELSE "exited")
          /\ UNCHANGED <<port, worker>>
  /\ UNCHANGED <<conf, lock, dir, stop, gathered, request, kept, bounds, spoiled>>

\* A receiver that finds the port in use gives up the lock as well.
Bind(r) ==
  /\ at[r] = "bind"
  /\ IF port[Port[r]] = NoReceiver
     THEN /\ port' = [port EXCEPT ![Port[r]] = r]
          /\ worker' = [worker EXCEPT ![r] = IdleFlush]
          /\ MovesTo(r, "serving") /\ UNCHANGED lock
     ELSE /\ Released(r) /\ MovesTo(r, IF r \in Waits THEN "wait" ELSE "exited")
          /\ UNCHANGED worker
  /\ UNCHANGED <<conf, dir, stop, gathered, request, kept, bounds, spoiled>>

\* A lock or an address that cannot be had for another reason than its use ends even a receiver
\* that waits.
BootFails(r) ==
  /\ at[r] \in {"lock", "bind"} /\ mishaps < MaxMishaps /\ mishaps' = mishaps + 1
  /\ MovesTo(r, "exited") /\ Released(r)
  /\ UNCHANGED <<conf, dir, stop, data, launches, rewrites, spoiled>>

\* One WAIT_RETRY, ended by a stop request.
Retry(r) ==
  /\ at[r] = "wait"
  /\ MovesTo(r, IF r \in stop THEN "exited" ELSE "startup")
  /\ UNCHANGED <<conf, held, dir, stop, data, bounds, spoiled>>

RequestStop(r) ==
  /\ at[r] \notin Down /\ r \notin stop
  /\ stop' = stop \cup {r}
  /\ UNCHANGED <<conf, held, at, dir, data, bounds, spoiled>>

Edit(c) ==
  /\ rewrites < MaxRewrites /\ rewrites' = rewrites + 1
  /\ c # conf /\ conf' = c
  /\ UNCHANGED <<held, at, dir, stop, data, launches, mishaps, spoiled>>
-----------------------------------------------------------------------------
(* Ingesting: a slot is taken before the body is read, and returns only    *)
(* when what the body holds is aggregated.                                 *)

OfReceiver(r, places) == {q \in Requests : request[q].by = r /\ request[q].at \in places}
SlotsFree(r) == Cardinality(OfReceiver(r, {"body", "decode"})) < Slots

Asks(q, r) ==
  /\ request[q].at = "away" /\ at[r] = "serving" /\ port[Port[r]] = r
  /\ request' = [request EXCEPT ![q] = [at |-> "queued", by |-> r, connected |-> TRUE]]
  /\ UNCHANGED <<conf, held, at, dir, stop, gathered, worker, kept, bounds, spoiled>>

Permit(q) ==
  /\ request[q].at = "queued" /\ SlotsFree(request[q].by)
  /\ request' = [request EXCEPT ![q].at = "body"]
  /\ UNCHANGED <<conf, held, at, dir, stop, gathered, worker, kept, bounds, spoiled>>

\* A body that is not JSON is answered at once; any other is handed to a blocking decoder.
Body(q) ==
  /\ request[q].at = "body"
  /\ \E valid \in BOOLEAN :
       request' = [request EXCEPT ![q] = IF valid THEN [@ EXCEPT !.at = "decode"]
                                         ELSE [Away EXCEPT !.at = "answered"]]
  /\ UNCHANGED <<conf, held, at, dir, stop, gathered, worker, kept, bounds, spoiled>>

\* A client that goes away drops its handler, and the slot with it, but not a running decoder.
Disconnect(q) ==
  /\ request[q].connected
  /\ request' = [request EXCEPT ![q] =
       IF @.at = "decode" THEN [@ EXCEPT !.connected = FALSE] ELSE [Away EXCEPT !.at = "answered"]]
  /\ UNCHANGED <<conf, held, at, dir, stop, gathered, worker, kept, bounds, spoiled>>

Decode(q) ==
  /\ request[q].at = "decode"
  /\ gathered' = [gathered EXCEPT ![request[q].by] = @ \cup {q}]
  /\ request' = [request EXCEPT ![q] = [Away EXCEPT !.at = "answered"]]
  /\ UNCHANGED <<conf, held, at, dir, stop, worker, kept, bounds, spoiled>>
-----------------------------------------------------------------------------
(* The flush worker: it reads the accumulator, then writes.                *)

FlushReads(r) ==
  /\ worker[r].at = "idle" /\ at[r] # "worker"
  /\ worker' = [worker EXCEPT ![r] = [at |-> "writing", what |-> gathered[r]]]
  /\ UNCHANGED <<conf, held, at, dir, stop, gathered, request, kept, bounds, spoiled>>

Snapshot(r, what) == kept' = [kept EXCEPT ![dir[r]] = @ \cup what]

FlushWrites(r) ==
  /\ worker[r].at = "writing"
  /\ worker' = [worker EXCEPT ![r] = IdleFlush]
  /\ \/ Snapshot(r, worker[r].what) /\ UNCHANGED mishaps
     \/ mishaps < MaxMishaps /\ mishaps' = mishaps + 1 /\ UNCHANGED kept
  /\ UNCHANGED <<conf, held, at, dir, stop, gathered, request, launches, rewrites, spoiled>>
-----------------------------------------------------------------------------
(* Stopping.                                                               *)

\* The lock goes with the listener.
WrongStops(r) ==
  /\ at[r] = "serving" /\ r \in stop
  /\ MovesTo(r, "draining") /\ Released(r)
  /\ UNCHANGED <<conf, dir, stop, data, bounds, spoiled>>

\* The listener goes as soon as the stop is seen; connections go on.
Stops(r) ==
  /\ at[r] = "serving" /\ r \in stop
  /\ MovesTo(r, "draining")
  /\ port' = [port EXCEPT ![Port[r]] = NoReceiver]
  /\ UNCHANGED <<conf, lock, dir, stop, data, bounds, spoiled>>

\* The server returns when every connection is done: one whose client went away is.
Drained(r) ==
  /\ at[r] = "draining"
  /\ ~\E q \in Requests : request[q].by = r /\ request[q].connected
  /\ MovesTo(r, "durable")
  /\ UNCHANGED <<conf, held, dir, stop, data, bounds, spoiled>>

DurableStops(r) ==
  /\ at[r] = "durable" /\ MovesTo(r, "permits")
  /\ UNCHANGED <<conf, held, dir, stop, data, bounds, spoiled>>

\* The flush worker is stopped without waiting for the decoders.
WrongPermitsReturn(r) ==
  /\ at[r] = "permits"
  /\ MovesTo(r, "worker")
  /\ UNCHANGED <<conf, held, dir, stop, data, bounds, spoiled>>

\* Every slot must return: none is in use.
PermitsReturn(r) ==
  /\ at[r] = "permits"
  /\ OfReceiver(r, {"body", "decode"}) = {}
  /\ MovesTo(r, "worker")
  /\ UNCHANGED <<conf, held, dir, stop, data, bounds, spoiled>>

\* The worker ends after the flush it is in.
WorkerEnds(r) ==
  /\ at[r] = "worker" /\ worker[r].at = "idle"
  /\ worker' = [worker EXCEPT ![r] = NoWorker]
  /\ MovesTo(r, "final")
  /\ UNCHANGED <<conf, held, dir, stop, gathered, request, kept, bounds, spoiled>>

\* flush_on_stop; a snapshot that cannot be written has no later flush.
FinalFlush(r) ==
  /\ at[r] = "final" /\ MovesTo(r, "export")
  /\ \/ Snapshot(r, gathered[r]) /\ UNCHANGED <<mishaps, spoiled>>
     \/ mishaps < MaxMishaps /\ mishaps' = mishaps + 1 /\ spoiled' = spoiled \cup {r} /\ UNCHANGED kept
  /\ UNCHANGED <<conf, held, dir, stop, gathered, worker, request, launches, rewrites>>

\* The export queue is drained, for as long as EXPORT_DRAIN_TIMEOUT; then the process ends.
ExitReceiver(r) ==
  /\ at[r] = "export" /\ MovesTo(r, "exited") /\ Released(r)
  /\ UNCHANGED <<conf, dir, stop, data, bounds, spoiled>>

\* A kill: the system takes the lock and the port back.
KillReceiver(r) ==
  /\ at[r] \notin Down /\ mishaps < MaxMishaps /\ mishaps' = mishaps + 1
  /\ MovesTo(r, "down") /\ Released(r)
  /\ worker' = [worker EXCEPT ![r] = NoWorker] /\ gathered' = [gathered EXCEPT ![r] = {}]
  /\ request' = [q \in Requests |-> IF request[q].by = r THEN [Away EXCEPT !.at = "answered"]
                                    ELSE request[q]]
  /\ UNCHANGED <<conf, dir, stop, kept, launches, rewrites, spoiled>>
-----------------------------------------------------------------------------
RInit ==
  /\ conf \in Dirs
  /\ lock = [d \in Dirs |-> NoReceiver] /\ port = [p \in Ports |-> NoReceiver]
  /\ at = [r \in Receivers |-> "down"] /\ dir = [r \in Receivers |-> conf] /\ stop = {}
  /\ gathered = [r \in Receivers |-> {}] /\ worker = [r \in Receivers |-> NoWorker]
  /\ request = [q \in Requests |-> Away] /\ kept = [d \in Dirs |-> {}]
  /\ launches = 0 /\ rewrites = 0 /\ mishaps = 0 /\ spoiled = {}

Booting(r) == Startup(r) \/ Lock(r) \/ Bind(r) \/ Retry(r)
Stopping(r) ==
  \/ Stops(r) \/ Drained(r) \/ DurableStops(r) \/ PermitsReturn(r) \/ WorkerEnds(r)
  \/ FinalFlush(r) \/ ExitReceiver(r)
Ingesting(q) == Permit(q) \/ Body(q) \/ Decode(q)

RNext ==
  \/ \E r \in Receivers :
       \/ StartReceiver(r) \/ Booting(r) \/ RequestStop(r) \/ FlushReads(r) \/ FlushWrites(r)
       \/ Stopping(r) \/ KillReceiver(r) \/ BootFails(r)
  \/ \E q \in Requests : Ingesting(q) \/ Disconnect(q) \/ \E r \in Receivers : Asks(q, r)
  \/ \E c \in Dirs \cup {BrokenFile} : Edit(c)

RSpec == RInit /\ [][RNext]_rvars

\* A client sends its body or goes away, a decoder ends, a running receiver goes on.
RFairness ==
  /\ \A r \in Receivers :
       WF_rvars(Booting(r)) /\ WF_rvars(Stopping(r)) /\ WF_rvars(FlushWrites(r))
  /\ \A q \in Requests : SF_rvars(Permit(q)) /\ WF_rvars(Body(q)) /\ WF_rvars(Decode(q))

RFairSpec == RSpec /\ RFairness
-----------------------------------------------------------------------------
\* Every variable has its type.
RTypeOK ==
  /\ conf \in Dirs \cup {BrokenFile}
  /\ lock \in [Dirs -> Receivers \cup {NoReceiver}] /\ port \in [Ports -> Receivers \cup {NoReceiver}]
  /\ at \in [Receivers -> Holding \cup Down \cup {"startup", "lock", "wait"}]
  /\ dir \in [Receivers -> Dirs] /\ stop \subseteq Receivers /\ spoiled \subseteq Receivers
  /\ gathered \in [Receivers -> SUBSET Requests] /\ kept \in [Dirs -> SUBSET Requests]
  /\ worker \in [Receivers -> [at : {"none", "idle", "writing"}, what : SUBSET Requests]]
  /\ request \in [Requests -> [at : {"away", "queued", "body", "decode", "answered"},
                               by : Receivers \cup {NoReceiver}, connected : BOOLEAN]]

(* The cost snapshot and the ledger's sweep assume one writer per state    *)
(* directory: whatever receivers wait, take over, are killed or find the   *)
(* configuration edited, two that may write never resolved the same one,   *)
(* and each of them holds the lock of the directory it writes              *)
(* (acquire_state_lock; the loop of serve).                                *)
OneWriter ==
  \A r \in Receivers : at[r] \in Holding =>
    /\ lock[dir[r]] = r
    /\ \A q \in Receivers \ {r} : at[q] \in Holding => dir[q] # dir[r]

(* A receiver that exits on request saved everything it aggregated, a body *)
(* whose client had gone among it, unless its last write failed (serve:    *)
(* the final snapshot must wait for all permits to return).                *)
ExitSavesAll ==
  \A r \in Receivers :
    at[r] = "exited" /\ r \notin spoiled => gathered[r] \subseteq kept[dir[r]]

(* A receiver asked to stop exits, and one started with --wait does not    *)
(* wait for ever unless another one keeps the lock or the port: nobody     *)
(* waits for what only a waiting receiver holds.                           *)
Progress ==
  /\ \A r \in Receivers : r \in stop ~> at[r] \in Down
  /\ \A r \in Waits :
       []<>(at[r] = "wait") => \E q \in Receivers \ {r} : []<>(at[q] \in Holding)
=============================================================================
