--------------------------- MODULE ReceiverProofs ---------------------------
(***************************************************************************)
(* Theorems about the life of a receiver, for any receivers, ports,        *)
(* directories and requests; about the commands that install, restart and  *)
(* remove its service, for any binaries and builds; and about the commands *)
(* that wire Claude Code to it, for any settings, sections and events.     *)
(*                                                                         *)
(* Of the receiver the invariant that is inductive is RInv: the types;     *)
(* that a receiver which may write holds the lock of its directory; and    *)
(* where the requests of a receiver can be, given where its run is, so     *)
(* that what it gathered by its last flush is all it will ever gather.     *)
(*                                                                         *)
(* Of the service it is SInv: where a command can be, that launchd has a   *)
(* process exactly of what it has loaded, and, while nothing was refused   *)
(* and nobody interfered, what the unit, the manager and the process are   *)
(* at each step; Outcome is what that comes to.                            *)
(*                                                                         *)
(* Of the wiring it is WInv: the shapes of the files, of the section and   *)
(* of the command; that a collector replaced is in the section and in what *)
(* is about to be written over it (Captured); and that a settings file     *)
(* about to be written is one that leads to the receiver, given what every *)
(* other scope says (Fitting, which the lemma Pointing is about).          *)
(*                                                                         *)
(* That wiring converges and unwiring undoes it needs, besides WInv, the   *)
(* shape of the hooks in every file and in what is about to be written     *)
(* (HooksStand; HInv is both). The rest is about the operators of Wiring:  *)
(* what is taken out of lists of hooks however long (Listing, Thinned),    *)
(* what one event's groups become (EventWired, EventUnwired), one file     *)
(* (EventStands), and what doctor then reads of it (Reads).                *)
(***************************************************************************)
EXTENDS Receiver, Service, Wiring, SumFacts, SequenceTheorems, TLAPS

\* A receiver that may write holds the lock of the directory it resolved.
LockHeld == \A r \in Receivers : at[r] \in Holding => lock[dir[r]] = r

\* A request that is under way is some receiver's, which has not passed the step that waits for it.
RequestsInTime ==
  \A q \in Requests :
    LET by == request[q].by IN
    /\ request[q].connected => by \in Receivers /\ at[by] \in {"serving", "draining"}
    /\ request[q].at \in {"queued", "body"} => request[q].connected
    /\ request[q].at = "decode" =>
         by \in Receivers /\ at[by] \in {"serving", "draining", "durable", "permits"}

\* A receiver has gathered nothing before it serves, and saved everything once it flushed last.
GatheredInTime ==
  \A r \in Receivers :
    /\ at[r] \in {"startup", "lock", "bind", "wait"} => gathered[r] = {}
    /\ at[r] \in {"export", "exited"} /\ r \notin spoiled => gathered[r] \subseteq kept[dir[r]]

RInv == RTypeOK /\ LockHeld /\ RequestsInTime /\ GatheredInTime
-----------------------------------------------------------------------------
(* The types, step by step.                                                *)

\* Every place a step moves a receiver to is one.
LEMMA Places ==
  /\ Holding = {"bind", "serving", "draining", "durable", "permits", "worker", "final", "export"}
  /\ Down = {"down", "exited"}
BY DEF Holding, Down

\* Releasing keeps what others hold, and the types of both maps.
LEMMA ReleasedFacts ==
  ASSUME NEW r \in Receivers, Released(r),
         lock \in [Dirs -> Receivers \cup {NoReceiver}], port \in [Ports -> Receivers \cup {NoReceiver}]
  PROVE  /\ lock' \in [Dirs -> Receivers \cup {NoReceiver}]
         /\ port' \in [Ports -> Receivers \cup {NoReceiver}]
         /\ \A d \in Dirs : lock[d] # r => lock'[d] = lock[d]
BY DEF Released

\* A receiver's boot keeps the types.
LEMMA BootTypes ==
  ASSUME RTypeOK, NEW r \in Receivers, StartReceiver(r) \/ Booting(r) \/ RequestStop(r)
  PROVE  RTypeOK'
<1>1. CASE StartReceiver(r)
  BY <1>1 DEF RTypeOK, StartReceiver, MovesTo, held
<1>2. CASE Startup(r)
  BY <1>2, Places DEF RTypeOK, Startup, MovesTo, held, data, bounds
<1>3. CASE Lock(r)
  <2>1. CASE lock[dir[r]] = NoReceiver
    BY <1>3, <2>1, Places DEF RTypeOK, Lock, MovesTo, data, bounds
  <2>2. CASE lock[dir[r]] # NoReceiver
    BY <1>3, <2>2, Places DEF RTypeOK, Lock, MovesTo, data, bounds
  <2> QED BY <2>1, <2>2
<1>4. CASE Bind(r)
  <2>1. CASE port[Port[r]] = NoReceiver
    <3>1. worker' \in [Receivers -> [at : {"none", "idle", "writing"}, what : SUBSET Requests]]
      BY <1>4, <2>1 DEF RTypeOK, Bind, IdleFlush
    <3>2. at' \in [Receivers -> Holding \cup Down \cup {"startup", "lock", "wait"}]
      BY <1>4, <2>1, Places DEF RTypeOK, Bind, MovesTo
    <3> QED BY <1>4, <2>1, <3>1, <3>2 DEF RTypeOK, Bind, bounds
  <2>2. CASE port[Port[r]] # NoReceiver
    BY <1>4, <2>2, Places, ReleasedFacts DEF RTypeOK, Bind, MovesTo, bounds
  <2> QED BY <2>1, <2>2
<1>5. CASE Retry(r)
  BY <1>5, Places DEF RTypeOK, Retry, MovesTo, held, data, bounds
<1>6. CASE RequestStop(r)
  BY <1>6 DEF RTypeOK, RequestStop, held, data, bounds
<1> QED BY <1>1, <1>2, <1>3, <1>4, <1>5, <1>6 DEF Booting

\* A receiver's flushes, its stop, a kill and a boot that fails keep the types.
LEMMA StopTypes ==
  ASSUME RTypeOK, NEW r \in Receivers,
         FlushReads(r) \/ FlushWrites(r) \/ Stopping(r) \/ KillReceiver(r) \/ BootFails(r)
  PROVE  RTypeOK'
<1>1. CASE FlushReads(r)
  BY <1>1 DEF RTypeOK, FlushReads, held, bounds
<1>2. CASE FlushWrites(r)
  BY <1>2 DEF RTypeOK, FlushWrites, Snapshot, IdleFlush, held
<1>3. CASE Stops(r)
  BY <1>3, Places DEF RTypeOK, Stops, MovesTo, data, bounds
<1>4. CASE Drained(r) \/ DurableStops(r) \/ PermitsReturn(r)
  BY <1>4, Places DEF RTypeOK, Drained, DurableStops, PermitsReturn, MovesTo, held, data, bounds
<1>5. CASE WorkerEnds(r)
  BY <1>5, Places DEF RTypeOK, WorkerEnds, NoWorker, MovesTo, held, bounds
<1>6. CASE FinalFlush(r)
  BY <1>6, Places DEF RTypeOK, FinalFlush, Snapshot, MovesTo, held
<1>7. CASE ExitReceiver(r)
  BY <1>7, Places, ReleasedFacts DEF RTypeOK, ExitReceiver, MovesTo, data, bounds
<1>8. CASE KillReceiver(r)
  BY <1>8, Places, ReleasedFacts DEF RTypeOK, KillReceiver, MovesTo, NoWorker, Away
<1>9. CASE BootFails(r)
  BY <1>9, Places, ReleasedFacts DEF RTypeOK, BootFails, MovesTo, data
<1> QED BY <1>1, <1>2, <1>3, <1>4, <1>5, <1>6, <1>7, <1>8, <1>9 DEF Stopping

RequestStates == [at : {"away", "queued", "body", "decode", "answered"},
                  by : Receivers \cup {NoReceiver}, connected : BOOLEAN]

\* What a step can make of a request is a state of a request.
LEMMA RequestFacts ==
  /\ [Away EXCEPT !.at = "answered"] \in RequestStates
  /\ \A v \in RequestStates :
       [v EXCEPT !.at = "decode"] \in RequestStates /\ [v EXCEPT !.connected = FALSE] \in RequestStates
BY DEF RequestStates, Away

\* A request's steps keep the types.
LEMMA RequestTypes ==
  ASSUME RTypeOK, NEW q \in Requests,
         Ingesting(q) \/ Disconnect(q) \/ \E r \in Receivers : Asks(q, r)
  PROVE  RTypeOK'
<1>1. CASE Permit(q)
  BY <1>1 DEF RTypeOK, Permit, held, bounds
<1>2. CASE Body(q)
  <2>1. request \in [Requests -> RequestStates]
    BY DEF RTypeOK, RequestStates
  <2>2. request' \in [Requests -> RequestStates]
    <3> PICK valid \in BOOLEAN :
          request' = [request EXCEPT ![q] = IF valid THEN [@ EXCEPT !.at = "decode"]
                                            ELSE [Away EXCEPT !.at = "answered"]]
      BY <1>2 DEF Body
    <3> QED BY <2>1, RequestFacts
  <2> QED BY <1>2, <2>2 DEF RTypeOK, Body, RequestStates, held, bounds
<1>3. CASE Decode(q)
  <2>1. request \in [Requests -> RequestStates]
    BY DEF RTypeOK, RequestStates
  <2>2. request' \in [Requests -> RequestStates]
    BY <1>3, <2>1, RequestFacts DEF Decode
  <2>3. gathered' \in [Receivers -> SUBSET Requests]
    BY <1>3 DEF RTypeOK, Decode
  <2> QED BY <1>3, <2>2, <2>3 DEF RTypeOK, Decode, RequestStates, held, bounds
<1>4. CASE Disconnect(q)
  <2>1. request \in [Requests -> RequestStates]
    BY DEF RTypeOK, RequestStates
  <2>2. request' \in [Requests -> RequestStates]
    BY <1>4, <2>1, RequestFacts DEF Disconnect
  <2> QED BY <1>4, <2>2 DEF RTypeOK, Disconnect, RequestStates, held, bounds
<1>5. CASE \E r \in Receivers : Asks(q, r)
  BY <1>5 DEF RTypeOK, Asks, held, bounds
<1> QED BY <1>1, <1>2, <1>3, <1>4, <1>5 DEF Ingesting

\* The initial values have their types.
LEMMA InitTypes == RInit => RTypeOK
BY DEF RInit, RTypeOK, Away, NoWorker, Down

\* Every step keeps the types.
LEMMA NextTypes == RTypeOK /\ [RNext]_rvars => RTypeOK'
<1> SUFFICES ASSUME RTypeOK, [RNext]_rvars PROVE RTypeOK'
  OBVIOUS
<1>1. CASE \E r \in Receivers : StartReceiver(r) \/ Booting(r) \/ RequestStop(r)
  BY <1>1, BootTypes
<1>2. CASE \E r \in Receivers :
             FlushReads(r) \/ FlushWrites(r) \/ Stopping(r) \/ KillReceiver(r) \/ BootFails(r)
  BY <1>2, StopTypes
<1>3. CASE \E q \in Requests : Ingesting(q) \/ Disconnect(q) \/ \E r \in Receivers : Asks(q, r)
  BY <1>3, RequestTypes
<1>4. CASE \E c \in Dirs \cup {BrokenFile} : Edit(c)
  BY <1>4 DEF RTypeOK, Edit, held, data
<1>5. CASE UNCHANGED rvars
  BY <1>5 DEF RTypeOK, rvars
<1> QED BY <1>1, <1>2, <1>3, <1>4, <1>5 DEF RNext

(* Every variable of a receiver's life has its type, always (RTypeOK).     *)
THEOREM ReceiverTypes == RSpec => []RTypeOK
<1> QED BY InitTypes, NextTypes, PTL DEF RSpec
-----------------------------------------------------------------------------
(* The lock.                                                               *)

\* A receiver that moves on without touching the locks or what it resolved, and was holding one if
\* it holds one now, leaves every holder with its lock.
LEMMA LockKept ==
  ASSUME RTypeOK, LockHeld, NEW r \in Receivers, NEW place,
         MovesTo(r, place), UNCHANGED <<lock, dir>>, place \in Holding => at[r] \in Holding
  PROVE  LockHeld'
BY DEF RTypeOK, LockHeld, MovesTo

\* A receiver that releases its locks and holds none any more leaves every other holder with its own.
LEMMA LockReleased ==
  ASSUME RTypeOK, LockHeld, NEW r \in Receivers, NEW place,
         MovesTo(r, place), Released(r), UNCHANGED dir, place \notin Holding
  PROVE  LockHeld'
BY ReleasedFacts DEF RTypeOK, LockHeld, MovesTo

\* Every step leaves each receiver that may write with the lock of its directory.
LEMMA NextLockHeld == RTypeOK /\ LockHeld /\ [RNext]_rvars => LockHeld'
<1> SUFFICES ASSUME RTypeOK, LockHeld, [RNext]_rvars PROVE LockHeld'
  OBVIOUS
<1>1. ASSUME NEW r \in Receivers, StartReceiver(r) PROVE LockHeld'
  BY <1>1, LockKept, Places DEF StartReceiver, held
<1>2. ASSUME NEW r \in Receivers, Startup(r) PROVE LockHeld'
  BY <1>2, Places DEF Startup, held, RTypeOK, LockHeld, MovesTo
<1>3. ASSUME NEW r \in Receivers, Lock(r) PROVE LockHeld'
  <2>1. CASE lock[dir[r]] = NoReceiver
    <3>1. lock' = [lock EXCEPT ![dir[r]] = r] /\ at' = [at EXCEPT ![r] = "bind"] /\ dir' = dir
      BY <1>3, <2>1 DEF Lock, MovesTo
    <3>2. \A q \in Receivers \ {r} : at[q] \in Holding => dir[q] # dir[r]
      BY <2>1, ReceiverAssumption DEF LockHeld
    <3> QED BY <3>1, <3>2 DEF LockHeld, RTypeOK
  <2>2. CASE lock[dir[r]] # NoReceiver
    BY <1>3, <2>2, LockKept, Places DEF Lock
  <2> QED BY <2>1, <2>2
<1>4. ASSUME NEW r \in Receivers, Bind(r) PROVE LockHeld'
  <2>1. CASE port[Port[r]] = NoReceiver
    BY <1>4, <2>1, LockKept, Places DEF Bind
  <2>2. CASE port[Port[r]] # NoReceiver
    BY <1>4, <2>2, LockReleased, Places DEF Bind
  <2> QED BY <2>1, <2>2
<1>5. ASSUME NEW r \in Receivers, Retry(r) PROVE LockHeld'
  BY <1>5, LockKept, Places DEF Retry, held
<1>6. ASSUME NEW r \in Receivers, Stops(r) PROVE LockHeld'
  BY <1>6, LockKept, Places DEF Stops
<1>7. ASSUME NEW r \in Receivers,
             Drained(r) \/ DurableStops(r) \/ PermitsReturn(r) \/ WorkerEnds(r) \/ FinalFlush(r)
      PROVE  LockHeld'
  BY <1>7, LockKept, Places DEF Drained, DurableStops, PermitsReturn, WorkerEnds, FinalFlush, held
<1>8. ASSUME NEW r \in Receivers, ExitReceiver(r) \/ KillReceiver(r) \/ BootFails(r) PROVE LockHeld'
  BY <1>8, LockReleased, Places DEF ExitReceiver, KillReceiver, BootFails
<1>9. ASSUME UNCHANGED <<at, lock, dir>> PROVE LockHeld'
  BY <1>9 DEF LockHeld
<1>10. ASSUME NEW r \in Receivers, RequestStop(r) \/ FlushReads(r) \/ FlushWrites(r) PROVE LockHeld'
  BY <1>9, <1>10 DEF RequestStop, FlushReads, FlushWrites, held
<1>11. ASSUME NEW q \in Requests, Ingesting(q) \/ Disconnect(q) \/ \E r \in Receivers : Asks(q, r)
       PROVE  LockHeld'
  BY <1>9, <1>11 DEF Ingesting, Permit, Body, Decode, Disconnect, Asks, held
<1>12. ASSUME NEW c \in Dirs \cup {BrokenFile}, Edit(c) PROVE LockHeld'
  BY <1>9, <1>12 DEF Edit, held
<1>13. ASSUME UNCHANGED rvars PROVE LockHeld'
  BY <1>9, <1>13 DEF rvars
<1> QED BY <1>1, <1>2, <1>3, <1>4, <1>5, <1>6, <1>7, <1>8, <1>10, <1>11, <1>12, <1>13
          DEF RNext, Booting, Stopping

\* A receiver that may write holds its lock, always.
LEMMA LockAlwaysHeld == RSpec => [](RTypeOK /\ LockHeld)
<1>1. RInit => LockHeld
  BY Places DEF RInit, LockHeld
<1> QED BY <1>1, InitTypes, NextTypes, NextLockHeld, PTL DEF RSpec

(* Two receivers that may write never resolved the same state directory,   *)
(* and each holds the lock of its own (acquire_state_lock), whatever       *)
(* receivers wait, take over, are killed or find the configuration edited. *)
THEOREM OneWriterAlways == RSpec => []OneWriter
<1>1. RTypeOK /\ LockHeld => OneWriter
  BY DEF OneWriter, LockHeld
<1> QED BY <1>1, LockAlwaysHeld, PTL
-----------------------------------------------------------------------------
(* The requests of a receiver.                                             *)

Waiting == {"startup", "lock", "bind", "wait"}
Serving == {"serving", "draining"}
Awaiting == {"serving", "draining", "durable", "permits"}

\* A receiver that moves past a step which waits for requests has none left that the step waits for.
LEMMA RequestsMoved ==
  ASSUME RTypeOK, RequestsInTime, NEW r \in Receivers, NEW place, MovesTo(r, place), UNCHANGED request,
         \/ at[r] \notin Serving \/ place \in Serving
         \/ \A q \in Requests : request[q].by = r => ~request[q].connected,
         \/ at[r] \notin Awaiting \/ place \in Awaiting
         \/ \A q \in Requests : request[q].by = r => request[q].at # "decode"
  PROVE  RequestsInTime'
BY DEF RTypeOK, RequestsInTime, MovesTo, Serving, Awaiting

\* A step of a receiver leaves its requests in time.
LEMMA ReceiverRequests ==
  ASSUME RTypeOK, RequestsInTime, NEW r \in Receivers,
         \/ StartReceiver(r) \/ Booting(r) \/ RequestStop(r) \/ FlushReads(r) \/ FlushWrites(r)
         \/ Stopping(r) \/ KillReceiver(r) \/ BootFails(r)
  PROVE  RequestsInTime'
<1>1. CASE StartReceiver(r)
  BY <1>1, RequestsMoved DEF StartReceiver, Down, Serving, Awaiting
<1>2. CASE Booting(r) \/ BootFails(r)
  BY <1>2, RequestsMoved DEF Booting, Startup, Lock, Bind, Retry, BootFails, data, Serving, Awaiting
<1>3. CASE RequestStop(r) \/ FlushReads(r) \/ FlushWrites(r)
  BY <1>3 DEF RequestStop, FlushReads, FlushWrites, data, RequestsInTime
<1>4. CASE Stops(r) \/ DurableStops(r) \/ WorkerEnds(r) \/ FinalFlush(r) \/ ExitReceiver(r)
  BY <1>4, RequestsMoved
     DEF Stops, DurableStops, WorkerEnds, FinalFlush, ExitReceiver, data, Serving, Awaiting
<1>5. CASE Drained(r)
  BY <1>5, RequestsMoved DEF Drained, data, Serving, Awaiting
<1>6. CASE PermitsReturn(r)
  BY <1>6, RequestsMoved DEF PermitsReturn, OfReceiver, data, Serving, Awaiting
<1>7. CASE KillReceiver(r)
  <2>1. ASSUME NEW q \in Requests, request[q].by = r
        PROVE  request'[q].at = "answered" /\ ~request'[q].connected
    BY <1>7, <2>1 DEF KillReceiver, Away
  <2>2. ASSUME NEW q \in Requests, request[q].by # r
        PROVE  request'[q] = request[q] /\ at'[request[q].by] = at[request[q].by]
    BY <1>7, <2>2 DEF KillReceiver, MovesTo, RTypeOK
  <2> QED BY <2>1, <2>2 DEF RequestsInTime
<1> QED BY <1>1, <1>2, <1>3, <1>4, <1>5, <1>6, <1>7 DEF Stopping

\* A step of a request leaves every request in time.
LEMMA RequestRequests ==
  ASSUME RTypeOK, RequestsInTime, NEW q \in Requests,
         Ingesting(q) \/ Disconnect(q) \/ \E r \in Receivers : Asks(q, r)
  PROVE  RequestsInTime'
<1>1. CASE Permit(q)
  BY <1>1 DEF Permit, RequestsInTime, RTypeOK
<1>2. CASE Body(q)
  <2> PICK valid \in BOOLEAN :
        request' = [request EXCEPT ![q] = IF valid THEN [@ EXCEPT !.at = "decode"]
                                          ELSE [Away EXCEPT !.at = "answered"]]
    BY <1>2 DEF Body
  <2>1. at' = at /\ request[q].at = "body"
    BY <1>2 DEF Body
  <2> QED BY <2>1 DEF RequestsInTime, RTypeOK, Away
<1>3. CASE Decode(q)
  BY <1>3 DEF Decode, RequestsInTime, RTypeOK, Away
<1>4. CASE Disconnect(q)
  BY <1>4 DEF Disconnect, RequestsInTime, RTypeOK, Away
<1>5. CASE \E r \in Receivers : Asks(q, r)
  BY <1>5 DEF Asks, RequestsInTime, RTypeOK
<1> QED BY <1>1, <1>2, <1>3, <1>4, <1>5 DEF Ingesting

\* Every step leaves every request in time.
LEMMA NextRequests == RTypeOK /\ RequestsInTime /\ [RNext]_rvars => RequestsInTime'
<1> SUFFICES ASSUME RTypeOK, RequestsInTime, [RNext]_rvars PROVE RequestsInTime'
  OBVIOUS
<1>1. ASSUME UNCHANGED <<at, request>> PROVE RequestsInTime'
  BY <1>1 DEF RequestsInTime
<1>2. ASSUME NEW c \in Dirs \cup {BrokenFile}, Edit(c) PROVE RequestsInTime'
  BY <1>1, <1>2 DEF Edit, data
<1>3. ASSUME UNCHANGED rvars PROVE RequestsInTime'
  BY <1>1, <1>3 DEF rvars
<1> QED BY <1>2, <1>3, ReceiverRequests, RequestRequests DEF RNext
-----------------------------------------------------------------------------
(* What a receiver gathered.                                               *)

\* A receiver that moves, with nothing gathered or saved meanwhile, and that enters neither the
\* places before it serves nor those after its last flush with something gathered.
LEMMA GatheredMoved ==
  ASSUME RTypeOK, GatheredInTime, NEW r \in Receivers, NEW place, MovesTo(r, place),
         UNCHANGED <<gathered, kept, dir, spoiled>>,
         place \in Waiting => at[r] \in Waiting,
         place \in {"export", "exited"} => at[r] \in Waiting \cup {"export"}
  PROVE  GatheredInTime'
BY DEF RTypeOK, GatheredInTime, MovesTo, Waiting

\* Saving more, with nothing else changed, keeps what was saved.
LEMMA MoreKept ==
  ASSUME RTypeOK, GatheredInTime, NEW r \in Receivers, NEW what, Snapshot(r, what),
         UNCHANGED <<at, gathered, dir, spoiled>>
  PROVE  GatheredInTime'
BY DEF RTypeOK, GatheredInTime, Snapshot

\* A receiver's boot, and one that fails, leaves what was gathered in time.
LEMMA BootGathered ==
  ASSUME RTypeOK, GatheredInTime, NEW r \in Receivers,
         StartReceiver(r) \/ Booting(r) \/ BootFails(r)
  PROVE  GatheredInTime'
<1>1. CASE StartReceiver(r)
  BY <1>1, Places DEF StartReceiver, MovesTo, GatheredInTime, RTypeOK
<1>2. CASE Startup(r)
  <2>1. gathered[r] = {}
    BY <1>2 DEF Startup, GatheredInTime
  <2>2. UNCHANGED <<gathered, kept, spoiled>> /\ \A q \in Receivers \ {r} : dir'[q] = dir[q] /\ at'[q] = at[q]
    BY <1>2 DEF Startup, data, MovesTo, RTypeOK
  <2> QED BY <2>1, <2>2 DEF GatheredInTime
<1>3. CASE Lock(r) \/ Bind(r) \/ Retry(r) \/ BootFails(r)
  BY <1>3, GatheredMoved DEF Lock, Bind, Retry, BootFails, data, Waiting
<1> QED BY <1>1, <1>2, <1>3 DEF Booting

\* A receiver's flushes, its stop and a kill leave what was gathered in time.
LEMMA StopGathered ==
  ASSUME RTypeOK, GatheredInTime, NEW r \in Receivers,
         FlushReads(r) \/ FlushWrites(r) \/ Stopping(r) \/ KillReceiver(r)
  PROVE  GatheredInTime'
<1>1. ASSUME UNCHANGED <<at, dir, gathered, kept, spoiled>> PROVE GatheredInTime'
  BY <1>1 DEF GatheredInTime
<1>2. CASE FlushReads(r)
  BY <1>1, <1>2 DEF FlushReads
<1>3. CASE FlushWrites(r)
  BY <1>1, <1>3, MoreKept DEF FlushWrites
<1>4. CASE Stops(r) \/ Drained(r) \/ DurableStops(r) \/ PermitsReturn(r) \/ WorkerEnds(r) \/ ExitReceiver(r)
  BY <1>4, GatheredMoved
     DEF Stops, Drained, DurableStops, PermitsReturn, WorkerEnds, ExitReceiver, data, Waiting
<1>5. CASE FinalFlush(r)
  <2>1. at' = [at EXCEPT ![r] = "export"] /\ gathered' = gathered /\ dir' = dir
    BY <1>5 DEF FinalFlush, MovesTo, held
  <2>2. CASE Snapshot(r, gathered[r]) /\ UNCHANGED spoiled
    <3>1. kept' = [kept EXCEPT ![dir[r]] = @ \cup gathered[r]] /\ spoiled' = spoiled
      BY <2>2 DEF Snapshot
    <3>2. gathered[r] \subseteq kept'[dir[r]] /\ \A d \in Dirs : kept[d] \subseteq kept'[d]
      BY <3>1 DEF RTypeOK
    <3> QED BY <2>1, <3>1, <3>2 DEF GatheredInTime, RTypeOK
  <2>3. CASE spoiled' = spoiled \cup {r} /\ UNCHANGED kept
    BY <2>1, <2>3 DEF GatheredInTime, RTypeOK
  <2> QED BY <1>5, <2>2, <2>3 DEF FinalFlush
<1>6. CASE KillReceiver(r)
  BY <1>6 DEF KillReceiver, MovesTo, GatheredInTime, RTypeOK
<1> QED BY <1>2, <1>3, <1>4, <1>5, <1>6 DEF Stopping

\* A request is gathered by a receiver that has yet to flush last.
LEMMA RequestGathered ==
  ASSUME RTypeOK, RequestsInTime, GatheredInTime, NEW q \in Requests,
         Ingesting(q) \/ Disconnect(q) \/ \E r \in Receivers : Asks(q, r)
  PROVE  GatheredInTime'
<1>1. ASSUME UNCHANGED <<at, dir, gathered, kept, spoiled>> PROVE GatheredInTime'
  BY <1>1 DEF GatheredInTime
<1>2. CASE Decode(q)
  <2>1. request[q].by \in Receivers /\ at[request[q].by] \in Awaiting
    BY <1>2 DEF Decode, RequestsInTime, Awaiting
  <2>2. \A r \in Receivers \ {request[q].by} : gathered'[r] = gathered[r]
    BY <1>2 DEF Decode, RTypeOK
  <2>3. UNCHANGED <<at, dir, kept, spoiled>>
    BY <1>2 DEF Decode
  <2> QED BY <2>1, <2>2, <2>3 DEF GatheredInTime, Awaiting
<1> QED BY <1>1, <1>2 DEF Ingesting, Permit, Body, Disconnect, Asks

\* Every step keeps RInv.
LEMMA NextRInv == RInv /\ [RNext]_rvars => RInv'
<1> SUFFICES ASSUME RTypeOK, RequestsInTime, GatheredInTime, [RNext]_rvars PROVE GatheredInTime'
  BY NextTypes, NextLockHeld, NextRequests DEF RInv
<1>1. ASSUME UNCHANGED <<at, dir, gathered, kept, spoiled>> PROVE GatheredInTime'
  BY <1>1 DEF GatheredInTime
<1>2. ASSUME NEW r \in Receivers, RequestStop(r) PROVE GatheredInTime'
  BY <1>1, <1>2 DEF RequestStop, data
<1>3. ASSUME NEW c \in Dirs \cup {BrokenFile}, Edit(c) PROVE GatheredInTime'
  BY <1>1, <1>3 DEF Edit, data
<1>4. ASSUME UNCHANGED rvars PROVE GatheredInTime'
  BY <1>1, <1>4 DEF rvars
<1> QED BY <1>2, <1>3, <1>4, BootGathered, StopGathered, RequestGathered DEF RNext

(* A receiver that exits on request saved everything it aggregated, unless *)
(* its last write failed: its last flush waits for every body that holds a *)
(* slot, also one whose client went away (serve, the drained permits).     *)
THEOREM ExitSavesAllAlways == RSpec => []ExitSavesAll
<1>1. RInit => RInv
  BY InitTypes, Places DEF RInit, RInv, LockHeld, RequestsInTime, GatheredInTime, Away
<1>2. RInv => ExitSavesAll
  BY DEF RInv, GatheredInTime, ExitSavesAll
<1> QED BY <1>1, <1>2, NextRInv, PTL DEF RSpec
-----------------------------------------------------------------------------
(* The commands of the service.                                            *)

\* The types, of a manager that reads no unit cut short.
STypes ==
  /\ platform \in Platforms /\ unit \in UnitContent /\ loaded \in UnitFile \cup {NoUnit}
  /\ enabled \in BOOLEAN /\ receiver \in Process \cup {Stopped, Failed}
  /\ disk \in [Binaries -> Builds] /\ sound \in BOOLEAN /\ task \in Task

\* Where a command can be, by what it does, on which platform, and with what found and written.
Course ==
  /\ task.step \in {"stop", "delete"} => task.action = "remove"
  /\ task.step \notin {"stop", "delete", "done"} => task.action \in {"install", "restart"}
  /\ task.step \in {"reread", "enable", "start"} => platform = "systemd"
  /\ task.step \in {"unload", "load", "look"} => platform = "launchd"
  /\ task.step \in {"truncate", "fill"} =>
       /\ task.installed = InstalledUnit(task.saw, task.binary, task.build)
       /\ Rewrites(task.action, task.installed)
  /\ At("fill") => unit = Torn
  /\ At("reread") => unit \in UnitFile
  /\ ~At("done") => task.build # 0

\* launchd has a process, or one that failed, exactly of what it has loaded.
LoadedRuns == platform = "launchd" => (loaded = NoUnit <=> receiver = Stopped)

Written == UnitOf(task.build, task.binary)

\* An install or a restart that nothing was refused, and nobody else disturbed.
Calm == ~task.disturbed /\ task.action \in {"install", "restart"}

\* It left the receiver as it was, or started it from what is loaded.
Outcome ==
  \/ /\ receiver = task.began
     /\ task.code = 0 =>
          task.action = "restart" /\ (task.installed = "none" \/ ~Alive(receiver))
  \/ /\ sound /\ loaded \in UnitFile /\ receiver = Started(loaded)
     /\ task.action = "restart" =>
          /\ task.began # Stopped
          /\ task.installed \in {"current", "earlier"} => unit = Written
          /\ task.installed = "earlier" => loaded = Written
     /\ task.action = "install" /\ task.code = 0 => loaded = Written /\ enabled

\* What is so at each step of a calm command.
Undisturbed ==
  Calm =>
    /\ disk[task.binary] = task.build /\ task.build # 0 /\ task.reread
    /\ task.step \notin {"check", "done"} => sound
    /\ task.step \notin {"load", "look", "done"} => receiver = task.began
    /\ task.step \in {"reread", "enable", "start"} => unit = Written
    /\ task.step \in {"enable", "start"} => loaded = Written /\ task.action = "install"
    /\ At("start") => enabled
    /\ At("reread") /\ task.action = "restart" => task.installed = "earlier"
    /\ task.step \in {"ask", "again"} =>
         /\ task.action = "install" => task.installed = "other" /\ task.code = 1
         /\ task.installed \in {"current", "earlier"} => unit = Written
         /\ platform = "systemd" /\ task.installed = "earlier" => loaded = Written
    /\ At("again") => IF platform = "launchd" THEN loaded # NoUnit ELSE Alive(receiver)
    /\ At("again") /\ platform = "launchd" => task.installed = "other"
    /\ task.step \in {"unload", "load", "look"} =>
         /\ task.action = "install" \/ task.installed \in {"current", "earlier"} => unit = Written
         /\ task.action = "restart" => task.began # Stopped
    /\ At("look") =>
         loaded = unit /\ unit \in UnitFile /\ enabled /\ receiver = Started(unit)
    /\ At("done") => Outcome

SInv == STypes /\ Course /\ LoadedRuns /\ Undisturbed
-----------------------------------------------------------------------------
\* Whatever the manager starts is a process, or failed.
LEMMA StartedType ==
  ASSUME STypes, NEW u
  PROVE  Started(u) \in Process \cup {Failed} /\ Started(u) # Stopped
<1>1. CASE u \in UnitFile /\ disk[u.binary] # 0 /\ sound
  <2>1. u.binary \in Binaries /\ disk[u.binary] \in Builds \ {0}
    BY <1>1 DEF UnitFile, STypes
  <2> QED BY <1>1, <2>1, ServiceAssumption DEF Started, Process
<1>2. CASE ~(u \in UnitFile /\ disk[u.binary] # 0 /\ sound)
  BY <1>2, ServiceAssumption DEF Started
<1> QED BY <1>1, <1>2


TaskSteps == {"check", "truncate", "fill", "reread", "enable", "start", "ask", "again", "unload", "load",
          "look", "stop", "delete", "done"}

\* What no step of a command but its check changes of it.
Kept(t) ==
  /\ t \in Task /\ t.action = task.action /\ t.binary = task.binary /\ t.build = task.build
  /\ t.installed = task.installed /\ t.saw = task.saw /\ t.began = task.began

\* The next step of a command, and an end with a code.
LEMMA GoesOn ==
  ASSUME task \in Task, NEW step \in TaskSteps, NEW t, t = [task EXCEPT !.step = step]
  PROVE  /\ Kept(t) /\ t.step = step /\ t.code = task.code /\ t.reread = task.reread
         /\ t.disturbed = task.disturbed
BY DEF Kept, Task, TaskSteps

LEMMA EndsWith ==
  ASSUME task \in Task, NEW code \in {0, 1}, NEW t, t = [task EXCEPT !.step = "done", !.code = code]
  PROVE  /\ Kept(t) /\ t.step = "done" /\ t.code = code /\ t.reread = task.reread
         /\ t.disturbed = task.disturbed
BY DEF Kept, Task

\* An end with something refused.
LEMMA FailsWith ==
  ASSUME task \in Task, NEW code \in {0, 1}, NEW t,
         t = [task EXCEPT !.step = "done", !.code = code, !.disturbed = TRUE]
  PROVE  Kept(t) /\ t.step = "done" /\ t.disturbed
BY DEF Kept, Task

\* The types of what a command holds.
LEMMA TaskFields ==
  ASSUME task \in Task
  PROVE  /\ task.binary \in Binaries /\ task.build \in Builds /\ task.code \in {0, 1}
         /\ task.disturbed \in BOOLEAN /\ task.reread \in BOOLEAN
BY DEF Task

\* A command that ends with something refused leaves nothing to say of it.
LEMMA FailsKeeps ==
  ASSUME SInv, NEW code \in {0, 1}, Fails(code), UNCHANGED <<platform, unit, manager, disk, sound>>
  PROVE  SInv'
<1>1. STypes /\ LoadedRuns
  BY DEF SInv
<1>2. Kept(task') /\ task'.step = "done" /\ task'.disturbed
  BY <1>1, FailsWith DEF Fails, STypes
<1>3. STypes' /\ LoadedRuns'
  BY <1>1, <1>2 DEF STypes, LoadedRuns, manager, Kept
<1>4. Course' /\ Undisturbed'
  BY <1>2 DEF Course, Undisturbed, Calm, At
<1> QED BY <1>3, <1>4 DEF SInv


LEMMA TruncateUnitKeeps == ASSUME SInv, TruncateUnit PROVE SInv'
<1>0. STypes /\ Course /\ LoadedRuns /\ Undisturbed /\ task \in Task /\ At("truncate")
  BY DEF SInv, STypes, TruncateUnit
<1>1. unit' = Torn /\ UNCHANGED <<platform, manager, disk, sound>>
  BY DEF TruncateUnit
<1>2. Kept(task') /\ task'.step = "fill" /\ task'.code = task.code /\ task'.reread = task.reread
      /\ task'.disturbed = task.disturbed
  BY <1>0, GoesOn DEF TruncateUnit, Goes, TaskSteps
<1>3. STypes' /\ LoadedRuns'
  BY <1>0, <1>1, <1>2 DEF STypes, LoadedRuns, manager, Kept, UnitContent
<1>4. Course'
  BY <1>0, <1>1, <1>2 DEF Course, Kept, At, manager
<1>5. Undisturbed'
  BY <1>0, <1>1, <1>2 DEF Undisturbed, Calm, Kept, At, manager
<1> QED BY <1>3, <1>4, <1>5 DEF SInv

LEMMA FillUnitKeeps == ASSUME SInv, FillUnit PROVE SInv'
<1>0. STypes /\ Course /\ LoadedRuns /\ Undisturbed /\ task \in Task /\ At("fill")
  BY DEF SInv, STypes, FillUnit
<1>1. /\ unit' = Written /\ UNCHANGED <<platform, manager, disk, sound>>
      /\ task.action \in {"install", "restart"} /\ Rewrites(task.action, task.installed)
      /\ task.build # 0
  BY <1>0 DEF FillUnit, Written, Course, At
<1>2. Written \in UnitFile
  BY <1>0, <1>1, TaskFields DEF Written, UnitOf, UnitFile, Builds
<1>3. PICK step \in {"reread", "unload", "ask"} :
        /\ Goes(step)
        /\ step = "reread" <=> platform = "systemd"
        /\ step = "unload" => task.action = "install"
        /\ step = "ask" => task.action = "restart"
  <2>1. platform \in {"systemd", "launchd"}
    BY <1>0, ServiceAssumption DEF STypes
  <2>2. CASE platform = "systemd"
    BY <2>2 DEF FillUnit
  <2>3. CASE platform = "launchd" /\ task.action = "install"
    BY <2>3 DEF FillUnit
  <2>4. CASE platform = "launchd" /\ task.action = "restart"
    BY <2>4 DEF FillUnit
  <2> QED BY <1>1, <2>1, <2>2, <2>3, <2>4
<1>4. Kept(task') /\ task'.step = step /\ task'.code = task.code /\ task'.reread = task.reread
      /\ task'.disturbed = task.disturbed
  BY <1>0, <1>3, GoesOn DEF Goes, TaskSteps
<1>5. Written' = Written
  BY <1>4 DEF Kept, Written
<1>6. STypes' /\ LoadedRuns'
  BY <1>0, <1>1, <1>2, <1>4 DEF STypes, LoadedRuns, manager, Kept, UnitContent
<1>7. Course'
  BY <1>0, <1>1, <1>2, <1>3, <1>4, ServiceAssumption DEF Course, Kept, At, STypes
<1>8. Undisturbed'
  <2>1. step = "ask" => platform # "systemd"
    BY <1>3
  <2>2. Rewrites(task.action, task.installed) => (task.action = "restart" => task.installed = "earlier")
    BY DEF Rewrites
  <2> QED
    BY <1>0, <1>1, <1>3, <1>4, <1>5, <2>1, <2>2 DEF Undisturbed, Calm, Kept, At, manager
<1> QED BY <1>6, <1>7, <1>8 DEF SInv

\* daemon-reload: an undisturbed one has the manager read what was written.
LEMMA RereadKeeps == ASSUME SInv, NEW ok \in BOOLEAN, Reread(ok) PROVE SInv'
<1>0. STypes /\ Course /\ LoadedRuns /\ Undisturbed /\ task \in Task /\ At("reread")
  BY DEF SInv, STypes, Reread
<1>1. /\ UNCHANGED <<platform, unit, enabled, receiver, disk, sound>>
      /\ platform = "systemd" /\ unit \in UnitFile /\ task.action \in {"install", "restart"}
      /\ loaded' \in {unit, loaded} /\ task.build # 0
  BY <1>0 DEF Reread, Course, At
<1>2. CASE ~ok
  <2>1. PICK step \in {"ask", "done"}, code \in {0, 1} :
          task' = [[task EXCEPT !.disturbed = TRUE] EXCEPT !.reread = FALSE, !.step = step, !.code = code]
    BY <1>2 DEF Reread, Disturbed
  <2>2. Kept(task') /\ task'.step = step /\ task'.disturbed
    BY <1>0, <2>1 DEF Kept, Task
  <2>3. STypes' /\ LoadedRuns' /\ Course'
    BY <1>0, <1>1, <2>2 DEF STypes, LoadedRuns, Kept, Course, At
  <2>4. Undisturbed'
    BY <2>2 DEF Undisturbed, Calm
  <2> QED BY <2>3, <2>4 DEF SInv
<1>3. CASE ok
  <2>1. PICK step \in {"ask", "enable"} :
          /\ loaded' = unit /\ task' = [task EXCEPT !.step = step]
          /\ step = "ask" <=> task.action = "restart"
    BY <1>3 DEF Reread, Goes
  <2>2. /\ Kept(task') /\ task'.step = step /\ task'.code = task.code
        /\ task'.reread = task.reread /\ task'.disturbed = task.disturbed
    BY <1>0, <2>1, GoesOn DEF TaskSteps
  <2>3. Written' = Written
    BY <2>2 DEF Kept, Written
  <2>4. STypes' /\ LoadedRuns' /\ Course'
    BY <1>0, <1>1, <2>1, <2>2 DEF STypes, LoadedRuns, Kept, Course, At
  <2>5. Undisturbed'
    <3>1. SUFFICES ASSUME Calm' PROVE Undisturbed'
      BY DEF Undisturbed
    <3>2. Calm
      BY <2>2, <3>1 DEF Calm, Kept
    <3>3. /\ unit = Written /\ receiver = task.began /\ sound /\ disk[task.binary] = task.build
          /\ task.build # 0 /\ task.reread /\ (task.action = "restart" => task.installed = "earlier")
      BY <1>0, <3>2 DEF Undisturbed, At
    <3> QED
      BY <1>0, <1>1, <2>1, <2>2, <2>3, <3>2, <3>3 DEF Undisturbed, Kept, At
  <2> QED BY <2>4, <2>5 DEF SInv
<1> QED BY <1>2, <1>3

LEMMA EnableKeeps == ASSUME SInv, NEW ok \in BOOLEAN, Enable(ok) PROVE SInv'
<1>1. CASE ~ok
  BY <1>1, FailsKeeps DEF Enable, manager
<1>2. CASE ok
  <2>0. STypes /\ Course /\ LoadedRuns /\ Undisturbed /\ task \in Task /\ At("enable")
    BY DEF SInv, STypes, Enable
  <2>1. enabled' = TRUE /\ Goes("start") /\ UNCHANGED <<platform, unit, loaded, receiver, disk, sound>>
    BY <1>2 DEF Enable
  <2>2. /\ Kept(task') /\ task'.step = "start" /\ task'.code = task.code
        /\ task'.reread = task.reread /\ task'.disturbed = task.disturbed
    BY <2>0, <2>1, GoesOn DEF Goes, TaskSteps
  <2>3. Written' = Written
    BY <2>2 DEF Kept, Written
  <2>4. STypes' /\ LoadedRuns'
    BY <2>0, <2>1, <2>2 DEF STypes, LoadedRuns, Kept
  <2>5. Course'
    BY <2>0, <2>1, <2>2 DEF Course, Kept, At
  <2>6. Undisturbed'
    BY <2>0, <2>1, <2>2, <2>3 DEF Undisturbed, Calm, Kept, At
  <2> QED BY <2>4, <2>5, <2>6 DEF SInv
<1> QED BY <1>1, <1>2

\* An install started what it wrote, with a program and a configuration that are there.
LEMMA StartUnitKeeps == ASSUME SInv, NEW ok \in BOOLEAN, StartUnit(ok) PROVE SInv'
<1>1. CASE ~ok
  BY <1>1, FailsKeeps DEF StartUnit, manager
<1>2. CASE ok
  <2>0. STypes /\ Course /\ LoadedRuns /\ Undisturbed /\ task \in Task /\ At("start")
    BY DEF SInv, STypes, StartUnit
  <2>1. /\ receiver' = Started(loaded) /\ Ends(0)
        /\ UNCHANGED <<platform, unit, loaded, enabled, disk, sound>>
    BY <1>2 DEF StartUnit
  <2>2. /\ Kept(task') /\ task'.step = "done" /\ task'.code = 0
        /\ task'.reread = task.reread /\ task'.disturbed = task.disturbed
    BY <2>0, <2>1, EndsWith DEF Ends
  <2>3. Written' = Written /\ Started(loaded)' = Started(loaded)
    BY <2>1, <2>2 DEF Kept, Written, Started
  <2>4. STypes' /\ LoadedRuns' /\ Course'
    BY <2>0, <2>1, <2>2, StartedType DEF STypes, LoadedRuns, Kept, Course, At
  <2>5. Undisturbed'
    <3>1. SUFFICES ASSUME Calm' PROVE Undisturbed'
      BY DEF Undisturbed
    <3>2. /\ loaded = Written /\ enabled /\ sound /\ task.action = "install"
          /\ disk[task.binary] = task.build /\ task.build # 0 /\ task.reread
      BY <2>0, <2>2, <3>1 DEF Undisturbed, Calm, Kept, At
    <3>3. Written \in UnitFile
      BY <2>0, <3>2, TaskFields DEF Written, UnitOf, UnitFile, Builds
    <3>4. Outcome'
      BY <2>1, <2>2, <2>3, <3>2, <3>3 DEF Outcome, Kept
    <3> QED
      BY <2>1, <2>2, <3>2, <3>4 DEF Undisturbed, Kept, At
  <2> QED BY <2>4, <2>5 DEF SInv
<1> QED BY <1>1, <1>2

\* A receiver that is not up is left so; one that is goes on to be started again.
LEMMA AskKeeps == ASSUME SInv, NEW reached \in BOOLEAN, Ask(reached) PROVE SInv'
<1>0. STypes /\ Course /\ LoadedRuns /\ Undisturbed /\ task \in Task /\ At("ask")
  BY DEF SInv, STypes, Ask
<1>1. UNCHANGED <<platform, unit, manager, disk, sound>> /\ task.code \in {0, 1}
  BY <1>0, TaskFields DEF Ask
<1>2. CASE ~reached
  BY <1>1, <1>2, FailsKeeps DEF Ask
<1>3. CASE reached
  <2> DEFINE up == IF platform = "launchd" THEN loaded # NoUnit ELSE Alive(receiver)
  <2>1. Asked(up)
    BY <1>3 DEF Ask
  <2>2. PICK step \in {"unload", "again", "done"}, code \in {0, 1} :
          /\ task' = IF step = "done" THEN [task EXCEPT !.step = "done", !.code = code]
                     ELSE [task EXCEPT !.step = step]
          /\ step = "done" => (~up /\ code = task.code) \/ ~task.reread
          /\ step # "done" => up
          /\ step = "unload" => platform = "launchd" /\ task.installed # "other"
          /\ step = "again" => platform # "launchd" \/ task.installed = "other"
    <3>1. CASE ~up
      BY <1>1, <2>1, <3>1 DEF Asked, Ends
    <3>2. CASE up /\ ~task.reread
      BY <2>1, <3>2 DEF Asked, Ends
    <3>3. CASE up /\ task.reread /\ platform = "launchd" /\ task.installed # "other"
      <4>1. Goes("unload")
        BY <2>1, <3>3 DEF Asked
      <4> QED BY <3>3, <4>1 DEF Goes
    <3>4. CASE up /\ task.reread /\ ~(platform = "launchd" /\ task.installed # "other")
      <4>1. Goes("again")
        BY <2>1, <3>4 DEF Asked
      <4> QED BY <3>4, <4>1 DEF Goes
    <3> QED BY <3>1, <3>2, <3>3, <3>4
  <2>3. /\ Kept(task') /\ task'.step = step /\ task'.reread = task.reread
        /\ task'.disturbed = task.disturbed
        /\ task'.code = IF step = "done" THEN code ELSE task.code
    <3>1. CASE step = "done"
      <4>1. task' = [task EXCEPT !.step = "done", !.code = code]
        BY <2>2, <3>1
      <4> QED BY <1>0, <3>1, <4>1, EndsWith
    <3>2. CASE step # "done"
      <4>1. task' = [task EXCEPT !.step = step]
        BY <2>2, <3>2
      <4> QED BY <1>0, <3>2, <4>1, GoesOn DEF TaskSteps
    <3> QED BY <3>1, <3>2
  <2>4. Written' = Written
    BY <2>3 DEF Kept, Written
  <2>5. STypes' /\ LoadedRuns' /\ Course'
    BY <1>0, <1>1, <2>2, <2>3 DEF STypes, LoadedRuns, Kept, Course, At, manager
  <2>6. Undisturbed'
    <3>1. SUFFICES ASSUME Calm' PROVE Undisturbed'
      BY DEF Undisturbed
    <3>2. Calm
      BY <2>3, <3>1 DEF Calm, Kept
    <3>3. /\ receiver = task.began /\ sound /\ disk[task.binary] = task.build
          /\ task.build # 0 /\ task.reread
          /\ task.action = "install" => task.installed = "other" /\ task.code = 1
          /\ task.installed \in {"current", "earlier"} => unit = Written
          /\ platform = "systemd" /\ task.installed = "earlier" => loaded = Written
      BY <1>0, <3>2 DEF Undisturbed, At
    <3>4. platform \in {"systemd", "launchd"} /\ (platform = "launchd" => (loaded = NoUnit <=> receiver = Stopped))
      BY <1>0, ServiceAssumption DEF STypes, LoadedRuns
    <3>5. CASE step = "done"
      <4>1. platform = "launchd" => ~Alive(receiver)
        BY <2>2, <3>3, <3>4, <3>5 DEF Alive
      <4>2. ~Alive(receiver) /\ code = task.code
        BY <2>2, <3>3, <3>5, <4>1
      <4>3. code = 0 => task.action = "restart"
        BY <3>2, <3>3, <4>2 DEF Calm
      <4>4. Outcome'
        BY <1>1, <2>3, <3>3, <3>5, <4>2, <4>3 DEF Outcome, Kept, manager, Alive
      <4> QED
        BY <1>1, <2>3, <3>3, <3>5, <4>4 DEF Undisturbed, Kept, At, manager
    <3>6. CASE step = "unload"
      <4>1. task.action = "restart" /\ task.began # Stopped
        BY <2>2, <3>2, <3>3, <3>4, <3>6 DEF Calm
      <4> QED
        BY <1>1, <2>3, <2>4, <3>3, <3>6, <4>1 DEF Undisturbed, Kept, At, manager
    <3>7. CASE step = "again"
      BY <1>1, <2>2, <2>3, <2>4, <3>3, <3>7 DEF Undisturbed, Kept, At, manager, Alive
    <3> QED BY <3>5, <3>6, <3>7
  <2> QED BY <2>5, <2>6 DEF SInv
<1> QED BY <1>2, <1>3

LEMMA AgainKeeps == ASSUME SInv, NEW ok \in BOOLEAN, Again(ok) PROVE SInv'
<1>0. STypes /\ Course /\ LoadedRuns /\ Undisturbed /\ task \in Task /\ At("again")
  BY DEF SInv, STypes, Again
<1>1. CASE ~ok
  BY <1>1, FailsKeeps DEF Again, manager
<1>2. CASE ok
  <2>1. /\ loaded \in UnitFile /\ Ends(task.code) /\ task.code \in {0, 1}
        /\ UNCHANGED <<platform, unit, loaded, enabled, disk, sound>>
        /\ receiver' = IF Alive(receiver) \/ platform = "launchd" THEN Started(loaded) ELSE receiver
    BY <1>0, <1>2, TaskFields DEF Again, STypes
  <2>2. /\ Kept(task') /\ task'.step = "done" /\ task'.code = task.code
        /\ task'.reread = task.reread /\ task'.disturbed = task.disturbed
    BY <1>0, <2>1, EndsWith DEF Ends
  <2>3. Written' = Written /\ Started(loaded)' = Started(loaded)
    BY <2>1, <2>2 DEF Kept, Written, Started
  <2>4. receiver' \in Process \cup {Stopped, Failed}
    BY <1>0, <2>1, StartedType DEF STypes
  <2>5. STypes' /\ Course'
    BY <1>0, <2>1, <2>2, <2>4 DEF STypes, Kept, Course, At
  <2>6. LoadedRuns'
    <3>1. platform = "launchd" => receiver' # Stopped /\ loaded' # NoUnit
      BY <1>0, <2>1, StartedType, ServiceAssumption
    <3> QED BY <2>1, <3>1 DEF LoadedRuns
  <2>7. Undisturbed'
    <3>1. SUFFICES ASSUME Calm' PROVE Undisturbed'
      BY DEF Undisturbed
    <3>2. Calm
      BY <2>2, <3>1 DEF Calm, Kept
    <3>3. /\ receiver = task.began /\ sound /\ disk[task.binary] = task.build
          /\ task.build # 0 /\ task.reread
          /\ task.action = "install" => task.code = 1
          /\ task.installed \in {"current", "earlier"} => unit = Written
          /\ platform = "systemd" /\ task.installed = "earlier" => loaded = Written
          /\ IF platform = "launchd" THEN loaded # NoUnit ELSE Alive(receiver)
          /\ platform = "launchd" => task.installed = "other"
      BY <1>0, <3>2 DEF Undisturbed, At
    <3>4. platform \in {"systemd", "launchd"} /\ (platform = "launchd" => (loaded = NoUnit <=> receiver = Stopped))
      BY <1>0, ServiceAssumption DEF STypes, LoadedRuns
    <3>5. task.began # Stopped /\ receiver' = Started(loaded)
      BY <2>1, <3>3, <3>4 DEF Alive
    <3>6. Outcome'
      BY <2>1, <2>2, <2>3, <3>3, <3>4, <3>5 DEF Outcome, Kept
    <3> QED
      BY <2>1, <2>2, <3>3, <3>6 DEF Undisturbed, Kept, At
  <2> QED BY <2>5, <2>6, <2>7 DEF SInv
<1> QED BY <1>1, <1>2

LEMMA UnloadKeeps == ASSUME SInv, Unload PROVE SInv'
<1>0. STypes /\ Course /\ LoadedRuns /\ Undisturbed /\ task \in Task /\ At("unload")
  BY DEF SInv, STypes, Unload
<1>1. loaded' = NoUnit /\ receiver' = Stopped /\ UNCHANGED <<platform, unit, enabled, disk, sound>>
  BY DEF Unload
<1>2. /\ Kept(task') /\ task'.step = "load" /\ task'.code = task.code /\ task'.reread = task.reread
      /\ task'.disturbed = task.disturbed
  BY <1>0, GoesOn DEF Unload, Goes, TaskSteps
<1>3. Written' = Written
  BY <1>2 DEF Kept, Written
<1>4. STypes' /\ LoadedRuns' /\ Course'
  BY <1>0, <1>1, <1>2 DEF STypes, LoadedRuns, Kept, Course, At
<1>5. Undisturbed'
  BY <1>0, <1>1, <1>2, <1>3 DEF Undisturbed, Calm, Kept, At
<1> QED BY <1>4, <1>5 DEF SInv

LEMMA LoadUnitKeeps == ASSUME SInv, NEW ok \in BOOLEAN, LoadUnit(ok) PROVE SInv'
<1>0. STypes /\ Course /\ LoadedRuns /\ Undisturbed /\ task \in Task /\ At("load")
  BY DEF SInv, STypes, LoadUnit
<1>1. CASE ~(ok /\ unit \in UnitFile)
  <2>1. /\ UNCHANGED <<platform, unit, manager, disk, sound>>
        /\ task' = [[task EXCEPT !.disturbed = TRUE] EXCEPT !.step = "look"]
    BY <1>1 DEF LoadUnit, Disturbed
  <2>2. Kept(task') /\ task'.step = "look" /\ task'.disturbed
    BY <1>0, <2>1 DEF Kept, Task
  <2>3. STypes' /\ LoadedRuns' /\ Course'
    BY <1>0, <2>1, <2>2 DEF STypes, LoadedRuns, Kept, Course, At, manager
  <2>4. Undisturbed'
    BY <2>2 DEF Undisturbed, Calm
  <2> QED BY <2>3, <2>4 DEF SInv
<1>2. CASE ok /\ unit \in UnitFile
  <2>1. /\ loaded' = unit /\ enabled' = TRUE /\ receiver' = Started(unit) /\ Goes("look")
        /\ UNCHANGED <<platform, unit, disk, sound>>
    BY <1>2 DEF LoadUnit
  <2>2. /\ Kept(task') /\ task'.step = "look" /\ task'.code = task.code
        /\ task'.reread = task.reread /\ task'.disturbed = task.disturbed
    BY <1>0, <2>1, GoesOn DEF Goes, TaskSteps
  <2>3. Written' = Written /\ Started(unit)' = Started(unit)
    BY <2>1, <2>2 DEF Kept, Written, Started
  <2>4. STypes' /\ LoadedRuns' /\ Course'
    BY <1>0, <1>2, <2>1, <2>2, StartedType, ServiceAssumption DEF STypes, LoadedRuns, Kept, Course, At
  <2>5. Undisturbed'
    BY <1>0, <1>2, <2>1, <2>2, <2>3 DEF Undisturbed, Calm, Kept, At
  <2> QED BY <2>4, <2>5 DEF SInv
<1> QED BY <1>1, <1>2

\* launchd was seen to have loaded it.
LEMMA LookUpKeeps == ASSUME SInv, LookUp PROVE SInv'
<1>0. STypes /\ Course /\ LoadedRuns /\ Undisturbed /\ task \in Task /\ At("look")
  BY DEF SInv, STypes, LookUp
<1>1. PICK code \in {0, 1} :
        /\ Ends(code) /\ (loaded # NoUnit => code = task.code)
        /\ UNCHANGED <<platform, unit, manager, disk, sound>>
  BY <1>0, TaskFields DEF LookUp
<1>2. /\ Kept(task') /\ task'.step = "done" /\ task'.code = code /\ task'.reread = task.reread
      /\ task'.disturbed = task.disturbed
  BY <1>0, <1>1, EndsWith DEF Ends
<1>3. Written' = Written /\ Started(loaded)' = Started(loaded)
  BY <1>1, <1>2 DEF Kept, Written, Started, manager
<1>4. STypes' /\ LoadedRuns' /\ Course'
  BY <1>0, <1>1, <1>2 DEF STypes, LoadedRuns, Kept, Course, At, manager
<1>5. Undisturbed'
  <2>1. SUFFICES ASSUME Calm' PROVE Undisturbed'
    BY DEF Undisturbed
  <2>2. Calm
    BY <1>2, <2>1 DEF Calm, Kept
  <2>3. /\ sound /\ disk[task.binary] = task.build /\ task.build # 0 /\ task.reread
        /\ task.action = "install" \/ task.installed \in {"current", "earlier"} => unit = Written
        /\ task.action = "restart" => task.began # Stopped
        /\ loaded = unit /\ unit \in UnitFile /\ enabled /\ receiver = Started(unit)
    BY <1>0, <2>2 DEF Undisturbed, At
  <2>4. Outcome'
    BY <1>1, <1>2, <1>3, <2>3 DEF Outcome, Kept, manager
  <2> QED
    BY <1>1, <1>2, <2>3, <2>4 DEF Undisturbed, Kept, At, manager
<1> QED BY <1>4, <1>5 DEF SInv

\* A removal, which the rest is not about.
LEMMA RemovalKeeps ==
  ASSUME SInv, NEW ok \in BOOLEAN, StopUnit(ok) \/ Delete(ok)
  PROVE  SInv'
<1>1. STypes /\ Course /\ LoadedRuns /\ task \in Task /\ task.action = "remove"
  BY DEF SInv, STypes, StopUnit, Delete, Course, At
<1>2. PICK step \in {"delete", "done"} :
        Kept(task') /\ task'.step = step /\ task'.disturbed = task.disturbed
  <2>1. CASE StopUnit(ok)
    BY <1>1, <2>1, GoesOn DEF StopUnit, Goes, TaskSteps
  <2>2. CASE Delete(ok)
    BY <1>1, <2>2, EndsWith DEF Delete, Ends
  <2> QED BY <2>1, <2>2
<1>3. /\ platform' = platform /\ disk' = disk /\ sound' = sound /\ unit' \in UnitContent
      /\ loaded' \in UnitFile \cup {NoUnit} /\ enabled' \in BOOLEAN
      /\ receiver' \in Process \cup {Stopped, Failed}
  <2>1. CASE StopUnit(ok)
    BY <1>1, <2>1 DEF StopUnit, STypes, manager
  <2>2. CASE Delete(ok)
    BY <1>1, <2>2 DEF Delete, STypes, UnitContent
  <2> QED BY <2>1, <2>2
<1>4. STypes'
  BY <1>1, <1>2, <1>3 DEF STypes, Kept
<1>5. LoadedRuns'
  <2>1. CASE StopUnit(ok)
    BY <1>1, <2>1 DEF StopUnit, LoadedRuns, manager
  <2>2. CASE Delete(ok)
    BY <1>1, <2>2 DEF Delete, LoadedRuns
  <2> QED BY <2>1, <2>2
<1>6. Course' /\ Undisturbed'
  <2>1. step = "delete" => unit' = unit /\ task.build # 0
    BY <1>1, <1>2, GoesOn, EndsWith DEF StopUnit, Delete, Goes, Ends, TaskSteps, Course, At
  <2> QED
    BY <1>1, <1>2, <2>1 DEF Course, Undisturbed, Calm, Kept, At
<1> QED BY <1>4, <1>5, <1>6 DEF SInv

\* A command begins: nothing but itself has changed.
LEMMA BeginKeeps ==
  ASSUME SInv, NEW a \in {"install", "restart", "remove"}, NEW exe \in Binaries, Begin(a, exe)
  PROVE  SInv'
<1>0. STypes /\ LoadedRuns
  BY DEF SInv
<1>1. UNCHANGED <<platform, unit, manager, disk, sound>> /\ disk[exe] # 0 /\ disk[exe] \in Builds
  BY <1>0 DEF Begin, STypes
<1>2. /\ task' \in Task /\ task'.action = a /\ task'.binary = exe /\ task'.build = disk[exe]
      /\ task'.step = (IF a = "remove" THEN "stop" ELSE "check") /\ task'.code = 0
      /\ task'.reread /\ task'.began = receiver
  BY <1>0, <1>1 DEF Begin, Task, STypes, UnitContent
<1>3. STypes' /\ LoadedRuns' /\ Course'
  BY <1>0, <1>1, <1>2 DEF STypes, LoadedRuns, Course, At, manager
<1>4. Undisturbed'
  BY <1>1, <1>2 DEF Undisturbed, Calm, At, manager
<1> QED BY <1>3, <1>4 DEF SInv

\* What is found of the unit decides what is written.
LEMMA CheckKeeps == ASSUME SInv, Check PROVE SInv'
<1>0. STypes /\ Course /\ LoadedRuns /\ Undisturbed /\ task \in Task /\ At("check")
  BY DEF SInv, STypes, Check
<1> DEFINE found == InstalledUnit(unit, task.binary, task.build)
<1>1. found \in {"none", "current", "earlier", "another", "other"} /\ (found = "current" => unit = Written)
  BY DEF InstalledUnit, Written
<1>2. PICK step \in {"done", "truncate", "ask"}, code \in {0, 1} :
        /\ task' = [task EXCEPT !.installed = found, !.saw = unit, !.step = step, !.code = code]
        /\ step = "done" => code = 1 \/ (task.action = "restart" /\ found = "none")
        /\ step # "done" => sound
        /\ step = "truncate" <=> step # "done" /\ Rewrites(task.action, found)
        /\ step = "ask" /\ task.action = "install" /\ found = "other" => code = 1
  <2> DEFINE idle == task.action = "restart" /\ found = "none"
  <2> HIDE DEF found
  <2>1. task' = [task EXCEPT !.installed = found, !.saw = unit,
          !.step = CASE idle \/ ~sound -> "done"
                     [] ~idle /\ sound /\ Rewrites(task.action, found) -> "truncate"
                     [] OTHER -> "ask",
          !.code = IF ~idle /\ (~sound \/ (task.action = "install" /\ found = "other")) THEN 1 ELSE 0]
    BY DEF Check, WouldStart, found
  <2>2. CASE idle
    BY <2>1, <2>2
  <2>3. CASE ~idle /\ ~sound
    BY <2>1, <2>3
  <2>4. CASE ~idle /\ sound /\ Rewrites(task.action, found)
    <3>1. PICK code \in {0, 1} :
            task' = [task EXCEPT !.installed = found, !.saw = unit, !.step = "truncate", !.code = code]
      BY <2>1, <2>4
    <3> QED BY <2>4, <3>1
  <2>5. CASE ~idle /\ sound /\ ~Rewrites(task.action, found)
    <3>1. PICK code \in {0, 1} :
            /\ task' = [task EXCEPT !.installed = found, !.saw = unit, !.step = "ask", !.code = code]
            /\ task.action = "install" /\ found = "other" => code = 1
      BY <2>1, <2>5
    <3> QED BY <2>5, <3>1
  <2> QED BY <2>2, <2>3, <2>4, <2>5
<1> HIDE DEF found
<1>3. /\ task' \in Task /\ task'.action = task.action /\ task'.binary = task.binary
      /\ task'.build = task.build /\ task'.installed = found /\ task'.saw = unit
      /\ task'.began = task.began /\ task'.step = step /\ task'.code = code
      /\ task'.reread = task.reread /\ task'.disturbed = task.disturbed
  BY <1>0, <1>1, <1>2 DEF Task, STypes
<1>4. UNCHANGED <<platform, unit, manager, disk, sound>>
  BY DEF Check
<1>5. Written' = Written /\ found = InstalledUnit(task'.saw, task'.binary, task'.build)
  BY <1>3 DEF Written, found
<1>6. STypes' /\ LoadedRuns'
  BY <1>0, <1>3, <1>4 DEF STypes, LoadedRuns, manager
<1>7. Course'
  BY <1>0, <1>2, <1>3, <1>4, <1>5 DEF Course, At
<1>8. Undisturbed'
  <2>1. SUFFICES ASSUME Calm' PROVE Undisturbed'
    BY DEF Undisturbed
  <2>2. Calm
    BY <1>3, <2>1 DEF Calm
  <2>3. disk[task.binary] = task.build /\ task.build # 0 /\ task.reread /\ receiver = task.began
    BY <1>0, <2>2 DEF Undisturbed, At
  <2>4. step = "ask" =>
          /\ task.action = "install" => found = "other" /\ code = 1
          /\ found # "earlier"
    BY <1>1, <1>2, <2>2 DEF Rewrites, Calm
  <2>5. step = "done" => Outcome'
    BY <1>2, <1>3, <1>4, <2>3 DEF Outcome, manager
  <2> QED
    BY <1>1, <1>2, <1>3, <1>4, <1>5, <2>3, <2>4, <2>5 DEF Undisturbed, At, manager
<1> QED BY <1>6, <1>7, <1>8 DEF SInv

\* What others do, of which a command's ending says nothing.
LEMMA UpsetKeeps ==
  ASSUME SInv, Upset,
         \/ EditUnit \/ EditConfiguration \/ StopReceiver \/ CrashAndRelaunch \/ LogIn
         \/ \E b \in Binaries, build \in Builds : Replace(b, build)
  PROVE  SInv'
<1>0. STypes /\ Course /\ LoadedRuns
  BY DEF SInv
<1>1. Kept(task') /\ task'.step = task.step /\ task'.disturbed
  BY <1>0 DEF Upset, Disturbed, Kept, Task, STypes
<1>2. platform' = platform
  BY DEF EditUnit, EditConfiguration, StopReceiver, CrashAndRelaunch, LogIn, Replace
<1>3. STypes'
  <2>1. CASE EditUnit
    <3>1. unit' \in UnitFile
      BY <2>1 DEF EditUnit, UnitFile
    <3> QED
      BY <1>0, <1>1, <2>1, <3>1 DEF EditUnit, STypes, Kept, manager, UnitContent
  <2>2. CASE EditConfiguration
    BY <1>0, <1>1, <2>2 DEF EditConfiguration, STypes, Kept, manager
  <2>3. CASE StopReceiver
    BY <1>0, <1>1, <2>3 DEF StopReceiver, STypes, Kept
  <2>4. CASE CrashAndRelaunch
    BY <1>0, <1>1, <2>4, StartedType DEF CrashAndRelaunch, STypes, Kept
  <2>5. CASE LogIn
    BY <1>0, <1>1, <2>5, StartedType, ServiceAssumption DEF LogIn, STypes, Kept, UnitContent
  <2>6. ASSUME NEW b \in Binaries, NEW build \in Builds, Replace(b, build) PROVE STypes'
    BY <1>0, <1>1, <2>6 DEF Replace, STypes, Kept, manager
  <2> QED BY <2>1, <2>2, <2>3, <2>4, <2>5, <2>6
<1>4. LoadedRuns'
  <2>1. CASE EditUnit \/ EditConfiguration \/ \E b \in Binaries, build \in Builds : Replace(b, build)
    BY <1>0, <2>1 DEF EditUnit, EditConfiguration, Replace, LoadedRuns, manager
  <2>2. CASE StopReceiver
    BY <1>0, <2>2 DEF StopReceiver, LoadedRuns
  <2>3. CASE CrashAndRelaunch
    BY <1>0, <2>3, StartedType, ServiceAssumption DEF CrashAndRelaunch, LoadedRuns
  <2>4. CASE LogIn
    BY <1>0, <2>4, StartedType, ServiceAssumption DEF LogIn, LoadedRuns, STypes, UnitContent
  <2> QED BY <2>1, <2>2, <2>3, <2>4
<1>5. unit' = unit \/ (unit \in UnitFile /\ unit' \in UnitFile)
  BY DEF EditUnit, EditConfiguration, StopReceiver, CrashAndRelaunch, LogIn, Replace, UnitFile, manager
<1>6. Course' /\ Undisturbed'
  BY <1>0, <1>1, <1>2, <1>5, ServiceAssumption DEF Course, Undisturbed, Calm, Kept, At
<1> QED BY <1>3, <1>4, <1>6 DEF SInv

-----------------------------------------------------------------------------
LEMMA InitService == SInit => SInv
<1> SUFFICES ASSUME SInit PROVE SInv
  OBVIOUS
<1>1. /\ platform \in Platforms /\ disk \in [Binaries -> Builds] /\ sound \in BOOLEAN
      /\ task = NoTask
  BY DEF SInit
<1>2. /\ unit \in UnitContent /\ loaded \in UnitFile \cup {NoUnit} /\ enabled \in BOOLEAN
      /\ receiver \in Process \cup {Stopped, Failed} /\ (loaded = NoUnit <=> receiver = Stopped)
  <2>1. PICK b \in Binaries :
          \/ /\ unit \in UnitFile /\ loaded = unit /\ enabled = TRUE
             /\ receiver = [from |-> unit, build |-> unit.layout]
          \/ unit = NoUnit /\ loaded = NoUnit /\ enabled = FALSE /\ receiver = Stopped
    BY DEF SInit
  <2>2. unit \in UnitFile => unit.layout \in Builds \ {0}
    BY DEF UnitFile
  <2>3. CASE unit \in UnitFile /\ loaded = unit /\ enabled = TRUE /\ receiver = [from |-> unit, build |-> unit.layout]
    <3>1. receiver \in Process
      BY <2>2, <2>3 DEF Process
    <3> QED BY <2>3, <3>1, ServiceAssumption DEF UnitContent
  <2>4. CASE unit = NoUnit /\ loaded = NoUnit /\ enabled = FALSE /\ receiver = Stopped
    BY <2>4 DEF UnitContent
  <2> QED BY <2>1, <2>3, <2>4
<1>3. task \in Task /\ task.step = "done" /\ task.action = "none"
  <2>1. (CHOOSE b \in Binaries : TRUE) \in Binaries
    BY ServiceAssumption
  <2>2. 0 \in Builds
    BY ServiceAssumption DEF Builds
  <2> QED BY <1>1, <2>1, <2>2 DEF NoTask, Task, UnitContent
<1> QED
  BY <1>1, <1>2, <1>3 DEF SInv, STypes, Course, LoadedRuns, Undisturbed, Calm, At

LEMMA NextService == SInv /\ [SNext]_svars => SInv'
<1> SUFFICES ASSUME SInv, [SNext]_svars PROVE SInv'
  OBVIOUS
<1>1. CASE UNCHANGED svars
  BY <1>1 DEF svars, SInv, STypes, Course, LoadedRuns, Undisturbed, Calm, Outcome, Written, Started, At
<1>2. ASSUME NEW a \in {"install", "restart", "remove"}, NEW exe \in Binaries, Begin(a, exe) PROVE SInv'
  BY <1>2, BeginKeeps
<1>3. CASE Check
  BY <1>3, CheckKeeps
<1>4. CASE TruncateUnit \/ FillUnit
  BY <1>4, TruncateUnitKeeps, FillUnitKeeps
<1>5. CASE WriteFails \/ KillCommand
  BY <1>5, FailsKeeps DEF WriteFails, KillCommand
<1>6. CASE Unload \/ LookUp
  BY <1>6, UnloadKeeps, LookUpKeeps
<1>7. ASSUME NEW ok \in BOOLEAN, Reread(ok) \/ Enable(ok) \/ StartUnit(ok) \/ Ask(ok) PROVE SInv'
  BY <1>7, RereadKeeps, EnableKeeps, StartUnitKeeps, AskKeeps
<1>8. ASSUME NEW ok \in BOOLEAN, Again(ok) \/ LoadUnit(ok) \/ StopUnit(ok) \/ Delete(ok) PROVE SInv'
  BY <1>8, AgainKeeps, LoadUnitKeeps, RemovalKeeps
<1>9. CASE \/ EditUnit \/ EditConfiguration \/ StopReceiver \/ CrashAndRelaunch \/ LogIn
           \/ \E b \in Binaries, build \in Builds : Replace(b, build)
  <2>1. Upset
    BY <1>9 DEF EditUnit, EditConfiguration, StopReceiver, CrashAndRelaunch, LogIn, Replace
  <2> QED BY <1>9, <2>1, UpsetKeeps
<1> QED BY <1>1, <1>2, <1>3, <1>4, <1>5, <1>6, <1>7, <1>8, <1>9 DEF SNext

(* Every step of a command, of the manager and of others keeps what the    *)
(* command's course, the manager's unit and the process are to each other. *)
THEOREM ServiceInvariant == SSpec => []SInv
  BY InitService, NextService, PTL DEF SSpec

(* An install or a restart that nothing was refused and nobody disturbed   *)
(* leaves a receiver running that ran before, and one that reports success *)
(* runs this build's unit from this build, is enabled if it was installed, *)
(* and starts none that was stopped (restart_unit, restart_agent).         *)
THEOREM CommandsAlwaysDeliver == SSpec => []CommandsDeliver
<1>1. SInv => NoOutage
  <2> SUFFICES ASSUME SInv, \A u \in {unit, loaded} \cap UnitFile : disk[u.binary] # 0,
                      Ended({"install", "restart"}), Alive(task.began)
               PROVE  Alive(receiver)
    BY DEF NoOutage, NeverAnOutage
  <2>1. Outcome
    BY DEF SInv, Undisturbed, Calm, Ended
  <2>2. loaded \in UnitFile /\ sound /\ receiver = Started(loaded) => Alive(receiver)
    <3> SUFFICES ASSUME loaded \in UnitFile, sound, receiver = Started(loaded) PROVE Alive(receiver)
      OBVIOUS
    <3>1. disk[loaded.binary] # 0
      OBVIOUS
    <3>2. Started(loaded) = [from |-> loaded, build |-> disk[loaded.binary]]
      BY <3>1 DEF Started
    <3>3. Started(loaded) \in Process
      <4>1. loaded.binary \in Binaries /\ disk[loaded.binary] \in Builds \ {0}
        BY <3>1 DEF UnitFile, SInv, STypes
      <4> QED BY <3>2, <4>1 DEF Process
    <3> QED BY <3>3, ServiceAssumption DEF Alive
  <2> QED BY <2>1, <2>2 DEF Outcome
<1>2. SInv => UpgradeReaches
  <2> SUFFICES ASSUME SInv, Ended({"install", "restart"}), task.code = 0
               PROVE  /\ task.action = "install" => Upgraded /\ enabled
                      /\ (task.action = "restart" /\ Alive(receiver)
                          /\ (task.installed = "earlier" \/ (task.installed = "current" /\ loaded = unit)))
                           => Upgraded
                      /\ (task.action = "restart" /\ task.began = Stopped) => ~Alive(receiver)
    BY DEF UpgradeReaches
  <2>1. Outcome /\ disk[task.binary] # 0 /\ task.action \in {"install", "restart"}
    BY DEF SInv, Undisturbed, Calm, Ended
  <2>2. CASE receiver = task.began /\ task.action = "restart" /\ (task.installed = "none" \/ ~Alive(receiver))
    BY <2>2 DEF Alive
  <2>3. CASE /\ sound /\ loaded \in UnitFile /\ receiver = Started(loaded)
             /\ task.action = "restart" =>
                  /\ task.began # Stopped
                  /\ task.installed \in {"current", "earlier"} => unit = Written
                  /\ task.installed = "earlier" => loaded = Written
             /\ task.action = "install" => loaded = Written /\ enabled
    <3>1. loaded = Written => Upgraded
      <4> SUFFICES ASSUME loaded = Written PROVE Upgraded
        OBVIOUS
      <4>1. loaded.binary = task.binary
        BY DEF Written, UnitOf
      <4>2. Started(loaded) = [from |-> loaded, build |-> disk[loaded.binary]]
        BY <2>1, <2>3, <4>1 DEF Started
      <4> QED BY <2>3, <4>1, <4>2 DEF Upgraded, Written
    <3> QED BY <2>3, <3>1
  <2> QED BY <2>1, <2>2, <2>3 DEF Outcome
<1> QED BY <1>1, <1>2, ServiceInvariant, PTL DEF CommandsDeliver

(* No command but a removal writes over a unit it had seen edited, moves   *)
(* the service to another binary unless it installs, or writes the unit a  *)
(* restart kept (installed_unit, kept_unit).                               *)
THEOREM EditsAlwaysKept == SSpec => HandEditsKept
<1> DEFINE Kind == unit' # unit /\ unit \in UnitFile /\ task' # Disturbed =>
                     \/ task.action = "remove"
                     \/ /\ ~unit.edited /\ (unit.binary # task.binary => task.action = "install")
                        /\ ~(task.action = "restart" /\ KeptUnit(task.installed))
                     \/ unit # task.saw
<1>1. SInv /\ [SNext]_svars => [Kind]_svars
  <2> SUFFICES ASSUME SInv, SNext, unit' # unit, unit \in UnitFile, task' # Disturbed,
                      unit = task.saw, task.action # "remove"
               PROVE  /\ ~unit.edited /\ (unit.binary # task.binary => task.action = "install")
                      /\ ~(task.action = "restart" /\ KeptUnit(task.installed))
    BY DEF svars
  <2>1. TruncateUnit \/ FillUnit \/ \E ok \in BOOLEAN : Delete(ok)
    BY DEF SNext, Begin, Check, WriteFails, Unload, LookUp, Reread, Enable, StartUnit, Ask, Again,
           LoadUnit, StopUnit, KillCommand, EditUnit, EditConfiguration, StopReceiver,
           CrashAndRelaunch, LogIn, Replace, Upset
  <2>2. Course
    BY DEF SInv
  <2>3. At("truncate")
    BY <2>1, <2>2, ServiceAssumption DEF TruncateUnit, FillUnit, Delete, Course, At
  <2>4. /\ task.installed = InstalledUnit(unit, task.binary, task.build)
        /\ Rewrites(task.action, task.installed)
    BY <2>2, <2>3 DEF Course, At
  <2>5. unit # NoUnit
    BY ServiceAssumption
  <2>6. task.installed # "other" /\ (task.installed = "current" => unit = UnitOf(task.build, task.binary))
    BY <2>4 DEF Rewrites, InstalledUnit
  <2>7. CASE unit = UnitOf(task.build, task.binary)
    BY <2>4, <2>5, <2>7 DEF InstalledUnit, UnitOf, KeptUnit
  <2>8. CASE unit # UnitOf(task.build, task.binary)
    BY <2>4, <2>5, <2>6, <2>8 DEF InstalledUnit, KeptUnit, Rewrites
  <2> QED BY <2>7, <2>8
<1> QED BY <1>1, ServiceInvariant, PTL DEF SSpec, HandEditsKept
-----------------------------------------------------------------------------
(* The commands that wire Claude Code.                                     *)

\* The shapes of what the commands read and write.
FilesStand == files = [s \in Scopes |-> files[s]] /\ \A s \in Scopes : IsFile(files[s])
ConfigStands ==
  config = [parses |-> config.parses, export |-> config.export] /\ IsSection(config.export)

\* A destination that can be written to the section and read again.
Writable(t) == t.endpoint \in Endpoints /\ IsOption(t.timeout)

Saving == {"reread", "save"}
CommandStands ==
  /\ command = [name |-> command.name, at |-> command.at, scope |-> command.scope,
                held |-> command.held, targets |-> command.targets, endpoint |-> command.endpoint,
                headers |-> command.headers, inserted |-> command.inserted, undisturbed |-> command.undisturbed]
  /\ command.at \in {"load", "reread", "save", "write", "done"}
  /\ command.at # "done" =>
       command.scope \in {"user", "project"} /\ ~command.inserted /\ IsFile(command.held)
  /\ command.at \in {"load", "reread", "save"} => command.name = "insert"
  /\ command.name = "insert" /\ command.at # "done" =>
       command.endpoint \in Endpoints /\ command.scope = "user"
  /\ command.at \in Saving =>
       /\ command.targets \in Seq(ToSet(command.targets))
       /\ \A i \in DOMAIN command.targets : Writable(command.targets[i])

\* Destinations among which there is one of this URL.
Among(targets, e) == \E i \in DOMAIN targets : Url[targets[i].endpoint] = Url[e]

\* A collector that was replaced is in the configuration, and in what is about to be written to it.
Captured ==
  /\ \A e \in replaced :
       /\ e \in Endpoints
       /\ e \in removed \/ (Url[e] \in NamedIn(config.export)
                            /\ (command.at \in Saving => Among(command.targets, e)))
  /\ command.at \in Saving => Among(command.targets, command.endpoint)
  /\ command.name = "insert" /\ command.at = "write" =>
       Url[command.endpoint] \in NamedIn(config.export) \/ command.endpoint \in removed

\* The files are as the insert found them fit to point at the receiver.
Fitting ==
  /\ ~Has(files, "signal_endpoint") /\ EffectiveSource(files, "endpoint") = "user"
  /\ CanRepoint(files, "user")
  /\ command.held.load = "found" /\ command.held.env.ok
  /\ command.held.env.set = Repoint(WireEnv(files["user"].env.set))

Routed ==
  /\ Has(files, "endpoint") /\ Effective(files, "endpoint") = Local
  /\ ~Has(files, "signal_endpoint")
  /\ LET k == IF Has(files, "signal_protocol") THEN "signal_protocol" ELSE "protocol" IN
     Has(files, k) /\ Effective(files, k) = "http/json"

Routing ==
  command.name = "insert" /\ command.undisturbed =>
    /\ command.at # "done" => Fitting
    /\ command.at = "write" \/ command.inserted => Url[command.endpoint] \in NamedIn(config.export)
    /\ command.inserted => Routed

WInv == FilesStand /\ ConfigStands /\ CommandStands /\ Captured /\ Routing
-----------------------------------------------------------------------------
(* What Claude Code is configured to.                                      *)

\* A scope that says something of a key which counts.
Says(fs, s, k) == k \in DOMAIN EnvOf(fs, s) /\ ~Ignored(fs, s, k)

LEMMA TheScopes == Scopes = {"process", "user", "project", "managed"} /\ DOMAIN Precedence = 1 .. 4
BY DEF Scopes, Precedence, ToSet

\* The last scope that says something is the source.
LEMMA SourceIs ==
  ASSUME NEW fs, NEW k
  PROVE  Source(fs, k) = IF Says(fs, "managed", k) THEN "managed"
                         ELSE IF Says(fs, "project", k) THEN "project"
                         ELSE IF Says(fs, "user", k) THEN "user"
                         ELSE IF Says(fs, "process", k) THEN "process" ELSE "none"
<1> DEFINE S == Setting(fs, k)
<1>1. /\ 1 \in S <=> Says(fs, "process", k)
      /\ 2 \in S <=> Says(fs, "user", k)
      /\ 3 \in S <=> Says(fs, "project", k)
      /\ 4 \in S <=> Says(fs, "managed", k)
      /\ S \subseteq 1 .. 4
  BY TheScopes DEF Setting, Says, Precedence
<1>2. ASSUME NEW m \in S, \A i \in S : i <= m PROVE Max(S) = m
  <2>0. S \subseteq 1 .. 4
    BY <1>1
  <2> HIDE DEF S
  <2>1. Max(S) \in S /\ \A i \in S : i <= Max(S)
    BY <1>2 DEF Max
  <2>2. m <= Max(S) /\ Max(S) <= m /\ m \in 1 .. 4 /\ Max(S) \in 1 .. 4
    BY <2>0, <1>2, <2>1
  <2> QED BY <2>2
<1>3. Source(fs, k) = IF S = {} THEN "none" ELSE Precedence[Max(S)]
  BY DEF Source
<1>4. /\ Precedence[1] = "process" /\ Precedence[2] = "user" /\ Precedence[3] = "project"
      /\ Precedence[4] = "managed"
  BY DEF Precedence
<1> HIDE DEF S
<1>5. CASE 4 \in S
  BY <1>1, <1>2, <1>3, <1>4, <1>5
<1>6. CASE 4 \notin S /\ 3 \in S
  BY <1>1, <1>2, <1>3, <1>4, <1>6
<1>7. CASE 4 \notin S /\ 3 \notin S /\ 2 \in S
  BY <1>1, <1>2, <1>3, <1>4, <1>7
<1>8. CASE 4 \notin S /\ 3 \notin S /\ 2 \notin S /\ 1 \in S
  BY <1>1, <1>2, <1>3, <1>4, <1>8
<1>9. CASE S = {}
  BY <1>1, <1>3, <1>9
<1> QED BY <1>1, <1>5, <1>6, <1>7, <1>8, <1>9

LEMMA Said ==
  ASSUME NEW fs, NEW k
  PROVE  /\ Source(fs, k) = "managed" <=> Says(fs, "managed", k)
         /\ Source(fs, k) = "user" <=> (Says(fs, "user", k) /\ ~Says(fs, "project", k) /\ ~Says(fs, "managed", k))
         /\ Source(fs, k) = "none" <=> \A s \in Scopes : ~Says(fs, s, k)
         /\ Source(fs, k) \in Scopes \cup {"none"}
         /\ Source(fs, k) = "project" => Says(fs, "project", k)
<1>1. \A s \in Scopes : s \in {"managed", "project", "user", "process"}
  BY TheScopes
<1>2. CASE Says(fs, "managed", k)
  BY <1>2, SourceIs, TheScopes
<1>3. CASE ~Says(fs, "managed", k) /\ Says(fs, "project", k)
  BY <1>3, SourceIs, TheScopes
<1>4. CASE ~Says(fs, "managed", k) /\ ~Says(fs, "project", k) /\ Says(fs, "user", k)
  BY <1>4, SourceIs, TheScopes
<1>5. CASE /\ ~Says(fs, "managed", k) /\ ~Says(fs, "project", k) /\ ~Says(fs, "user", k)
           /\ Says(fs, "process", k)
  BY <1>5, SourceIs, TheScopes
<1>6. CASE /\ ~Says(fs, "managed", k) /\ ~Says(fs, "project", k) /\ ~Says(fs, "user", k)
           /\ ~Says(fs, "process", k)
  BY <1>6, SourceIs, TheScopes
<1> QED BY <1>2, <1>3, <1>4, <1>5, <1>6

\* Pointing the user's settings at the receiver points Claude Code at it, where it could be done.
LEMMA Pointing ==
  ASSUME NEW fs, NEW content, NEW gs, fs = [s \in Scopes |-> fs[s]],
         ~Has(fs, "signal_endpoint"), EffectiveSource(fs, "endpoint") = "user", CanRepoint(fs, "user"),
         content.load = "found", content.env.ok, content.env.set = Repoint(WireEnv(fs["user"].env.set)),
         gs = [fs EXCEPT !["user"] = content]
  PROVE  /\ Has(gs, "endpoint") /\ Effective(gs, "endpoint") = Local
         /\ ~Has(gs, "signal_endpoint")
         /\ LET k == IF Has(gs, "signal_protocol") THEN "signal_protocol" ELSE "protocol" IN
            Has(gs, k) /\ Effective(gs, k) = "http/json"
<1> DEFINE K == {"endpoint", "signal_endpoint", "protocol", "signal_protocol", "headers"}
           old == EnvOf(fs, "user")
           new == EnvOf(gs, "user")
<1>1. /\ DOMAIN fs = Scopes /\ gs["user"] = content
      /\ \A s \in Scopes \ {"user"} : gs[s] = fs[s]
  BY TheScopes
<1>2. \A s \in {"process", "project", "managed"} : EnvOf(gs, s) = EnvOf(fs, s)
  BY <1>1, TheScopes DEF EnvOf
<1>3. \A s \in {"process", "project", "managed"}, k \in K : Says(gs, s, k) <=> Says(fs, s, k)
  BY <1>2 DEF Says, Ignored
<1>4. \A k \in K : (Says(fs, "user", k) <=> k \in DOMAIN old) /\ (Says(gs, "user", k) <=> k \in DOMAIN new)
  BY DEF Says, Ignored
<1>5. \A k \in K : ~Says(fs, "project", k) /\ ~Says(gs, "project", k)
  BY DEF Says, Ignored
<1>a. \A s \in Scopes : s \in {"process", "project", "managed"} \/ s = "user"
  BY TheScopes
<1>b. \A k \in K : /\ Source(fs, k) = "managed" <=> Says(fs, "managed", k)
                   /\ Source(fs, k) = "user" <=> (k \in DOMAIN old /\ ~Says(fs, "managed", k))
                   /\ Source(fs, k) = "none" <=>
                        (~Says(fs, "process", k) /\ k \notin DOMAIN old /\ ~Says(fs, "managed", k))
                   /\ Source(fs, k) \in {"managed", "user", "process", "none"}
  BY <1>4, <1>5, <1>a, Said, TheScopes
<1>c. \A k \in K : /\ Source(gs, k) = "managed" <=> Says(fs, "managed", k)
                   /\ Source(gs, k) = "user" <=> (k \in DOMAIN new /\ ~Says(fs, "managed", k))
                   /\ Source(gs, k) = "none" <=>
                        (~Says(fs, "process", k) /\ k \notin DOMAIN new /\ ~Says(fs, "managed", k))
                   /\ Source(gs, k) \in {"managed", "user", "process", "none"}
  BY <1>3, <1>4, <1>5, <1>a, Said, TheScopes
<1>6. /\ Source(fs, "endpoint") = "user" /\ "endpoint" \in DOMAIN old
      /\ Source(fs, "headers") # "managed"
  <2>1. Source(fs, "endpoint") = "user" /\ ~Hidden(fs, "endpoint")
    BY DEF EffectiveSource
  <2> QED BY <2>1, <1>b DEF Hidden
<1>7. old = fs["user"].env.set
  BY <1>6 DEF EnvOf
<1>8. /\ DOMAIN new = DOMAIN old \cup {"telemetry", "exporter", "protocol", "endpoint"}
      /\ new["endpoint"] = Local /\ new["protocol"] = "http/json"
      /\ "signal_protocol" \in DOMAIN new => new["signal_protocol"] = "http/json"
  <2>1. new = Repoint(WireEnv(old))
    BY <1>1, <1>7 DEF EnvOf
  <2>2. DOMAIN Telemetry = {"telemetry", "exporter", "protocol", "endpoint"}
    BY DEF Telemetry
  <2>3. DOMAIN WireEnv(old) = DOMAIN old \cup DOMAIN Telemetry
    BY DEF WireEnv
  <2> HIDE DEF old, new
  <2> QED BY <2>1, <2>2, <2>3 DEF Repoint
<1> HIDE DEF old, new
<1>9. ~Says(fs, "managed", "endpoint") /\ ~Says(fs, "managed", "headers")
  BY <1>6, <1>b
<1>10. Source(gs, "endpoint") = "user" /\ Source(gs, "headers") # "managed"
  BY <1>b, <1>c, <1>8, <1>9
<1>11. Has(gs, "endpoint") /\ Effective(gs, "endpoint") = Local
  BY <1>8, <1>10 DEF Has, Effective, EffectiveSource, Hidden, new
<1>12. ~Has(gs, "signal_endpoint")
  <2>1. Source(fs, "signal_endpoint") = "none"
    BY <1>6 DEF Has, EffectiveSource, Hidden
  <2>2. Source(gs, "signal_endpoint") = "none"
    BY <2>1, <1>b, <1>c, <1>8
  <2> QED BY <2>2 DEF Has, EffectiveSource
<1>13. Source(gs, "signal_protocol") = Source(fs, "signal_protocol")
  BY <1>b, <1>c, <1>8
<1>14. Source(gs, "protocol") = IF Says(fs, "managed", "protocol") THEN "managed" ELSE "user"
  BY <1>b, <1>c, <1>8
<1>15. Source(fs, "protocol") = "managed" <=> Says(fs, "managed", "protocol")
  BY <1>b
<1>16. EffectiveSource(gs, "signal_protocol") = EffectiveSource(fs, "signal_protocol")
  BY <1>13, <1>14, <1>15 DEF EffectiveSource, Hidden
<1>17. CASE Has(gs, "signal_protocol")
  <2>1. Has(fs, "signal_protocol") /\ EffectiveSource(fs, "signal_protocol") \in {"process", "user", "managed"}
    BY <1>16, <1>17, <1>b DEF Has, EffectiveSource
  <2>2. Effective(fs, "signal_protocol") # "http/json" => EffectiveSource(fs, "signal_protocol") = "user"
    BY <2>1 DEF CanRepoint
  <2>3. CASE EffectiveSource(fs, "signal_protocol") = "user"
    <3>1. Source(gs, "signal_protocol") = "user"
      BY <1>13, <2>3 DEF EffectiveSource
    <3>2. "signal_protocol" \in DOMAIN new
      BY <1>c, <3>1
    <3> QED BY <1>8, <1>11, <1>12, <1>16, <1>17, <2>3, <3>2 DEF Effective, new
  <2>4. CASE EffectiveSource(fs, "signal_protocol") # "user"
    BY <1>2, <1>16, <1>17, <2>1, <2>2, <2>4, <1>11, <1>12 DEF Effective
  <2> QED BY <1>11, <1>12, <1>17, <2>3, <2>4
<1>18. CASE ~Has(gs, "signal_protocol")
  <2>1. ~Has(fs, "signal_protocol")
    BY <1>16, <1>18 DEF Has
  <2>2. EffectiveSource(gs, "protocol") = Source(gs, "protocol")
        /\ EffectiveSource(fs, "protocol") = Source(fs, "protocol")
    BY DEF EffectiveSource, Hidden
  <2>3. CASE Says(fs, "managed", "protocol")
    <3>1. Has(fs, "protocol") /\ EffectiveSource(fs, "protocol") = "managed"
      BY <1>15, <2>2, <2>3 DEF Has
    <3>2. Effective(fs, "protocol") = "http/json"
      BY <2>1, <3>1 DEF CanRepoint
    <3>3. Has(gs, "protocol") /\ Effective(gs, "protocol") = "http/json"
      BY <1>2, <1>14, <2>2, <2>3, <3>1, <3>2 DEF Has, Effective
    <3> QED BY <1>11, <1>12, <1>18, <3>3
  <2>4. CASE ~Says(fs, "managed", "protocol")
    <3>1. Has(gs, "protocol") /\ Effective(gs, "protocol") = "http/json"
      BY <1>8, <1>14, <2>2, <2>4 DEF Has, Effective, new
    <3> QED BY <1>11, <1>12, <1>18, <3>1
  <2> QED BY <2>3, <2>4
<1> QED BY <1>11, <1>12, <1>17, <1>18
-----------------------------------------------------------------------------
(* The destinations, written back and read again.                          *)

LEMMA OptionIs ==
  ASSUME NEW o, IsOption(o), NEW d
  PROVE  (Defaulted(o, d) = d /\ o = {}) \/ o = {Defaulted(o, d)}
<1>1. CASE o = {}
  BY <1>1 DEF Defaulted
<1>2. ASSUME NEW v \in o PROVE o = {Defaulted(o, d)}
  <2>1. o = {v}
    BY <1>2 DEF IsOption
  <2> QED BY <2>1 DEF Defaulted
<1> QED BY <1>1, <1>2

\* What a default says comes back as that default.
LEMMA OptionSurvives ==
  ASSUME NEW v, NEW d
  PROVE  Defaulted({v} \ {d}, d) = v /\ IsOption({v} \ {d})
<1>1. CASE v = d
  <2>1. {v} \ {d} = {}
    BY <1>1
  <2> QED BY <1>1, <2>1 DEF Defaulted, IsOption
<1>2. CASE v # d
  <2>1. {v} \ {d} = {v}
    BY <1>2
  <2> QED BY <1>2, <2>1 DEF Defaulted, IsOption
<1> QED BY <1>1, <1>2

\* A destination's filter keeps its list and its sense.
LEMMA FilterSurvives ==
  ASSUME NEW raw, IsOption(raw.projects), IsOption(raw.exclude),
         raw.projects = {} \/ raw.exclude = {},
         Listed(raw.projects, {"label", "path"}), Listed(raw.exclude, {"label", "path"}),
         NEW t, t = Target(raw)
  PROVE  /\ Filter(ToRaw(t)) = t.filter
         /\ ToRaw(t).projects = raw.projects /\ ToRaw(t).exclude = raw.exclude
<1>1. t.filter = Filter(raw)
  BY DEF Target
<1>2. /\ ToRaw(t).projects = IF t.filter.only THEN {t.filter.projects} ELSE {}
      /\ ToRaw(t).exclude = IF ~t.filter.only /\ t.filter.projects # {} THEN {t.filter.projects} ELSE {}
  BY DEF ToRaw
<1>3. CASE raw.projects # {}
  <2>1. t.filter.only = TRUE /\ t.filter.projects = Defaulted(raw.projects, {})
    BY <1>1, <1>3 DEF Filter
  <2>2. raw.projects = {Defaulted(raw.projects, {})} /\ raw.exclude = {}
    BY <1>3, OptionIs
  <2> QED BY <1>1, <1>2, <1>3, <2>1, <2>2 DEF Filter
<1>4. CASE raw.projects = {} /\ raw.exclude # {}
  <2>1. t.filter.only = FALSE /\ t.filter.projects = Defaulted(raw.exclude, {})
    BY <1>1, <1>4 DEF Filter
  <2>2. raw.exclude = {Defaulted(raw.exclude, {})}
    BY <1>4, OptionIs
  <2>3. Defaulted(raw.exclude, {}) # {}
    BY <2>2 DEF Listed
  <2> QED BY <1>1, <1>2, <1>4, <2>1, <2>2, <2>3 DEF Filter
<1>5. CASE raw.projects = {} /\ raw.exclude = {}
  <2>1. t.filter.only = FALSE /\ t.filter.projects = {}
    BY <1>1, <1>5 DEF Filter
  <2> QED BY <1>1, <1>2, <1>5, <2>1 DEF Filter
<1> QED BY <1>3, <1>4, <1>5

LEMMA EntrySurvives ==
  ASSUME NEW raw, IsEntry(raw), ValidEntry(raw)
  PROVE  /\ ValidEntry(ToRaw(Target(raw))) /\ Target(ToRaw(Target(raw))) = Target(raw)
         /\ Target(raw).endpoint = Url[raw.endpoint] /\ Url[raw.endpoint] \in Endpoints
<1> DEFINE t == Target(raw)
           back == ToRaw(t)
<1>1. /\ t.endpoint = Url[raw.endpoint] /\ t.mode = raw.mode /\ t.kinds = raw.kinds
      /\ t.signals = Defaulted(raw.signals, DefaultSignals)
      /\ t.limit = Defaulted(raw.limit, DefaultLimit) /\ t.accounts = raw.accounts
      /\ t.filter = Filter(raw) /\ t.timeout = raw.timeout /\ t.headers = raw.headers
  BY DEF Target
<1>2. /\ back.endpoint = t.endpoint /\ back.mode = t.mode /\ back.kinds = t.kinds
      /\ back.signals = {t.signals} \ {DefaultSignals} /\ back.limit = {t.limit} \ {DefaultLimit}
      /\ back.accounts = t.accounts /\ back.timeout = t.timeout /\ back.headers = t.headers
  BY DEF ToRaw
<1>3. Url[raw.endpoint] \in Endpoints /\ Url[Url[raw.endpoint]] = Url[raw.endpoint]
      /\ Url[raw.endpoint] # NoUrl
  BY DestinationsAssumption DEF IsEntry, ValidEntry
<1>4. Filter(back) = t.filter /\ back.projects = raw.projects /\ back.exclude = raw.exclude
  BY FilterSurvives DEF IsEntry, ValidEntry
<1>5. Defaulted(back.signals, DefaultSignals) = t.signals /\ Defaulted(back.limit, DefaultLimit) = t.limit
  BY <1>2, OptionSurvives
<1> HIDE DEF t, back
<1>6. ValidEntry(back)
  BY <1>1, <1>2, <1>3, <1>4, <1>5 DEF ValidEntry
<1>7. Target(back) = t
  <2>1. Target(back) = [endpoint |-> Url[back.endpoint], mode |-> back.mode, kinds |-> back.kinds,
                        signals |-> Defaulted(back.signals, DefaultSignals),
                        limit |-> Defaulted(back.limit, DefaultLimit),
                        filter |-> Filter(back), accounts |-> back.accounts,
                        timeout |-> back.timeout, headers |-> back.headers]
    BY DEF Target
  <2>2. t = [endpoint |-> t.endpoint, mode |-> t.mode, kinds |-> t.kinds, signals |-> t.signals,
             limit |-> t.limit, filter |-> t.filter, accounts |-> t.accounts,
             timeout |-> t.timeout, headers |-> t.headers]
    BY DEF Target, t
  <2> QED BY <2>1, <2>2, <1>1, <1>2, <1>3, <1>4, <1>5
<1> QED BY <1>1, <1>3, <1>6, <1>7 DEF t, back

LEMMA SectionIsSequence ==
  ASSUME NEW raws, IsSection(raws)
  PROVE  Len(raws) \in Nat /\ DOMAIN raws = 1 .. Len(raws)
BY DEF IsSection

\* Writing the destinations of a section back and reading them again changes none of them.
LEMMA Surviving ==
  ASSUME NEW raws, IsSection(raws)
  PROVE  SurvivesSave(raws)
<1> SUFFICES ASSUME ValidSection(raws)
             PROVE  /\ ValidSection(ToRaws(Validate(raws)))
                    /\ Validate(ToRaws(Validate(raws))) = Validate(raws)
  BY DEF SurvivesSave
<1> DEFINE targets == Validate(raws)
           back == ToRaws(targets)
<1>1. Len(raws) \in Nat /\ DOMAIN raws = 1 .. Len(raws) /\ Len(raws) <= MaxTargets
  BY SectionIsSequence DEF ValidSection
<1>2. /\ DOMAIN targets = 1 .. Len(raws) /\ DOMAIN back = 1 .. Len(raws)
      /\ \A i \in DOMAIN raws : targets[i] = Target(raws[i]) /\ back[i] = ToRaw(Target(raws[i]))
  BY <1>1 DEF Validate, ToRaws
<1>3. back \in Seq({back[i] : i \in DOMAIN back}) /\ Len(back) = Len(raws)
  BY <1>1, <1>2 DEF ToRaws
<1> HIDE DEF back, targets
<1>4. \A i \in DOMAIN raws :
        /\ ValidEntry(back[i]) /\ Target(back[i]) = targets[i]
        /\ back[i].endpoint = Url[raws[i].endpoint] /\ Url[back[i].endpoint] = Url[raws[i].endpoint]
  <2> SUFFICES ASSUME NEW i \in DOMAIN raws
               PROVE  /\ ValidEntry(back[i]) /\ Target(back[i]) = targets[i]
                      /\ back[i].endpoint = Url[raws[i].endpoint]
                      /\ Url[back[i].endpoint] = Url[raws[i].endpoint]
    OBVIOUS
  <2>1. IsEntry(raws[i]) /\ ValidEntry(raws[i])
    BY DEF IsSection, ValidSection
  <2>2. back[i].endpoint = Target(raws[i]).endpoint
    <3>1. ToRaw(Target(raws[i])).endpoint = Target(raws[i]).endpoint
      BY DEF ToRaw
    <3> QED BY <1>2, <3>1
  <2>3. Url[Url[raws[i].endpoint]] = Url[raws[i].endpoint]
    BY <2>1, DestinationsAssumption DEF IsEntry, ValidEntry
  <2> QED BY <1>2, <2>1, <2>2, <2>3, EntrySurvives
<1>5. ValidSection(back)
  BY <1>1, <1>2, <1>3, <1>4 DEF ValidSection
<1>6. Validate(back) = targets
  <2>1. targets = [i \in 1 .. Len(raws) |-> targets[i]]
    BY <1>1 DEF targets, Validate
  <2>2. Validate(back) = [i \in 1 .. Len(raws) |-> targets[i]]
    BY <1>1, <1>2, <1>4 DEF Validate
  <2> QED BY <2>1, <2>2
<1> QED BY <1>5, <1>6 DEF back, targets

\* A sequence, of whatever it holds.
IsList(s) == s \in Seq(ToSet(s))

\* Destinations of one endpoint.
Alike(t, u) == t.endpoint = u.endpoint

\* Upserting adds the destination, and changes no endpoint of another.
LEMMA Upserted ==
  ASSUME NEW targets, IsList(targets), NEW t, NEW u, u = Upsert(targets, t)
  PROVE  /\ IsList(u)
         /\ \E i \in DOMAIN u : Alike(u[i], t)
         /\ \A i \in DOMAIN u : u[i] = t \/ (i \in DOMAIN targets /\ u[i] = targets[i])
         /\ \A i \in DOMAIN targets : i \in DOMAIN u /\ Alike(u[i], targets[i])
<1> DEFINE same == {i \in DOMAIN targets : targets[i].endpoint = t.endpoint}
<1>0. Len(targets) \in Nat /\ DOMAIN targets = 1 .. Len(targets) /\ targets \in Seq(ToSet(targets))
  BY DEF IsList
<1>1. CASE same = {}
  <2>1. u = Append(targets, t)
    BY <1>1 DEF Upsert
  <2>2. DOMAIN u = 1 .. Len(targets) + 1 /\ u[Len(targets) + 1] = t
        /\ \A i \in DOMAIN targets : u[i] = targets[i]
    <3> DEFINE S == ToSet(targets) \cup {t}
    <3>1. targets \in Seq(S) /\ t \in S
      BY <1>0
    <3>2. /\ Len(u) = Len(targets) + 1 /\ u \in Seq(S)
          /\ \A i \in 1 .. Len(targets) : u[i] = targets[i]
          /\ u[Len(targets) + 1] = t
      BY <2>1, <3>1, AppendProperties
    <3>3. DOMAIN u = 1 .. Len(u)
      <4> HIDE DEF S
      <4> QED BY <3>2, LenProperties
    <3> HIDE DEF S
    <3>4. DOMAIN u = 1 .. Len(targets) + 1
      BY <3>2, <3>3
    <3>5. \A i \in DOMAIN targets : u[i] = targets[i]
      BY <1>0, <3>2
    <3> QED BY <3>2, <3>4, <3>5
  <2>3. u = [i \in 1 .. Len(targets) + 1 |-> u[i]]
    <3> DEFINE S == ToSet(targets) \cup {t}
    <3>1. u \in Seq(S)
      BY <1>0, <2>1, AppendProperties
    <3> HIDE DEF S
    <3> QED BY <1>0, <2>2, <3>1
  <2>4. IsList(u)
    BY <1>0, <2>2, <2>3 DEF ToSet, IsList
  <2>5. Len(targets) + 1 \in DOMAIN u /\ \A i \in DOMAIN u : i \in DOMAIN targets \/ i = Len(targets) + 1
    BY <1>0, <2>2
  <2> QED BY <1>0, <2>2, <2>4, <2>5 DEF Alike
<1>2. CASE same # {}
  <2> DEFINE k == CHOOSE i \in same : TRUE
  <2>1. u = [targets EXCEPT ![k] = t]
    BY <1>2 DEF Upsert
  <2>2. k \in same
    BY <1>2
  <2>a. k \in DOMAIN targets /\ targets[k].endpoint = t.endpoint
    BY <2>2
  <2> HIDE DEF k
  <2>3. DOMAIN u = DOMAIN targets /\ \A i \in DOMAIN targets : u[i] = IF i = k THEN t ELSE targets[i]
    BY <2>1, <2>a
  <2>4. u = [i \in 1 .. Len(targets) |-> u[i]]
    BY <1>0, <2>1, <2>3
  <2> HIDE DEF same
  <2>5. IsList(u)
    BY <1>0, <2>3, <2>4 DEF ToSet, IsList
  <2> QED BY <2>a, <2>3, <2>5 DEF Alike
<1> QED BY <1>1, <1>2
-----------------------------------------------------------------------------
(* The commands.                                                           *)

\* A file that is wired, or unwired, is a file still; wiring adds its variables to those there.
LEMMA WiredFile ==
  ASSUME NEW f, IsFile(f), NEW telemetry \in BOOLEAN, NEW events
  PROVE  LET w == Wire(f, telemetry, events) IN
         /\ IsFile(w) /\ w.load = "found" /\ w.env.ok = f.env.ok
         /\ w.env.set = IF telemetry THEN WireEnv(f.env.set) ELSE f.env.set
         /\ w.managedOnly = f.managedOnly
<1> DEFINE w == Wire(f, telemetry, events)
           set == IF telemetry THEN WireEnv(f.env.set) ELSE f.env.set
<1>1. w = [load |-> "found", env |-> [ok |-> f.env.ok, set |-> set],
           hooks |-> [f.hooks EXCEPT !.at = WireHooks(f, events)], managedOnly |-> f.managedOnly]
  <2> DEFINE hooks == [f.hooks EXCEPT !.at = WireHooks(f, events)]
             env == [f.env EXCEPT !.set = set]
  <2>1. w = [f EXCEPT !.load = "found", !.hooks = hooks, !.env = env]
    BY Zenon DEF Wire
  <2>2. env = [ok |-> f.env.ok, set |-> set]
    <3> HIDE DEF set
    <3> QED BY DEF IsFile
  <2> HIDE DEF hooks, env, w, set
  <2>3. f = [load |-> f.load, env |-> f.env, hooks |-> f.hooks, managedOnly |-> f.managedOnly]
    BY DEF IsFile
  <2>4. w = [load |-> "found", env |-> env, hooks |-> hooks, managedOnly |-> f.managedOnly]
    BY <2>1, <2>3
  <2> QED BY <2>2, <2>4 DEF hooks
<1>2. "endpoint" \in DOMAIN set => set["endpoint"] \in Endpoints
  <2>1. "endpoint" \in DOMAIN WireEnv(f.env.set) /\ WireEnv(f.env.set)["endpoint"] \in Endpoints
    <3>1. /\ "endpoint" \in DOMAIN WireEnv(f.env.set)
          /\ WireEnv(f.env.set)["endpoint"] = IF "endpoint" \in DOMAIN f.env.set
                                              THEN f.env.set["endpoint"] ELSE Local
      BY DEF WireEnv, Telemetry
    <3> QED BY <3>1, WiringAssumption DEF IsFile
  <2> QED BY <2>1 DEF IsFile
<1> HIDE DEF w, set
<1>3. IsFile(w)
  BY <1>1, <1>2 DEF IsFile
<1> QED BY <1>1, <1>3 DEF w, set

LEMMA UnwiredFile == ASSUME NEW f, IsFile(f) PROVE IsFile(Unwire(f))
<1>1. \E hooks : Unwire(f) = [f EXCEPT !.hooks = hooks]
  BY DEF Unwire
<1>2. PICK hooks : Unwire(f) = [f EXCEPT !.hooks = hooks]
  BY <1>1
<1> QED BY <1>2 DEF IsFile

\* A repository's endpoint does not count, so a command's scope is the user's.
LEMMA UserScope ==
  ASSUME FilesStand, EffectiveSource(files, "endpoint") \notin {"none", "managed", "process"}
  PROVE  /\ EffectiveSource(files, "endpoint") = "user"
         /\ files["user"].load = "found" /\ files["user"].env.ok
         /\ Effective(files, "endpoint") = files["user"].env.set["endpoint"]
         /\ Effective(files, "endpoint") \in Endpoints
<1>1. ~Says(files, "project", "endpoint")
  BY DEF Says, Ignored
<1>2. EffectiveSource(files, "endpoint") = Source(files, "endpoint")
  BY DEF EffectiveSource
<1>3. Source(files, "endpoint") = "user" /\ Says(files, "user", "endpoint")
  BY <1>1, <1>2, Said, TheScopes
<1>4. "endpoint" \in DOMAIN EnvOf(files, "user")
  BY <1>3 DEF Says
<1>5. files["user"].load = "found" /\ files["user"].env.ok
  BY <1>4 DEF EnvOf
<1>6. EnvOf(files, "user") = files["user"].env.set
  BY <1>5 DEF EnvOf
<1>7. IsFile(files["user"])
  BY TheScopes DEF FilesStand
<1> QED BY <1>2, <1>3, <1>4, <1>5, <1>6, <1>7 DEF Effective, IsFile

\* The command's shape is kept by a step that says what its fields become.
CommandIs(c, name, step, scope, content, targets, endpoint, inserted, undisturbed) ==
  c = [name |-> name, at |-> step, scope |-> scope, held |-> content, targets |-> targets,
       endpoint |-> endpoint, headers |-> c.headers, inserted |-> inserted,
       undisturbed |-> undisturbed]

LEMMA InitWiring == WInit => WInv
<1> SUFFICES ASSUME WInit PROVE WInv
  OBVIOUS
<1>1. PICK start \in Starts : files = start.files /\ config = [parses |-> TRUE, export |-> start.export]
  BY DEF WInit
<1>2. FilesStand /\ ConfigStands
  BY <1>1, WiringAssumption DEF FilesStand, ConfigStands
<1>3. command.name = "none" /\ command.at = "done" /\ CommandStands
  BY DEF WInit, Resting, CommandStands
<1>4. Captured /\ Routing
  BY <1>3 DEF Captured, Routing, WInit, Saving
<1> QED BY <1>2, <1>3, <1>4 DEF WInv

\* A command that is no insert begins, with a file to write or with nothing.
LEMMA BeginsKeeps ==
  ASSUME WInv, UNCHANGED <<files, config, replaced, removed>>,
         NEW name \in {"init", "remove", "insert"}, NEW scope,
         \/ command' = Begun(name, scope)
         \/ /\ name # "insert" /\ scope \in {"user", "project"}
            /\ \E content : IsFile(content) /\ command' = [Begun(name, scope) EXCEPT !.at = "write", !.held = content]
  PROVE  WInv'
<1>1. FilesStand' /\ ConfigStands'
  BY DEF WInv, FilesStand, ConfigStands
<1>2. CASE command' = Begun(name, scope)
  <2>1. CommandIs(command', name, "done", scope, Empty, <<>>, "none", FALSE, TRUE)
    BY <1>2 DEF Begun, Resting, CommandIs
  <2>2. command'.at = "done" /\ command'.inserted = FALSE
    BY <1>2 DEF Begun, Resting
  <2>3. CommandStands'
    BY <2>1, <2>2 DEF CommandIs, CommandStands, Saving
  <2>4. Captured' /\ Routing'
    BY <2>2 DEF Captured, Routing, WInv, Saving
  <2> QED BY <1>1, <2>3, <2>4 DEF WInv
<1>3. ASSUME name # "insert", scope \in {"user", "project"}, NEW content, IsFile(content),
             command' = [Begun(name, scope) EXCEPT !.at = "write", !.held = content]
      PROVE  WInv'
  <2>1. CommandIs(command', name, "write", scope, content, <<>>, "none", FALSE, TRUE)
    BY <1>3 DEF Begun, Resting, CommandIs
  <2>2. /\ command'.name = name /\ command'.at = "write" /\ command'.scope = scope
        /\ command'.held = content /\ command'.inserted = FALSE
    BY <1>3 DEF Begun, Resting
  <2>3. CommandStands'
    BY <1>3, <2>1, <2>2 DEF CommandIs, CommandStands, Saving
  <2>4. Captured' /\ Routing'
    BY <1>3, <2>2 DEF Captured, Routing, WInv, Saving
  <2> QED BY <1>1, <2>3, <2>4 DEF WInv
<1> QED BY <1>2, <1>3

LEMMA InitAndRemoveKeep ==
  ASSUME WInv, NEW scope \in {"user", "project"}, InitCommand(scope) \/ RemoveCommand(scope)
  PROVE  WInv'
<1>1. IsFile(files[scope])
  BY TheScopes DEF WInv, FilesStand
<1>2. CASE InitCommand(scope)
  <2>1. IsFile(Wire(files[scope], scope = "user", activeEvents))
    <3>1. (scope = "user") \in BOOLEAN
      OBVIOUS
    <3> QED BY <1>1, <3>1, WiredFile
  <2> QED BY <1>2, <2>1, BeginsKeeps DEF InitCommand, Starting
<1>3. CASE RemoveCommand(scope)
  <2>1. IsFile(Unwire(files[scope]))
    BY <1>1, UnwiredFile
  <2> QED BY <1>3, <2>1, BeginsKeeps DEF RemoveCommand, Starting
<1> QED BY <1>2, <1>3

LEMMA InsertKeeps == ASSUME WInv, InsertCommand PROVE WInv'
<1> DEFINE scope == EffectiveSource(files, "endpoint")
           f == files[scope]
           content == [Wire(f, TRUE, activeEvents) EXCEPT !.env.set = Repoint(@)]
<1>1. UNCHANGED <<files, config, replaced, removed>>
  BY DEF InsertCommand, Starting
<1>2. CASE command' = Begun("insert", scope)
  BY <1>1, <1>2, BeginsKeeps
<1>3. CASE /\ ~Has(files, "signal_endpoint") /\ scope \notin {"none", "managed", "process"}
           /\ ~Broken(f, TRUE, activeEvents) /\ CanRepoint(files, scope)
           /\ command' = [Begun("insert", scope) EXCEPT !.at = "load",
                            !.endpoint = Effective(files, "endpoint"),
                            !.headers = IF Has(files, "headers") THEN {Effective(files, "headers")} ELSE {},
                            !.held = content]
  <2>0. FilesStand /\ ConfigStands /\ Captured
    BY DEF WInv
  <2>1. /\ scope = "user" /\ f.load = "found" /\ f.env.ok
        /\ Effective(files, "endpoint") \in Endpoints
    BY <1>3, <2>0, UserScope
  <2>2. IsFile(f)
    BY <2>0, <2>1, TheScopes DEF FilesStand
  <2>3. /\ IsFile(Wire(f, TRUE, activeEvents)) /\ Wire(f, TRUE, activeEvents).load = "found"
        /\ Wire(f, TRUE, activeEvents).env.ok = f.env.ok
        /\ Wire(f, TRUE, activeEvents).env.set = WireEnv(f.env.set)
    BY <2>2, WiredFile
  <2>4. /\ IsFile(content) /\ content.load = "found" /\ content.env.ok = f.env.ok
        /\ content.env.set = Repoint(WireEnv(f.env.set))
    <3> DEFINE w == Wire(f, TRUE, activeEvents)
    <3>1. content = [load |-> w.load, env |-> [ok |-> w.env.ok, set |-> Repoint(w.env.set)],
                  hooks |-> w.hooks, managedOnly |-> w.managedOnly]
      <4> DEFINE env == [w.env EXCEPT !.set = Repoint(w.env.set)]
      <4>1. content = [w EXCEPT !.env = env]
        BY Zenon
      <4>0. IsFile(w)
        BY <2>3
      <4> HIDE DEF content, w
      <4>2. env = [ok |-> w.env.ok, set |-> Repoint(w.env.set)]
        BY <4>0 DEF IsFile
      <4>3. w = [load |-> w.load, env |-> w.env, hooks |-> w.hooks, managedOnly |-> w.managedOnly]
        BY <4>0 DEF IsFile
      <4> HIDE DEF env
      <4> QED BY <4>1, <4>2, <4>3
    <3>2. "endpoint" \in DOMAIN Repoint(w.env.set) => Repoint(w.env.set)["endpoint"] = Local
      BY DEF Repoint
    <3> HIDE DEF w, content
    <3> QED BY <2>3, <3>1, <3>2, WiringAssumption DEF IsFile, w
  <2>5. CommandIs(command', "insert", "load", scope, content, <<>>, Effective(files, "endpoint"), FALSE, TRUE)
    BY <1>3 DEF Begun, Resting, CommandIs
  <2> HIDE DEF content
  <2>6. CommandStands'
    BY <2>1, <2>4, <2>5 DEF CommandStands, CommandIs, Saving
  <2>7. Captured'
    BY <1>1, <2>0, <2>5 DEF Captured, CommandIs, Saving
  <2>8. Fitting'
    BY <1>1, <1>3, <2>1, <2>4, <2>5 DEF Fitting, CommandIs
  <2>9. Routing'
    BY <2>5, <2>8 DEF Routing, CommandIs
  <2>10. FilesStand' /\ ConfigStands'
    BY <1>1, <2>0 DEF FilesStand, ConfigStands
  <2> QED BY <2>6, <2>7, <2>9, <2>10 DEF WInv
<1> QED BY <1>2, <1>3 DEF InsertCommand

\* A collector named in the section is among its destinations.
LEMMA NamedAmong ==
  ASSUME NEW raws, IsSection(raws), ValidSection(raws), NEW e, Url[e] \in NamedIn(raws)
  PROVE  Among(Validate(raws), e)
<1>1. PICK i \in DOMAIN raws : Url[raws[i].endpoint] = Url[e]
  BY DEF NamedIn
<1>2. IsEntry(raws[i]) /\ ValidEntry(raws[i])
  BY DEF IsSection, ValidSection
<1>3. Validate(raws)[i].endpoint = Url[e] /\ i \in DOMAIN Validate(raws)
  BY <1>1, <1>2, EntrySurvives DEF Validate
<1>4. Url[Url[e]] = Url[e]
  BY <1>1, <1>2, DestinationsAssumption DEF IsEntry, ValidEntry
<1> QED BY <1>3, <1>4 DEF Among

LEMMA LoadKeeps == ASSUME WInv, LoadExport PROVE WInv'
<1>0. FilesStand /\ ConfigStands /\ CommandStands /\ Captured /\ Routing
  BY DEF WInv
<1>1. /\ command.name = "insert" /\ command.at = "load" /\ UNCHANGED <<files, config, replaced, removed>>
      /\ Steps["load"] = "reread"
  BY DEF LoadExport, Steps
<1>2. FilesStand' /\ ConfigStands'
  BY <1>0, <1>1 DEF FilesStand, ConfigStands
<1>3. /\ command.scope = "user" /\ ~command.inserted /\ IsFile(command.held)
      /\ command.endpoint \in Endpoints
  BY <1>0, <1>1 DEF CommandStands
<1>4. CASE command' = [command EXCEPT !.at = "done"]
  <2>1. CommandIs(command', command.name, "done", command.scope, command.held, command.targets,
                  command.endpoint, command.inserted, command.undisturbed)
    BY <1>0, <1>4 DEF CommandIs, CommandStands
  <2>2. CommandStands' /\ Captured' /\ Routing'
    BY <1>0, <1>1, <1>3, <2>1 DEF CommandIs, CommandStands, Captured, Routing, Saving
  <2> QED BY <1>2, <2>2 DEF WInv
<1>5. ASSUME ValidSection(config.export), NEW mode \in Modes,
             command' = [command EXCEPT !.at = Steps["load"],
               !.targets = Upsert(Validate(config.export),
                 [Target(PlainEntry(command.endpoint, mode)) EXCEPT
                    !.endpoint = command.endpoint, !.headers = command.headers])]
      PROVE  WInv'
  <2> DEFINE t == [Target(PlainEntry(command.endpoint, mode)) EXCEPT
                     !.endpoint = command.endpoint, !.headers = command.headers]
             old == Validate(config.export)
             u == Upsert(old, t)
  <2>1. t.endpoint = command.endpoint /\ t.timeout = {}
    BY DEF Target, PlainEntry
  <2>2. IsSection(config.export)
    BY <1>0 DEF ConfigStands
  <2>3. old \in Seq(ToSet(old)) /\ \A i \in DOMAIN old : Writable(old[i])
    <3>1. Len(config.export) \in Nat /\ DOMAIN config.export = 1 .. Len(config.export)
      BY <2>2, SectionIsSequence
    <3>2. old = [i \in 1 .. Len(config.export) |-> Target(config.export[i])]
      BY <3>1 DEF Validate
    <3>3. \A i \in 1 .. Len(config.export) : Writable(old[i])
      <4> SUFFICES ASSUME NEW i \in 1 .. Len(config.export) PROVE Writable(old[i])
        OBVIOUS
      <4>1. IsEntry(config.export[i]) /\ ValidEntry(config.export[i])
        BY <1>5, <2>2, <3>1 DEF IsSection, ValidSection
      <4>2. old[i] = Target(config.export[i])
        BY <3>2
      <4>3. old[i].timeout = config.export[i].timeout /\ IsOption(config.export[i].timeout)
        BY <4>1, <4>2 DEF IsEntry, Target
      <4> HIDE DEF old
      <4>4. old[i].endpoint \in Endpoints
        BY <4>1, <4>2, EntrySurvives
      <4> QED BY <4>3, <4>4 DEF Writable
    <3>4. DOMAIN old = 1 .. Len(config.export) /\ \A i \in DOMAIN old : old[i] \in ToSet(old)
      BY <3>2 DEF ToSet
    <3> HIDE DEF old
    <3>5. old = [i \in 1 .. Len(config.export) |-> old[i]]
      BY <3>2
    <3>6. old \in Seq(ToSet(old))
      BY <3>1, <3>4, <3>5
    <3> QED BY <3>3, <3>4, <3>6
  <2> HIDE DEF t, old
  <2>4. /\ u \in Seq(ToSet(u))
        /\ \E i \in DOMAIN u : u[i].endpoint = t.endpoint
        /\ \A i \in DOMAIN u : u[i] = t \/ (i \in DOMAIN old /\ u[i] = old[i])
        /\ \A i \in DOMAIN old : i \in DOMAIN u /\ u[i].endpoint = old[i].endpoint
    <3>1. u = Upsert(old, t) /\ IsList(old)
      BY <2>3 DEF IsList
    <3>2. /\ IsList(u)
          /\ \E i \in DOMAIN u : Alike(u[i], t)
          /\ \A i \in DOMAIN u : u[i] = t \/ (i \in DOMAIN old /\ u[i] = old[i])
          /\ \A i \in DOMAIN old : i \in DOMAIN u /\ Alike(u[i], old[i])
      <4> HIDE DEF u
      <4> QED BY <3>1, Upserted
    <3> QED BY <3>2 DEF IsList, Alike
  <2>5. CommandIs(command', "insert", "reread", "user", command.held, u,
                  command.endpoint, FALSE, command.undisturbed)
    <3>1. CommandIs(command', command.name, "reread", command.scope, command.held, u,
                    command.endpoint, command.inserted, command.undisturbed)
      <4> HIDE DEF u
      <4>1. command' = [command EXCEPT !.at = "reread", !.targets = u]
        BY <1>1, <1>5 DEF u, t, old
      <4> QED BY <1>0, <4>1 DEF CommandIs, CommandStands
    <3>2. command.inserted = FALSE
      BY <1>0, <1>3 DEF CommandStands
    <3> QED BY <1>1, <1>3, <3>1, <3>2
  <2> HIDE DEF u
  <2>6. /\ command'.name = "insert" /\ command'.at = "reread" /\ command'.held = command.held
        /\ command'.targets = u /\ command'.endpoint = command.endpoint /\ command'.inserted = FALSE
        /\ command'.scope = "user" /\ command'.undisturbed = command.undisturbed
    BY <2>5 DEF CommandIs
  <2>7. CommandStands'
    <3>1. \A i \in DOMAIN u : Writable(u[i])
      BY <1>3, <2>1, <2>3, <2>4 DEF Writable, IsOption
    <3> QED BY <1>3, <2>4, <2>5, <2>6, <3>1 DEF CommandIs, CommandStands
  <2>8. Among(u, command.endpoint) /\ \A e : Among(old, e) => Among(u, e)
    BY <2>1, <2>4 DEF Among
  <2>9. Captured'
    <3>1. \A e \in replaced : e \in Endpoints /\ (e \in removed \/ (Url[e] \in NamedIn(config.export)
                                                             /\ Among(u, e)))
      <4> SUFFICES ASSUME NEW e \in replaced, e \notin removed
                   PROVE  Url[e] \in NamedIn(config.export) /\ Among(u, e)
        BY <1>0 DEF Captured
      <4>1. Url[e] \in NamedIn(config.export)
        BY <1>0 DEF Captured
      <4>2. Among(old, e)
        BY <1>5, <2>2, <4>1, NamedAmong DEF old
      <4> QED BY <2>8, <4>1, <4>2
    <3> QED BY <1>1, <2>6, <2>8, <3>1 DEF Captured
  <2>10. Routing'
    BY <1>0, <1>1, <2>6 DEF Routing, Fitting
  <2> QED BY <1>2, <2>7, <2>9, <2>10 DEF WInv
<1> QED BY <1>4, <1>5 DEF LoadExport

LEMMA SettingsRereadKeeps == ASSUME WInv, RereadSettings PROVE WInv'
<1>0. FilesStand /\ ConfigStands /\ CommandStands /\ Captured /\ Routing
  BY DEF WInv
<1>1. /\ command.name = "insert" /\ command.at = "reread"
      /\ UNCHANGED <<files, config, replaced, removed>>
  BY DEF RereadSettings
<1>2. PICK step \in {"save", "done"} : command' = [command EXCEPT !.at = step]
  BY DEF RereadSettings, Steps
<1>3. CommandIs(command', command.name, step, command.scope, command.held, command.targets,
                command.endpoint, command.inserted, command.undisturbed)
  BY <1>0, <1>2 DEF CommandIs, CommandStands
<1>4. FilesStand' /\ ConfigStands'
  BY <1>0, <1>1 DEF FilesStand, ConfigStands
<1>5. CommandStands'
  BY <1>0, <1>1, <1>3 DEF CommandIs, CommandStands, Saving
<1>6. Captured' /\ Routing'
  BY <1>0, <1>1, <1>3 DEF CommandIs, CommandStands, Captured, Routing, Fitting, Saving
<1> QED BY <1>4, <1>5, <1>6 DEF WInv

LEMMA SaveKeeps == ASSUME WInv, SaveExport PROVE WInv'
<1>0. FilesStand /\ ConfigStands /\ CommandStands /\ Captured /\ Routing
  BY DEF WInv
<1>1. /\ command.name = "insert" /\ command.at = "save" /\ UNCHANGED <<files, replaced>>
      /\ Steps["save"] = "write"
  BY DEF SaveExport, Steps
<1>2. FilesStand'
  BY <1>0, <1>1 DEF FilesStand
<1>3. /\ command.scope = "user" /\ ~command.inserted /\ IsFile(command.held)
      /\ command.endpoint \in Endpoints
      /\ command.targets \in Seq(ToSet(command.targets))
      /\ \A i \in DOMAIN command.targets : Writable(command.targets[i])
  BY <1>0, <1>1 DEF CommandStands, Saving
<1>5. CASE /\ config' = [parses |-> TRUE, export |-> ToRaws(command.targets)]
           /\ command' = [command EXCEPT !.at = Steps["save"]]
           /\ removed' = removed \ {command.targets[i].endpoint : i \in DOMAIN command.targets}
  <2> DEFINE targets == command.targets
             raws == ToRaws(targets)
  <2>1. /\ DOMAIN raws = DOMAIN targets
        /\ \A i \in DOMAIN targets : raws[i].endpoint = targets[i].endpoint /\ raws[i] = ToRaw(targets[i])
    BY DEF ToRaws, ToRaw
  <2>2. IsSection(raws)
    <3>1. Len(targets) \in Nat /\ DOMAIN targets = 1 .. Len(targets)
      BY <1>3
    <3>2. raws = [i \in 1 .. Len(targets) |-> raws[i]] /\ \A i \in DOMAIN raws : raws[i] \in ToSet(raws)
      BY <3>1 DEF ToRaws, ToSet
    <3>3. \A i \in DOMAIN targets : IsEntry(raws[i])
      <4> SUFFICES ASSUME NEW i \in DOMAIN targets PROVE IsEntry(raws[i])
        OBVIOUS
      <4> DEFINE t == targets[i]
      <4>1. raws[i] = [endpoint |-> t.endpoint, mode |-> t.mode, kinds |-> t.kinds,
               signals |-> {t.signals} \ {DefaultSignals}, limit |-> {t.limit} \ {DefaultLimit},
               projects |-> IF t.filter.only THEN {t.filter.projects} ELSE {},
               exclude |-> IF ~t.filter.only /\ t.filter.projects # {} THEN {t.filter.projects} ELSE {},
               accounts |-> t.accounts, timeout |-> t.timeout, headers |-> t.headers]
        BY <2>1 DEF ToRaw
      <4>2. t.endpoint \in Endpoints /\ IsOption(t.timeout)
        BY <1>3 DEF Writable
      <4> HIDE DEF raws, t
      <4> QED BY <4>1, <4>2 DEF IsEntry, IsOption
    <3> HIDE DEF raws
    <3>4. raws \in Seq(ToSet(raws))
      BY <2>1, <3>1, <3>2
    <3> QED BY <2>1, <3>3, <3>4 DEF IsSection
  <2> HIDE DEF raws
  <2>3. ConfigStands' /\ config'.export = raws
    <3>1. config' = [parses |-> TRUE, export |-> raws]
      BY <1>5 DEF raws
    <3> QED BY <2>2, <3>1 DEF ConfigStands
  <2>4. CommandIs(command', "insert", "write", "user", command.held, targets,
                  command.endpoint, FALSE, command.undisturbed)
    <3>1. CommandIs(command', command.name, "write", command.scope, command.held, targets,
                    command.endpoint, command.inserted, command.undisturbed)
      BY <1>0, <1>1, <1>5 DEF CommandIs, CommandStands
    <3>2. command.inserted = FALSE
      BY <1>0, <1>3 DEF CommandStands
    <3> QED BY <1>1, <1>3, <3>1, <3>2
  <2>5. /\ command'.name = "insert" /\ command'.at = "write" /\ command'.held = command.held
        /\ command'.endpoint = command.endpoint /\ command'.inserted = FALSE
        /\ command'.scope = "user" /\ command'.undisturbed = command.undisturbed
    BY <2>4 DEF CommandIs
  <2>6. CommandStands'
    BY <1>3, <2>4, <2>5 DEF CommandIs, CommandStands
  <2>7. \A e : Among(targets, e) => Url[e] \in NamedIn(raws)
    BY <2>1 DEF Among, NamedIn
  <2>8. Url[command.endpoint] \in NamedIn(raws)
    BY <1>0, <1>1, <2>7 DEF Captured, Saving
  <2>9. Captured'
    <3>1. \A e \in replaced : e \in Endpoints /\ (e \in removed' \/ Url[e] \in NamedIn(raws))
      <4> SUFFICES ASSUME NEW e \in replaced, e \notin removed' PROVE Url[e] \in NamedIn(raws)
        BY <1>0 DEF Captured
      <4>1. CASE e \in removed
        <5>1. \E i \in DOMAIN targets : targets[i].endpoint = e
          BY <1>5, <4>1
        <5> QED BY <2>7, <5>1 DEF Among
      <4>2. CASE e \notin removed
        BY <1>0, <1>1, <2>7, <4>2 DEF Captured, Saving
      <4> QED BY <4>1, <4>2
    <3> QED BY <1>1, <2>3, <2>5, <2>8, <3>1 DEF Captured, Saving
  <2>10. Routing'
    BY <1>0, <1>1, <2>3, <2>5, <2>8 DEF Routing, Fitting
  <2> QED BY <1>2, <2>3, <2>6, <2>9, <2>10 DEF WInv
<1> QED BY <1>5 DEF SaveExport

LEMMA WriteKeeps == ASSUME WInv, WriteSettings PROVE WInv'
<1>0. FilesStand /\ ConfigStands /\ CommandStands /\ Captured /\ Routing
  BY DEF WInv
<1>1. /\ command.at = "write" /\ UNCHANGED <<config, removed>>
      /\ files' = [files EXCEPT ![command.scope] = command.held]
      /\ Steps["write"] = "done"
  BY DEF WriteSettings, Steps
<1>2. /\ command.scope \in {"user", "project"} /\ IsFile(command.held)
      /\ command.name = "insert" => command.endpoint \in Endpoints /\ command.scope = "user"
      /\ ~command.inserted
  BY <1>0, <1>1 DEF CommandStands
<1>3. ConfigStands'
  BY <1>0, <1>1 DEF ConfigStands
<1>4. FilesStand'
  <2>1. /\ DOMAIN files' = Scopes
        /\ \A s \in Scopes : files'[s] = IF s = command.scope THEN command.held ELSE files[s]
    BY <1>0, <1>1, <1>2, TheScopes DEF FilesStand
  <2>2. files' = [s \in Scopes |-> files'[s]]
    BY <1>0, <1>1, <2>1 DEF FilesStand
  <2> QED BY <1>0, <1>2, <2>1, <2>2 DEF FilesStand
<1>5. CASE command.name # "insert" /\ command' = [command EXCEPT !.at = "done"] /\ UNCHANGED replaced
  <2>1. CommandIs(command', command.name, "done", command.scope, command.held, command.targets,
                  command.endpoint, command.inserted, command.undisturbed)
    BY <1>0, <1>5 DEF CommandIs, CommandStands
  <2>2. CommandStands' /\ Captured' /\ Routing'
    BY <1>0, <1>1, <1>5, <2>1 DEF CommandIs, CommandStands, Captured, Routing, Saving
  <2> QED BY <1>3, <1>4, <2>2 DEF WInv
<1>6. CASE /\ command.name = "insert" /\ replaced' = replaced \cup {command.endpoint}
           /\ command' = [command EXCEPT !.at = Steps["write"], !.inserted = TRUE]
  <2>1. CommandIs(command', "insert", "done", command.scope, command.held, command.targets,
                  command.endpoint, TRUE, command.undisturbed)
    BY <1>0, <1>1, <1>6 DEF CommandIs, CommandStands
  <2>2. /\ command'.name = "insert" /\ command'.at = "done" /\ command'.endpoint = command.endpoint
        /\ command'.inserted = TRUE /\ command'.undisturbed = command.undisturbed
    BY <2>1 DEF CommandIs
  <2>3. CommandStands'
    BY <2>1, <2>2 DEF CommandIs, CommandStands, Saving
  <2>4. Captured'
    <3>1. Url[command.endpoint] \in NamedIn(config.export) \/ command.endpoint \in removed
      BY <1>0, <1>1, <1>6 DEF Captured
    <3>2. \A e \in replaced' : e \in Endpoints /\ (e \in removed \/ Url[e] \in NamedIn(config.export))
      BY <1>0, <1>2, <1>6, <3>1 DEF Captured
    <3> QED BY <1>1, <2>2, <3>2 DEF Captured, Saving
  <2>5. command.undisturbed => Routed'
    <3> SUFFICES ASSUME command.undisturbed PROVE Routed'
      OBVIOUS
    <3>1. Fitting
      BY <1>0, <1>1, <1>6 DEF Routing
    <3>2. files' = [files EXCEPT !["user"] = command.held]
      BY <1>1, <1>2, <1>6
    <3>3. files = [s \in Scopes |-> files[s]]
      BY <1>0 DEF FilesStand
    <3>4. /\ Has(files', "endpoint") /\ Effective(files', "endpoint") = Local
          /\ ~Has(files', "signal_endpoint")
          /\ LET k == IF Has(files', "signal_protocol") THEN "signal_protocol" ELSE "protocol" IN
             Has(files', k) /\ Effective(files', k) = "http/json"
      BY <3>1, <3>2, <3>3, Pointing DEF Fitting
    <3> QED BY <3>4 DEF Routed
  <2>6. command.undisturbed => Url[command.endpoint] \in NamedIn(config.export)
    BY <1>0, <1>1, <1>6 DEF Routing
  <2>7. Routing'
    BY <1>1, <2>2, <2>5, <2>6 DEF Routing
  <2> QED BY <1>3, <1>4, <2>3, <2>4, <2>7 DEF WInv
<1> QED BY <1>5, <1>6 DEF WriteSettings

LEMMA FailingKeeps == ASSUME WInv, CommandFails PROVE WInv'
<1>0. FilesStand /\ ConfigStands /\ CommandStands /\ Captured /\ Routing
  BY DEF WInv
<1>1. command.at # "done" /\ command' = [command EXCEPT !.at = "done"]
      /\ UNCHANGED <<files, config, replaced, removed>> /\ ~command.inserted
  BY <1>0 DEF CommandFails, CommandStands
<1>2. CommandIs(command', command.name, "done", command.scope, command.held, command.targets,
                command.endpoint, command.inserted, command.undisturbed)
  BY <1>0, <1>1 DEF CommandIs, CommandStands
<1>3. FilesStand' /\ ConfigStands'
  BY <1>0, <1>1 DEF FilesStand, ConfigStands
<1>4. CommandStands' /\ Captured' /\ Routing'
  BY <1>0, <1>1, <1>2 DEF CommandIs, CommandStands, Captured, Routing, Saving
<1> QED BY <1>3, <1>4 DEF WInv

\* Somebody edits a file: of the command only that it is disturbed changes.
LEMMA EditedKeeps ==
  ASSUME WInv, Edited, FilesStand', ConfigStands', UNCHANGED replaced, removed \subseteq removed',
         \A e \in Endpoints : e \in removed \/ Url[e] \in NamedIn(config.export)
                            => e \in removed' \/ Url[e] \in NamedIn(config'.export)
  PROVE  WInv'
<1>0. CommandStands /\ Captured
  BY DEF WInv
<1>1. CommandIs(command', command.name, command.at, command.scope, command.held, command.targets,
                command.endpoint, command.inserted, FALSE)
  BY <1>0 DEF Edited, CommandIs, CommandStands
<1>2. /\ command'.name = command.name /\ command'.at = command.at /\ command'.scope = command.scope
      /\ command'.held = command.held /\ command'.targets = command.targets
      /\ command'.endpoint = command.endpoint /\ command'.inserted = command.inserted
      /\ command'.undisturbed = FALSE
  BY <1>1 DEF CommandIs
<1>3. CommandStands'
  BY <1>0, <1>1, <1>2 DEF CommandIs, CommandStands
<1>4. Captured'
  <2>1. \A e \in replaced :
          /\ e \in Endpoints
          /\ e \in removed' \/ (Url[e] \in NamedIn(config'.export)
                               /\ (command.at \in Saving => Among(command.targets, e)))
    BY <1>0 DEF Captured
  <2>2. command.name = "insert" /\ command.at = "write" =>
          Url[command.endpoint] \in NamedIn(config'.export) \/ command.endpoint \in removed'
    BY <1>0 DEF Captured, CommandStands
  <2> QED BY <1>0, <1>2, <2>1, <2>2 DEF Captured
<1>5. Routing'
  BY <1>2 DEF Routing
<1> QED BY <1>3, <1>4, <1>5 DEF WInv

LEMMA EditsKeep ==
  ASSUME WInv,
         \/ \E e \in Endpoints : EditEndpoint(e)
         \/ \E parses \in BOOLEAN, section \in ConfigEdits : EditConfig(parses, section)
         \/ \E events \in SUBSET Events : Upgrade(events)
  PROVE  WInv'
<1>0. FilesStand /\ ConfigStands
  BY DEF WInv
<1>1. ASSUME NEW e \in Endpoints, EditEndpoint(e) PROVE WInv'
  <2> DEFINE f == files["user"]
             set == [k \in DOMAIN f.env.set \cup {"endpoint"} |->
                       IF k = "endpoint" THEN e ELSE f.env.set[k]]
             env == [f.env EXCEPT !.set = set]
             g == [f EXCEPT !.env = env]
  <2>1. files' = [files EXCEPT !["user"] = g]
    BY <1>1, Zenon DEF EditEndpoint
  <2>2. IsFile(f)
    BY <1>0, TheScopes DEF FilesStand
  <2>3. "endpoint" \in DOMAIN set /\ set["endpoint"] = e
    OBVIOUS
  <2> HIDE DEF set
  <2>4. env = [ok |-> f.env.ok, set |-> set]
    BY <2>2 DEF IsFile
  <2> HIDE DEF env
  <2>5. g = [load |-> f.load, env |-> env, hooks |-> f.hooks, managedOnly |-> f.managedOnly]
    BY <2>2 DEF IsFile
  <2> HIDE DEF g, f
  <2>6. IsFile(g)
    BY <2>3, <2>4, <2>5 DEF IsFile
  <2>7. FilesStand'
    <3>1. /\ DOMAIN files' = Scopes
          /\ \A s \in Scopes : files'[s] = IF s = "user" THEN g ELSE files[s]
      BY <1>0, <2>1, TheScopes DEF FilesStand
    <3>2. files' = [s \in Scopes |-> files'[s]]
      BY <1>0, <2>1, <3>1 DEF FilesStand
    <3> QED BY <1>0, <2>6, <3>1, <3>2 DEF FilesStand
  <2>8. Edited /\ UNCHANGED <<config, replaced, removed>>
    BY <1>1 DEF EditEndpoint
  <2>9. ConfigStands'
    BY <1>0, <2>8 DEF ConfigStands
  <2> QED BY <2>7, <2>8, <2>9, EditedKeeps
<1>2. ASSUME NEW parses \in BOOLEAN, NEW section \in ConfigEdits, EditConfig(parses, section)
      PROVE  WInv'
  <2>1. /\ Edited /\ UNCHANGED <<files, replaced>> /\ config' = [parses |-> parses, export |-> section]
        /\ removed' = removed \cup {e \in Endpoints : Url[e] \in NamedIn(config.export) \ NamedIn(section)}
    BY <1>2 DEF EditConfig
  <2>2. ConfigStands' /\ config'.export = section
    BY <2>1, WiringAssumption DEF ConfigStands
  <2>3. FilesStand'
    BY <1>0, <2>1 DEF FilesStand
  <2>4. \A e \in Endpoints : e \in removed \/ Url[e] \in NamedIn(config.export)
                            => e \in removed' \/ Url[e] \in NamedIn(config'.export)
    BY <2>1, <2>2
  <2> QED BY <2>1, <2>2, <2>3, <2>4, EditedKeeps
<1>3. ASSUME NEW events \in SUBSET Events, Upgrade(events) PROVE WInv'
  <2>1. Edited /\ UNCHANGED <<config, replaced, removed>>
    BY <1>3 DEF Upgrade
  <2>2. \A s \in Scopes : \E hooks : files'[s] = [files[s] EXCEPT !.hooks = hooks]
    BY <1>3, Zenon DEF Upgrade
  <2>3. files' = [s \in Scopes |-> files'[s]]
    BY <1>3 DEF Upgrade
  <2>4. ASSUME NEW s \in Scopes PROVE IsFile(files'[s])
    <3>1. PICK hooks : files'[s] = [files[s] EXCEPT !.hooks = hooks]
      BY <2>2
    <3>2. IsFile(files[s])
      BY <1>0 DEF FilesStand
    <3> QED BY <3>1, <3>2 DEF IsFile
  <2>5. FilesStand'
    BY <2>3, <2>4 DEF FilesStand
  <2>6. ConfigStands'
    BY <1>0, <2>1 DEF ConfigStands
  <2> QED BY <2>1, <2>5, <2>6, EditedKeeps
<1> QED BY <1>1, <1>2, <1>3

LEMMA NextWiring == WInv /\ [WNext]_wvars => WInv'
<1> SUFFICES ASSUME WInv, [WNext]_wvars PROVE WInv'
  OBVIOUS
<1>1. CASE UNCHANGED wvars
  BY <1>1 DEF wvars, WInv, FilesStand, ConfigStands, CommandStands, Captured, Routing, Fitting, Routed
<1>2. ASSUME NEW scope \in {"user", "project"}, InitCommand(scope) \/ RemoveCommand(scope) PROVE WInv'
  BY <1>2, InitAndRemoveKeep
<1>3. CASE InsertCommand
  BY <1>3, InsertKeeps
<1>4. CASE LoadExport
  BY <1>4, LoadKeeps
<1>5. CASE RereadSettings \/ SaveExport
  BY <1>5, SettingsRereadKeeps, SaveKeeps
<1>6. CASE WriteSettings
  BY <1>6, WriteKeeps
<1>7. CASE CommandFails
  BY <1>7, FailingKeeps
<1>8. CASE \/ \E e \in Endpoints : EditEndpoint(e)
           \/ \E parses \in BOOLEAN, section \in ConfigEdits : EditConfig(parses, section)
           \/ \E events \in SUBSET Events : Upgrade(events)
  BY <1>8, EditsKeep
<1> QED BY <1>1, <1>2, <1>3, <1>4, <1>5, <1>6, <1>7, <1>8 DEF WNext

(* Every step of a command, and of the people who edit its files meanwhile, *)
(* keeps what the commands read and write in shape, a replaced collector    *)
(* captured, and an insert on its way to where it leads.                    *)
THEOREM WiringInvariant == WSpec => []WInv
  BY InitWiring, NextWiring, PTL DEF WSpec

(* However many commands run, fail and are killed, and whoever edits the   *)
(* files meanwhile, a collector an insert took out of Claude Code's        *)
(* settings is among the destinations unless a person took it out; and an  *)
(* insert nobody disturbed leaves Claude Code reporting to the receiver, as*)
(* it reads it (insert, repoint, effective_env).                           *)
THEOREM InsertAlwaysDelivers == WSpec => []InsertDelivers
<1>1. WInv => InsertDelivers
  BY DEF WInv, Captured, Routing, Routed, InsertDelivers, InsertRoutes, CaptureFirst
<1> QED BY <1>1, WiringInvariant, PTL

(* Whatever section there is, written by people or by an insert, the       *)
(* destinations it holds are the same after they are saved and loaded      *)
(* (to_raw, validate).                                                     *)
THEOREM SectionAlwaysSurvives == WSpec => []SectionSurvives
<1>1. WInv => SectionSurvives
  BY Surviving DEF WInv, ConfigStands, SectionSurvives
<1> QED BY <1>1, WiringInvariant, PTL

-----------------------------------------------------------------------------
(* What is taken out of a hook group, and what is left.                    *)

\* A set of lists that has the empty one and with each list those an element longer has all.
LEMMA Listing ==
  ASSUME NEW X, NEW G, <<>> \in G, \A s \in Seq(X), x \in X : s \in G => Append(s, x) \in G
  PROVE  Seq(X) \subseteq G
<1> DEFINE Good == {n \in Nat : \A s \in Seq(X) : Len(s) = n => s \in G}
<1>1. 0 \in Good
  <2>1. \A s \in Seq(X) : Len(s) = 0 => s = <<>>
    OBVIOUS
  <2> QED BY <2>1
<1>2. ASSUME NEW n \in Nat, n \in Good PROVE n + 1 \in Good
  <2> SUFFICES ASSUME NEW s \in Seq(X), Len(s) = n + 1 PROVE s \in G
    OBVIOUS
  <2> DEFINE r == [i \in 1..n |-> s[i]]
  <2>1. r \in Seq(X) /\ Len(r) = n
    OBVIOUS
  <2>2. s[n + 1] \in X
    OBVIOUS
  <2>3. s = Append(r, s[n + 1])
    OBVIOUS
  <2> HIDE DEF r
  <2>4. r \in G
    BY <1>2, <2>1
  <2>5. Append(r, s[n + 1]) \in G
    BY <2>1, <2>2, <2>4
  <2> QED BY <2>3, <2>5
<1>3. Nat \subseteq Good
  <2> HIDE DEF Good
  <2> QED BY <1>1, <1>2, Counting
<1> QED BY <1>3

\* What is left of the first elements of a list, and of one more.
Filtered(list, gone, N, t) ==
  t = [i \in 0..N |-> IF i = 0 THEN <<>>
                      ELSE IF list[i] \in gone THEN t[i - 1] ELSE Append(t[i - 1], list[i])]

LEMMA KeptExists ==
  ASSUME NEW list, NEW gone, NEW N \in Nat
  PROVE  \E t : Filtered(list, gone, N, t)
<1> DEFINE Good == {n \in Nat : \E t : Filtered(list, gone, n, t)}
<1>1. 0 \in Good
  <2> DEFINE t == [i \in 0..0 |-> <<>>]
  <2>1. Filtered(list, gone, 0, t)
    BY DEF Filtered
  <2> QED BY <2>1
<1>2. ASSUME NEW n \in Nat, n \in Good PROVE n + 1 \in Good
  <2>1. PICK t : Filtered(list, gone, n, t)
    BY <1>2
  <2> DEFINE l == n + 1
             u == [i \in 0..l |-> IF i = l THEN IF list[l] \in gone THEN t[n] ELSE Append(t[n], list[l])
                                  ELSE t[i]]
  <2>2. ASSUME NEW i \in 0..l
        PROVE  u[i] = IF i = 0 THEN <<>>
                      ELSE IF list[i] \in gone THEN u[i - 1] ELSE Append(u[i - 1], list[i])
    <3>1. CASE i = l
      <4>1. i # 0 /\ i - 1 = n /\ n \in 0..l /\ n # l
        BY <3>1
      <4>2. u[n] = t[n]
        BY <4>1
      <4> QED BY <3>1, <4>1, <4>2
    <3>2. CASE i # l
      <4>1. i \in 0..n /\ (i # 0 => i - 1 \in 0..l /\ i - 1 # l)
        BY <3>2
      <4>2. u[i] = t[i] /\ (i # 0 => u[i - 1] = t[i - 1])
        BY <3>2, <4>1
      <4>3. t[i] = IF i = 0 THEN <<>>
                   ELSE IF list[i] \in gone THEN t[i - 1] ELSE Append(t[i - 1], list[i])
        BY <2>1, <4>1 DEF Filtered
      <4> HIDE DEF u
      <4> QED BY <4>2, <4>3
    <3> QED BY <3>1, <3>2
  <2>3. u = [i \in 0..l |-> u[i]]
    OBVIOUS
  <2> HIDE DEF u
  <2>4. Filtered(list, gone, l, u)
    BY <2>2, <2>3 DEF Filtered
  <2> QED BY <2>4
<1>3. Nat \subseteq Good
  <2> HIDE DEF Good
  <2> QED BY <1>1, <1>2, Counting
<1> QED BY <1>3

LEMMA WithoutKept ==
  ASSUME NEW list, NEW gone, Len(list) \in Nat
  PROVE  \E t : Filtered(list, gone, Len(list), t) /\ Without(list, gone) = t[Len(list)]
<1> DEFINE t == CHOOSE path : Filtered(list, gone, Len(list), path)
<1>1. Filtered(list, gone, Len(list), t)
  BY KeptExists
<1>2. Without(list, gone) = t[Len(list)]
  BY DEF Without, Filtered
<1> QED BY <1>1, <1>2

\* A list that one more element is added to, unless it is to go.
Grown(list, x, gone) == IF x \in gone THEN list ELSE Append(list, x)

\* Taking out of an empty list, and of one an element longer.
LEMMA WithoutNone ==
  ASSUME NEW gone
  PROVE  Without(<<>>, gone) = <<>>
<1> DEFINE none == <<>>
<1>1. 0 \in Nat /\ Len(none) = 0 /\ 0 \in 0..0
  OBVIOUS
<1> HIDE DEF none
<1>2. PICK t : Filtered(none, gone, 0, t) /\ Without(none, gone) = t[0]
  BY <1>1, WithoutKept
<1>3. t[0] = <<>>
  BY <1>1, <1>2 DEF Filtered
<1> QED BY <1>2, <1>3 DEF none

LEMMA WithoutMore ==
  ASSUME NEW X, NEW gone, NEW s \in Seq(X), NEW x \in X
  PROVE  Without(Append(s, x), gone) = Grown(Without(s, gone), x, gone)
<1> DEFINE N == Len(s)
           r == Append(s, x)
<1>1. N \in Nat /\ r \in Seq(X) /\ Len(r) = N + 1 /\ r[N + 1] = x /\ \A i \in 1..N : r[i] = s[i]
  OBVIOUS
<1>2. PICK t : Filtered(s, gone, N, t) /\ Without(s, gone) = t[N]
  BY <1>1, WithoutKept
<1> HIDE DEF N, r
<1>3. PICK u : Filtered(r, gone, N + 1, u) /\ Without(r, gone) = u[N + 1]
  BY <1>1, WithoutKept
<1> DEFINE Good == {n \in Nat : n <= N => t[n] = u[n]}
<1>4. 0 \in Good
  <2>1. 0 \in 0..N /\ 0 \in 0..(N + 1)
    BY <1>1
  <2>2. t[0] = <<>>
    BY <1>2, <2>1 DEF Filtered
  <2>3. u[0] = <<>>
    BY <1>3, <2>1 DEF Filtered
  <2> QED BY <2>2, <2>3
<1>5. ASSUME NEW n \in Nat, n \in Good PROVE n + 1 \in Good
  <2> SUFFICES ASSUME n + 1 <= N PROVE t[n + 1] = u[n + 1]
    OBVIOUS
  <2>1. /\ n + 1 \in 0..N /\ n + 1 \in 0..(N + 1) /\ n + 1 # 0
        /\ (n + 1) - 1 = n /\ t[n] = u[n] /\ r[n + 1] = s[n + 1]
    BY <1>1, <1>5
  <2>2. t[n + 1] = IF s[n + 1] \in gone THEN t[n] ELSE Append(t[n], s[n + 1])
    BY <1>2, <2>1 DEF Filtered
  <2>3. u[n + 1] = IF r[n + 1] \in gone THEN u[n] ELSE Append(u[n], r[n + 1])
    BY <1>3, <2>1 DEF Filtered
  <2> QED BY <2>1, <2>2, <2>3
<1>6. t[N] = u[N]
  <2>1. Nat \subseteq Good
    <3> HIDE DEF Good
    <3> QED BY <1>4, <1>5, Counting
  <2> QED BY <1>1, <2>1
<1>7. u[N + 1] = IF r[N + 1] \in gone THEN u[N] ELSE Append(u[N], r[N + 1])
  <2>1. N + 1 \in 0..(N + 1) /\ N + 1 # 0 /\ (N + 1) - 1 = N
    BY <1>1
  <2> QED BY <1>3, <2>1 DEF Filtered
<1> QED BY <1>1, <1>2, <1>3, <1>6, <1>7 DEF r, Grown

\* The lists of a list, one after another.
Joined(lists, N, t) ==
  t = [i \in 1..N |-> IF i = 1 THEN lists[i] ELSE t[i - 1] \o lists[i]]

LEMMA JoinedStep ==
  ASSUME NEW lists, NEW N \in Nat, NEW t, Joined(lists, N, t)
  PROVE  \A i \in 1..N : t[i] = IF i = 1 THEN lists[i] ELSE t[i - 1] \o lists[i]
BY DEF Joined

LEMMA JoinedExists ==
  ASSUME NEW lists, NEW N \in Nat
  PROVE  \E t : Joined(lists, N, t)
<1> DEFINE Good == {n \in Nat : \E t : Joined(lists, n, t)}
<1>1. 0 \in Good
  <2> DEFINE t == [i \in 1..0 |-> <<>>]
  <2>1. Joined(lists, 0, t)
    BY DEF Joined
  <2> QED BY <2>1
<1>2. ASSUME NEW n \in Nat, n \in Good PROVE n + 1 \in Good
  <2>1. PICK t : Joined(lists, n, t)
    BY <1>2
  <2> DEFINE l == n + 1
             u == [i \in 1..l |-> IF i = l THEN IF l = 1 THEN lists[l] ELSE t[n] \o lists[l] ELSE t[i]]
  <2>2. ASSUME NEW i \in 1..l
        PROVE  u[i] = IF i = 1 THEN lists[i] ELSE u[i - 1] \o lists[i]
    <3>1. CASE i = l
      <4>1. i - 1 = n /\ n # l /\ (i # 1 => n \in 1..l)
        BY <3>1
      <4>2. i # 1 => u[n] = t[n]
        BY <4>1
      <4> QED BY <3>1, <4>1, <4>2
    <3>2. CASE i # l
      <4>1. i \in 1..n /\ (i # 1 => i - 1 \in 1..l /\ i - 1 # l)
        BY <3>2
      <4>2. u[i] = t[i] /\ (i # 1 => u[i - 1] = t[i - 1])
        BY <3>2, <4>1
      <4>3. t[i] = IF i = 1 THEN lists[i] ELSE t[i - 1] \o lists[i]
        BY <2>1, <4>1 DEF Joined
      <4> HIDE DEF u
      <4> QED BY <4>2, <4>3
    <3> QED BY <3>1, <3>2
  <2>3. u = [i \in 1..l |-> u[i]]
    OBVIOUS
  <2> HIDE DEF u
  <2>4. Joined(lists, l, u)
    BY <2>2, <2>3 DEF Joined
  <2> QED BY <2>4
<1>3. Nat \subseteq Good
  <2> HIDE DEF Good
  <2> QED BY <1>1, <1>2, Counting
<1> QED BY <1>3

LEMMA FlattenJoins ==
  ASSUME NEW X, NEW lists \in Seq(Seq(X)), lists # <<>>
  PROVE  \E t : Joined(lists, Len(lists), t) /\ FlattenSeq(lists) = t[Len(lists)]
<1> DEFINE t == CHOOSE joined : Joined(lists, Len(lists), joined)
<1>1. Len(lists) \in Nat /\ Len(lists) # 0
  OBVIOUS
<1>2. Joined(lists, Len(lists), t)
  BY <1>1, JoinedExists
<1>3. FlattenSeq(lists) = t[Len(lists)]
  BY <1>1 DEF FlattenSeq, Joined
<1> QED BY <1>2, <1>3

LEMMA FlattenSteps ==
  ASSUME NEW X
  PROVE  /\ FlattenSeq(<<>>) = <<>>
         /\ \A gs \in Seq(Seq(X)), g \in Seq(X) :
              FlattenSeq(Append(gs, g)) = FlattenSeq(gs) \o g
<1>1. FlattenSeq(<<>>) = <<>>
  BY DEF FlattenSeq
<1>2. ASSUME NEW gs \in Seq(Seq(X)), NEW g \in Seq(X)
      PROVE  FlattenSeq(Append(gs, g)) = FlattenSeq(gs) \o g
  <2> DEFINE N == Len(gs)
             r == Append(gs, g)
  <2>1. /\ N \in Nat /\ r \in Seq(Seq(X)) /\ r # <<>> /\ Len(r) = N + 1 /\ r[N + 1] = g
        /\ \A i \in 1..N : r[i] = gs[i]
    <3> DEFINE Y == Seq(X)
    <3>1. gs \in Seq(Y) /\ g \in Y
      OBVIOUS
    <3> HIDE DEF Y
    <3>2. N \in Nat /\ r \in Seq(Y) /\ Len(r) = N + 1 /\ r[N + 1] = g /\ \A i \in 1..N : r[i] = gs[i]
      BY <3>1
    <3>3. Len(<<>>) = 0 /\ N + 1 # 0
      BY <3>2
    <3>4. r # <<>>
      BY <3>2, <3>3
    <3> QED BY <3>2, <3>4 DEF Y
  <2> HIDE DEF r
  <2>2. PICK u : Joined(r, N + 1, u) /\ FlattenSeq(r) = u[N + 1]
    BY <2>1, FlattenJoins
  <2>3. CASE gs = <<>>
    <3>1. N = 0
      BY <2>3
    <3>2. u[1] = r[1]
      BY <2>2, <3>1 DEF Joined
    <3>3. <<>> \o g = g
      OBVIOUS
    <3>4. FlattenSeq(r) = g
      BY <2>1, <2>2, <3>1, <3>2
    <3> QED BY <1>1, <2>3, <3>3, <3>4 DEF r
  <2>4. CASE gs # <<>>
    <3>1. PICK t : Joined(gs, N, t) /\ FlattenSeq(gs) = t[N]
      BY <2>4, FlattenJoins
    <3>2. N # 0
      BY <2>4
    <3> HIDE DEF N
    <3> DEFINE Good == {n \in Nat : n <= N => (n # 0 => t[n] = u[n])}
    <3>3. 0 \in Good
      OBVIOUS
    <3>4. ASSUME NEW n \in Nat, n \in Good PROVE n + 1 \in Good
      <4> SUFFICES ASSUME n + 1 <= N PROVE t[n + 1] = u[n + 1]
        OBVIOUS
      <4>1. n + 1 \in 1..N /\ n + 1 \in 1..(N + 1) /\ (n + 1) - 1 = n /\ r[n + 1] = gs[n + 1]
            /\ (n # 0 => t[n] = u[n])
        BY <2>1, <3>4
      <4>2. t[n + 1] = IF n + 1 = 1 THEN gs[n + 1] ELSE t[n] \o gs[n + 1]
        BY <3>1, <4>1 DEF Joined
      <4>3. u[n + 1] = IF n + 1 = 1 THEN r[n + 1] ELSE u[n] \o r[n + 1]
        BY <2>2, <4>1 DEF Joined
      <4> QED BY <4>1, <4>2, <4>3
    <3>5. t[N] = u[N]
      <4>1. Nat \subseteq Good
        <5> HIDE DEF Good
        <5> QED BY <3>3, <3>4, Counting
      <4> QED BY <2>1, <3>2, <4>1
    <3>6. u[N + 1] = u[N] \o r[N + 1]
      <4>1. N + 1 \in 1..(N + 1) /\ N + 1 \in Nat /\ (N + 1) - 1 = N /\ N + 1 # 1
        BY <2>1, <3>2
      <4>2. u[N + 1] = IF N + 1 = 1 THEN r[N + 1] ELSE u[(N + 1) - 1] \o r[N + 1]
        BY <2>2, <4>1, JoinedStep
      <4> QED BY <4>1, <4>2
    <3> QED BY <2>1, <2>2, <3>1, <3>5, <3>6 DEF r
  <2> QED BY <2>3, <2>4
<1> QED BY <1>1, <1>2

-----------------------------------------------------------------------------
\* What a list holds, and what is left of it.

LEMMA AppendSet ==
  ASSUME NEW X, NEW s \in Seq(X), NEW x \in X
  PROVE  ToSet(Append(s, x)) = ToSet(s) \cup {x}
<1> DEFINE r == Append(s, x)
           N == Len(s)
<1>1. /\ N \in Nat /\ DOMAIN s = 1..N /\ DOMAIN r = 1..(N + 1)
      /\ r[N + 1] = x /\ \A i \in 1..N : r[i] = s[i]
  OBVIOUS
<1> HIDE DEF r, N
<1>2. \A i \in 1..(N + 1) : i \in 1..N \/ i = N + 1
  BY <1>1
<1>3. \A i \in 1..N : i \in 1..(N + 1)
  BY <1>1
<1>4. N + 1 \in 1..(N + 1)
  BY <1>1
<1>5. ToSet(r) = ToSet(s) \cup {x}
  BY <1>1, <1>2, <1>3, <1>4 DEF ToSet
<1> QED BY <1>5 DEF r

\* Elements that go are gone, the others stay, and where none goes nothing changes.
Thinned(s, gone, X) ==
  /\ Without(s, gone) \in Seq(X)
  /\ ToSet(Without(s, gone)) = ToSet(s) \ gone
  /\ ToSet(s) \cap gone = {} => Without(s, gone) = s

LEMMA Thinning ==
  ASSUME NEW X, NEW gone
  PROVE  \A s \in Seq(X) : Thinned(s, gone, X)
<1> DEFINE G == {s \in Seq(X) : Thinned(s, gone, X)}
<1>1. <<>> \in G
  <2>1. <<>> \in Seq(X) /\ ToSet(<<>>) = {}
    BY DEF ToSet
  <2> QED BY <2>1, WithoutNone DEF Thinned
<1>2. ASSUME NEW s \in Seq(X), NEW x \in X, s \in G PROVE Append(s, x) \in G
  <2> DEFINE r == Append(s, x)
             w == Without(s, gone)
  <2>1. w \in Seq(X) /\ ToSet(w) = ToSet(s) \ gone /\ (ToSet(s) \cap gone = {} => w = s)
    BY <1>2 DEF Thinned
  <2>2. r \in Seq(X) /\ ToSet(r) = ToSet(s) \cup {x}
    BY AppendSet
  <2>3. Without(r, gone) = Grown(w, x, gone)
    BY WithoutMore
  <2> HIDE DEF w
  <2>4. Append(w, x) \in Seq(X) /\ ToSet(Append(w, x)) = ToSet(w) \cup {x}
    BY <2>1, AppendSet
  <2>5. ToSet(r) \cap gone = {} => Append(w, x) = r
    BY <2>1, <2>2
  <2> HIDE DEF r
  <2>6. CASE x \in gone
    BY <2>1, <2>2, <2>3, <2>6 DEF Thinned, Grown, r
  <2>7. CASE x \notin gone
    <3>1. Without(r, gone) = Append(w, x)
      BY <2>3, <2>7 DEF Grown
    <3>2. ToSet(Without(r, gone)) = ToSet(r) \ gone
      BY <3>1, <2>1, <2>2, <2>4, <2>7
    <3>3. Thinned(r, gone, X)
      BY <3>1, <3>2, <2>4, <2>5 DEF Thinned
    <3> QED BY <2>2, <3>3 DEF r
  <2> QED BY <2>6, <2>7
<1>3. Seq(X) \subseteq G
  <2> HIDE DEF G
  <2> QED BY <1>1, <1>2, Listing
<1> QED BY <1>3

\* Taking out twice is taking out both.
LEMMA Rethinning ==
  ASSUME NEW X, NEW one, NEW two
  PROVE  \A s \in Seq(X) : Without(Without(s, one), two) = Without(s, one \cup two)
<1> DEFINE G == {s \in Seq(X) : Without(Without(s, one), two) = Without(s, one \cup two)}
<1>1. <<>> \in G
  <2>1. <<>> \in Seq(X)
    OBVIOUS
  <2>2. \A gone : Without(<<>>, gone) = <<>>
    BY WithoutNone
  <2>3. Without(Without(<<>>, one), two) = Without(<<>>, one \cup two)
    BY <2>2
  <2> QED BY <2>1, <2>3
<1>2. ASSUME NEW s \in Seq(X), NEW x \in X, s \in G PROVE Append(s, x) \in G
  <2> DEFINE w == Without(s, one)
  <2>1. w \in Seq(X) /\ Append(s, x) \in Seq(X)
    BY Thinning DEF Thinned
  <2>2. Without(w, two) = Without(s, one \cup two)
    BY <1>2
  <2>3. Without(Append(s, x), one) = Grown(w, x, one)
    BY WithoutMore
  <2>4. Without(Append(s, x), one \cup two) = Grown(Without(s, one \cup two), x, one \cup two)
    BY WithoutMore
  <2> HIDE DEF w
  <2>5. Without(Append(w, x), two) = Grown(Without(w, two), x, two)
    BY <2>1, WithoutMore
  <2>6. Without(Without(Append(s, x), one), two) = Without(Append(s, x), one \cup two)
    BY <2>2, <2>3, <2>4, <2>5 DEF Grown
  <2> QED BY <2>1, <2>6
<1>3. Seq(X) \subseteq G
  <2> HIDE DEF G
  <2> QED BY <1>1, <1>2, Listing
<1> QED BY <1>3

\* Taking out of two lists that follow one another.
LEMMA ThinningJoined ==
  ASSUME NEW X, NEW gone, NEW s \in Seq(X)
  PROVE  \A t \in Seq(X) : Without(s \o t, gone) = Without(s, gone) \o Without(t, gone)
<1> DEFINE G == {t \in Seq(X) : Without(s \o t, gone) = Without(s, gone) \o Without(t, gone)}
           v == Without(s, gone)
<1>0. v \in Seq(X)
  BY Thinning DEF Thinned
<1>1. <<>> \in G
  <2>1. <<>> \in Seq(X) /\ s \o <<>> = s
    OBVIOUS
  <2>2. Without(<<>>, gone) = <<>>
    BY WithoutNone
  <2> HIDE DEF v
  <2>3. v \o <<>> = v
    BY <1>0
  <2> QED BY <2>1, <2>2, <2>3 DEF v
<1>2. ASSUME NEW t \in Seq(X), NEW x \in X, t \in G PROVE Append(t, x) \in G
  <2> DEFINE w == Without(t, gone)
             j == s \o t
  <2>1. w \in Seq(X) /\ Append(t, x) \in Seq(X)
    BY Thinning DEF Thinned
  <2>2. Without(j, gone) = v \o w
    BY <1>2
  <2>3. j \in Seq(X) /\ s \o Append(t, x) = Append(j, x)
    OBVIOUS
  <2>4. Without(Append(t, x), gone) = Grown(w, x, gone)
    BY WithoutMore
  <2> HIDE DEF w, v, j
  <2>5. Without(Append(j, x), gone) = Grown(Without(j, gone), x, gone)
    BY <2>3, WithoutMore
  <2>6. v \o Append(w, x) = Append(v \o w, x)
    BY <1>0, <2>1
  <2>7. Without(s \o Append(t, x), gone) = v \o Without(Append(t, x), gone)
    BY <2>2, <2>3, <2>4, <2>5, <2>6 DEF Grown
  <2> QED BY <2>1, <2>7 DEF v
<1>3. Seq(X) \subseteq G
  <2> HIDE DEF G
  <2> QED BY <1>1, <1>2, Listing
<1> QED BY <1>3
-----------------------------------------------------------------------------
\* The hook groups of an event.

Group == Seq(HookEntry)

\* The entries that go: all of ours, or all but the current one.
Stripped(keepMine) == IF keepMine THEN Ours \ {"mine"} ELSE Ours

LEMMA StripNone == ASSUME NEW keepMine PROVE Strip(<<>>, keepMine) = <<>>
BY DEF Strip

LEMMA StripMore ==
  ASSUME NEW keepMine, NEW gs \in Seq(Group), NEW g \in Group
  PROVE  Strip(Append(gs, g), keepMine) = Append(Strip(gs, keepMine), Without(g, Stripped(keepMine)))
<1> DEFINE N == Len(gs)
           r == Append(gs, g)
           gone == Stripped(keepMine)
<1>1. /\ N \in Nat /\ r \in Seq(Group) /\ DOMAIN r = 1..(N + 1) /\ DOMAIN gs = 1..N
      /\ r[N + 1] = g /\ \A i \in 1..N : r[i] = gs[i]
  OBVIOUS
<1> HIDE DEF r
<1>2. /\ Strip(r, keepMine) = [i \in 1..(N + 1) |-> Without(r[i], gone)]
      /\ Strip(gs, keepMine) = [i \in 1..N |-> Without(gs[i], gone)]
  BY <1>1 DEF Strip, Stripped
<1>3. \A i \in 1..N : gs[i] \in Group
  BY <1>1
<1>4. \A h \in Group : Without(h, gone) \in Group
  BY Thinning DEF Thinned, Group
<1> HIDE DEF N, gone
<1> DEFINE left == [i \in 1..N |-> Without(gs[i], gone)]
           l == Without(g, gone)
           more == [i \in 1..(N + 1) |-> Without(r[i], gone)]
<1>5. left \in Seq(Group) /\ Len(left) = N
  BY <1>1, <1>3, <1>4
<1>6. l \in Group
  BY <1>4
<1>7. \A i \in 1..N : more[i] = left[i]
  BY <1>1
<1>8. more[N + 1] = l
  BY <1>1
<1>9. more = [i \in 1..(N + 1) |-> more[i]]
  OBVIOUS
<1> HIDE DEF left, l, more
<1>10. DOMAIN Append(left, l) = 1..(N + 1) /\ Append(left, l) = [i \in 1..(N + 1) |-> Append(left, l)[i]]
  <2> DEFINE a == Append(left, l)
  <2>1. a \in Seq(Group) /\ Len(a) = N + 1
    BY <1>1, <1>5, <1>6
  <2> HIDE DEF a
  <2>2. DOMAIN a = 1..(N + 1) /\ a = [i \in DOMAIN a |-> a[i]]
    BY <2>1
  <2> QED BY <2>2 DEF a
<1>11. \A i \in 1..N : Append(left, l)[i] = left[i]
  BY <1>1, <1>5, <1>6
<1>12. Append(left, l)[N + 1] = l
  BY <1>1, <1>5, <1>6
<1>13. \A i \in 1..(N + 1) : i \in 1..N \/ i = N + 1
  BY <1>1
<1>14. \A i \in 1..(N + 1) : more[i] = Append(left, l)[i]
  BY <1>7, <1>8, <1>11, <1>12, <1>13
<1>15. more = Append(left, l)
  BY <1>9, <1>10, <1>14
<1> QED BY <1>2, <1>15 DEF r, more, left, l, gone

\* Stripping leaves a group for each, none of which holds what was stripped.
StripFits(gs, keepMine) ==
  /\ Strip(gs, keepMine) \in Seq(Group)
  /\ \A i \in DOMAIN Strip(gs, keepMine) : ToSet(Strip(gs, keepMine)[i]) \cap Stripped(keepMine) = {}
  /\ (\A i \in DOMAIN gs : ToSet(gs[i]) \cap Stripped(keepMine) = {}) => Strip(gs, keepMine) = gs
  /\ \A i \in DOMAIN gs : ToSet(Strip(gs, keepMine)[i]) = ToSet(gs[i]) \ Stripped(keepMine)
  /\ DOMAIN Strip(gs, keepMine) = DOMAIN gs

LEMMA Stripping == ASSUME NEW gs \in Seq(Group), NEW keepMine PROVE StripFits(gs, keepMine)
<1> DEFINE gone == Stripped(keepMine)
           s == Strip(gs, keepMine)
<1>1. s = [i \in DOMAIN gs |-> Without(gs[i], gone)]
  BY DEF Strip, Stripped
<1>2. \A h \in Group : /\ Without(h, gone) \in Group
                       /\ ToSet(Without(h, gone)) = ToSet(h) \ gone
                       /\ ToSet(h) \cap gone = {} => Without(h, gone) = h
  BY Thinning DEF Thinned, Group
<1>3. /\ DOMAIN gs = 1..Len(gs) /\ Len(gs) \in Nat /\ gs = [i \in DOMAIN gs |-> gs[i]]
      /\ \A i \in DOMAIN gs : gs[i] \in Group
  OBVIOUS
<1> HIDE DEF gone, s
<1>4. DOMAIN s = DOMAIN gs /\ s \in Seq(Group)
  BY <1>1, <1>2, <1>3
<1>5. \A i \in DOMAIN gs : ToSet(s[i]) = ToSet(gs[i]) \ gone
  BY <1>1, <1>2, <1>3
<1>6. ASSUME \A i \in DOMAIN gs : ToSet(gs[i]) \cap gone = {} PROVE s = gs
  <2>1. \A i \in DOMAIN gs : Without(gs[i], gone) = gs[i]
    BY <1>2, <1>3, <1>6
  <2> QED BY <1>1, <1>3, <2>1
<1> QED BY <1>4, <1>5, <1>6 DEF StripFits, gone, s

\* The groups that are left when the empty ones are dropped.
Full(gs) == Without(gs, {<<>>})

LEMMA FullFits ==
  ASSUME NEW gs \in Seq(Group)
  PROVE  /\ Full(gs) \in Seq(Group) /\ ToSet(Full(gs)) = ToSet(gs) \ {<<>>}
         /\ <<>> \notin ToSet(gs) => Full(gs) = gs
BY Thinning DEF Thinned, Full

LEMMA FullMore ==
  ASSUME NEW gs \in Seq(Group), NEW g \in Group
  PROVE  Full(Append(gs, g)) = IF g = <<>> THEN Full(gs) ELSE Append(Full(gs), g)
<1>1. Without(Append(gs, g), {<<>>}) = Grown(Without(gs, {<<>>}), g, {<<>>})
  BY WithoutMore
<1> QED BY <1>1 DEF Grown, Full

LEMMA FullNone == Full(<<>>) = <<>>
BY WithoutNone DEF Full
-----------------------------------------------------------------------------
\* The entries of others among groups, in order.
TheirsIn(gs) == Without(FlattenSeq(gs), Ours)

Flat(gs) ==
  FlattenSeq(gs) \in Group /\ \A x \in ToSet(FlattenSeq(gs)) : \E g \in ToSet(gs) : x \in ToSet(g)

LEMMA FlattenFits == \A gs \in Seq(Group) : Flat(gs)
<1> DEFINE G == {gs \in Seq(Group) : Flat(gs)}
<1>1. <<>> \in G
  <2>1. FlattenSeq(<<>>) = <<>>
    BY FlattenSteps
  <2>2. ToSet(<<>>) = {} /\ <<>> \in Group /\ <<>> \in Seq(Group)
    BY DEF ToSet, Group
  <2> QED BY <2>1, <2>2 DEF Flat
<1>2. ASSUME NEW gs \in Seq(Group), NEW g \in Group, gs \in G PROVE Append(gs, g) \in G
  <2> DEFINE f == FlattenSeq(gs)
             r == Append(gs, g)
  <2>1. f \in Group /\ \A x \in ToSet(f) : \E h \in ToSet(gs) : x \in ToSet(h)
    BY <1>2 DEF Flat
  <2>2. FlattenSeq(r) = f \o g
    BY FlattenSteps DEF Group
  <2>3. r \in Seq(Group) /\ ToSet(r) = ToSet(gs) \cup {g}
    BY AppendSet
  <2> HIDE DEF f, r
  <2>4. f \o g \in Group
    BY <2>1 DEF Group
  <2>5. ToSet(f \o g) = ToSet(f) \cup ToSet(g)
    <3> DEFINE M == Len(f)
               N == Len(g)
               j == f \o g
    <3>1. /\ M \in Nat /\ N \in Nat /\ DOMAIN f = 1..M /\ DOMAIN g = 1..N /\ DOMAIN j = 1..(M + N)
          /\ \A i \in 1..(M + N) : j[i] = IF i <= M THEN f[i] ELSE g[i - M]
      BY <2>1 DEF Group
    <3> HIDE DEF M, N, j
    <3>2. \A i \in 1..M : i \in 1..(M + N) /\ i <= M
      BY <3>1
    <3>3. \A i \in 1..N : i + M \in 1..(M + N) /\ ~(i + M <= M) /\ (i + M) - M = i
      BY <3>1
    <3>4. \A i \in 1..(M + N) : IF i <= M THEN i \in 1..M ELSE i - M \in 1..N
      BY <3>1
    <3>5. \A i \in 1..M : f[i] \in ToSet(j)
      BY <3>1, <3>2 DEF ToSet
    <3>6. \A i \in 1..N : g[i] \in ToSet(j)
      <4> SUFFICES ASSUME NEW i \in 1..N PROVE g[i] \in ToSet(j)
        OBVIOUS
      <4>1. j[i + M] = g[i]
        BY <3>1, <3>3
      <4> QED BY <4>1, <3>1, <3>3 DEF ToSet
    <3>7. \A i \in 1..(M + N) : j[i] \in ToSet(f) \cup ToSet(g)
      BY <3>1, <3>4 DEF ToSet
    <3>8. ToSet(j) = ToSet(f) \cup ToSet(g)
      BY <3>1, <3>5, <3>6, <3>7 DEF ToSet
    <3> QED BY <3>8 DEF j
  <2>6. \A x \in ToSet(f \o g) : \E h \in ToSet(r) : x \in ToSet(h)
    BY <2>1, <2>3, <2>5
  <2>7. Flat(r)
    BY <2>2, <2>4, <2>6 DEF Flat
  <2> QED BY <2>3, <2>7 DEF r
<1>3. Seq(Group) \subseteq G
  <2> HIDE DEF G
  <2> QED BY <1>1, <1>2, Listing
<1> QED BY <1>3

LEMMA TheirsNone == TheirsIn(<<>>) = <<>>
BY FlattenSteps, WithoutNone DEF TheirsIn

LEMMA TheirsMore ==
  ASSUME NEW gs \in Seq(Group), NEW g \in Group
  PROVE  TheirsIn(Append(gs, g)) = TheirsIn(gs) \o Without(g, Ours)
<1>1. FlattenSeq(Append(gs, g)) = FlattenSeq(gs) \o g
  BY FlattenSteps DEF Group
<1>2. FlattenSeq(gs) \in Group
  BY FlattenFits DEF Flat
<1>3. Without(FlattenSeq(gs) \o g, Ours) = Without(FlattenSeq(gs), Ours) \o Without(g, Ours)
  BY <1>2, ThinningJoined DEF Group
<1> QED BY <1>1, <1>3 DEF TheirsIn

LEMMA TheirsFit == ASSUME NEW gs \in Seq(Group) PROVE TheirsIn(gs) \in Group
<1>1. FlattenSeq(gs) \in Group
  BY FlattenFits DEF Flat
<1> QED BY <1>1, Thinning DEF Thinned, Group, TheirsIn

\* Two lists of groups with the same entries of others, and the same left of them without ours.
Same(gs, hs) == TheirsIn(gs) = TheirsIn(hs) /\ UnwireEvent(gs) = UnwireEvent(hs)

LEMMA UnwireMore ==
  ASSUME NEW gs \in Seq(Group), NEW g \in Group
  PROVE  UnwireEvent(Append(gs, g)) =
           IF Without(g, Ours) = <<>> THEN UnwireEvent(gs) ELSE Append(UnwireEvent(gs), Without(g, Ours))
<1>1. Strip(Append(gs, g), FALSE) = Append(Strip(gs, FALSE), Without(g, Ours))
  BY StripMore DEF Stripped
<1>2. Strip(gs, FALSE) \in Seq(Group)
  BY Stripping DEF StripFits
<1>3. Without(g, Ours) \in Group
  BY Thinning DEF Thinned, Group
<1>4. \A s : UnwireEvent(s) = Full(Strip(s, FALSE))
  BY DEF UnwireEvent, Full
<1> QED BY <1>1, <1>2, <1>3, <1>4, FullMore

LEMMA UnwireNone == UnwireEvent(<<>>) = <<>>
BY StripNone, FullNone DEF UnwireEvent, Full

\* A longer list, by what is left of its last group.
LEMMA SameMore ==
  ASSUME NEW gs \in Seq(Group), NEW hs \in Seq(Group), NEW g \in Group, NEW h \in Group, Same(gs, hs)
  PROVE  /\ Without(g, Ours) = Without(h, Ours) => Same(Append(gs, g), Append(hs, h))
         /\ Without(g, Ours) = <<>> => Same(Append(gs, g), hs)
<1>1. /\ TheirsIn(Append(gs, g)) = TheirsIn(gs) \o Without(g, Ours)
      /\ TheirsIn(Append(hs, h)) = TheirsIn(hs) \o Without(h, Ours)
  BY TheirsMore
<1>2. TheirsIn(gs) \in Group
  BY TheirsFit
<1>3. TheirsIn(gs) \o <<>> = TheirsIn(gs)
  BY <1>2 DEF Group
<1>4. ASSUME Without(g, Ours) = Without(h, Ours) PROVE Same(Append(gs, g), Append(hs, h))
  BY <1>1, <1>4, UnwireMore DEF Same
<1>5. ASSUME Without(g, Ours) = <<>> PROVE Same(Append(gs, g), hs)
  BY <1>1, <1>3, <1>5, UnwireMore DEF Same
<1> QED BY <1>4, <1>5

LEMMA StripSame == ASSUME NEW keepMine PROVE \A gs \in Seq(Group) : Same(Strip(gs, keepMine), gs)
<1> DEFINE G == {gs \in Seq(Group) : Same(Strip(gs, keepMine), gs)}
<1>1. <<>> \in G
  <2>1. <<>> \in Seq(Group)
    OBVIOUS
  <2> QED BY <2>1, StripNone DEF Same
<1>2. ASSUME NEW gs \in Seq(Group), NEW g \in Group, gs \in G PROVE Append(gs, g) \in G
  <2> DEFINE l == Without(g, Stripped(keepMine))
             s == Strip(gs, keepMine)
  <2>1. l \in Group /\ s \in Seq(Group) /\ Same(s, gs)
    BY <1>2, Stripping, Thinning DEF StripFits, Thinned, Group
  <2>2. Without(l, Ours) = Without(g, Ours)
    <3>1. Stripped(keepMine) \cup Ours = Ours
      BY DEF Stripped
    <3> QED BY <3>1, Rethinning DEF Group
  <2>3. Strip(Append(gs, g), keepMine) = Append(s, l)
    BY StripMore
  <2> HIDE DEF l, s
  <2>4. Same(Append(s, l), Append(gs, g))
    BY <2>1, <2>2, SameMore
  <2>5. Append(gs, g) \in Seq(Group)
    OBVIOUS
  <2> QED BY <2>3, <2>4, <2>5
<1>3. Seq(Group) \subseteq G
  <2> HIDE DEF G
  <2> QED BY <1>1, <1>2, Listing
<1> QED BY <1>3

LEMMA FullSame == \A gs \in Seq(Group) : Same(Full(gs), gs)
<1> DEFINE G == {gs \in Seq(Group) : Same(Full(gs), gs)}
<1>1. <<>> \in G
  <2>1. <<>> \in Seq(Group)
    OBVIOUS
  <2> QED BY <2>1, FullNone DEF Same
<1>2. ASSUME NEW gs \in Seq(Group), NEW g \in Group, gs \in G PROVE Append(gs, g) \in G
  <2> DEFINE s == Full(gs)
             r == Append(gs, g)
  <2>1. s \in Seq(Group) /\ Same(s, gs)
    BY <1>2, FullFits
  <2>2. Full(r) = IF g = <<>> THEN s ELSE Append(s, g)
    BY FullMore
  <2>3. r \in Seq(Group)
    OBVIOUS
  <2>4. Same(gs, s)
    BY <2>1 DEF Same
  <2> HIDE DEF s
  <2>5. g = <<>> => Without(g, Ours) = <<>>
    BY WithoutNone
  <2>6. g = <<>> => Same(r, s)
    BY <2>1, <2>4, <2>5, SameMore
  <2>7. Same(Append(s, g), r)
    BY <2>1, SameMore
  <2>8. Same(Full(r), r)
    BY <2>2, <2>6, <2>7 DEF Same
  <2> QED BY <2>3, <2>8
<1>3. Seq(Group) \subseteq G
  <2> HIDE DEF G
  <2> QED BY <1>1, <1>2, Listing
<1> QED BY <1>3
-----------------------------------------------------------------------------
\* What wiring and unwiring make of the groups of an event.

\* Groups that are as wiring an active event, or one that is not, leaves them.
Settled(gs, isActive) ==
  /\ gs \in Seq(Group)
  /\ \A i \in DOMAIN gs : ToSet(gs[i]) \cap Stripped(isActive) = {}
  /\ isActive => <<>> \notin ToSet(gs) /\ \E i \in DOMAIN gs : "mine" \in ToSet(gs[i])

LEMMA SettledStays ==
  ASSUME NEW gs, NEW isActive \in BOOLEAN, Settled(gs, isActive)
  PROVE  Strip(gs, isActive) = gs /\ WireEvent(gs, isActive) = gs
<1>1. Strip(gs, isActive) = gs
  BY Stripping DEF Settled, StripFits
<1>2. isActive => Full(gs) = gs
  BY FullFits DEF Settled
<1> QED BY <1>1, <1>2 DEF WireEvent, Full, Settled

\* Stripped groups without the empty ones.
LEMMA Trimmed ==
  ASSUME NEW gs \in Seq(Group), NEW keepMine
  PROVE  LET full == Full(Strip(gs, keepMine)) IN
         /\ full \in Seq(Group) /\ Same(full, gs) /\ <<>> \notin ToSet(full)
         /\ \A i \in DOMAIN full : ToSet(full[i]) \cap Stripped(keepMine) = {}
<1> DEFINE s == Strip(gs, keepMine)
           full == Full(s)
<1>1. /\ s \in Seq(Group) /\ Same(s, gs)
      /\ \A i \in DOMAIN s : ToSet(s[i]) \cap Stripped(keepMine) = {}
  BY Stripping, StripSame DEF StripFits
<1> HIDE DEF s
<1>2. full \in Seq(Group) /\ Same(full, s) /\ ToSet(full) = ToSet(s) \ {<<>>}
  BY <1>1, FullFits, FullSame
<1>3. \A g \in ToSet(s) : ToSet(g) \cap Stripped(keepMine) = {}
  BY <1>1 DEF ToSet
<1> HIDE DEF full
<1>4. \A i \in DOMAIN full : full[i] \in ToSet(full)
  BY DEF ToSet
<1>5. \A i \in DOMAIN full : ToSet(full[i]) \cap Stripped(keepMine) = {}
  BY <1>2, <1>3, <1>4
<1>6. Same(full, gs)
  BY <1>1, <1>2 DEF Same
<1> QED BY <1>2, <1>5, <1>6 DEF full, s

LEMMA Single ==
  /\ <<"mine">> \in Group /\ ToSet(<<"mine">>) = {"mine"} /\ <<"mine">> # <<>>
  /\ <<"mine">> = Append(<<>>, "mine") /\ <<>> \in Seq(HookEntry) /\ "mine" \in HookEntry
<1>1. "mine" \in HookEntry
  BY DEF HookEntry, Ours
<1>2. ASSUME NEW x \in HookEntry
      PROVE  /\ <<x>> \in Seq(HookEntry) /\ <<x>> # <<>> /\ <<x>> = Append(<<>>, x)
             /\ DOMAIN <<x>> = {1} /\ <<x>>[1] = x
  <2>1. <<x>> \in Seq(HookEntry) /\ Len(<<x>>) = 1 /\ Len(<<>>) = 0
    OBVIOUS
  <2>2. <<x>> = Append(<<>>, x)
    OBVIOUS
  <2> QED BY <2>1, <2>2
<1>3. ASSUME NEW x \in HookEntry PROVE ToSet(<<x>>) = {x}
  BY <1>2 DEF ToSet
<1> QED BY <1>1, <1>2, <1>3 DEF Group

LEMMA EventWired ==
  ASSUME NEW gs \in Seq(Group), NEW isActive \in BOOLEAN
  PROVE  /\ Settled(WireEvent(gs, isActive), isActive)
         /\ Same(WireEvent(gs, isActive), gs)
<1> DEFINE full == Full(Strip(gs, isActive))
<1>1. /\ full \in Seq(Group) /\ Same(full, gs) /\ <<>> \notin ToSet(full)
      /\ \A i \in DOMAIN full : ToSet(full[i]) \cap Stripped(isActive) = {}
  BY Trimmed
<1>2. WireEvent(gs, isActive) = IF ~isActive THEN IF Strip(gs, isActive) = gs THEN gs ELSE full
                                ELSE IF \E i \in DOMAIN full : "mine" \in ToSet(full[i]) THEN full
                                ELSE Append(full, MyGroup)
  BY DEF WireEvent, Full
<1>3. Same(gs, gs)
  BY DEF Same
<1>4. Strip(gs, isActive) = gs => \A i \in DOMAIN gs : ToSet(gs[i]) \cap Stripped(isActive) = {}
  BY Stripping DEF StripFits
<1> HIDE DEF full
<1>5. CASE ~isActive
  <2>1. CASE Strip(gs, isActive) = gs
    BY <1>2, <1>3, <1>4, <1>5, <2>1 DEF Settled
  <2>2. CASE Strip(gs, isActive) # gs
    BY <1>1, <1>2, <1>5, <2>2 DEF Settled
  <2> QED BY <2>1, <2>2
<1>6. CASE isActive /\ \E i \in DOMAIN full : "mine" \in ToSet(full[i])
  BY <1>1, <1>2, <1>6 DEF Settled
<1>7. CASE isActive /\ ~\E i \in DOMAIN full : "mine" \in ToSet(full[i])
  <2> DEFINE w == Append(full, MyGroup)
  <2>1. MyGroup \in Group /\ ToSet(MyGroup) = {"mine"} /\ MyGroup # <<>>
    BY Single, Zenon DEF MyGroup
  <2>2. w \in Seq(Group) /\ ToSet(w) = ToSet(full) \cup {MyGroup}
    BY <1>1, <2>1, AppendSet
  <2>3. Without(MyGroup, Ours) = <<>>
    <3>1. MyGroup = Append(<<>>, "mine") /\ <<>> \in Seq(HookEntry) /\ "mine" \in HookEntry
      BY Single, Zenon DEF MyGroup
    <3>2. Without(MyGroup, Ours) = Grown(Without(<<>>, Ours), "mine", Ours)
      BY <3>1, WithoutMore
    <3> QED BY <3>2, WithoutNone DEF Grown, Ours
  <2>4. Same(w, full)
    <3>1. Same(full, full)
      BY DEF Same
    <3> QED BY <1>1, <2>1, <2>3, <3>1, SameMore
  <2>5. Same(w, gs)
    BY <1>1, <2>4 DEF Same
  <2>6. \A g \in ToSet(full) : ToSet(g) \cap Stripped(isActive) = {}
    BY <1>1 DEF ToSet
  <2>7. "mine" \notin Stripped(isActive)
    BY <1>7 DEF Stripped
  <2> HIDE DEF w
  <2>8. \A i \in DOMAIN w : w[i] \in ToSet(w)
    BY DEF ToSet
  <2>9. \A i \in DOMAIN w : ToSet(w[i]) \cap Stripped(isActive) = {}
    BY <2>1, <2>2, <2>6, <2>7, <2>8
  <2>10. \E i \in DOMAIN w : w[i] = MyGroup
    BY <2>2 DEF ToSet
  <2>11. Settled(w, isActive)
    <3>1. \E i \in DOMAIN w : "mine" \in ToSet(w[i])
      BY <2>1, <2>10
    <3>2. <<>> \notin ToSet(w)
      BY <1>1, <2>1, <2>2
    <3> QED BY <2>2, <2>9, <3>1, <3>2 DEF Settled
  <2>12. WireEvent(gs, isActive) = w
    BY <1>2, <1>7 DEF w
  <2> QED BY <2>5, <2>11, <2>12
<1> QED BY <1>5, <1>6, <1>7

\* What is ours and current among groups, in order: all else goes.
NotMine == HookEntry \ {"mine"}
MineIn(gs) == Without(FlattenSeq(gs), NotMine)

\* It is what it was, or there was none and now there is one.
Once(gs, new) == MineIn(new) = MineIn(gs) \/ (MineIn(gs) = <<>> /\ MineIn(new) = MyGroup)

LEMMA MineFits == ASSUME NEW gs \in Seq(Group) PROVE MineIn(gs) \in Group
<1>1. FlattenSeq(gs) \in Group
  BY FlattenFits DEF Flat
<1> QED BY <1>1, Thinning DEF Thinned, Group, MineIn

LEMMA MineMore ==
  ASSUME NEW gs \in Seq(Group), NEW g \in Group
  PROVE  MineIn(Append(gs, g)) = MineIn(gs) \o Without(g, NotMine)
<1>1. FlattenSeq(Append(gs, g)) = FlattenSeq(gs) \o g
  BY FlattenSteps DEF Group
<1>2. FlattenSeq(gs) \in Group
  BY FlattenFits DEF Flat
<1>3. Without(FlattenSeq(gs) \o g, NotMine) = Without(FlattenSeq(gs), NotMine) \o Without(g, NotMine)
  BY <1>2, ThinningJoined DEF Group
<1> QED BY <1>1, <1>3 DEF MineIn

\* Stripping what is not current, and dropping what is empty, leave it.
LEMMA MineStripped == \A gs \in Seq(Group) : MineIn(Strip(gs, TRUE)) = MineIn(gs)
<1> DEFINE G == {gs \in Seq(Group) : MineIn(Strip(gs, TRUE)) = MineIn(gs)}
<1>1. <<>> \in G
  <2>1. <<>> \in Seq(Group)
    OBVIOUS
  <2> QED BY <2>1, StripNone
<1>2. ASSUME NEW gs \in Seq(Group), NEW g \in Group, gs \in G PROVE Append(gs, g) \in G
  <2> DEFINE l == Without(g, Stripped(TRUE))
             s == Strip(gs, TRUE)
  <2>1. l \in Group /\ s \in Seq(Group) /\ MineIn(s) = MineIn(gs)
    BY <1>2, Stripping, Thinning DEF StripFits, Thinned, Group
  <2>2. Without(l, NotMine) = Without(g, NotMine)
    <3>1. Stripped(TRUE) \cup NotMine = NotMine
      BY DEF Stripped, NotMine, HookEntry
    <3>2. g \in Seq(HookEntry)
      BY DEF Group
    <3> DEFINE gone == Stripped(TRUE)
    <3>3. l = Without(g, gone)
      BY Zenon
    <3> HIDE DEF l, gone
    <3>4. Without(Without(g, gone), NotMine) = Without(g, gone \cup NotMine)
      BY <3>2, Rethinning
    <3>5. gone \cup NotMine = NotMine
      BY <3>1, Zenon DEF gone
    <3> QED BY <3>3, <3>4, <3>5
  <2>3. Strip(Append(gs, g), TRUE) = Append(s, l)
    BY StripMore
  <2> HIDE DEF l, s
  <2>4. MineIn(Append(s, l)) = MineIn(Append(gs, g))
    BY <2>1, <2>2, MineMore
  <2>5. Append(gs, g) \in Seq(Group)
    OBVIOUS
  <2> QED BY <2>3, <2>4, <2>5
<1>3. Seq(Group) \subseteq G
  <2> HIDE DEF G
  <2> QED BY <1>1, <1>2, Listing
<1> QED BY <1>3

LEMMA MineFull == \A gs \in Seq(Group) : MineIn(Full(gs)) = MineIn(gs)
<1> DEFINE G == {gs \in Seq(Group) : MineIn(Full(gs)) = MineIn(gs)}
<1>1. <<>> \in G
  <2>1. <<>> \in Seq(Group)
    OBVIOUS
  <2> QED BY <2>1, FullNone
<1>2. ASSUME NEW gs \in Seq(Group), NEW g \in Group, gs \in G PROVE Append(gs, g) \in G
  <2> DEFINE s == Full(gs)
             r == Append(gs, g)
  <2>1. s \in Seq(Group) /\ MineIn(s) = MineIn(gs)
    BY <1>2, FullFits
  <2>2. Full(r) = IF g = <<>> THEN s ELSE Append(s, g)
    BY FullMore
  <2>3. r \in Seq(Group)
    OBVIOUS
  <2>4. MineIn(r) = MineIn(gs) \o Without(g, NotMine)
    BY MineMore
  <2> HIDE DEF s, r
  <2>5. CASE g = <<>>
    <3>1. Without(g, NotMine) = <<>>
      BY <2>5, WithoutNone
    <3>2. MineIn(gs) \o <<>> = MineIn(gs)
      BY MineFits DEF Group
    <3> QED BY <2>1, <2>2, <2>3, <2>4, <2>5, <3>1, <3>2 DEF r
  <2>6. CASE g # <<>>
    <3>1. MineIn(Append(s, g)) = MineIn(s) \o Without(g, NotMine)
      BY <2>1, MineMore
    <3> QED BY <2>1, <2>2, <2>3, <2>4, <2>6, <3>1 DEF r
  <2> QED BY <2>5, <2>6
<1>3. Seq(Group) \subseteq G
  <2> HIDE DEF G
  <2> QED BY <1>1, <1>2, Listing
<1> QED BY <1>3

\* Where no group holds a current entry there is none.
LEMMA MineNowhere ==
  ASSUME NEW gs \in Seq(Group), \A i \in DOMAIN gs : "mine" \notin ToSet(gs[i])
  PROVE  MineIn(gs) = <<>>
<1> DEFINE all == FlattenSeq(gs)
<1>1. all \in Group /\ \A x \in ToSet(all) : \E g \in ToSet(gs) : x \in ToSet(g)
  BY FlattenFits DEF Flat
<1>2. \A g \in ToSet(gs) : "mine" \notin ToSet(g)
  BY DEF ToSet
<1> HIDE DEF all
<1>3. ToSet(all) \subseteq HookEntry
  BY <1>1 DEF Group, ToSet
<1>4. ToSet(all) \ NotMine = {}
  BY <1>1, <1>2, <1>3 DEF NotMine
<1>5. Without(all, NotMine) \in Seq(HookEntry) /\ ToSet(Without(all, NotMine)) = {}
  BY <1>1, <1>4, Thinning DEF Thinned, Group
<1>6. ASSUME NEW s \in Seq(HookEntry), ToSet(s) = {} PROVE s = <<>>
  <2>1. Len(s) \in Nat /\ \A i \in 1 .. Len(s) : s[i] \in ToSet(s)
    BY DEF ToSet
  <2>2. Len(s) = 0
    BY <1>6, <2>1
  <2> QED BY <2>2
<1> QED BY <1>5, <1>6 DEF MineIn, all

\* Wiring an active event adds a current entry where there is none, and never a second.
LEMMA EventOnce == ASSUME NEW gs \in Seq(Group) PROVE Once(gs, WireEvent(gs, TRUE))
<1> DEFINE full == Full(Strip(gs, TRUE))
<1>1. full \in Seq(Group) /\ MineIn(full) = MineIn(gs)
  <2>1. Strip(gs, TRUE) \in Seq(Group)
    BY Stripping DEF StripFits
  <2> QED BY <2>1, FullFits, MineFull, MineStripped
<1>2. WireEvent(gs, TRUE) = IF \E i \in DOMAIN full : "mine" \in ToSet(full[i]) THEN full
                            ELSE Append(full, MyGroup)
  BY DEF WireEvent, Full
<1> HIDE DEF full
<1>3. CASE \E i \in DOMAIN full : "mine" \in ToSet(full[i])
  BY <1>1, <1>2, <1>3 DEF Once
<1>4. CASE ~\E i \in DOMAIN full : "mine" \in ToSet(full[i])
  <2>1. MineIn(full) = <<>>
    BY <1>1, <1>4, MineNowhere
  <2>2. MyGroup \in Group /\ MyGroup = Append(<<>>, "mine") /\ <<>> \in Seq(HookEntry) /\ "mine" \in HookEntry
    BY Single, Zenon DEF MyGroup
  <2>3. Without(MyGroup, NotMine) = Grown(Without(<<>>, NotMine), "mine", NotMine)
    BY <2>2, WithoutMore
  <2>4. Without(MyGroup, NotMine) = MyGroup
    BY <2>2, <2>3, WithoutNone DEF Grown, NotMine
  <2>5. MineIn(Append(full, MyGroup)) = <<>> \o MyGroup
    BY <1>1, <2>1, <2>2, <2>4, MineMore
  <2>6. <<>> \o MyGroup = MyGroup
    BY <2>2 DEF Group
  <2> QED BY <1>1, <1>2, <1>4, <2>1, <2>5, <2>6 DEF Once
<1> QED BY <1>3, <1>4

LEMMA EventUnwired ==
  ASSUME NEW gs \in Seq(Group)
  PROVE  /\ UnwireEvent(gs) \in Seq(Group) /\ TheirsIn(UnwireEvent(gs)) = TheirsIn(gs)
         /\ \A i \in DOMAIN UnwireEvent(gs) : ToSet(UnwireEvent(gs)[i]) \cap Ours = {}
<1>1. UnwireEvent(gs) = Full(Strip(gs, FALSE)) /\ Stripped(FALSE) = Ours
  BY DEF UnwireEvent, Full, Stripped
<1> QED BY <1>1, Trimmed DEF Same
-----------------------------------------------------------------------------
\* The hooks of the files.

\* Every event a file has an entry for is one of the vocabulary, and has groups of entries.
HooksStand ==
  /\ activeEvents \subseteq Events
  /\ \A s \in Scopes : IsHooks(files[s].hooks)
  /\ command.at # "done" => IsHooks(command.held.hooks)

HInv == WInv /\ HooksStand

LEMMA GroupsOf == ASSUME NEW f, IsHooks(f.hooks), NEW e PROVE HookGroups(f, e) \in Seq(Group)
<1>1. <<>> \in Seq(Group)
  OBVIOUS
<1> QED BY <1>1 DEF HookGroups, IsHooks, Group

\* Hooks are what they are made of.
LEMMA HooksOf ==
  ASSUME NEW E, E \subseteq Events, NEW ok, NEW placed, placed = [e \in E |-> placed[e]],
         \A e \in E : placed[e] = [ok |-> placed[e].ok, groups |-> placed[e].groups] /\ placed[e].groups \in Seq(Group)
  PROVE  IsHooks([ok |-> ok, at |-> placed])
<1> DEFINE rebuilt == [e \in E |-> [ok |-> placed[e].ok, groups |-> placed[e].groups]]
<1>1. DOMAIN placed = E /\ placed = rebuilt
  <2>1. \A e \in E : rebuilt[e] = placed[e]
    OBVIOUS
  <2>2. rebuilt = [e \in E |-> rebuilt[e]]
    OBVIOUS
  <2> HIDE DEF rebuilt
  <2>3. [e \in E |-> rebuilt[e]] = [e \in E |-> placed[e]]
    BY <2>1
  <2> QED BY <2>2, <2>3
<1> DEFINE hooks == [ok |-> ok, at |-> placed]
<1>2. hooks.ok = ok /\ hooks.at = placed
  OBVIOUS
<1>3. hooks = [ok |-> hooks.ok, at |-> [e \in DOMAIN hooks.at |->
                 [ok |-> hooks.at[e].ok, groups |-> hooks.at[e].groups]]]
  BY <1>1
<1> HIDE DEF hooks, rebuilt
<1>4. IsHooks(hooks)
  BY <1>1, <1>2, <1>3 DEF IsHooks, Group
<1> QED BY <1>4 DEF hooks

\* A file's hooks after wiring.
LEMMA WiredHooks ==
  ASSUME NEW f, IsFile(f), IsHooks(f.hooks), NEW telemetry \in BOOLEAN, NEW events \in SUBSET Events
  PROVE  /\ Wire(f, telemetry, events).hooks = [ok |-> f.hooks.ok, at |-> WireHooks(f, events)]
         /\ IsHooks(Wire(f, telemetry, events).hooks)
<1>1. Wire(f, telemetry, events).hooks = [ok |-> f.hooks.ok, at |-> WireHooks(f, events)]
  <2>1. Wire(f, telemetry, events).hooks = [f.hooks EXCEPT !.at = WireHooks(f, events)]
    <3> DEFINE hooks == [f.hooks EXCEPT !.at = WireHooks(f, events)]
               env == [f.env EXCEPT !.set = IF telemetry THEN WireEnv(@) ELSE @]
    <3>1. Wire(f, telemetry, events) = [f EXCEPT !.load = "found", !.hooks = hooks, !.env = env]
      BY Zenon DEF Wire
    <3> HIDE DEF hooks, env
    <3>2. f = [load |-> f.load, env |-> f.env, hooks |-> f.hooks, managedOnly |-> f.managedOnly]
      BY DEF IsFile
    <3>3. Wire(f, telemetry, events).hooks = hooks
      BY <3>1, <3>2
    <3> QED BY <3>3 DEF hooks
  <2>2. \A placed : [f.hooks EXCEPT !.at = placed] = [ok |-> f.hooks.ok, at |-> placed]
    BY DEF IsHooks
  <2> QED BY <2>1, <2>2
<1> DEFINE E == {x \in Events : Keeps(f, x, events)}
           placed == WireHooks(f, events)
<1>2. placed = [e \in E |-> IF Usable(f, e) THEN [ok |-> TRUE, groups |-> WireEvent(HookGroups(f, e), e \in events)]
                               ELSE f.hooks.at[e]]
  BY DEF WireHooks
<1> HIDE DEF E, placed
<1>3. placed = [e \in E |-> placed[e]] /\ E \subseteq Events
  BY <1>2 DEF E
<1>4. ASSUME NEW e \in E
      PROVE  placed[e] = [ok |-> placed[e].ok, groups |-> placed[e].groups] /\ placed[e].groups \in Seq(Group)
  <2>1. CASE Usable(f, e)
    <3> DEFINE w == WireEvent(HookGroups(f, e), e \in events)
    <3>1. HookGroups(f, e) \in Seq(Group) /\ (e \in events) \in BOOLEAN
      BY GroupsOf
    <3>2. w \in Seq(Group)
      BY <3>1, EventWired DEF Settled
    <3>3. placed[e] = [ok |-> TRUE, groups |-> w]
      BY <1>2, <2>1
    <3> HIDE DEF w
    <3> QED BY <3>2, <3>3
  <2>2. CASE ~Usable(f, e)
    <3>1. placed[e] = f.hooks.at[e] /\ e \in DOMAIN f.hooks.at
      BY <1>2, <2>2 DEF Usable
    <3> QED BY <3>1 DEF IsHooks, Group
  <2> QED BY <2>1, <2>2
<1>5. IsHooks([ok |-> f.hooks.ok, at |-> placed])
  BY <1>3, <1>4, HooksOf
<1> QED BY <1>1, <1>5 DEF placed

\* A file's hooks after unwiring.
LEMMA UnwiredHooks ==
  ASSUME NEW f, IsFile(f), IsHooks(f.hooks)
  PROVE  LET E == {x \in DOMAIN f.hooks.at : Usable(f, x) => UnwireEvent(HookGroups(f, x)) # <<>>}
             placed == [e \in E |-> IF Usable(f, e) THEN [ok |-> TRUE, groups |-> UnwireEvent(HookGroups(f, e))]
                                       ELSE f.hooks.at[e]]
         IN /\ Unwire(f).hooks = [ok |-> f.hooks.ok, at |-> placed] /\ IsHooks(Unwire(f).hooks)
            /\ Unwire(f).env = f.env
<1> DEFINE E == {x \in DOMAIN f.hooks.at : Usable(f, x) => UnwireEvent(HookGroups(f, x)) # <<>>}
           placed == [e \in E |-> IF Usable(f, e) THEN [ok |-> TRUE, groups |-> UnwireEvent(HookGroups(f, e))]
                                     ELSE f.hooks.at[e]]
<1>1. Unwire(f) = [f EXCEPT !.hooks.at = placed]
  BY DEF Unwire
<1>2. placed = [e \in E |-> IF Usable(f, e) THEN [ok |-> TRUE, groups |-> UnwireEvent(HookGroups(f, e))]
                               ELSE f.hooks.at[e]]
  OBVIOUS
<1> HIDE DEF E, placed
<1>3. Unwire(f).hooks = [ok |-> f.hooks.ok, at |-> placed] /\ Unwire(f).env = f.env
  <2> DEFINE hooks == [f.hooks EXCEPT !.at = placed]
  <2>1. Unwire(f) = [f EXCEPT !.hooks = hooks]
    BY <1>1
  <2>2. hooks = [ok |-> f.hooks.ok, at |-> placed]
    BY DEF IsHooks
  <2> HIDE DEF hooks
  <2>3. f = [load |-> f.load, env |-> f.env, hooks |-> f.hooks, managedOnly |-> f.managedOnly]
    BY DEF IsFile
  <2>4. Unwire(f).hooks = hooks /\ Unwire(f).env = f.env
    BY <2>1, <2>3
  <2> QED BY <2>2, <2>4
<1>4. placed = [e \in E |-> placed[e]] /\ E \subseteq Events
  BY <1>2 DEF E, IsHooks
<1>5. ASSUME NEW e \in E
      PROVE  placed[e] = [ok |-> placed[e].ok, groups |-> placed[e].groups] /\ placed[e].groups \in Seq(Group)
  <2>1. CASE Usable(f, e)
    <3> DEFINE w == UnwireEvent(HookGroups(f, e))
    <3>1. HookGroups(f, e) \in Seq(Group)
      BY GroupsOf
    <3>2. w \in Seq(Group)
      BY <3>1, EventUnwired
    <3>3. placed[e] = [ok |-> TRUE, groups |-> w]
      BY <1>2, <2>1
    <3> HIDE DEF w
    <3> QED BY <3>2, <3>3
  <2>2. CASE ~Usable(f, e)
    <3>1. placed[e] = f.hooks.at[e] /\ e \in DOMAIN f.hooks.at
      BY <1>2, <2>2 DEF Usable
    <3> QED BY <3>1 DEF IsHooks, Group
  <2> QED BY <2>1, <2>2
<1>6. IsHooks([ok |-> f.hooks.ok, at |-> placed])
  BY <1>4, <1>5, HooksOf
<1> QED BY <1>3, <1>6 DEF placed, E

LEMMA InitHooks == WInit => HooksStand
<1> SUFFICES ASSUME WInit PROVE HooksStand
  OBVIOUS
<1>1. PICK start \in Starts : files = start.files /\ activeEvents = start.active
  BY DEF WInit
<1>2. command.at = "done"
  BY DEF WInit, Resting
<1> QED BY <1>1, <1>2, WiringAssumption DEF HooksStand

\* A command begins, with a file to write whose hooks are in shape or with nothing.
LEMMA BegunHooks ==
  ASSUME HooksStand, UNCHANGED <<files, activeEvents>>, NEW name, NEW scope,
         \/ command' = Begun(name, scope)
         \/ IsHooks(command'.held.hooks)
  PROVE  HooksStand'
<1>1. command' = Begun(name, scope) => command'.at = "done"
  BY DEF Begun, Resting
<1> QED BY <1>1 DEF HooksStand

\* What a command found in shape it holds in shape.
LEMMA CommandHooks ==
  ASSUME HInv, (\E scope \in {"user", "project"} : InitCommand(scope) \/ RemoveCommand(scope)) \/ InsertCommand
  PROVE  HooksStand'
<1>0. /\ \A s \in Scopes : IsFile(files[s]) /\ IsHooks(files[s].hooks)
      /\ activeEvents \in SUBSET Events /\ FilesStand /\ HooksStand
  BY DEF HInv, WInv, FilesStand, HooksStand
<1>1. ASSUME NEW scope \in {"user", "project"}, InitCommand(scope) PROVE HooksStand'
  <2> DEFINE w == Wire(files[scope], scope = "user", activeEvents)
  <2>1. IsHooks(w.hooks)
    <3>1. scope \in Scopes /\ (scope = "user") \in BOOLEAN
      BY TheScopes
    <3> QED BY <1>0, <3>1, WiredHooks
  <2>2. /\ UNCHANGED <<files, activeEvents>>
        /\ \/ command' = Begun("init", scope)
           \/ command' = [Begun("init", scope) EXCEPT !.at = "write", !.held = w]
    BY <1>1 DEF InitCommand, Starting
  <2> HIDE DEF w
  <2>3. [Begun("init", scope) EXCEPT !.at = "write", !.held = w].held = w
    BY DEF Begun, Resting
  <2> QED BY <1>0, <2>1, <2>2, <2>3, BegunHooks
<1>2. ASSUME NEW scope \in {"user", "project"}, RemoveCommand(scope) PROVE HooksStand'
  <2> DEFINE w == Unwire(files[scope])
  <2>1. IsHooks(w.hooks)
    <3>1. scope \in Scopes
      BY TheScopes
    <3> QED BY <1>0, <3>1, UnwiredHooks
  <2>2. /\ UNCHANGED <<files, activeEvents>>
        /\ \/ command' = Begun("remove", scope)
           \/ command' = [Begun("remove", scope) EXCEPT !.at = "write", !.held = w]
    BY <1>2 DEF RemoveCommand, Starting
  <2> HIDE DEF w
  <2>3. [Begun("remove", scope) EXCEPT !.at = "write", !.held = w].held = w
    BY DEF Begun, Resting
  <2> QED BY <1>0, <2>1, <2>2, <2>3, BegunHooks
<1>3. CASE InsertCommand
  <2> DEFINE scope == EffectiveSource(files, "endpoint")
             w == Wire(files[scope], TRUE, activeEvents)
             content == [w EXCEPT !.env.set = Repoint(@)]
  <2>1. UNCHANGED <<files, activeEvents>>
    BY <1>3 DEF InsertCommand, Starting
  <2>2. CASE command' = Begun("insert", scope)
    BY <1>0, <2>1, <2>2, BegunHooks
  <2>3. CASE /\ scope \notin {"none", "managed", "process"}
             /\ command' = [Begun("insert", scope) EXCEPT !.at = "load",
                              !.endpoint = Effective(files, "endpoint"),
                              !.headers = IF Has(files, "headers") THEN {Effective(files, "headers")} ELSE {},
                              !.held = content]
    <3>1. scope = "user"
      BY <1>0, <2>3, UserScope
    <3>2. IsHooks(w.hooks) /\ IsFile(w)
      <4>1. IsFile(files[scope]) /\ IsHooks(files[scope].hooks)
        BY <1>0, <3>1, TheScopes
      <4> QED BY <1>0, <4>1, WiredHooks, WiredFile
    <3>3. content.hooks = w.hooks
      <4> DEFINE env == [w.env EXCEPT !.set = Repoint(@)]
      <4>1. content = [w EXCEPT !.env = env]
        BY Zenon
      <4> HIDE DEF content, w, env
      <4>2. w = [load |-> w.load, env |-> w.env, hooks |-> w.hooks, managedOnly |-> w.managedOnly]
        BY <3>2 DEF IsFile
      <4> QED BY <4>1, <4>2
    <3> HIDE DEF content, w
    <3>4. command'.held = content
      BY <2>3 DEF Begun, Resting
    <3> QED BY <1>0, <2>1, <3>2, <3>3, <3>4, BegunHooks
  <2>4. \/ command' = Begun("insert", scope)
        \/ /\ scope \notin {"none", "managed", "process"}
           /\ command' = [Begun("insert", scope) EXCEPT !.at = "load",
                            !.endpoint = Effective(files, "endpoint"),
                            !.headers = IF Has(files, "headers") THEN {Effective(files, "headers")} ELSE {},
                            !.held = content]
    BY <1>3, Zenon DEF InsertCommand
  <2> QED BY <2>2, <2>3, <2>4
<1> QED BY <1>1, <1>2, <1>3

\* A command that is under way holds what it held.
LEMMA HeldHooks ==
  ASSUME HInv, LoadExport \/ RereadSettings \/ SaveExport \/ WriteSettings \/ CommandFails
  PROVE  HooksStand'
<1>0. HooksStand /\ CommandStands /\ activeEvents' = activeEvents
  BY DEF HInv, WInv, LoadExport, RereadSettings, SaveExport, WriteSettings, CommandFails
<1>1. command'.at # "done" => command.at # "done" /\ command'.held = command.held
  <2>1. CASE LoadExport
    <3>1. command.at = "load" /\ \E step, targets : command' = [command EXCEPT !.at = step, !.targets = targets]
                                                   \/ command' = [command EXCEPT !.at = "done"]
      BY <2>1, Zenon DEF LoadExport
    <3> QED BY <1>0, <3>1 DEF CommandStands
  <2>2. CASE RereadSettings \/ SaveExport
    <3>1. command.at \in Saving /\ \E step : command' = [command EXCEPT !.at = step]
      BY <2>2 DEF RereadSettings, SaveExport, Saving
    <3> QED BY <1>0, <3>1 DEF CommandStands, Saving
  <2>3. CASE WriteSettings
    <3>1. \/ command' = [command EXCEPT !.at = Steps["write"], !.inserted = TRUE]
          \/ command' = [command EXCEPT !.at = "done"]
      BY <2>3 DEF WriteSettings
    <3>2. Steps["write"] = "done"
      BY DEF Steps
    <3> QED BY <1>0, <3>1, <3>2 DEF CommandStands
  <2>4. CASE CommandFails
    BY <1>0, <2>4 DEF CommandFails, CommandStands
  <2> QED BY <2>1, <2>2, <2>3, <2>4
<1>2. \A s \in Scopes : IsHooks(files'[s].hooks)
  <2>1. CASE WriteSettings
    <3>1. files' = [files EXCEPT ![command.scope] = command.held] /\ IsHooks(command.held.hooks)
      BY <1>0, <2>1 DEF WriteSettings, HooksStand
    <3>2. \A s \in Scopes : files'[s] = files[s] \/ files'[s] = command.held
      BY <3>1, Zenon DEF HInv, WInv, FilesStand
    <3> QED BY <1>0, <3>1, <3>2 DEF HooksStand
  <2>2. CASE ~WriteSettings
    <3>1. files' = files
      BY <2>2 DEF LoadExport, RereadSettings, SaveExport, CommandFails
    <3> QED BY <1>0, <3>1 DEF HooksStand
  <2> QED BY <2>1, <2>2
<1> QED BY <1>0, <1>1, <1>2 DEF HooksStand

\* Upgrading renames entries.
LEMMA UpgradedHooks ==
  ASSUME HInv, NEW events \in SUBSET Events, Upgrade(events), NEW s \in Scopes
  PROVE  IsHooks(files'[s].hooks)
<1> DEFINE f == files[s]
           placed == Outdated(f.hooks.at)
           hooks == [f.hooks EXCEPT !.at = placed]
<1>1. IsFile(f) /\ IsHooks(f.hooks)
  BY DEF HInv, WInv, FilesStand, HooksStand
<1>2. files'[s] = [f EXCEPT !.hooks = hooks]
  <2>1. files'[s] = [files[s] EXCEPT !.hooks.at = placed]
    BY DEF Upgrade
  <2> HIDE DEF placed
  <2> QED BY <2>1
<1>3. ASSUME NEW e \in DOMAIN f.hooks.at
      PROVE  placed[e] = [ok |-> placed[e].ok, groups |-> placed[e].groups] /\ placed[e].groups \in Seq(Group)
  <2> DEFINE gs == f.hooks.at[e].groups
             renamed == [i \in DOMAIN gs |-> [j \in DOMAIN gs[i] |->
                           IF gs[i][j] = "mine" THEN "stale" ELSE gs[i][j]]]
  <2>1. gs \in Seq(Group) /\ f.hooks.at[e] = [ok |-> f.hooks.at[e].ok, groups |-> gs]
    BY <1>1 DEF IsHooks, Group
  <2>2. placed[e] = [f.hooks.at[e] EXCEPT !.groups = renamed]
    BY DEF Outdated
  <2> HIDE DEF placed
  <2>3. renamed \in Seq(Group)
    <3> HIDE DEF gs
    <3>1. "stale" \in HookEntry
      BY DEF HookEntry, Ours
    <3>2. ASSUME NEW i \in DOMAIN gs PROVE renamed[i] \in Group
      <4> DEFINE g == gs[i]
      <4>1. g \in Seq(HookEntry)
        BY <2>1, <3>2 DEF Group
      <4>2. renamed[i] = [j \in DOMAIN g |-> IF g[j] = "mine" THEN "stale" ELSE g[j]]
        OBVIOUS
      <4> HIDE DEF g, renamed
      <4>3. DOMAIN g = 1..Len(g) /\ Len(g) \in Nat /\ \A j \in DOMAIN g : g[j] \in HookEntry
        BY <4>1
      <4>4. [j \in 1..Len(g) |-> IF g[j] = "mine" THEN "stale" ELSE g[j]] \in Seq(HookEntry)
        BY <3>1, <4>3
      <4> QED BY <4>2, <4>3, <4>4 DEF Group
    <3>3. DOMAIN gs = 1..Len(gs) /\ Len(gs) \in Nat
      BY <2>1
    <3>4. renamed = [i \in 1..Len(gs) |-> renamed[i]]
      BY <3>3
    <3> HIDE DEF renamed
    <3> QED BY <3>2, <3>3, <3>4
  <2> HIDE DEF renamed, gs
  <2>4. placed[e] = [ok |-> f.hooks.at[e].ok, groups |-> renamed]
    BY <2>1, <2>2
  <2> QED BY <2>3, <2>4
<1>4. DOMAIN f.hooks.at \subseteq Events
  BY <1>1 DEF IsHooks
<1>5. placed = [e \in DOMAIN f.hooks.at |-> placed[e]]
  BY DEF Outdated
<1>6. hooks = [ok |-> f.hooks.ok, at |-> placed]
  <2> HIDE DEF placed
  <2> QED BY <1>1 DEF IsHooks
<1> HIDE DEF placed
<1>7. IsHooks(hooks)
  BY <1>3, <1>4, <1>5, <1>6, HooksOf
<1> HIDE DEF hooks
<1>8. files'[s].hooks = hooks
  BY <1>1, <1>2 DEF IsFile
<1> QED BY <1>7, <1>8

LEMMA EditsHooks ==
  ASSUME HInv,
         \/ \E e \in Endpoints : EditEndpoint(e)
         \/ \E parses \in BOOLEAN, section \in ConfigEdits : EditConfig(parses, section)
         \/ \E events \in SUBSET Events : Upgrade(events)
  PROVE  HooksStand'
<1>0. HooksStand /\ CommandStands /\ FilesStand
  BY DEF HInv, WInv
<1>1. Edited
  BY DEF EditEndpoint, EditConfig, Upgrade
<1>2. command'.at = command.at /\ command'.held = command.held
  BY <1>0, <1>1 DEF Edited, CommandStands
<1>3. ASSUME NEW e \in Endpoints, EditEndpoint(e) PROVE HooksStand'
  <2> DEFINE f == files["user"]
  <2>1. activeEvents' = activeEvents /\ \E env : files' = [files EXCEPT !["user"] = [f EXCEPT !.env = env]]
    BY <1>3, Zenon DEF EditEndpoint
  <2>2. PICK env : files' = [files EXCEPT !["user"] = [f EXCEPT !.env = env]]
    BY <2>1
  <2>3. [f EXCEPT !.env = env].hooks = f.hooks
    BY <1>0, TheScopes DEF FilesStand, IsFile
  <2>4. \A s \in Scopes : files'[s].hooks = files[s].hooks
    BY <1>0, <2>2, <2>3, Zenon DEF FilesStand
  <2> QED BY <1>0, <1>2, <2>1, <2>4 DEF HooksStand
<1>4. CASE \E parses \in BOOLEAN, section \in ConfigEdits : EditConfig(parses, section)
  BY <1>0, <1>2, <1>4 DEF EditConfig, HooksStand
<1>5. ASSUME NEW events \in SUBSET Events, Upgrade(events) PROVE HooksStand'
  <2>1. activeEvents' = events
    BY <1>5 DEF Upgrade
  <2>2. \A s \in Scopes : IsHooks(files'[s].hooks)
    BY <1>5, UpgradedHooks
  <2> QED BY <1>0, <1>2, <2>1, <2>2 DEF HooksStand
<1> QED BY <1>3, <1>4, <1>5

LEMMA NextHooks == HInv /\ [WNext]_wvars => HooksStand'
<1> SUFFICES ASSUME HInv, [WNext]_wvars PROVE HooksStand'
  OBVIOUS
<1>1. CASE UNCHANGED wvars
  BY <1>1 DEF wvars, HInv, HooksStand
<1>2. CASE WNext
  BY <1>2, CommandHooks, HeldHooks, EditsHooks DEF WNext
<1> QED BY <1>1, <1>2
-----------------------------------------------------------------------------
(* Wiring converges, and unwiring undoes it.                               *)

\* A file's events are what they are.
LEMMA HooksShape == ASSUME NEW hooks, IsHooks(hooks) PROVE hooks.at = [e \in DOMAIN hooks.at |-> hooks.at[e]]
<1> DEFINE D == DOMAIN hooks.at
           rebuilt == [e \in D |-> [ok |-> hooks.at[e].ok, groups |-> hooks.at[e].groups]]
<1>1. hooks.at = rebuilt
  BY DEF IsHooks
<1>2. rebuilt = [e \in D |-> rebuilt[e]]
  OBVIOUS
<1> HIDE DEF rebuilt
<1> QED BY <1>1, <1>2

\* An event of a file that could be wired, before and after.
EventStands(f, w, events, e) ==
  /\ Usable(w, e) <=> Usable(f, e)
  /\ e \in DOMAIN w.hooks.at <=> Keeps(f, e, events)
  /\ Usable(f, e) => /\ e \in events => Settled(HookGroups(w, e), TRUE)
                     /\ e \in events => Once(HookGroups(f, e), HookGroups(w, e))
                     /\ e \notin events => Settled(HookGroups(w, e), FALSE)
                     /\ Same(HookGroups(w, e), HookGroups(f, e))
                     /\ e \in DOMAIN w.hooks.at =>
                         w.hooks.at[e] = [ok |-> TRUE, groups |-> HookGroups(w, e)]
  /\ ~Usable(f, e) => /\ e \in DOMAIN w.hooks.at /\ e \in DOMAIN f.hooks.at
                      /\ w.hooks.at[e] = f.hooks.at[e]

LEMMA WiredEvent ==
  ASSUME NEW f, IsFile(f), IsHooks(f.hooks), NEW events \in SUBSET Events, ~Broken(f, TRUE, events),
         NEW e \in Events
  PROVE  EventStands(f, Wire(f, TRUE, events), events, e)
<1> DEFINE w == Wire(f, TRUE, events)
<1> DEFINE placed == WireHooks(f, events)
           gs == HookGroups(f, e)
           new == WireEvent(gs, e \in events)
<1>0. w.hooks = [ok |-> f.hooks.ok, at |-> placed]
  BY WiredHooks
<1>2. /\ e \in DOMAIN placed <=> Keeps(f, e, events)
      /\ e \in DOMAIN placed => placed[e] = IF Usable(f, e) THEN [ok |-> TRUE, groups |-> new] ELSE f.hooks.at[e]
  BY DEF WireHooks
<1>3. gs \in Seq(Group) /\ (e \in events) \in BOOLEAN
  BY GroupsOf
<1>4. /\ e \in events => Settled(new, TRUE)
      /\ e \in events => Once(gs, new)
      /\ e \notin events => Settled(new, FALSE)
      /\ Same(new, gs)
  <2>1. Settled(new, e \in events) /\ Same(new, gs)
    BY <1>3, EventWired
  <2>2. e \in events => (e \in events) = TRUE
    OBVIOUS
  <2>3. e \notin events => (e \in events) = FALSE
    OBVIOUS
  <2>4. e \in events => Once(gs, new)
    <3>1. Once(gs, WireEvent(gs, TRUE))
      BY <1>3, EventOnce
    <3> HIDE DEF gs
    <3> QED BY <2>2, <3>1
  <2> HIDE DEF new
  <2> QED BY <2>1, <2>2, <2>3, <2>4
<1>5. ~Usable(f, e) => e \notin events /\ e \in DOMAIN f.hooks.at /\ ~f.hooks.at[e].ok
  BY DEF Broken, Usable
<1> HIDE DEF placed, new, gs, w
<1>1. w.hooks.at = placed
  BY <1>0
<1>6. ASSUME ~Usable(f, e) PROVE EventStands(f, w, events, e)
  <2>1. e \in DOMAIN placed /\ placed[e] = f.hooks.at[e]
    BY <1>2, <1>5, <1>6 DEF Keeps
  <2>2. ~Usable(w, e)
    BY <1>1, <1>5, <1>6, <2>1 DEF Usable
  <2> QED BY <1>1, <1>2, <1>5, <1>6, <2>1, <2>2 DEF EventStands
<1>7. ASSUME Usable(f, e) /\ e \in DOMAIN placed PROVE EventStands(f, w, events, e)
  <2>1. placed[e] = [ok |-> TRUE, groups |-> new]
    BY <1>2, <1>7
  <2>2. Usable(w, e) /\ HookGroups(w, e) = new
    <3>1. e \in DOMAIN w.hooks.at /\ w.hooks.at[e].ok /\ w.hooks.at[e].groups = new
      BY <1>1, <1>7, <2>1
    <3> QED BY <3>1 DEF Usable, HookGroups
  <2> QED BY <1>1, <1>2, <1>4, <1>7, <2>1, <2>2 DEF gs, EventStands
<1>8. ASSUME Usable(f, e) /\ e \notin DOMAIN placed PROVE EventStands(f, w, events, e)
  <2>1. e \notin events /\ (e \in DOMAIN f.hooks.at => WireEvent(gs, FALSE) = <<>>)
    BY <1>2, <1>8 DEF Keeps, gs
  <2>2. Usable(w, e) /\ HookGroups(w, e) = <<>>
    BY <1>1, <1>8 DEF Usable, HookGroups
  <2>3. Same(<<>>, gs)
    <3>1. CASE e \in DOMAIN f.hooks.at
      <4>1. (e \in events) = FALSE
        BY <2>1
      <4>2. new = <<>>
        BY <2>1, <3>1, <4>1 DEF new
      <4> QED BY <1>4, <4>2
    <3>2. CASE e \notin DOMAIN f.hooks.at
      BY <3>2 DEF gs, HookGroups, Same
    <3> QED BY <3>1, <3>2
  <2>4. Settled(<<>>, FALSE)
    <3>1. <<>> \in Seq(Group) /\ DOMAIN <<>> = {}
      OBVIOUS
    <3> QED BY <2>1, <3>1 DEF Settled
  <2>5. e \notin DOMAIN w.hooks.at /\ ~Keeps(f, e, events)
    BY <1>1, <1>2, <1>8
  <2>6. Settled(HookGroups(w, e), FALSE) /\ Same(HookGroups(w, e), HookGroups(f, e))
    BY <2>2, <2>3, <2>4 DEF gs
  <2> QED BY <1>8, <2>1, <2>2, <2>5, <2>6 DEF EventStands
<1>9. EventStands(f, w, events, e)
  BY <1>6, <1>7, <1>8
<1> QED BY <1>9 DEF w

\* A file wired twice is as it was wired once.
LEMMA WiredTwice ==
  ASSUME NEW f, IsFile(f), IsHooks(f.hooks), NEW events \in SUBSET Events, ~Broken(f, TRUE, events),
         NEW w, w = Wire(f, TRUE, events)
  PROVE  Wire(w, TRUE, events) = w /\ ~EnvChanged(w, TRUE) /\ ~EventsChanged(w, events)
<1> DEFINE v == Wire(w, TRUE, events)
           placed == WireHooks(f, events)
<1>0. \A e \in Events : EventStands(f, w, events, e)
  BY WiredEvent
<1>1. /\ IsFile(w) /\ w.load = "found" /\ w.env.ok = f.env.ok /\ w.env.set = WireEnv(f.env.set)
      /\ IsHooks(w.hooks) /\ w.hooks = [ok |-> f.hooks.ok, at |-> placed]
  BY WiredFile, WiredHooks
<1>2. /\ IsFile(v) /\ v.load = "found" /\ v.env.ok = w.env.ok /\ v.env.set = WireEnv(w.env.set)
      /\ v.managedOnly = w.managedOnly /\ v.hooks = [ok |-> w.hooks.ok, at |-> WireHooks(w, events)]
  BY <1>1, WiredFile, WiredHooks
<1>3. WireEnv(w.env.set) = w.env.set
  BY <1>1 DEF WireEnv
<1>4. WireHooks(w, events) = w.hooks.at
  <2> DEFINE E == {x \in Events : Keeps(w, x, events)}
             again == [e \in E |-> IF Usable(w, e)
                         THEN [ok |-> TRUE, groups |-> WireEvent(HookGroups(w, e), e \in events)]
                         ELSE w.hooks.at[e]]
  <2>1. WireHooks(w, events) = again
    BY DEF WireHooks
  <2>2. w.hooks.at = [e \in DOMAIN w.hooks.at |-> w.hooks.at[e]] /\ DOMAIN w.hooks.at \subseteq Events
    BY <1>1, HooksShape DEF IsHooks
  <2>3. ASSUME NEW e \in Events PROVE Keeps(w, e, events) <=> e \in DOMAIN w.hooks.at
    <3>1. /\ Usable(w, e) <=> Usable(f, e)
          /\ e \in DOMAIN w.hooks.at <=> Keeps(f, e, events)
          /\ Usable(f, e) /\ e \notin events => Settled(HookGroups(w, e), FALSE)
          /\ ~Usable(f, e) => e \in DOMAIN w.hooks.at
      <4>1. EventStands(f, w, events, e)
        BY <1>0
      <4> QED BY <4>1 DEF EventStands
    <3>2. CASE e \in events
      BY <3>1, <3>2 DEF Keeps
    <3>3. CASE e \notin events /\ Usable(f, e)
      <4>1. Strip(HookGroups(w, e), FALSE) = HookGroups(w, e)
        BY <3>1, <3>3, SettledStays
      <4> QED BY <3>1, <3>3, <4>1 DEF Keeps
    <3>4. CASE ~Usable(f, e)
      BY <3>1, <3>4 DEF Keeps
    <3> QED BY <3>2, <3>3, <3>4
  <2>4. E = DOMAIN w.hooks.at
    BY <2>2, <2>3
  <2>5. ASSUME NEW e \in E PROVE again[e] = w.hooks.at[e]
    <3>1. e \in Events /\ e \in DOMAIN w.hooks.at
      BY <2>2, <2>4
    <3>2. /\ Usable(w, e) <=> Usable(f, e)
          /\ Usable(f, e) => /\ e \in events => Settled(HookGroups(w, e), TRUE)
                             /\ e \notin events => Settled(HookGroups(w, e), FALSE)
                             /\ w.hooks.at[e] = [ok |-> TRUE, groups |-> HookGroups(w, e)]
      <4>1. EventStands(f, w, events, e)
        BY <1>0, <3>1
      <4> QED BY <3>1, <4>1 DEF EventStands
    <3>3. Usable(f, e) => WireEvent(HookGroups(w, e), e \in events) = HookGroups(w, e)
      <4>1. CASE e \in events
        <5>1. (e \in events) = TRUE
          BY <4>1
        <5> QED BY <3>2, <4>1, <5>1, SettledStays
      <4>2. CASE e \notin events
        <5>1. (e \in events) = FALSE
          BY <4>2
        <5> QED BY <3>2, <4>2, <5>1, SettledStays
      <4> QED BY <4>1, <4>2
    <3> QED BY <3>2, <3>3
  <2> HIDE DEF E
  <2>6. again = [e \in E |-> again[e]]
    OBVIOUS
  <2> HIDE DEF again
  <2>7. [e \in E |-> again[e]] = [e \in E |-> w.hooks.at[e]]
    BY <2>5
  <2> QED BY <2>1, <2>2, <2>4, <2>6, <2>7
<1>5. v = w
  <2> HIDE DEF v, placed
  <2>1. v.env = w.env
    BY <1>1, <1>2, <1>3 DEF IsFile
  <2>2. v.hooks = w.hooks
    BY <1>1, <1>2, <1>4
  <2> QED BY <1>1, <1>2, <2>1, <2>2 DEF IsFile
<1>6. ~EnvChanged(w, TRUE)
  BY <1>1 DEF EnvChanged, WireEnv
<1>7. ASSUME NEW e \in Events, Usable(w, e)
      PROVE  /\ Strip(HookGroups(w, e), e \in events) = HookGroups(w, e)
             /\ e \in events => \E i \in DOMAIN HookGroups(w, e) : "mine" \in ToSet(HookGroups(w, e)[i])
  <2>1. /\ e \in events => Settled(HookGroups(w, e), TRUE)
        /\ e \notin events => Settled(HookGroups(w, e), FALSE)
    <3>1. EventStands(f, w, events, e)
      BY <1>0
    <3> QED BY <1>7, <3>1 DEF EventStands
  <2>2. CASE e \in events
    <3>1. (e \in events) = TRUE
      BY <2>2
    <3> QED BY <2>1, <2>2, <3>1, SettledStays DEF Settled
  <2>3. CASE e \notin events
    <3>1. (e \in events) = FALSE
      BY <2>3
    <3> QED BY <2>1, <2>3, <3>1, SettledStays
  <2> QED BY <2>2, <2>3
<1>8. ~EventsChanged(w, events)
  BY <1>7 DEF EventsChanged
<1> QED BY <1>5, <1>6, <1>8

\* Only the user's file w says anything, so that every scope is honored.
SpeaksAlone(w, alone) ==
  /\ ~ManagedOnly(alone) /\ Honored(alone) = Scopes /\ alone["user"] = w
  /\ \A e : WiredIn(alone, e, Scopes) = IF WiresOurs(w, e) THEN {"user"} ELSE {}

\* What the file says is all there is to say.
LEMMA Alone ==
  ASSUME NEW w, w.load = "found", NEW alone, alone = [s \in Scopes |-> IF s = "user" THEN w ELSE Empty]
  PROVE  SpeaksAlone(w, alone)
<1>1. alone["user"] = w /\ \A s \in Scopes \ {"user"} : alone[s] = Empty
  BY TheScopes
<1>2. Empty.load # "found"
  BY DEF Empty
<1>3. ~ManagedOnly(alone)
  BY <1>1, <1>2, TheScopes DEF ManagedOnly
<1>4. ASSUME NEW e PROVE WiredIn(alone, e, Scopes) = IF WiresOurs(w, e) THEN {"user"} ELSE {}
  <2>1. "user" \in Scopes
    BY TheScopes
  <2> QED BY <1>1, <1>2, <2>1 DEF WiredIn
<1>5. Honored(alone) = Scopes
  BY <1>3 DEF Honored
<1> QED BY <1>1, <1>3, <1>4, <1>5 DEF SpeaksAlone

\* What doctor reads in the settings `alone` once their only file f was wired into w.
Reads(f, w, events, alone) ==
  /\ \A e \in events : EventWiring(alone, e) = "concurrent"
  /\ \A e \in events : Once(HookGroups(f, e), HookGroups(w, e))
  /\ \A e \in Events \ events : Usable(f, e) => EventWiring(alone, e) = "missing"
  /\ SameTheirs(f, w) /\ WiredCommands(alone) \subseteq {"ours"}
  /\ \A e \in events : WiresOurs(w, e)

\* The diagnosis of a wired file.
LEMMA Diagnosed ==
  ASSUME NEW f, IsFile(f), IsHooks(f.hooks), NEW events \in SUBSET Events, ~Broken(f, TRUE, events),
         NEW w, w = Wire(f, TRUE, events),
         NEW alone, alone = [s \in Scopes |-> IF s = "user" THEN w ELSE Empty]
  PROVE  Reads(f, w, events, alone)
<1>0. \A e \in Events : EventStands(f, w, events, e)
  BY WiredEvent
<1>1. w.load = "found"
  BY WiredFile
<1>2. /\ ~ManagedOnly(alone) /\ Honored(alone) = Scopes /\ alone["user"] = w
      /\ \A e : WiredIn(alone, e, Scopes) = IF WiresOurs(w, e) THEN {"user"} ELSE {}
  <2>1. SpeaksAlone(w, alone)
    BY <1>1, Alone
  <2> QED BY <2>1 DEF SpeaksAlone
<1>3. ASSUME NEW e \in events
      PROVE  /\ EventWiring(alone, e) = "concurrent" /\ WiresOurs(w, e)
             /\ Once(HookGroups(f, e), HookGroups(w, e))
  <2>1. Usable(w, e) /\ Settled(HookGroups(w, e), TRUE) /\ Once(HookGroups(f, e), HookGroups(w, e))
    <3>1. Usable(f, e)
      BY <1>3 DEF Broken, Usable
    <3>2. EventStands(f, w, events, e)
      BY <1>0, <1>3
    <3> QED BY <1>3, <3>1, <3>2 DEF EventStands
  <2>2. WiresOurs(w, e)
    BY <2>1 DEF Settled, WiresOurs, Ours
  <2>3. ~\E i \in DOMAIN HookGroups(w, e) : "sync" \in ToSet(HookGroups(w, e)[i])
    <3>1. "sync" \in Stripped(TRUE)
      BY DEF Stripped, Ours
    <3> QED BY <2>1, <3>1 DEF Settled
  <2>4. WiredIn(alone, e, Honored(alone)) = {"user"}
    BY <1>2, <2>2
  <2> QED BY <1>2, <2>1, <2>2, <2>3, <2>4 DEF EventWiring
<1>4. ASSUME NEW e \in Events \ events, Usable(f, e) PROVE EventWiring(alone, e) = "missing"
  <2>1. Settled(HookGroups(w, e), FALSE)
    <3>1. EventStands(f, w, events, e)
      BY <1>0
    <3> QED BY <1>4, <3>1 DEF EventStands
  <2>2. ~WiresOurs(w, e)
    BY <2>1 DEF Settled, WiresOurs, Stripped
  <2>3. WiredIn(alone, e, Honored(alone)) = {}
    BY <1>2, <2>2
  <2> QED BY <2>3 DEF EventWiring
<1>5. SameTheirs(f, w)
  <2>1. ASSUME NEW e \in Events, Usable(f, e) PROVE Same(HookGroups(w, e), HookGroups(f, e))
    <3>1. EventStands(f, w, events, e)
      BY <1>0, <2>1
    <3> QED BY <2>1, <3>1 DEF EventStands
  <2> QED BY <2>1 DEF SameTheirs, Same, Theirs, TheirsIn
<1>6. ASSUME NEW e \in Events, NEW s \in WiredIn(alone, e, Honored(alone)),
             "stale" \in ToSet(FlattenSeq(HookGroups(alone[s], e)))
      PROVE  FALSE
  <2> DEFINE gs == HookGroups(w, e)
  <2>1. s = "user" /\ WiresOurs(w, e)
    <3>1. WiredIn(alone, e, Honored(alone)) = IF WiresOurs(w, e) THEN {"user"} ELSE {}
      BY <1>2
    <3> QED BY <1>6, <3>1
  <2>2. Settled(gs, TRUE) \/ Settled(gs, FALSE)
    <3>1. EventStands(f, w, events, e)
      BY <1>0
    <3>2. Usable(w, e)
      BY <2>1 DEF WiresOurs
    <3> HIDE DEF gs
    <3> QED BY <3>1, <3>2 DEF EventStands, gs
  <2>3. "stale" \in ToSet(FlattenSeq(gs))
    BY <1>2, <1>6, <2>1
  <2> HIDE DEF gs
  <2>4. gs \in Seq(Group)
    BY <2>2 DEF Settled
  <2>5. PICK g \in ToSet(gs) : "stale" \in ToSet(g)
    BY <2>3, <2>4, FlattenFits DEF Flat
  <2>6. "stale" \in Stripped(TRUE) /\ "stale" \in Stripped(FALSE)
    BY DEF Stripped, Ours
  <2>7. PICK i \in DOMAIN gs : g = gs[i]
    BY <2>5 DEF ToSet
  <2> QED BY <2>2, <2>5, <2>6, <2>7 DEF Settled
<1>7. WiredCommands(alone) \subseteq {"ours"}
  <2> DEFINE written == UNION {UNION {ToSet(FlattenSeq(HookGroups(alone[s], e)))
                                      : s \in WiredIn(alone, e, Honored(alone))} : e \in Events}
  <2>1. "stale" \notin written
    <3> SUFFICES ASSUME "stale" \in written PROVE FALSE
      OBVIOUS
    <3>1. PICK e \in Events :
            "stale" \in UNION {ToSet(FlattenSeq(HookGroups(alone[s], e)))
                              : s \in WiredIn(alone, e, Honored(alone))}
      OBVIOUS
    <3>2. PICK s \in WiredIn(alone, e, Honored(alone)) : "stale" \in ToSet(FlattenSeq(HookGroups(alone[s], e)))
      BY <3>1
    <3> QED BY <1>6, <3>2
  <2>2. WiredCommands(alone) = {IF x = "stale" THEN "another" ELSE "ours" : x \in Ours \cap written}
    BY DEF WiredCommands
  <2> HIDE DEF written
  <2> QED BY <2>1, <2>2
<1> QED BY <1>3, <1>4, <1>5, <1>7 DEF Reads

\* The diagnosis where managed settings allow only their own hooks.
LEMMA Blocked ==
  ASSUME NEW w, w.load = "found", NEW only,
         only = [[s \in Scopes |-> IF s = "user" THEN w ELSE Empty]
                   EXCEPT !["managed"] = [Empty EXCEPT !.load = "found", !.managedOnly = TRUE]]
  PROVE  /\ \A e \in Events : EventWiring(only, e) = "missing"
         /\ WiredCommands(only) = {}
         /\ (\E e \in Events : WiresOurs(w, e)) => WiredButBlocked(only)
<1> DEFINE managed == [Empty EXCEPT !.load = "found", !.managedOnly = TRUE]
<1>1. only["managed"] = managed /\ only["user"] = w
  BY TheScopes
<1>2. managed.load = "found" /\ managed.managedOnly /\ managed.hooks.at = <<>>
  BY DEF Empty
<1> HIDE DEF managed
<1>3. ManagedOnly(only) /\ Honored(only) = {"managed"}
  BY <1>1, <1>2 DEF ManagedOnly, Honored
<1>4. ASSUME NEW e PROVE ~WiresOurs(managed, e)
  <2>1. DOMAIN <<>> = {}
    OBVIOUS
  <2> QED BY <1>2, <2>1 DEF WiresOurs, HookGroups
<1>5. \A e : WiredIn(only, e, Honored(only)) = {}
  BY <1>1, <1>3, <1>4 DEF WiredIn
<1>6. \A e \in Events : EventWiring(only, e) = "missing"
  BY <1>5 DEF EventWiring
<1>7. WiredCommands(only) = {}
  BY <1>5 DEF WiredCommands
<1>8. ASSUME NEW e \in Events, WiresOurs(w, e) PROVE WiredButBlocked(only)
  <2>1. "user" \in WiredIn(only, e, Scopes \ {"managed"})
    BY <1>1, <1>8, TheScopes DEF WiredIn
  <2> QED BY <1>3, <2>1 DEF WiredButBlocked
<1> QED BY <1>6, <1>7, <1>8

\* What Claude Code is configured to by the file alone.
LEMMA Configured ==
  ASSUME NEW w, w.load = "found", w.env.ok, DOMAIN Telemetry \subseteq DOMAIN w.env.set, EnvBlocked(w) = {},
         NEW alone, alone = [s \in Scopes |-> IF s = "user" THEN w ELSE Empty]
  PROVE  LET of(signal, all) ==
               IF Has(alone, signal) THEN Effective(alone, signal) ELSE Effective(alone, all)
         IN /\ Effective(alone, "telemetry") = "1" /\ Effective(alone, "exporter") = "otlp"
            /\ of("signal_endpoint", "endpoint") = Local =>
                 of("signal_protocol", "protocol") = "http/json"
<1> DEFINE set == w.env.set
           K == {"telemetry", "exporter", "endpoint", "signal_endpoint", "protocol", "signal_protocol"}
<1>1. alone["user"] = w /\ \A s \in Scopes \ {"user"} : alone[s] = Empty
  BY TheScopes
<1>2. EnvOf(alone, "user") = set /\ \A s \in Scopes \ {"user"} : EnvOf(alone, s) = <<>>
  <2>1. Empty.load # "found"
    BY DEF Empty
  <2> QED BY <1>1, <2>1 DEF EnvOf
<1>3. DOMAIN <<>> = {}
  OBVIOUS
<1>4. ASSUME NEW k PROVE /\ Says(alone, "user", k) <=> k \in DOMAIN set
                         /\ \A s \in Scopes \ {"user"} : ~Says(alone, s, k)
  BY <1>2, <1>3 DEF Says, Ignored
<1>5. ASSUME NEW k PROVE Source(alone, k) = IF k \in DOMAIN set THEN "user" ELSE "none"
  BY <1>4, SourceIs, TheScopes
<1>6. ASSUME NEW k PROVE ~Hidden(alone, k)
  BY <1>5 DEF Hidden
<1>7. ASSUME NEW k PROVE /\ Has(alone, k) <=> k \in DOMAIN set
                         /\ k \in DOMAIN set => Effective(alone, k) = set[k]
  BY <1>2, <1>5, <1>6 DEF Has, Effective, EffectiveSource
<1>8. {"telemetry", "exporter", "protocol", "endpoint"} \subseteq DOMAIN set
      /\ Telemetry["telemetry"] = "1" /\ Telemetry["exporter"] = "otlp"
  BY DEF Telemetry
<1>9. set["telemetry"] = "1" /\ set["exporter"] = "otlp"
  BY <1>8 DEF EnvBlocked
<1>10. LET endpoint == IF "signal_endpoint" \in DOMAIN set THEN "signal_endpoint" ELSE "endpoint"
           protocol == IF "signal_protocol" \in DOMAIN set THEN "signal_protocol" ELSE "protocol"
       IN set[endpoint] = Local => set[protocol] = "http/json"
  BY <1>8 DEF EnvBlocked
<1> HIDE DEF set
<1>11. Effective(alone, "telemetry") = "1" /\ Effective(alone, "exporter") = "otlp"
  <2>1. "telemetry" \in DOMAIN set => Effective(alone, "telemetry") = set["telemetry"]
    BY <1>7
  <2>2. "exporter" \in DOMAIN set => Effective(alone, "exporter") = set["exporter"]
    BY <1>7
  <2> QED BY <1>8, <1>9, <2>1, <2>2
<1>12. ASSUME NEW signal, NEW all, all \in DOMAIN set
       PROVE  (IF Has(alone, signal) THEN Effective(alone, signal) ELSE Effective(alone, all)) =
              set[IF signal \in DOMAIN set THEN signal ELSE all]
  <2>1. Has(alone, signal) <=> signal \in DOMAIN set
    BY <1>7
  <2>2. signal \in DOMAIN set => Effective(alone, signal) = set[signal]
    BY <1>7
  <2>3. Effective(alone, all) = set[all]
    BY <1>7, <1>12
  <2> QED BY <2>1, <2>2, <2>3
<1> QED BY <1>8, <1>10, <1>11, <1>12

(* Whatever file there is to wire, wiring it converges.                    *)
LEMMA Converges ==
  ASSUME IsFile(files["user"]), IsHooks(files["user"].hooks), activeEvents \in SUBSET Events
  PROVE  WireConverges
<1> DEFINE f == files["user"]
           w == Wire(f, TRUE, activeEvents)
           alone == [s \in Scopes |-> IF s = "user" THEN w ELSE Empty]
           only == [alone EXCEPT !["managed"] = [Empty EXCEPT !.load = "found", !.managedOnly = TRUE]]
           of(signal, all) ==
             IF Has(alone, signal) THEN Effective(alone, signal) ELSE Effective(alone, all)
<1> SUFFICES ASSUME ~Broken(f, TRUE, activeEvents)
    PROVE /\ Wire(w, TRUE, activeEvents) = w /\ ~EnvChanged(w, TRUE) /\ ~EventsChanged(w, activeEvents)
          /\ \A e \in activeEvents : EventWiring(alone, e) = "concurrent"
          /\ \A e \in activeEvents :
               Mine(w, e) = Mine(f, e) \/ (Mine(f, e) = <<>> /\ Mine(w, e) = MyGroup)
          /\ \A e \in Events \ activeEvents : Usable(f, e) => EventWiring(alone, e) = "missing"
          /\ SameTheirs(f, w) /\ WiredCommands(alone) \subseteq {"ours"}
          /\ \A e \in Events : EventWiring(only, e) = "missing"
          /\ WiredCommands(only) = {} /\ (activeEvents # {} => WiredButBlocked(only))
          /\ \A k \in DOMAIN f.env.set : w.env.set[k] = f.env.set[k]
          /\ EnvBlocked(w) = {} =>
               /\ Effective(alone, "telemetry") = "1" /\ Effective(alone, "exporter") = "otlp"
               /\ of("signal_endpoint", "endpoint") = Local =>
                    of("signal_protocol", "protocol") = "http/json"
  BY Zenon DEF WireConverges
<1>1. /\ w.load = "found" /\ w.env.ok = f.env.ok /\ w.env.set = WireEnv(f.env.set)
  BY WiredFile
<1>2. Wire(w, TRUE, activeEvents) = w /\ ~EnvChanged(w, TRUE) /\ ~EventsChanged(w, activeEvents)
  BY WiredTwice
<1>3. /\ \A e \in activeEvents : EventWiring(alone, e) = "concurrent"
      /\ \A e \in Events \ activeEvents : Usable(f, e) => EventWiring(alone, e) = "missing"
      /\ SameTheirs(f, w) /\ WiredCommands(alone) \subseteq {"ours"}
      /\ \A e \in activeEvents : WiresOurs(w, e)
      /\ \A e \in activeEvents : Once(HookGroups(f, e), HookGroups(w, e))
  <2>1. w = Wire(f, TRUE, activeEvents) /\ alone = [s \in Scopes |-> IF s = "user" THEN w ELSE Empty]
    OBVIOUS
  <2>2. IsFile(f) /\ IsHooks(f.hooks) /\ ~Broken(f, TRUE, activeEvents)
    OBVIOUS
  <2> HIDE DEF f, w, alone, only, of
  <2>3. Reads(f, w, activeEvents, alone)
    BY <2>1, <2>2, Diagnosed
  <2> QED BY <2>3 DEF Reads
<1>4. /\ \A e \in Events : EventWiring(only, e) = "missing"
      /\ WiredCommands(only) = {}
      /\ (\E e \in Events : WiresOurs(w, e)) => WiredButBlocked(only)
  BY <1>1, Blocked
<1>5. \A k \in DOMAIN f.env.set : w.env.set[k] = f.env.set[k]
  BY <1>1 DEF WireEnv
<1>6. f.env.ok
  BY DEF Broken
<1>7. DOMAIN Telemetry \subseteq DOMAIN w.env.set
  BY <1>1 DEF WireEnv
<1>8. EnvBlocked(w) = {} =>
        /\ Effective(alone, "telemetry") = "1" /\ Effective(alone, "exporter") = "otlp"
        /\ of("signal_endpoint", "endpoint") = Local =>
             of("signal_protocol", "protocol") = "http/json"
  BY <1>1, <1>6, <1>7, Configured
<1> HIDE DEF w, alone, only, of
<1>9. \A e \in activeEvents :
        Mine(w, e) = Mine(f, e) \/ (Mine(f, e) = <<>> /\ Mine(w, e) = MyGroup)
  BY <1>3 DEF Mine, Once, MineIn, NotMine
<1> QED BY <1>2, <1>3, <1>4, <1>5, <1>8, <1>9

\* Which events are left when a file that could be wired was, and is unwired.
LEMMA UnwiredEvents ==
  ASSUME NEW f, IsFile(f), IsHooks(f.hooks), NEW events \in SUBSET Events, ~Broken(f, TRUE, events)
  PROVE  Unwire(Wire(f, TRUE, events)).hooks = Unwire(f).hooks
<1> DEFINE w == Wire(f, TRUE, events)
           E(g) == {x \in DOMAIN g.hooks.at : Usable(g, x) => UnwireEvent(HookGroups(g, x)) # <<>>}
           placed(g) == [e \in E(g) |-> IF Usable(g, e) THEN [ok |-> TRUE, groups |-> UnwireEvent(HookGroups(g, e))]
                                           ELSE g.hooks.at[e]]
<1>0. \A e \in Events : EventStands(f, w, events, e)
  BY WiredEvent
<1>1. IsFile(w) /\ IsHooks(w.hooks) /\ w.hooks.ok = f.hooks.ok
  <2>1. IsFile(w)
    <3>1. TRUE \in BOOLEAN
      OBVIOUS
    <3> QED BY <3>1, WiredFile
  <2>2. IsHooks(w.hooks) /\ w.hooks = [ok |-> f.hooks.ok, at |-> WireHooks(f, events)]
    <3>1. TRUE \in BOOLEAN
      OBVIOUS
    <3> QED BY <3>1, WiredHooks
  <2> HIDE DEF w
  <2>3. w.hooks.ok = f.hooks.ok
    BY <2>2
  <2> QED BY <2>1, <2>2, <2>3
<1>2. /\ Unwire(w).hooks = [ok |-> w.hooks.ok, at |-> placed(w)]
      /\ Unwire(f).hooks = [ok |-> f.hooks.ok, at |-> placed(f)]
  BY <1>1, UnwiredHooks
<1>3. DOMAIN w.hooks.at \subseteq Events /\ DOMAIN f.hooks.at \subseteq Events
  BY <1>1 DEF IsHooks
<1> HIDE DEF w
<1>4. ASSUME NEW e \in Events
      PROVE  /\ e \in E(w) <=> e \in E(f)
             /\ e \in E(f) => placed(w)[e] = placed(f)[e]
  <2>1. EventStands(f, w, events, e)
    BY <1>0
  <2>2. CASE Usable(f, e)
    <3>1. Usable(w, e) /\ UnwireEvent(HookGroups(w, e)) = UnwireEvent(HookGroups(f, e))
      BY <2>1, <2>2 DEF EventStands, Same
    <3>2. /\ e \notin DOMAIN w.hooks.at => UnwireEvent(HookGroups(w, e)) = <<>>
          /\ e \notin DOMAIN f.hooks.at => UnwireEvent(HookGroups(f, e)) = <<>>
      BY UnwireNone DEF HookGroups
    <3>3. e \in E(w) <=> e \in E(f)
      BY <2>2, <3>1, <3>2
    <3> QED BY <2>2, <3>1, <3>3
  <2>3. CASE ~Usable(f, e)
    <3>1. /\ ~Usable(w, e) /\ e \in DOMAIN w.hooks.at /\ e \in DOMAIN f.hooks.at
          /\ w.hooks.at[e] = f.hooks.at[e]
      BY <2>1, <2>3 DEF EventStands
    <3> QED BY <2>3, <3>1
  <2> QED BY <2>2, <2>3
<1>5. E(w) = E(f)
  BY <1>3, <1>4
<1>6. placed(w) = placed(f)
  <2>1. placed(w) = [e \in E(w) |-> placed(w)[e]] /\ placed(f) = [e \in E(f) |-> placed(f)[e]]
    OBVIOUS
  <2>2. \A e \in E(f) : placed(w)[e] = placed(f)[e]
    BY <1>3, <1>4
  <2> HIDE DEF E, placed
  <2>3. [e \in E(f) |-> placed(w)[e]] = [e \in E(f) |-> placed(f)[e]]
    BY <2>2
  <2> QED BY <1>5, <2>1, <2>3
<1> HIDE DEF placed
<1> QED BY <1>1, <1>2, <1>6 DEF w

(* Whatever file there is, unwiring undoes its wiring.                     *)
LEMMA Undoes ==
  ASSUME IsFile(files["user"]), IsHooks(files["user"].hooks), activeEvents \in SUBSET Events
  PROVE  UnwireUndoes
<1> DEFINE f == files["user"]
           u == Unwire(f)
           E == {x \in DOMAIN f.hooks.at : Usable(f, x) => UnwireEvent(HookGroups(f, x)) # <<>>}
           placed == [e \in E |-> IF Usable(f, e) THEN [ok |-> TRUE, groups |-> UnwireEvent(HookGroups(f, e))]
                                     ELSE f.hooks.at[e]]
<1>1. u.hooks = [ok |-> f.hooks.ok, at |-> placed] /\ u.env = f.env
  BY UnwiredHooks
<1> HIDE DEF u
<1>2. u.hooks.at = placed
  BY <1>1
<1>3. ASSUME NEW e \in Events
      PROVE  /\ ~WiresOurs(u, e)
             /\ Usable(f, e) => Theirs(f, e) = Theirs(u, e)
  <2> DEFINE gs == HookGroups(f, e)
             new == UnwireEvent(gs)
  <2>1. gs \in Seq(Group)
    BY GroupsOf
  <2>2. /\ TheirsIn(new) = TheirsIn(gs)
        /\ \A i \in DOMAIN new : ToSet(new[i]) \cap Ours = {}
    BY <2>1, EventUnwired
  <2>3. CASE e \notin E
    <3>1. HookGroups(u, e) = <<>> /\ DOMAIN <<>> = {}
      <4>1. DOMAIN placed = E
        OBVIOUS
      <4> HIDE DEF placed, E
      <4>2. e \notin DOMAIN u.hooks.at
        BY <1>2, <2>3, <4>1
      <4>3. HookGroups(u, e) = <<>>
        BY <4>2 DEF HookGroups
      <4>4. DOMAIN <<>> = {}
        OBVIOUS
      <4> QED BY <4>3, <4>4
    <3>2. Usable(f, e) => TheirsIn(gs) = <<>>
      <4>1. CASE e \notin DOMAIN f.hooks.at
        BY <4>1, TheirsNone DEF HookGroups
      <4>2. CASE e \in DOMAIN f.hooks.at /\ Usable(f, e)
        <5>1. new = <<>>
          BY <2>3, <4>2
        <5> HIDE DEF new
        <5> QED BY <2>2, <5>1, TheirsNone
      <4> QED BY <4>1, <4>2
    <3> QED BY <3>1, <3>2, TheirsNone DEF WiresOurs, Theirs, TheirsIn
  <2>4. CASE e \in E /\ Usable(f, e)
    <3>1. placed[e] = [ok |-> TRUE, groups |-> new] /\ e \in DOMAIN placed
      BY <2>4
    <3> HIDE DEF new, placed
    <3>2. HookGroups(u, e) = new
      BY <1>2, <3>1 DEF HookGroups
    <3> QED BY <2>2, <3>2 DEF WiresOurs, Theirs, TheirsIn
  <2>5. CASE e \in E /\ ~Usable(f, e)
    <3>1. e \in DOMAIN placed /\ placed[e] = f.hooks.at[e]
      BY <2>5
    <3> HIDE DEF placed
    <3> QED BY <1>2, <2>5, <3>1 DEF WiresOurs, Usable
  <2> QED BY <2>3, <2>4, <2>5
<1>4. SameTheirs(f, u)
  BY <1>3 DEF SameTheirs
<1>5. ~Broken(f, TRUE, activeEvents) => Unwire(Wire(f, TRUE, activeEvents)).hooks = u.hooks
  BY UnwiredEvents DEF u
<1> QED BY <1>1, <1>3, <1>4, <1>5 DEF UnwireUndoes, u

(* Wiring whatever settings people and commands leave converges, captures  *)
(* every active event and nothing else, and touches nothing that is not    *)
(* ours; unwiring takes every entry of ours out and leaves what was there  *)
(* (wire, unwire, strip_our_entries, event_wiring).                        *)
THEOREM WiringAlwaysClean == WSpec => []WiringIsClean
<1>1. WSpec => []HInv
  <2>1. HInv /\ [WNext]_wvars => HInv'
    BY NextWiring, NextHooks DEF HInv
  <2>2. WInit => HInv
    BY InitWiring, InitHooks DEF HInv
  <2> QED BY <2>1, <2>2, PTL DEF WSpec
<1>2. HInv => WiringIsClean
  <2> SUFFICES ASSUME HInv PROVE WiringIsClean
    OBVIOUS
  <2>1. IsFile(files["user"]) /\ IsHooks(files["user"].hooks) /\ activeEvents \in SUBSET Events
    BY TheScopes DEF HInv, WInv, FilesStand, HooksStand
  <2> QED BY <2>1, Converges, Undoes DEF WiringIsClean
<1> QED BY <1>1, <1>2, PTL
=============================================================================
