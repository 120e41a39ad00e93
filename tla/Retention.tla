----------------------------- MODULE Retention -----------------------------
(***************************************************************************)
(* How long a record is kept (settings.rs, config.rs, and the sweep of     *)
(* serve.rs over sink.rs's prune).  The receiver resolves its              *)
(* configuration as it starts and sweeps the ledger on the wall clock;     *)
(* config.toml is edited while it runs, can be broken, and is read again   *)
(* by each sweep; the clock can be stepped back.                           *)
(*                                                                         *)
(* Time is counted in units shorter than a day.                            *)
(***************************************************************************)
EXTENDS Integers, FiniteSets

CONSTANTS
  StoredKinds,
  Numbers,      \* numbers somebody may write for days
  DaysAllowed, Unset, Unreadable,  \* those within bounds; no value; one that cannot be read
  DefaultDays,
  Day, FilesPerHorizon, MaxInterval,
  WakeInterval,  \* between two looks of the worker at the clock
  LastInstant,
  \* Bounds of the model.
  MaxStored, MaxMoves  \* records; edits, steps back, starts and kills

VARIABLES
  clock,
  environ,   \* HATEL_RETENTION_DAYS, as the receiver is started with
  settings,  \* config.toml's [storage]
  live,      \* the configuration of the running receiver
  last,      \* when it last swept
  slept,     \* how long its worker has been asleep
  held,      \* the ledger: a record's kind and when it occurred
  arrived,    \* records written
  moves,
  steady     \* history: this receiver was swept as it should, and settings are what it runs with

hvars == <<clock, environ, settings, live, last, slept, held, arrived, moves, steady>>

Storage == [days : DaysAllowed \cup {Unset},
            kinds : UNION {[K -> DaysAllowed] : K \in SUBSET StoredKinds}]
Resolved == [days : DaysAllowed \cup {DefaultDays}, kinds : UNION {[K -> DaysAllowed \cup {DefaultDays}]
             : K \in SUBSET StoredKinds}]
Instants == 0..LastInstant

ASSUME RetentionAssumption ==
  /\ DaysAllowed \subseteq Nat \ {0}
  /\ {DefaultDays, Day, FilesPerHorizon, MaxInterval, WakeInterval} \subseteq Nat \ {0}
  /\ FilesPerHorizon <= Day /\ WakeInterval <= Day
  /\ {LastInstant, MaxStored, MaxMoves} \subseteq Nat
  /\ Unset \notin DaysAllowed /\ Unreadable \notin DaysAllowed \cup {Unset} \cup Storage

\* What somebody may write, and what reading makes of it.  One number out of bounds, like a text
\* that does not parse, makes the whole file unreadable; a variable that is empty is unset.
Written == [days : Numbers \cup {Unset}, kinds : UNION {[K -> Numbers] : K \in SUBSET StoredKinds}]

ReadDays(v)     == IF v \in DaysAllowed THEN v ELSE Unreadable
ReadVariable(v) == IF v = Unset THEN Unset ELSE ReadDays(v)
ReadSettings(f) ==
  IF Unreadable \in {ReadVariable(f.days)} \cup {ReadDays(f.kinds[k]) : k \in DOMAIN f.kinds}
  THEN Unreadable ELSE f

Variables == {ReadVariable(v) : v \in Numbers \cup {Unset}}
SettingsRead == {ReadSettings(f) : f \in Written} \cup {Unreadable}

\* Config::resolve: a variable replaces the file's value, which replaces the default.
Resolve(file, env) ==
  [days |-> CASE env \in DaysAllowed -> env
              [] env \notin DaysAllowed /\ file.days # Unset -> file.days
              [] OTHER -> DefaultDays,
   kinds |-> file.kinds]

\* Config::load refuses a file or a variable it cannot read.
Loads(file, env) == file # Unreadable /\ env # Unreadable

\* retention_days_for
DaysFor(cfg, k) == IF k \in DOMAIN cfg.kinds THEN cfg.kinds[k] ELSE cfg.days

Longer(a, b) == IF a > b THEN a ELSE b

\* Only the kinds of the file as it now is.
WrongHorizonOf(running, now) ==
  [days |-> Longer(running.days, now.days),
   kinds |-> [k \in DOMAIN now.kinds |-> Longer(DaysFor(running, k), DaysFor(now, k))]]

\* horizon: the longer of the two, for every kind.
HorizonOf(running, now) ==
  [days |-> Longer(running.days, now.days),
   kinds |-> [k \in DOMAIN running.kinds \cup DOMAIN now.kinds |->
                Longer(DaysFor(running, k), DaysFor(now, k))]]

\* rotation_span_secs and sweep_interval_secs
SweepInterval(cfg) ==
  LET span == (cfg.days * Day) \div FilesPerHorizon
  IN IF span < MaxInterval THEN span ELSE MaxInterval

\* Overdue, once the interval has passed.
WrongSweepDue(now, since, every) == now < since \/ now - since > every

\* sweep_due
SweepDue(now, since, every) == now < since \/ now - since >= every

StoredUntil(cfg, r) == r.at + DaysFor(cfg, r.kind) * Day + SweepInterval(cfg)

Expired(cfg, r) == r.at < clock - DaysFor(cfg, r.kind) * Day
-----------------------------------------------------------------------------
Running == live # Unset
Awake   == Running /\ slept = WakeInterval
Due     == SweepDue(clock, last, SweepInterval(live))

WriteRecord(k) ==
  /\ arrived < MaxStored /\ arrived' = arrived + 1
  /\ held' = held \cup {[kind |-> k, at |-> clock]}
  /\ UNCHANGED <<clock, environ, settings, live, last, slept, moves, steady>>

\* The worker sleeps for an interval at a time, over a sweep that falls due meanwhile, and no longer.
Tick ==
  /\ clock < LastInstant /\ clock' = clock + 1
  /\ IF Running THEN slept < WakeInterval /\ slept' = slept + 1 ELSE UNCHANGED slept
  /\ UNCHANGED <<environ, settings, live, last, held, arrived, moves, steady>>

Moved == moves < MaxMoves /\ moves' = moves + 1

SetClockBack ==
  /\ Moved /\ \E t \in 0..(clock - 1) : clock' = t
  /\ UNCHANGED <<environ, settings, live, last, slept, held, arrived, steady>>

\* What `done` of the kinds lost to a sweep that applies cfg.
Prune(cfg, done) == held' = {r \in held : r.kind \notin done \/ ~Expired(cfg, r)}

\* It wakes to no sweep.
LookOnly ==
  /\ Awake /\ ~Due /\ slept' = 0
  /\ UNCHANGED <<clock, environ, settings, live, last, held, arrived, moves, steady>>

\* Every kind, or those before a failure.
SweepLedger(done) ==
  /\ Awake /\ Due /\ last' = clock /\ slept' = 0
  /\ IF settings = Unreadable
     THEN UNCHANGED held /\ steady' = FALSE
     ELSE /\ Prune(HorizonOf(live, Resolve(settings, environ)), done)
          /\ steady' = (steady /\ done = StoredKinds)
  /\ UNCHANGED <<clock, environ, settings, live, arrived, moves>>

\* A receiver sweeps as it starts.
StartSweeping ==
  /\ Moved /\ ~Running /\ Loads(settings, environ)
  /\ live' = Resolve(settings, environ) /\ last' = clock /\ slept' = 0 /\ steady' = TRUE
  /\ Prune(Resolve(settings, environ), StoredKinds)
  /\ UNCHANGED <<clock, environ, settings, arrived>>

StopSweeping ==
  /\ Moved /\ Running /\ live' = Unset /\ slept' = 0 /\ steady' = FALSE
  /\ UNCHANGED <<clock, environ, settings, last, held, arrived>>

EditStorage(s) ==
  /\ Moved /\ s # settings /\ settings' = s /\ steady' = FALSE
  /\ UNCHANGED <<clock, environ, live, last, slept, held, arrived>>
-----------------------------------------------------------------------------
HInit ==
  /\ clock = 0 /\ last = 0 /\ slept = 0 /\ live = Unset /\ held = {} /\ arrived = 0 /\ moves = 0
  /\ steady = FALSE
  /\ environ \in Variables /\ settings \in SettingsRead

HNext ==
  \/ \E k \in StoredKinds : WriteRecord(k)
  \/ Tick \/ LookOnly \/ SetClockBack \/ StartSweeping \/ StopSweeping
  \/ \E done \in SUBSET StoredKinds : SweepLedger(done)
  \/ \E s \in SettingsRead : EditStorage(s)

HSpec == HInit /\ [][HNext]_hvars
-----------------------------------------------------------------------------
(* A sweep deletes a record only if the configuration the receiver runs    *)
(* with and the one config.toml now says both let it go: raising a number  *)
(* of days keeps records from the next sweep on, lowering one waits for a  *)
(* restart, and a file that cannot be read deletes nothing (horizon).      *)
KeptAsPromised ==
  [][\A r \in held \ held' :
       /\ settings # Unreadable /\ Expired(Resolve(settings, environ), r)
       /\ Running => Expired(live, r)]_hvars

(* No record outlives its horizon by more than a sweep's interval and one  *)
(* sleep of the worker, and no clock stepped back puts that off, while a   *)
(* receiver keeps sweeping under the configuration it was started with.    *)
(* Config::stored_until leaves the sleep out: a store may still hold a     *)
(* record after the instant it gives, until the worker next wakes.         *)
GoneInTime ==
  Running /\ steady => \A r \in held : clock < StoredUntil(live, r) + WakeInterval
=============================================================================
