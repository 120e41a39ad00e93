# A verification project for hatel

hatel keeps records about Claude Code sessions: hooks and commands write them to a SQLite
*ledger*, a long-running *receiver* takes OpenTelemetry from the sessions, totals their cost,
forwards what it receives and delivers ledger records to collectors. Several short-lived
processes and a receiver share a state directory, mostly without locks; any of them can die,
people edit the files they work on, and builds of different ages meet in one directory.

This directory models the parts of hatel whose correctness depends on that: TLA+ modules
translated from the Rust source, TLC configurations that check them on small instances, and
proofs checked by TLAPS. `PROJECT.json` maps each definition to the lines it models, each
property to a mutant of the code that breaks it, and each hazard of the code to the properties
about it.

## The system

| component | state | operations | modelled in |
|---|---|---|---|
| delivery outbox (`core/src/outbox.rs`) | tables `deliveries`, `delivery_queues` | enqueue, due, finish, cancel, release on prune | `Outbox`, `DeliveryPromise` |
| durable consumer (`cli/src/export/durable.rs`) | active destinations, one task each: its batch, what it saw of each row, two readings of the configuration | tick, screen, recheck, send, record, abort, stop | `Outbox` |
| ledger (`core/src/sink.rs`) | the database: its stamp, journal mode, tables, `records` | open, switch to WAL, initialise, refuse, write, read, prune | `Ledger`, `Outbox` |
| catalog and contracts (`core/src/catalog.rs`, `registry.rs`) | stored definitions | intern, resolve, read or refuse, export or refuse | `Contracts`, `Ledger` |
| recording (`core/src/record.rs`, `pii.rs`) | none of its own | check, allow-list, redact, stamp, identify | `Contracts`, `Ledger` |
| registry and schemas (`core/src/schema.rs`, `registry.rs`) | the kinds and bindings of one process | merge core and plugins, strictly or resiliently; map an event | `Schemas` |
| project identity (`core/src/project.rs`) | none: the directories around a path | project, selector, branch | `ProjectIdentity` |
| cost snapshot (`core/src/cost.rs`) | `cost_snapshot.jsonl`, `cost_changes.jsonl`; rows, changed, unsaved in memory | record, checkpoint, read, load | `CostSnapshot` |
| accumulator (`cli/src/claude/accumulator.rs`) | session -> series and the time it was last heard | update, forget | `CostSnapshot`, partly |
| receiver (`cli/src/serve.rs`) | the directory's lock, the port, ingest slots, one blocking worker | start, wait, ingest, flush, sweep, stop in order | `Receiver`, `CostSnapshot`, `SessionIndex`, `Retention` |
| native exporter (`cli/src/export/exporter.rs`) | per destination: queue, reserved bytes, parked bodies; the worker's copies of configuration and index | enqueue, forward, park, retry, drain | `NativeExport` |
| rolling log (`core/src/rolling.rs`) | one active file and archives in a shared directory | append and rotate, prune, rotate aged, read, fingerprint | `RollingLog` |
| session index (`core/src/session.rs`) | a rolling log of starts and renewals; a cache of its fold | record, renew, refresh, prune | `SessionIndex`, `RollingLog` |
| transcripts (`core/src/claude/transcript.rs`), hook (`core/src/claude/hook.rs`) | read positions, remembered subagents | read on from a position, record, remember, prune | `Transcripts`, `Schemas` |
| configuration (`core/src/config.rs`, `settings.rs`, `export.rs`) | `config.toml`, environment variables | validate, resolve, save, insert | `Destinations`, `Retention`, partly |
| wiring (`cli/src/init.rs`, `claude_settings.rs`) | Claude Code's settings files, `config.toml` | `init`, `--remove`, `--insert` | `Wiring`, `Destinations` |
| service (`cli/src/service.rs`) | the unit on disk, as the manager read it, the process | install, restart, remove | `Service` |
| reports and queries (`core/src/query.rs`, `report.rs`) | none: a query is one transaction | sections, groups, ranks, spend | `Reports` |

How they interact, and what is hard about it:

- **Writers and the consumer share the database**, not a lock. A delivery is read, screened,
  sent and recorded in separate transactions; meanwhile its record may be removed, its
  destination withdrawn, its answer lost, its receiver killed. Correct means: the counters that
  admission reads stay equal to the rows that wait, an outcome is final, nothing leaves that the
  configuration of that moment blocks, a duplicate needs a lost answer, every row settles.
- **Builds of several ages open one database** and may initialise it at once; definitions
  change under records that stay. Correct means: one layout, every record beside its contract,
  an id stands for the first thing acknowledged under it, a record that is read means what its
  writer meant, and one leaves the machine only if today's definition allows each of its fields.
- **The worker and requests share the totals** under two locks taken one after the other, and
  the worker and reports share two files without one. Correct means: each report of a session
  counts once across restarts and failed writes, and a reader never sees less than before.
- **Two receivers may want one directory**, each named by a configuration that can change
  between its reads. Correct means: one of them writes, and the one that stops on request has
  on disk whatever it accepted, although bodies were in flight when the stop came.
- **The forwarder races the hook**: a body can come before the line that says which project
  its session belongs to. It is parked, under a byte budget and a deadline, and looked at with
  copies that age while a request is awaited. Correct means: only allowed bodies leave,
  bytes are given back exactly once, a parked body neither stays nor loses its chance.
- **Every process appends to the session index** and may rotate it, or fail to; the receiver
  prunes it; a cache reads it file by file. Correct means: no line is lost before its time or
  kept after it, no reader misses one, and a session still heard from keeps its project
  although the files with its start are removed.
- **Hooks read transcripts that another program writes**, several at once, and are killed at
  will. Correct means: a position never passes what is recorded, and the end of a turn reads it all.
- **Commands edit files that people edit too**, one file at a time, and may stop between two.
  Correct means: what others wrote survives, events go where they should, a command that
  reports success did what it says, with the one exception below (`restart_unread`).
- **Repositories are linked, removed and made again** beneath the sessions in them, and the
  pointers between their parts go stale. Correct means: work is attributed to the repository it
  is done in, and a query finds it there from any path.

## The modules

Operators named `Wrong...` are plausible mistakes in the definition after them; no action
uses them. `PROJECT.json` ("mutants") says which property each one breaks.

`MC...` modules instantiate the others for TLC. Four of them put several components
side by side: `MCRunning` (CostSnapshot, Receiver), `MCUpkeep` (CostSnapshot, Service,
Retention), `MCRecording` (Transcripts, SessionIndex) and `MCOperation` (Wiring, Ledger,
Contracts, Schemas, Reports, ProjectIdentity). The components of one such run share no state in the
code beyond what each of them models for itself; a variable `part`, which never changes, says which
of them moves while the others rest in an initial state. So each behaviour of a run is one of a
single component, and the run explores each component in full. `MCInstances` has the instances of
the last one that need more than a line of a `.cfg`.

### Outbox, DeliveryPromise

`rows[d][r]` is the row of `deliveries` for destination d and record r ("none" where there is
none), `queue[d]` the row of `delivery_queues`, `task[d]` the local state of the task `spawn`
started for d. `Store` is one `INSERT` transaction with `enqueue` for every selected
destination, `Tick` the consumer's poll, `Load`/`BeginScreen`/`Screen`/`Recheck` the steps of
`deliver` up to the request, `Collect` what the collector does with the request,
`Accepted`/`Rejected`/`Lost` the three kinds of answer, `Record` one `finish` per row, `Prune`
one retention transaction. `Abort` is any early return on an error, `Stop` the end of the
receiver with its tasks. `DeliveryPromise` says what all this is for: a record and its
deliveries appear together, room is measured on the rows that really wait, an outcome is given
once and "delivered" only to what the collector took. `KeepsPromise` is the refinement, with the
rows mapped to their states.

### CostSnapshot

`snapshot` and `changes` are the files, `rows`, `changed`, `unsaved` the `Snapshot` in memory,
`baseline` what the receiver started from, `acc` the accumulator. The worker's `pc` walks
through `persist_cost` and `sweep`: `Persist`, `RecordChanges`, then `Sweep`, `WriteSnapshot`,
`ClearChanges`, `Forget`. `WriteSnapshot` and `RecordChanges` may fail; `Crash` strikes
anywhere; `Load` is the next receiver. A file is written to a temporary and renamed, so one
step; losing power between the rename and the disk is not modelled.

### Receiver

One receiver's run is `at[r]`: reading the configuration, taking the lock, binding, serving, and
the stages of its stop, in the code's order: the listener goes, connections end, the durable
consumer stops, every ingest slot returns, the worker ends, the last flush, the export queue is
drained, the exit. Each stage the code awaits is an action, so a request can still hold its slot,
decode or be abandoned in each of them. A lock or an address that cannot be had for another reason
than its use ends even a receiver that waits (`BootFails`). `gathered[r]` is what it aggregated,
`kept[dir]` what the directory's snapshot holds (CostSnapshot has the sums). `conf` is the configuration file, edited
or broken between any two reads; a receiver started with `--wait` goes back and reads it again.

### NativeExport

One destination; destinations share no state but counters. `Arrive` reserves the bytes of a body
(`Route::queued_bytes`), `Offer` puts it in the channel or gives them back. The worker takes a
body (`Take`: reads the configuration, refreshes the index if it needs it, and looks at the
parked bodies), `Retry`/`Retried` handle the parked ones, `Handle` the body itself, `Wake` the
earliest deadline, `FinalLook` the last pass after the drain. A request is awaited between any
two of these steps, so bodies arrive, sessions start, the file changes and time passes there.
`policy` is what the file says now, `target` and `cache` the worker's older copies; `Forward`
reads `policy` again, as the code does.

### RollingLog

A name of the directory refers to an inode and a writer keeps the inode it opened, which is
where the races of this file are: `Append1` (stamp, lock, judge), `Rotate` (rename, or
`RotationFails`, after which the line is appended all the same), `Open`, `Write` are the steps of
`append`; `Sweep`, `Prune`, `Age`, `RotateAged` those of the sweep; `Refresh`, `Stat`, `List`,
`Read`, `Adopt` those of a reader that first compares a fingerprint and then reads file by file,
again when the listing changed, a bounded number of times.

Assumed: an append, a sweep or a refresh does not last until the next tick of a clock that
counts in spans, at most one sweep is made in a tick, a cache is refreshed once in it; an append
that lost its name to a rotation ends before the next sweep (`NoneLate`: the order in
`SessionIndex::prune` leaves it a whole sweep interval for that); and a file's modification time
distinguishes two writes, or else their bytes do (`fingerprint` relies on one or the other).

What is read after the last try is adopted as it is ("a possible undercount"), under the
fingerprint taken before; so `CacheLacksNothing` speaks of a cache that a clean pass filled
(`clean`). Without that it is false: with one try and four lines, TLC finds a file created and
another of the same size pruned while the fingerprint is taken, and the result matches the
directory until the next write.

### SessionIndex

A file is a set of lines, an append one step that may rotate, a refresh reads all: what
RollingLog shows of the log, line order and writers in flight left out. `Start` is the hook's
`record`; `Flush` is `renew_index` up to the decision, `Renew` and `RenewFails` its appends,
between which hooks append and the receiver may die; `Prune` and `Age` are the sweep. The clock
may run without a flush (a machine that sleeps), not inside a flush or a sweep. History
variables: `newest` start of each session, `promised`, the activity a flush accounted for, and
`raced`, the sessions to which a renewal gave another row than their newest start's.
`NewestStartWins` excuses exactly those: a renewal decided before a newer start came can speak
for its session once the sweep has removed the file that start was in.

### Transcripts

One session: its own transcript and its subagents'. A line is the request it names, whether that
request was billed, and whether the line is whole yet (`BeginLine`, `FinishLine`); an offset
counts lines. `EndDue` and `AgentDue` are a hook's event and the transcripts it makes due,
`Remember` the subagent's line in the session's list; then, per transcript, `Open` (resume at a
position that fits the file), `ReadLines` up to a batch, `CommitBatch` (the ledger keeps the first
record of a request), `SavePosition` and `Rename`. `Replace` and `Delete` are what Claude Code
may do to a transcript, `Judge` and `RemoveStale` the two steps of the sweep. A hook can be killed
anywhere, and a position lost. `owed` and `named` are history.

A replaced transcript has another identity than the file before it (`FileId`: device and inode).
Not modelled are a file cut short and written on in place, a new file that is given the inode of the
removed one, and platforms without an identity. There the code has only the length to go by: once
such a file is longer than the position kept for the old one, it is read from there, and what lies
before is not recorded. Claude Code is taken to append to a transcript or to make it anew.

### Ledger

`store` is the file: whether it exists, its journal mode, its stamp and whether it has tables.
`writer[w]` is how far a process got in `SqliteSink::init`; each statement or transaction of
SQLite is one step, so two processes interleave between `Connect`, the switch to WAL and the
initialisation. `Version` gives each process its build's layout, `Registry` the contract its
definitions make. A write interns its contract and inserts its row in one transaction, and tells a
repetition of an id (`SameRecord`) from a conflict.

### Contracts

`current` is the definition of one kind, edited in the schema file; `rows` the stored records with
the contract each was stamped with; `stored` the definitions kept with them. `Reads` and
`Exports` are the two decisions of `registry.rs` about a stored contract under today's definition.
A stored value carries, as history, the unit and type it was written in, which is what "keeps its
meaning" compares.

### Schemas

Adds plugin files to the list of the configuration one at a time; for each list, `Strict` is
the registry the receiver, reports and the doctor build (from every file or none), `Resilient` the
one a hook builds (from the files that merge), and `RecordFields` the fields of the record a
binding makes of an event, through `Apply` (`FieldMap::apply`). A text or a number of an event is
one value of its type. `WholeFiles` says what the registry must be without following the merge;
`BoundRecordsFit` that no event gives a record a field its kind lacks, or one a document.

### ProjectIdentity

`present` are the folders that exist, `dot[d]` the git directory that the `.git` of folder d is or
names, `heads` the git directories that exist, with their HEAD. The actions are git's and people's:
a repository with its directory inside the checkout, elsewhere or bare; a linked worktree, a
submodule, a checkout, a folder removed with all in it or made again. What hatel makes of a path is
operators over them: `GitRoot`, `MainWorktree`, `ProjectOf`, `ResolveProject`, `ProjectSelector`,
`GitBranch`. `checkout` is history.

### Destinations, Wiring

`Destinations` has no state: what makes an `[[export]]` entry valid, what its absent keys default
to, what saving writes and how `upsert` finds the entry of an endpoint. `Wiring` is the state:
one settings file per scope (process < user < project < managed), `config.toml`, and the command
that runs, whose steps are its reads and its renames. `init` adds hooks and the environment,
`--remove` takes the hooks out, `--insert` first writes the collector Claude Code reports to
into `config.toml` and then puts the receiver in its place. It reads `config.toml` twice, once
for the section it changes (`LoadExport`) and once for those it carries through
(`RereadSettings`), before it writes the file (`SaveExport`): an edit made meanwhile is written
over, which `CaptureFirst` covers and `InsertRoutes`, of an undisturbed insert, does not. One command
runs at a time, so what two would overwrite of each other's is not covered, nor are the other
sections of `config.toml`. The headers an insert takes along are well formed; one that is not would
be refused at the next load. A person may edit any of the files and
a command may fail or be killed between two steps. An entry of a hook group is ours, as
written now, under another path or not asynchronous (`"mine"`, `"stale"`, `"sync"`), or one of
`Others`; an upgrade moves the binary, so that what was ours is outdated, and may need other events.

### Service

`unit` is the file, `loaded` what the manager last read of it, `enabled` and `receiver` what it
runs, `task` the command with the unit it saw. Each call of `launchctl` or `systemctl`, each write
and each check is a step; each can be refused, and the command killed before it. People edit the
unit, stop the receiver, upgrade the binary, break `config.toml`, log out and in. Build n writes
units of layout n and knows those before it.
A manager that loaded no unit refuses to start it again (`Again`), or a restart after a removal
would end the process an earlier command had left.

### Reports

A query is one read transaction, so an answer is a function of the ledger, and the ledger grows
record by record. `SectionOf` and its parts follow the statements of `query.rs`: window and
filters, attribution to a project, the contracts that can be read, the latest state of each
identity or each distinct occurrence, groups, ranks. `AnswersAreWhole` and `NewestSpeaks`
state what the answer means without following the statements: sections and totals agree, what is
left out is counted, a state is the newest that was observed.

A record carries the wire version it was written in, which is another number than the store's
layout, so a newer build may write a newer one into the same store. `scope` keeps to the versions
the build knows (`Understood`); the instance has a record of that version and one of a newer.

### Retention

`settings` is what `config.toml` says, `environ` the variable the receiver was started with,
`live` what it resolved. Numbers out of bounds make the file unreadable. A sweep takes, per kind,
the longer of what the receiver runs with and what the file says now, and nothing when the file
cannot be read; its horizon is counted back from the wall clock, which can be stepped back. The
worker looks at the clock once in a `WakeInterval` (`FLUSH_INTERVAL`): `slept` counts up to it, time
passes over a sweep that is due meanwhile, and on waking the worker sweeps (`SweepLedger`) or
does not (`LookOnly`). What its own work takes, and a machine that sleeps, are not in that interval.

## The runs

| run | instance | what it asks |
|---|---|---|
| `outbox` | one destination, two records of one or two bytes, room for two; three configurations (both records, one with less room and shorter age, withdrawn) and an unreadable file; one abort, stop or change anywhere | counters, rows, duplicates, what is sent, the refinement |
| `outbox_live` | two destinations and one task at a time; no retention within the bound | every row settles |
| `running` | costs: a delta and a cumulative session, two series, two reports, two faults; receivers: one with `--wait`, one without, one port, two directories, one request, one slot, two starts, one edit, one mishap | saved totals last and count once and are saved; one writer, everything on disk at the exit, every stop and wait ends |
| `upkeep` | costs: one session that expires, three reports of it, a reader, three instants, a clock that is set back to any earlier one, two faults; service: both platforms, two paths, two builds, two commands, two upsets; retention: two kinds, days of 0, 1 and 2 with 1 and 2 allowed, a day and a sleep of the worker of two instants each, seven instants, two edits, steps or starts | readers miss nothing; commands do what they report; records stay and go in time |
| `native` | three bodies (of one session, of two, and one that names its project), a queue of one, room to park one, a deadline of one tick, one change, two starts | bytes, permissions, parked bodies |
| `rolling_log` | two threads of one process, three lines of two sizes, a process that sweeps, a cache with two retries, rotations that fail | lines stay, go, and are read |
| `recording` | transcripts: the session's and one subagent's, two requests, two lines, two hooks at once, batches of one, one fault; index: two sessions, two projects, two starts, retention of two spans, five ticks | nothing skipped; projects kept |
| `operation` | wiring: one command, one edit, one failure over settings of every scope, four spellings of endpoints; ledger: three writers of two layouts and two registries, a reader, three contracts, two ids, three writes, one kill; contracts: two fields, three types, one edit; schemas: up to three plugin files; reports: two records or sessions; projects: four folders and a link to one, four changes | each of the six keeps its promise |
| `costs_heard_again`, `native_twice`, `insert_twice`, `restart_unread` | the smallest instance that shows it | a statement of the source the code does not keep |

Why these bounds are enough:

- `outbox`: every counter can be at its limit, time reaches a retry, an expiry and a removal, and
  each of the four transactions that maintain a counter can meet each step of a task. Destinations
  share only the number of tasks and the record, so one is enough for safety; liveness has two,
  which compete. The poll's limit, 32 in the code, is one there: the run shows the name order and a
  destination that waits for another's task, and nothing else of the number.
- `running`, costs: a session of each temporality and a fault after a fault; retention lies beyond
  the bound because `upkeep` has expiry. One request and one slot suffice for the receivers'
  ordering: what a second request could add is another body in flight, and `ExitSavesAllAlways`
  is proved for any number.
- `upkeep`: a report beside a checkpoint that fails halfway, with a clock set back, takes two faults
  and three reports of the session at two instants, which is what the exception for a clock set back
  below needs too; two commands are the least in which one finds what an interrupted one left;
  the retention's numbers include one out of bounds, each kind with and without its own.
- `native`: the queue, the budget and the parking list can each be full.
- `recording`: two hooks overlap on one transcript and one subagent, with a batch boundary between
  two responses; the index can go through two generations of archives. Hooks and sessions, like
  requests and projects, are interchangeable: the run uses symmetry and checks only safety.
- `operation`: a command has at most five steps, so one failure and one edit can fall anywhere in
  it, from every file of a list of starts that has each kind of obstacle (unreadable, not an object,
  hooks that are not a list, managed settings that block others). Four changes can make a
  repository, link a worktree to it, remove the checkout and make another in its place. Two
  processes are enough for a race over an empty store; the third is of another layout.

Where the bounds let the system stop (no more writers, the clock at its bound, commands used up)
the run says `CHECK_DEADLOCK FALSE`. A session is started at most once in a tick of the index: the
real stamps of one session's starts differ.

## Fairness

Four properties are about something that must happen, each under the fairness stated beside
its specification, as weak as the code justifies:

- `PendingSettles` (outbox): the consumer polls, a spawned task runs on, a request ends by its
  timeout, the service manager starts the receiver again, time passes. Writers, retention and
  configuration changes are not fair, and the property asks for nothing unless the configuration
  stays readable from some point on.
- `EventuallySaved` (costs): the worker's thread runs and a stopped receiver is started again.
  Reports and crashes are not fair; both are bounded, so the run asks what holds after the last.
- `ParkedSettles` (native): the worker runs and time passes. Nothing need arrive, no session
  need start.
- `Progress` (receiver): each receiver's own steps, a request's body (a client sends it or goes
  away) and a decoder are weakly fair; a slot is strongly fair, since the semaphore gives its
  permits in the order they were asked for. Nobody need ask for a stop or start a receiver.

## What the checks show

All properties listed in the passing runs hold on their instances. Four statements of the source
do not hold of the code, each shown by a run of its own (`PROJECT.json`, "findings"):

- `costs_heard_again`: the comment on `sweep` says an expired session that is heard again counts
  afresh; a batch that comes between the checkpoint and the step that forgets it in memory keeps
  its old totals.
- `native_twice`: the comment on `TargetSet` says no target receives the same body twice; two
  configuration changes while the body is parked suffice. `TwiceNeedsTwoChanges`, checked in
  `native`, is what remains true.
- `insert_twice`: the comment on `upsert` says the endpoint is normalized so that it meets an
  equivalent form; it is trimmed but not parsed, while validation compares parsed URLs. An
  endpoint spelled in another way is appended, and the file that `--insert` saves is refused
  by every later command.
- `restart_unread`: the module documentation of the service says a restart brings the manager this
  build's unit; when the reload after the write was refused or never reached, the next restart
  finds the file current, asks for no reload, and reports success over the old unit.

Six limits remain inside properties that hold. `Config::stored_until` (`core/src/config.rs`) gives
"the latest a store still holds a record": its retention and one sweep interval. The worker looks at
the clock every 30 seconds (`FLUSH_INTERVAL`), so a sweep is late by up to that, and the record can
still be there after the instant given; `GoneInTime` has the sleep in its bound. A record of a newer
wire version than the build knows is of no section (`schema_version<=?3` in `scope`,
`core/src/query.rs`). It is not among the contracts counted either, although the doc of
`contract_counts` says that what a section left out is "counted rather than silently missing"; and
an older readable state of its entity is reported in its place, although the comment in
`aggregate_connection` has a newer state the definition cannot read hide the entity.
`NothingMissing` and `NewestSpeaks` name such records as their exception; there is only version 1
so far. A renewal that raced a newer start can speak for
its session again once the sweep removed that start's file: `NewestStartWins` says for which
sessions it holds. The two cost files are folded by the rows' times, and a row's time is the wall
clock when the session was heard (`core/src/cost.rs`, `fold`). Suppose a write of the changes fails
after a checkpoint, the clock is set back, and the session is heard again: the new row is dated
before the one on file, or ties with one that is not it, and a report or the next receiver takes the
wrong one. `behind` is the history of the sessions heard while the clock was not after their last
hearing, and `SavedIsDurable`, `ReaderMissesNothing` and `CountedOnce` speak of the others, whatever
the clock does. The attempt to prove `ReaderMissesNothing` without that exception found it;
the bounds of the run have since been those that would. `NoOutage` excludes a unit whose program is
gone from the disk. And a session's branch is read along the path as the session spells it, its
project along the resolved one: through a link into a subdirectory of another repository they can
speak of two trees, so `SelectorFinds` says of the branch only what holds of resolved paths.

## What is proved

Each proof is in a module of its own beside its component and holds for every value of the
constants that satisfies the component's assumption.

- `OutboxProofs`, from `OutboxAssumption`: `TypeCorrect`, `CountersCorrect`
  (`QueueMatchesPending`), `RowsCorrect` (`RowsHaveRecords`). None is inductive alone: that a
  counter does not go below zero needs that it equals the rows it counts; that it equals them after
  `finish` needs that the row was pending and its bytes were counted; and that an outcome is
  recorded only for a row with a record needs the rows' invariant. `IInv` is their conjunction:
  `LedgerOK` (records, rows and counters, which every transaction must restore), `OthersOK` (the
  types of what no transaction changes) and `TaskHasPolicy` (a task past its screening holds a
  readable configuration, which `Record` reads). There is a lemma per transaction (`StoreOK`,
  `FinishOK`, `CancelOK`, `PruneOK`), each on lemmas that add or take bytes and rows, by the
  library's theorems on finite cardinalities.

  `DuplicatesExplained` (`DuplicateOnlyAfterDoubt`) and the action property `SendsOnlyUnblocked`
  (`NothingBlockedIsSent`) need `DeliveryInv` beside it: what a task holds, sends and has yet to
  record of each row stands to the row and to what reached the collector. A record is sent at most
  once until its outcome is recorded, unless `doubtful` has it.

  `PromiseKept` is the refinement (`KeepsPromise`): the initial states map to those of
  `DeliveryPromise`, and each step maps to one of its steps or a stutter, with a lemma for each
  action that touches a row. Admission is where it has work to do: the outbox compares two counters
  with limits, the promise the rows that wait.
- `ReceiverProofs`, from `ReceiverAssumption`: `ReceiverTypes`, `OneWriterAlways`
  (`OneWriter`), `ExitSavesAllAlways` (`ExitSavesAll`). The strengthening `RInv` says who may
  write holds the lock of the directory it resolved (`LockHeld`); that a request in a slot belongs
  to a receiver whose run has not passed the stage that waits for slots (`RequestsInTime`); and
  therefore that what a receiver gathered by its last flush is all it will gather
  (`GatheredInTime`).

  From `ServiceAssumption`, of the commands of the service: `CommandsAlwaysDeliver`
  (`CommandsDeliver`) and `EditsAlwaysKept` (`HandEditsKept`, the action property). `SInv` is one
  statement for each step a command can be at: where it can be on its platform (`Course`), that
  launchd has a process exactly of what it has loaded (`LoadedRuns`), and what a command nobody
  disturbed has made so by then of the unit, of what is loaded and of the process
  (`Undisturbed`), which at its end is `Outcome`.

  From `WiringAssumption` and `DestinationsAssumption`: `InsertAlwaysDelivers` (`InsertDelivers`)
  and `SectionAlwaysSurvives` (`SectionSurvives`), for any settings files, sections and edits of
  them. The assumptions say of the data what parsing it makes so: an optional key has one value or
  none, a section is a list, a settings file has an environment, and for some events lists of hooks.
  `WInv` is inductive with that shape, kept by every write; with a replaced collector being in the section *and*
  in the copy of it a running insert is about to write (`Captured`), or a person took it out; and
  with what the insert found of the scopes still standing when it writes (`Fitting`). `Pointing`
  is the lemma that decides: over any contents of the four scopes, what `repoint` leaves in the
  user's file is what Claude Code then reads, or `CanRepoint` had refused. `EntrySurvives` is the
  other: whatever entry validates, writing what it was read to and reading that again gives the
  same destination.

  `WiringAlwaysClean` (`WiringIsClean`) is about what `wire` and `unwire` make of a file, whatever
  people, commands and upgrades left in it; what is inductive is `HInv`, which is `WInv` and
  `HooksStand`: hooks are lists of groups, and those lists of entries, in every file and in what is
  about to be written. The rest is about lists of any length. `Listing` is their induction (a set
  of lists that has the empty one and with a list those one longer has all). From it:
  `Without` is what `Vec::retain` leaves (`Thinning`), a recursive function since the provers have
  no definition of the standard `SelectSeq`; taking more out changes nothing of what is then left
  of the rest (`Rethinning`); neither stripping nor dropping the emptied groups changes what
  unwiring leaves or what the user has (`StripSame`, `FullSame`), nor what is current of ours among
  an event's entries (`MineStripped`, `MineFull`), to which wiring adds one only where there is none
  (`EventOnce`). So `EventWired` says of one event
  that its groups are `Settled` and the `Same` for the user, which is what makes a second run change
  nothing (`WiredTwice`), the diagnosis find the event captured (`Diagnosed`), and unwiring arrive
  where it would have without the wiring (`UnwiredEvents`).
- `LedgerProofs`, from `LedgerAssumption`: `LedgerAlwaysStands` (`LedgerStands`), for any writers
  of any builds. With the types, `OneLayout` and `RecordsStand` are inductive together: a writer
  initialises only what it sees empty in the same transaction, and the stamp never changes again.

  From `ContractsAssumption`, of the contracts its rows carry: `RowsAlwaysKeepMeaning`
  (`RowsKeepMeaning`) and `ExportsAlwaysAllowed` (`ExportsOnlyAllowed`). A contract decides what
  `Reads` compares (`ContractDecides`), a stored payload means what its contract says, and
  `MeaningKept` carries that to any definition that reads it.

  From `RetentionAssumption`: the action property `AlwaysKeptAsPromised` (`KeptAsPromised`) and
  `AlwaysGoneInTime` (`GoneInTime`). The first rests on `HorizonKeeps`: the horizon of a sweep is,
  per kind, the longer of the two retentions. The second needs `Swept`: while the receiver sweeps
  as it should, what is held was not expired at the last sweep, which is at most an interval and
  one sleep of the worker ago on a clock that has not been set back since.

  From `ReportsAssumption`, which says that a project's key is no label and that the keys of a list
  are in order: `NewestAlwaysSpeaks` (`NewestSpeaks`) and `AnswersAlwaysWhole` (`AnswersAreWhole`).
  An answer is a function of what is stored, so what is inductive is only that this is a list of
  records and one of sessions; the work is in the answer. A finite set of records has an earliest
  one (`Earliest`), which is what stands for a twin that is not counted; the groups partition what
  they are made from, so their counts add up to it (`GroupsFacts`, `SpendersFacts`, on
  `SumOfParts`); and the first of a list is one because no two keys rank the same (`OneFirst`).

  From `IdentityAssumption`, which says of the paths above a path that they are paths, and of those
  above a folder that they are folders: `ProjectsAlwaysStand` (`ProjectsStandForRepositories`).
  `GInv` says how git's directories hang together: where a linked worktree's directory stands, so
  does the one it shares; a checkout that has a directory is led to it, and no other folder is; and
  the HEAD a folder is led to is what was last checked out there. Two folders of one project are
  then of one repository, since a main worktree is where its directory is.

  From `SchemasAssumption`, what a schema file is made of, and `CoreAssumption`, that the one in the
  binary merges: `RegistryAlwaysStands` (`RegistryStands`), for any list of any files. What the list
  says is a function of it, so the proof is about folds. A fold is a path (`FoldPath`): what it
  makes of nothing, of the first element, and so on; that its recursion is defined comes from an
  induction over the number of elements, which again names its set (`Counting` of `SumFacts`, `FoldExists`). Along
  that path `MergeIs` gives a merge without its folds, as what the file says beside what is there;
  the places a hook takes a file at then are the ones `Merged` describes, and there is only one
  such set (`OnePlaces`).
- `RecordingProofs`, from `TranscriptsAssumption`: `PositionsCoverRecorded`
  (`PositionCoversRecorded`) and `EndsReadEverything` (`EndReadsEverything`). Neither is inductive:
  a position is right only because the hook that renames it committed what lies before, and an end
  that is done owes nothing only because it lost nothing on the way. `TInv` follows each hook
  (`HookOK`): the lines behind its offset are whole and their responses are in the ledger or in the
  batch it holds, and what it owes is recorded, in the batch, or among what is `Left` in the
  transcripts it has yet to read on. `ReadableFacts` is the step a batch of any size needs: a read
  that does not fill it leaves no whole line behind.

  From `IndexAssumption`: `ProjectsLast` (`HeardKeepsProject`), `StartsWin` (`NewestStartWins`) and
  the action property `RenewalsTimely` (`RenewalsKeepTime`). `IInv` ties each promise to a line
  young enough to outlast it (`PromiseOK`), what is due to the tick of the flush that found it
  (`DueOK`), and the newest start to the files (`RowsOK`): a line of the session with another row
  lies in no later file, so the sweep, which removes files by their newest line, never leaves
  it the last to speak.
- `RollingLogProofs`, from `LogAssumption`: `LinesAlwaysLast` (`LinesLast`),
  `ExpiredAlwaysGoes` (`ExpiredGoes`) and `ReadsAlwaysMissNothing` (`ReadsMissNothing`). One
  invariant carries them (`RInv`). A line lasts because the name a rotation chose stays free while
  its process holds the lock (`TargetFree`), the file a writer has open keeps a name that no sweep
  is about to look at (`Opened`), and a file is as new as its newest line (`Written`). It goes
  because after a sweep no file that will be written to holds a line past the span, and the ones
  that do have had their last write (`Young`), so that a sweep the horizon later removes them
  (`Sweeping`). And a reader lacks nothing because the lines a pass must return are returned or in
  files it has yet to read, under whatever name (`Passing`), while a line stored after the
  fingerprint was taken left a newer write of this tick (`Stale`), in a file that no prune takes
  within it, so the fingerprint differs from the directory's.
- `SumFacts` has the lemmas on sums over finite sets that others use: a sum of none, of one
  more, of a union, of a sum of two functions, of a part outside of which there is nothing,
  of the sizes of a set's parts (`SumOfParts`); and
  that a finite set of numbers has a least and a greatest (`Extremes`); and `Counting`, the
  induction over numbers that the proofs about lists and folds share. The sums are the community modules' folds, whose definition is by recursion over a choice, so this
  is induction over data; it is done without the library's induction theorems (they take an
  operator, which the provers cannot instantiate) by `SubsetInduction`, whose hypothesis is a *set*
  of subsets closed under adding an element, from the well-foundedness of the strict subset order.
- `NativeExportProofs`, from `NativeAssumption`: `ReservationExact` (`ReservedIsHeld`),
  `RepeatsNeedTwoChanges` (`TwiceNeedsTwoChanges`), and the action properties `LeavesOnlyAllowed`
  (`OnlyAllowedLeaves`) and `ParkedBodiesWait` (`ParkedWaits`). `NInv` says that each body is in one
  place, which the sum of the reserved bytes needs to be a sum over bodies and every release to
  be of bytes that are there; and what a body that was sent already tells of the configurations
  since, which is why one change is not enough to send it again.
- `CostSnapshotProofs`, from `CostAssumption`, a clock that may be set back included:
  `SavedAlwaysDurable` (`SavedIsDurable`), `ReportMissesNothing` (`ReaderMissesNothing`) and
  `ReportsCountedOnce` (`CountedOnce`). `CInv` carries the first two. What decides is the tie: a row
  of the changes file as new as the row in memory *is* that row, so a snapshot written beside
  old changes hides nothing, and a reader that took one file before and the other after a
  checkpoint finds at least what it would have found. That takes the order of the rows' times in
  both files, in memory, in the accumulator and in the history (`Stamped`, `InMemory`), and that
  totals do not shrink from one to the next (`Cumulative`, `ProperRows`). `EInv` adds the
  conservation that `CountedOnce` is about: what was reported of a delta session is in the
  baseline and the accumulator while a receiver runs, on disk while none does.

  `ReportsCountedOnce` assumes `MaxTime \in 1..Horizon`: nothing gets as old as the retention. Past
  it the statement is about an expiry that races a report, and `costs_heard_again` is a behaviour of
  the code in which old totals return. The other two assume nothing of the kind.

Model-checked only: the four properties of liveness, since the prover handles neither fairness nor
ENABLED. Every invariant and every action property of the runs is a theorem.

## What is not modelled, and why

- The HTTP exchange is its answer. SQLite is a sequence of atomic statements and transactions; one
  that fails changes nothing, and reclaiming pages changes no row.
- A client that repeats a delta batch is counted twice by documented design. A panic inside a
  delivery task is not modelled: no step that can is known.
- The clock only advances in `Outbox`, `NativeExport`, `RollingLog` and `SessionIndex`.
- The project a cost row carries, conflicts over it, and the live view are left out of the totals.
- Of the configuration, TOML text and paths; of the project, how a file is named inside its tree
  (`repo_path`): functions of their input without state, which the repository's tests reach well.
- Rendering, the doctor's text (what it reads of the wiring is in `Wiring`), the transformation and
  decoding of OTLP bodies, the receiver's identity probe, the throttle of notes,
  the command line and the MCP server read or print, and change nothing the modelled parts read.

## What comes next

1. `Throttle`: every condition is noted at once, counted after, and told in the end.

## Running

    tlc -workers 2 -config MCOutbox.cfg MCOutbox.tla     # likewise the other MC*.cfg
    tlapm OutboxProofs.tla                               # likewise the other *Proofs.tla
