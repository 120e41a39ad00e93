------------------------------- MODULE Ledger -------------------------------
(***************************************************************************)
(* The store every process of hatel opens for itself (sink.rs,             *)
(* catalog.rs): how its first writers create it, how a build meets a store *)
(* another layout holds, how a record is kept beside the definition of its *)
(* contract, and what a record id stands for.  Writers are hooks, record   *)
(* commands and the receiver; they may come from different builds, and     *)
(* from builds with different definitions of a kind.                       *)
(*                                                                         *)
(* A statement and a transaction of SQLite are one step each.  One kind is *)
(* modelled: its contracts are numbered, and `definition` of a contract is *)
(* the contract itself, since an id is the fingerprint of its definition.  *)
(***************************************************************************)
EXTENDS Integers, FiniteSets

CONSTANTS
  Writers, Readers,
  Version,      \* process -> the DATABASE_VERSION of its build
  Registry,      \* writer -> the contract its registry defines
  Fingerprints,
  Ids,          \* record ids of sources that present an occurrence more than once
  Contents,     \* what such an occurrence was presented as
  \* Bounds of the model.
  MaxWrites,    \* writes asked for
  MaxKills      \* writers killed

ASSUME LedgerAssumption ==
  /\ Version \in [Writers \cup Readers -> Nat \ {0}] /\ Registry \in [Writers -> Fingerprints]
  /\ {MaxWrites, MaxKills} \subseteq Nat

VARIABLES
  store,    \* the file: whether it exists, its journal and page modes, its stamp, its tables
  contracts,  \* the contracts whose definitions are stored
  records,  \* the rows of the records table
  writer,   \* writer -> how far it got: closed, opened, wal, initialize, ready, refused
  answer,   \* reader -> what its read showed
  writes, kills,
  acked     \* history: the rows whose write was acknowledged, as they were asked for

lvars == <<store, contracts, records, writer, answer, writes, kills, acked>>

LedgerRow == [id : Ids, contract : Fingerprints, data : Contents]

\* What a store holds, as a build reads it, from one snapshot of the stamp and the tables.
Layout(p) ==
  IF store.stamp > Version[p] THEN "newer"
  ELSE IF ~store.tables THEN "empty"
  ELSE IF store.stamp = Version[p] THEN "current" ELSE "other"

Unwritten == [exists |-> FALSE, wal |-> FALSE, stamp |-> 0, tables |-> FALSE]
-----------------------------------------------------------------------------
(* A writer: SqliteSink::init, then its writes.                            *)

\* connect: the file is created, and a newer stamp refused.
Connect(w) ==
  /\ writer[w] = "closed"
  /\ store' = [store EXCEPT !.exists = TRUE]
  /\ writer' = [writer EXCEPT ![w] = IF store.stamp > Version[w] THEN "refused" ELSE "opened"]
  /\ UNCHANGED <<contracts, records, answer, writes, kills, acked>>

\* init looks at the layout: only an empty store is to be created.
Look(w) ==
  /\ writer[w] = "opened"
  /\ writer' = [writer EXCEPT ![w] =
       CASE Layout(w) = "current" -> "ready"
         [] Layout(w) = "empty" -> "wal"
         [] OTHER -> "refused"]
  /\ UNCHANGED <<store, contracts, records, answer, writes, kills, acked>>

\* enable_wal: the switch needs the database to itself, so it is retried while another connection
\* is inside a transaction, until a deadline.  Once it landed the mode is in the file.
EnableWal(w) ==
  /\ writer[w] = "wal"
  /\ store' = [store EXCEPT !.wal = TRUE]
  /\ writer' = [writer EXCEPT ![w] = "initialize"]
  /\ UNCHANGED <<contracts, records, answer, writes, kills, acked>>

BusyTooLong(w) ==
  /\ writer[w] \in {"wal", "initialize", "ready"}
  /\ kills < MaxKills /\ kills' = kills + 1
  /\ writer' = [writer EXCEPT ![w] = "closed"]
  /\ UNCHANGED <<store, contracts, records, answer, writes, acked>>

\* initialize without a second look at the layout.
WrongInitialize(w) ==
  /\ writer[w] = "initialize"
  /\ store' = [store EXCEPT !.tables = TRUE, !.stamp = Version[w]]
  /\ writer' = [writer EXCEPT ![w] = "ready"]
  /\ UNCHANGED <<contracts, records, answer, writes, kills, acked>>

\* initialize: the layout is read again inside the transaction that creates the tables.
Initialize(w) ==
  /\ writer[w] = "initialize"
  /\ store' = IF Layout(w) = "empty" THEN [store EXCEPT !.tables = TRUE, !.stamp = Version[w]]
              ELSE store
  /\ writer' = [writer EXCEPT ![w] = IF Layout(w) \in {"empty", "current"} THEN "ready" ELSE "refused"]
  /\ UNCHANGED <<contracts, records, answer, writes, kills, acked>>

\* contract_id: the definition of a contract is stored, or the writer's registry has it.
Defined(w, c) == c \in contracts \/ c = Registry[w]

Stored(id) == {r \in records : r.id = id}

\* same_record: what an id already stands for; nothing says so of an id not yet stored.
SameRecord(row) == Stored(row.id) \subseteq {row}

\* One transaction of write_record (`strict`) or of write_new: the definition, then the row.  A row
\* stored under the id stays as it is; write_record refuses an id that stands for other data, and a
\* refused transaction leaves nothing behind.
Write(w, row, strict) ==
  /\ writer[w] = "ready" /\ writes < MaxWrites /\ writes' = writes + 1
  /\ IF Defined(w, row.contract) /\ (strict => SameRecord(row))
     THEN /\ contracts' = contracts \cup {row.contract}
          /\ records' = IF Stored(row.id) = {} THEN records \cup {row} ELSE records
          /\ acked' = IF strict THEN acked \cup {row} ELSE acked
     ELSE UNCHANGED <<contracts, records, acked>>
  /\ UNCHANGED <<store, writer, answer, kills>>

\* A hook exits after its writes, and the next one opens the store again; or it is killed.
Close(w) ==
  /\ writer[w] \in {"ready", "refused"}
  /\ writer' = [writer EXCEPT ![w] = "closed"]
  /\ UNCHANGED <<store, contracts, records, answer, writes, kills, acked>>

KillWriter(w) ==
  /\ writer[w] \notin {"closed", "refused"}
  /\ kills < MaxKills /\ kills' = kills + 1
  /\ writer' = [writer EXCEPT ![w] = "closed"]
  /\ UNCHANGED <<store, contracts, records, answer, writes, acked>>
-----------------------------------------------------------------------------
(* A reader: read, of a report, the doctor or a sweep's readiness check.   *)

ReadStore(r) ==
  /\ answer' = [answer EXCEPT ![r] =
       IF ~store.exists \/ Layout(r) = "empty" THEN "nothing"
       ELSE IF Layout(r) = "current" THEN "records" ELSE "refused"]
  /\ UNCHANGED <<store, contracts, records, writer, writes, kills, acked>>
-----------------------------------------------------------------------------
LInit ==
  /\ store = Unwritten /\ contracts = {} /\ records = {}
  /\ writer = [w \in Writers |-> "closed"] /\ answer = [r \in Readers |-> "nothing"]
  /\ writes = 0 /\ kills = 0 /\ acked = {}

LNext ==
  \/ \E w \in Writers :
       \/ Connect(w) \/ Look(w) \/ EnableWal(w) \/ BusyTooLong(w) \/ Initialize(w)
       \/ (\E row \in LedgerRow, strict \in BOOLEAN : Write(w, row, strict))
       \/ Close(w) \/ KillWriter(w)
  \/ \E r \in Readers : ReadStore(r)

LSpec == LInit /\ [][LNext]_lvars
-----------------------------------------------------------------------------
\* Every variable has its type.
LTypeOK ==
  /\ store \in [exists : BOOLEAN, wal : BOOLEAN, stamp : {0} \cup {Version[w] : w \in Writers},
                tables : BOOLEAN]
  /\ contracts \subseteq Fingerprints /\ records \subseteq LedgerRow /\ acked \subseteq LedgerRow
  /\ writer \in [Writers -> {"closed", "opened", "wal", "initialize", "ready", "refused"}]
  /\ answer \in [Readers -> {"nothing", "records", "refused"}]

(* However first writers of two builds race, a store holds tables exactly  *)
(* once it is stamped, and whoever may write is of the build that stamped  *)
(* it (initialize: a store holding records under another layout is refused *)
(* rather than altered).                                                   *)
OneLayout ==
  /\ \A w \in Writers : writer[w] = "ready" => store.tables /\ store.stamp = Version[w]
  /\ store.stamp # 0 <=> store.tables

(* Every record is beside the definition of its contract (catalog.rs,      *)
(* contract_id), an acknowledged write is what its id stands for, and an   *)
(* id stands for one record.                                               *)
RecordsStand ==
  /\ \A r \in records : r.contract \in contracts
  /\ acked \subseteq records
  /\ \A r, q \in records : r.id = q.id => r = q

\* Writers of any build, raced or killed, leave one layout and records that stand.
LedgerStands == OneLayout /\ RecordsStand
=============================================================================
