---------------------------- MODULE LedgerProofs ----------------------------
(***************************************************************************)
(* Theorems about the ledger: its store, for any number of writers and     *)
(* readers of any builds; the contracts its rows carry, for any fields,    *)
(* types, values and any set of valid definitions; what its sweeps keep,   *)
(* for any days, kinds, sizes of a day and bounds on the clock; and what a *)
(* report says of it, for any records, filters, groupings and kinds.       *)
(*                                                                         *)
(* LedgerStands needs little to be inductive: that a stamp is a number and *)
(* a row has an id and a contract (LTypeOK).  What a writer saw before its *)
(* transaction plays no part, since the layout is read again inside it;    *)
(* that is the content of the proof.                                       *)
(*                                                                         *)
(* Of the contracts CInv is inductive: a row is what some definition wrote *)
(* of a payload it accepted, and a definition with the contract of that    *)
(* one is stored.  What a row means is then a fact about two definitions,  *)
(* the one it was written under and today's.                               *)
(*                                                                         *)
(* That a sweep keeps what either configuration keeps follows from the     *)
(* types and from what the horizon is for each kind.  That nothing         *)
(* outlives its horizon needs more (Swept): while a receiver sweeps as it  *)
(* should, its settings are what config.toml says, a record that is held   *)
(* was not due to go at the last sweep or, when the clock was stepped back *)
(* behind that, was written since the worker last looked; and the clock is *)
(* short of an interval past that sweep by all but what the worker slept.  *)
(*                                                                         *)
(* A report's answer is a function of what is stored, so its theorems need *)
(* only Listed, that this is a finite list of records and of sessions.     *)
(* The rest is about the answer: of the records of one entity, or of one   *)
(* identity in one group, one is first; groups are the parts of what is    *)
(* counted, so their counts add up to it (SumOfParts); and no two of them  *)
(* rank the same (OneFirst).                                               *)
(*                                                                         *)
(* A path gets its project from the directories it meets.  That this is    *)
(* the checkout of its repository needs that git's directories hang        *)
(* together (GInv): where a linked worktree's stands, so does the one it   *)
(* shares; a checkout holds its own directory and is held by no other's;   *)
(* and the HEAD it leads to says what was last checked out there.          *)
(*                                                                         *)
(* A registry is folded from files, kinds and bindings.  Each fold is      *)
(* taken apart into what it passes through (FoldPath), which says of a     *)
(* merge what it asks of a file and adds to a registry (MergeIs), and of a *)
(* list which of its files are merged (TrialHolds, MergedIs, StrictIs).    *)
(***************************************************************************)
EXTENDS Ledger, Contracts, Retention, Reports, ProjectIdentity, Schemas, SumFacts, FiniteSetTheorems, TLAPS


\* Every step keeps the types.
LEMMA NextLedgerTypes == LTypeOK /\ [LNext]_lvars => LTypeOK'
<1> SUFFICES ASSUME LTypeOK, [LNext]_lvars PROVE LTypeOK'
  OBVIOUS
<1>1. ASSUME NEW w \in Writers, Connect(w) PROVE LTypeOK'
  BY <1>1 DEF Connect, LTypeOK
<1>2. ASSUME NEW w \in Writers, Look(w) PROVE LTypeOK'
  <2>1. \E v \in {"ready", "wal", "refused"} : writer' = [writer EXCEPT ![w] = v]
    BY <1>2 DEF Look
  <2> QED BY <1>2, <2>1 DEF Look, LTypeOK
<1>3. ASSUME NEW w \in Writers, EnableWal(w) PROVE LTypeOK'
  BY <1>3 DEF EnableWal, LTypeOK
<1>4. ASSUME NEW w \in Writers, BusyTooLong(w) \/ Close(w) \/ KillWriter(w) PROVE LTypeOK'
  BY <1>4 DEF BusyTooLong, Close, KillWriter, LTypeOK
<1>5. ASSUME NEW w \in Writers, Initialize(w) PROVE LTypeOK'
  <2>1. \E v \in {"ready", "refused"} : writer' = [writer EXCEPT ![w] = v]
    BY <1>5 DEF Initialize
  <2>2. store' \in [exists : BOOLEAN, wal : BOOLEAN, stamp : {0} \cup {Version[x] : x \in Writers},
                    tables : BOOLEAN]
    BY <1>5 DEF Initialize, LTypeOK
  <2> QED BY <1>5, <2>1, <2>2 DEF Initialize, LTypeOK
<1>6. ASSUME NEW w \in Writers, NEW row \in LedgerRow, NEW strict \in BOOLEAN, Write(w, row, strict)
      PROVE  LTypeOK'
  <2>1. row.contract \in Fingerprints
    BY DEF LedgerRow
  <2> QED BY <1>6, <2>1 DEF Write, LTypeOK
<1>7. ASSUME NEW r \in Readers, ReadStore(r) PROVE LTypeOK'
  <2>1. \E v \in {"nothing", "records", "refused"} : answer' = [answer EXCEPT ![r] = v]
    BY <1>7 DEF ReadStore
  <2> QED BY <1>7, <2>1 DEF ReadStore, LTypeOK
<1>8. CASE UNCHANGED lvars
  BY <1>8 DEF lvars, LTypeOK
<1> QED BY <1>1, <1>2, <1>3, <1>4, <1>5, <1>6, <1>7, <1>8 DEF LNext

\* A build's version, and every stamp, is a number, and no build's is 0.
LEMMA Stamps ==
  ASSUME LTypeOK, NEW w \in Writers
  PROVE  store.stamp \in Nat /\ Version[w] \in Nat /\ Version[w] # 0
BY LedgerAssumption DEF LTypeOK

\* What a layout says of the store.
LEMMA LayoutFacts ==
  ASSUME LTypeOK, NEW w \in Writers
  PROVE  /\ Layout(w) = "current" => store.tables /\ store.stamp = Version[w]
         /\ Layout(w) = "empty" => ~store.tables
BY Stamps DEF Layout

\* Every step keeps one layout.
LEMMA NextOneLayout == LTypeOK /\ OneLayout /\ [LNext]_lvars => OneLayout'
<1> SUFFICES ASSUME LTypeOK, OneLayout, [LNext]_lvars PROVE OneLayout'
  OBVIOUS
<1>1. ASSUME store'.tables = store.tables, store'.stamp = store.stamp, NEW w \in Writers, NEW v,
             writer' = [writer EXCEPT ![w] = v], v = "ready" => store.tables /\ store.stamp = Version[w]
      PROVE  OneLayout'
  BY <1>1 DEF OneLayout, LTypeOK
<1>2. ASSUME NEW w \in Writers, Connect(w) \/ EnableWal(w) PROVE OneLayout'
  <2>1. store'.tables = store.tables /\ store'.stamp = store.stamp
    BY <1>2 DEF Connect, EnableWal, LTypeOK
  <2>2. \E v \in {"refused", "opened", "initialize"} : writer' = [writer EXCEPT ![w] = v]
    BY <1>2 DEF Connect, EnableWal
  <2> QED BY <1>1, <2>1, <2>2
<1>3. ASSUME NEW w \in Writers, Look(w) PROVE OneLayout'
  <2>1. CASE Layout(w) = "current"
    BY <1>1, <1>3, <2>1, LayoutFacts DEF Look
  <2>2. CASE Layout(w) # "current"
    <3>1. \E v \in {"wal", "refused"} : writer' = [writer EXCEPT ![w] = v]
      BY <1>3, <2>2 DEF Look
    <3> QED BY <1>1, <1>3, <3>1 DEF Look
  <2> QED BY <2>1, <2>2
<1>4. ASSUME NEW w \in Writers, BusyTooLong(w) \/ Close(w) \/ KillWriter(w) PROVE OneLayout'
  BY <1>1, <1>4 DEF BusyTooLong, Close, KillWriter
<1>5. ASSUME NEW w \in Writers, Initialize(w) PROVE OneLayout'
  \* Nobody is ready while the store is empty, so creating the tables takes nobody's layout away.
  <2>1. CASE Layout(w) = "empty"
    <3>1. \A x \in Writers : writer[x] # "ready"
      BY <2>1, LayoutFacts DEF OneLayout
    <3>2. store'.tables = TRUE /\ store'.stamp = Version[w]
      BY <1>5, <2>1 DEF Initialize, LTypeOK
    <3>3. \A x \in Writers : writer'[x] = "ready" => x = w
      BY <1>5, <3>1 DEF Initialize, LTypeOK
    <3> QED BY <3>2, <3>3, Stamps DEF OneLayout
  <2>2. CASE Layout(w) = "current"
    BY <1>1, <1>5, <2>2, LayoutFacts DEF Initialize
  <2>3. CASE Layout(w) \notin {"empty", "current"}
    BY <1>1, <1>5, <2>3 DEF Initialize
  <2> QED BY <2>1, <2>2, <2>3
<1>6. ASSUME UNCHANGED <<store, writer>> PROVE OneLayout'
  BY <1>6 DEF OneLayout
<1>7. ASSUME NEW w \in Writers, NEW row \in LedgerRow, NEW strict \in BOOLEAN, Write(w, row, strict)
      PROVE  OneLayout'
  BY <1>6, <1>7 DEF Write
<1>8. ASSUME NEW r \in Readers, ReadStore(r) PROVE OneLayout'
  BY <1>6, <1>8 DEF ReadStore
<1>9. CASE UNCHANGED lvars
  BY <1>6, <1>9 DEF lvars
<1> QED BY <1>2, <1>3, <1>4, <1>5, <1>7, <1>8, <1>9 DEF LNext

\* Every step leaves records that stand.
LEMMA NextRecordsStand == RecordsStand /\ [LNext]_lvars => RecordsStand'
<1> SUFFICES ASSUME RecordsStand, [LNext]_lvars PROVE RecordsStand'
  OBVIOUS
<1>1. ASSUME UNCHANGED <<contracts, records, acked>> PROVE RecordsStand'
  BY <1>1 DEF RecordsStand
<1>2. ASSUME NEW w \in Writers, NEW row \in LedgerRow, NEW strict \in BOOLEAN, Write(w, row, strict)
      PROVE  RecordsStand'
  <2>1. CASE Defined(w, row.contract) /\ (strict => SameRecord(row))
    <3>1. /\ contracts' = contracts \cup {row.contract}
          /\ records' = IF Stored(row.id) = {} THEN records \cup {row} ELSE records
          /\ acked' = IF strict THEN acked \cup {row} ELSE acked
      BY <1>2, <2>1 DEF Write
    <3>2. \A r \in records' : r.contract \in contracts'
      BY <3>1 DEF RecordsStand
    <3>3. acked' \subseteq records'
      BY <2>1, <3>1 DEF RecordsStand, SameRecord, Stored
    <3>4. \A r, q \in records' : r.id = q.id => r = q
      BY <3>1 DEF RecordsStand, Stored
    <3> QED BY <3>2, <3>3, <3>4 DEF RecordsStand
  <2>2. CASE ~(Defined(w, row.contract) /\ (strict => SameRecord(row)))
    BY <1>1, <1>2, <2>2 DEF Write
  <2> QED BY <2>1, <2>2
<1>3. ASSUME NEW w \in Writers,
             \/ Connect(w) \/ Look(w) \/ EnableWal(w) \/ BusyTooLong(w) \/ Initialize(w)
             \/ Close(w) \/ KillWriter(w)
      PROVE  RecordsStand'
  BY <1>1, <1>3 DEF Connect, Look, EnableWal, BusyTooLong, Initialize, Close, KillWriter
<1>4. ASSUME NEW r \in Readers, ReadStore(r) PROVE RecordsStand'
  BY <1>1, <1>4 DEF ReadStore
<1>5. CASE UNCHANGED lvars
  BY <1>1, <1>5 DEF lvars
<1> QED BY <1>2, <1>3, <1>4, <1>5 DEF LNext

(* However first writers of different builds race or are killed, a store   *)
(* holds tables exactly once it is stamped, whoever may write is of the    *)
(* build that stamped it (initialize); and every record is beside its      *)
(* definition, an acknowledged write is what its id stands for, and an id  *)
(* stands for one record (write_record).                                   *)
THEOREM LedgerAlwaysStands == LSpec => []LedgerStands
<1>1. LInit => LTypeOK /\ OneLayout /\ RecordsStand
  BY DEF LInit, LTypeOK, OneLayout, RecordsStand, Unwritten
<1> QED BY <1>1, NextLedgerTypes, NextOneLayout, NextRecordsStand, PTL DEF LSpec, LedgerStands
-----------------------------------------------------------------------------
(* The contracts of the rows.                                              *)


\* The row is what definition w wrote of payload p.
WrittenAs(row, w, p) ==
  /\ Sanitized(w, p)
  /\ row = [contract |-> Contract(w), payload |-> Keeping(w, p)]

CInv ==
  /\ current \in Definitions /\ stored \subseteq Definitions
  /\ \A row \in rows :
       /\ \E w \in Definitions, p \in Payloads : WrittenAs(row, w, p)
       /\ \E d \in stored : Contract(d) = row.contract

\* Every step keeps CInv.
LEMMA NextCInv == CInv /\ [CNext]_cvars => CInv'
<1> SUFFICES ASSUME CInv, [CNext]_cvars PROVE CInv'
  OBVIOUS
<1>1. ASSUME NEW p \in Payloads, NEW strict \in BOOLEAN, Record(p, strict) PROVE CInv'
  <2> DEFINE new == [contract |-> Contract(current), payload |-> Keeping(current, p)]
  <2>1. current' = current /\ current \in Definitions /\ rows' = rows \cup {new}
    BY <1>1 DEF Record, CInv
  <2>2. stored \subseteq stored' /\ stored' \subseteq Definitions
    BY <1>1, <2>1 DEF Record, CInv
  <2>3. \E w \in Definitions, q \in Payloads : WrittenAs(new, w, q)
    BY <1>1, <2>1 DEF Record, WrittenAs
  <2>4. \E d \in stored' : Contract(d) = new.contract
    BY <1>1 DEF Record
  <2>5. ASSUME NEW row \in rows'
        PROVE  /\ \E w \in Definitions, q \in Payloads : WrittenAs(row, w, q)
               /\ \E d \in stored' : Contract(d) = row.contract
    <3>1. CASE row = new
      BY <3>1, <2>3, <2>4
    <3>2. CASE row \in rows
      BY <3>2, <2>2 DEF CInv
    <3> QED BY <2>1, <3>1, <3>2
  <2> HIDE DEF new
  <2> QED BY <2>1, <2>2, <2>5 DEF CInv
<1>2. ASSUME NEW d \in Definitions, Redefine(d) PROVE CInv'
  BY <1>2 DEF Redefine, CInv
<1>3. ASSUME UNCHANGED cvars PROVE CInv'
  BY <1>3 DEF cvars, CInv
<1> QED BY <1>1, <1>2, <1>3 DEF CNext

\* A row is always what some definition wrote, and that definition is always known.
LEMMA RowsAreWritten == CSpec => []CInv
<1>1. CInit => CInv
  BY DEF CInit, CInv
<1> QED BY <1>1, NextCInv, PTL DEF CSpec
-----------------------------------------------------------------------------
(* Two definitions.                                                        *)

\* Definitions of one contract are read alike, and export alike.
LEMMA ContractDecides ==
  ASSUME NEW d, NEW k, NEW w, Contract(k) = Contract(w)
  PROVE  /\ Reads(d, k) => Reads(d, w)
         /\ Exports(d, k) => Exports(d, w)
<1>1. /\ k.mode = w.mode /\ k.version = w.version /\ k.fields = w.fields
      /\ k.redact = w.redact /\ k.identity = w.identity
  BY DEF Contract
<1> QED BY <1>1 DEF Reads, Exports

\* A definition reads its own records.
LEMMA ReadsItself == ASSUME NEW d PROVE Reads(d, d)
BY DEF Reads

\* What w wrote means under d what it meant, if d reads w.
LEMMA MeaningKept ==
  ASSUME NEW d \in Definitions, NEW w \in Definitions, NEW p, Sanitized(w, p), Reads(d, w)
  PROVE  /\ Means(d, Keeping(w, p))
         /\ d.mode = "snapshot" => d.identity = w.identity /\ d.identity \in DOMAIN Keeping(w, p)
         /\ \A m \in d.measures \cap DOMAIN Keeping(w, p) : ~Keeping(w, p)[m].hashed
<1>1. Valid(d) /\ Valid(w)
  BY ContractsAssumption
<1>2. /\ DOMAIN Keeping(w, p) = DOMAIN p \cap DOMAIN w.fields
      /\ \A f \in DOMAIN p \cap DOMAIN w.fields :
           /\ Keeping(w, p)[f].value = p[f]
           /\ Keeping(w, p)[f].hashed = (f \in w.redact)
           /\ Keeping(w, p)[f].unit = w.fields[f].unit
  BY DEF Keeping
<1>3. ASSUME NEW f \in DOMAIN d.fields, f \in DOMAIN p, f \in DOMAIN w.fields
      PROVE  /\ Accepts(d.fields[f].type, p[f])
             /\ w.fields[f].unit = d.fields[f].unit
             /\ f \in w.redact <=> f \in d.redact
  BY <1>3 DEF Sanitized, Reads
<1>4. ASSUME NEW f \in DOMAIN d.fields, ~(f \in DOMAIN p /\ f \in DOMAIN w.fields)
      PROVE  ~d.fields[f].required
  <2>1. CASE f \notin DOMAIN w.fields
    BY <2>1 DEF Reads
  <2>2. CASE f \in DOMAIN w.fields
    <3>1. f \notin DOMAIN p
      BY <1>4, <2>2
    <3>2. ~w.fields[f].required
      BY <2>2, <3>1 DEF Sanitized
    <3>3. w.fields[f].required \/ ~d.fields[f].required
      BY <2>2 DEF Reads
    <3> QED BY <3>2, <3>3
  <2> QED BY <2>1, <2>2
<1>5. Means(d, Keeping(w, p))
  BY <1>2, <1>3, <1>4 DEF Means
<1>6. ASSUME d.mode = "snapshot"
      PROVE  d.identity = w.identity /\ d.identity \in DOMAIN Keeping(w, p)
  <2>1. w.mode = "snapshot" /\ d.identity = w.identity
    BY <1>6 DEF Reads
  <2>2. w.identity \in DOMAIN w.fields /\ w.identity \in DOMAIN p
    BY <1>1, <2>1 DEF Valid, Sanitized
  <2> QED BY <1>2, <2>1, <2>2
<1>7. ASSUME NEW m \in d.measures, m \in DOMAIN Keeping(w, p)
      PROVE  ~Keeping(w, p)[m].hashed
  <2>1. m \in DOMAIN d.fields /\ m \notin d.redact
    BY <1>1 DEF Valid
  <2>2. m \in DOMAIN p /\ m \in DOMAIN w.fields
    BY <1>2, <1>7
  <2>3. m \notin w.redact
    BY <1>3, <2>1, <2>2
  <2> QED BY <1>2, <2>2, <2>3
<1> QED BY <1>5, <1>6, <1>7

\* A contract that is read, or exported, is one today's definition reads, or exports, as it stands.
LEMMA ReadableFacts ==
  ASSUME NEW w
  PROVE  /\ Contract(w) \in Readable => Reads(current, w)
         /\ Contract(w) \in Exportable => Exports(current, w) /\ Contract(w) \in Readable
<1>1. ASSUME Contract(w) \in Readable PROVE Reads(current, w)
  BY <1>1, ContractDecides DEF Readable
<1>2. ASSUME Contract(w) \in Exportable PROVE Exports(current, w)
  BY <1>2, ContractDecides DEF Exportable
<1>3. ASSUME Contract(w) \in Exportable PROVE Contract(w) \in Readable
  BY <1>3 DEF Exportable, Readable, Exports
<1> QED BY <1>1, <1>2, <1>3
-----------------------------------------------------------------------------
(* However often a schema is edited, a record that is read means under     *)
(* today's definition what it meant when it was written                    *)
(* (KindSpec::reads), and a record that is not read is counted             *)
(* (Contracts::resolution): for any definitions from_raw accepts.          *)
THEOREM RowsAlwaysKeepMeaning == CSpec => []RowsKeepMeaning
<1>1. ASSUME CInv PROVE ReadsKeepMeaning
  <2> SUFFICES ASSUME NEW row \in rows, row.contract \in Readable
               PROVE  /\ Means(current, row.payload)
                      /\ row.contract.mode = current.mode /\ row.contract.version = current.version
                      /\ current.mode = "snapshot" =>
                           /\ row.contract.identity = current.identity
                           /\ current.identity \in DOMAIN row.payload
                      /\ \A m \in current.measures \cap DOMAIN row.payload : ~row.payload[m].hashed
    BY DEF ReadsKeepMeaning
  <2> PICK w \in Definitions, p \in Payloads : WrittenAs(row, w, p)
    BY <1>1 DEF CInv
  <2>1. row.contract = Contract(w) /\ row.payload = Keeping(w, p) /\ Sanitized(w, p)
    BY DEF WrittenAs
  <2>2. Reads(current, w) /\ current \in Definitions
    BY <1>1, <2>1, ReadableFacts DEF CInv
  <2>3. row.contract.mode = current.mode /\ row.contract.version = current.version
    BY <2>1, <2>2 DEF Contract, Reads
  <2>4. row.contract.identity = w.identity
    BY <2>1 DEF Contract
  <2> QED BY <2>1, <2>2, <2>3, <2>4, MeaningKept
<1>2. ASSUME CInv PROVE EveryRowResolves
  <2> SUFFICES ASSUME NEW row \in rows
               PROVE  /\ Resolution(row.contract) # "undefined"
                      /\ row.contract = Contract(current) => row.contract \in Readable
    BY DEF EveryRowResolves
  <2>1. PICK d \in stored : Contract(d) = row.contract
    BY <1>2 DEF CInv
  <2>2. row.contract \in {Contract(k) : k \in Known}
    BY <2>1 DEF Known
  <2>3. row.contract = Contract(current) => row.contract \in Readable
    BY ReadsItself DEF Readable, Known
  <2> QED BY <2>2, <2>3 DEF Resolution
<1> QED BY <1>1, <1>2, RowsAreWritten, PTL DEF RowsKeepMeaning

(* A record leaves the machine only if today's definition allows every     *)
(* field it carries (KindSpec::exports): for any definitions from_raw      *)
(* accepts.                                                                *)
THEOREM ExportsAlwaysAllowed == CSpec => []ExportsOnlyAllowed
<1>1. ASSUME CInv PROVE ExportsOnlyAllowed
  <2> SUFFICES ASSUME NEW row \in rows, row.contract \in Exportable
               PROVE  row.contract \in Readable /\ DOMAIN row.payload \subseteq DOMAIN current.fields
    BY DEF ExportsOnlyAllowed
  <2> PICK w \in Definitions, p \in Payloads : WrittenAs(row, w, p)
    BY <1>1 DEF CInv
  <2>1. row.contract = Contract(w) /\ row.payload = Keeping(w, p)
    BY DEF WrittenAs
  <2>2. Exports(current, w) /\ Contract(w) \in Readable
    BY <2>1, ReadableFacts
  <2> QED BY <2>1, <2>2 DEF Exports, Keeping
<1> QED BY <1>1, RowsAreWritten, PTL
-----------------------------------------------------------------------------
(* Retention.                                                              *)

\* Every variable has its type.
HTypes ==
  /\ clock \in Nat /\ last \in Nat /\ slept \in 0 .. WakeInterval
  /\ environ \in DaysAllowed \cup {Unset, Unreadable}
  /\ settings \in Storage \cup {Unreadable}
  /\ live \in Resolved \cup {Unset}
  /\ held \subseteq [kind : StoredKinds, at : Nat]

\* For how long a configuration keeps a kind, in units of time.
Span(cfg, k) == DaysFor(cfg, k) * Day

Swept ==
  Running /\ steady =>
    /\ settings # Unreadable /\ live = Resolve(settings, environ) /\ live \in Resolved
    /\ clock < last + SweepInterval(live) + slept
    /\ \A r \in held : last <= r.at + Span(live, r.kind) \/ clock <= r.at + slept
-----------------------------------------------------------------------------
(* Configurations.                                                         *)

\* What reading a variable and a file gives is within bounds, unset or unreadable.
LEMMA ReadTypes ==
  Variables \subseteq DaysAllowed \cup {Unset, Unreadable} /\ SettingsRead \subseteq Storage \cup {Unreadable}
<1>1. \A v : ReadVariable(v) \in DaysAllowed \cup {Unset, Unreadable}
  BY DEF ReadVariable, ReadDays
<1>2. ASSUME NEW f \in Written, ReadSettings(f) # Unreadable
      PROVE  ReadSettings(f) \in Storage
  <2>1. PICK K \in SUBSET StoredKinds : f.kinds \in [K -> Numbers]
    BY DEF Written
  <2>2. ReadSettings(f) = f /\ ReadVariable(f.days) # Unreadable
    BY <1>2 DEF ReadSettings
  <2>3. \A k \in DOMAIN f.kinds : ReadDays(f.kinds[k]) # Unreadable
    BY <1>2 DEF ReadSettings
  <2>4. f.days \in DaysAllowed \cup {Unset}
    BY <2>2 DEF ReadVariable, ReadDays
  <2>5. f.kinds \in [K -> DaysAllowed]
    BY <2>1, <2>3 DEF ReadDays
  <2>6. f = [days |-> f.days, kinds |-> f.kinds]
    BY DEF Written
  <2> QED BY <2>2, <2>4, <2>5, <2>6 DEF Storage
<1> QED BY <1>1, <1>2 DEF Variables, SettingsRead

\* What a file and a variable resolve to is a configuration.
LEMMA ResolveType ==
  ASSUME NEW file \in Storage, NEW env \in DaysAllowed \cup {Unset, Unreadable}
  PROVE  Resolve(file, env) \in Resolved
<1>1. Resolve(file, env).days \in DaysAllowed \cup {DefaultDays}
  BY DEF Resolve, Storage
<1>2. PICK K \in SUBSET StoredKinds : file.kinds \in [K -> DaysAllowed]
  BY DEF Storage
<1>3. file.kinds \in [K -> DaysAllowed \cup {DefaultDays}]
  BY <1>2
<1>4. Resolve(file, env) = [days |-> Resolve(file, env).days, kinds |-> file.kinds]
  BY DEF Resolve
<1> QED BY <1>1, <1>3, <1>4 DEF Resolved

\* A configuration gives every kind a number of days.
LEMMA DaysType ==
  ASSUME NEW cfg \in Resolved, NEW k
  PROVE  DaysFor(cfg, k) \in Nat \ {0} /\ cfg.days \in Nat \ {0}
<1>1. DaysAllowed \cup {DefaultDays} \subseteq Nat \ {0}
  BY RetentionAssumption
<1>2. PICK K \in SUBSET StoredKinds : cfg.kinds \in [K -> DaysAllowed \cup {DefaultDays}]
  BY DEF Resolved
<1>3. cfg.days \in DaysAllowed \cup {DefaultDays}
  BY DEF Resolved
<1> QED BY <1>1, <1>2, <1>3 DEF DaysFor

\* The horizon of two configurations is, for every kind, the longer of the two.
LEMMA HorizonDays ==
  ASSUME NEW a \in Resolved, NEW b \in Resolved, NEW k
  PROVE  DaysFor(HorizonOf(a, b), k) = Longer(DaysFor(a, k), DaysFor(b, k))
<1>1. HorizonOf(a, b).days = Longer(a.days, b.days)
  BY DEF HorizonOf
<1>2. HorizonOf(a, b).kinds = [j \in DOMAIN a.kinds \cup DOMAIN b.kinds |->
                                 Longer(DaysFor(a, j), DaysFor(b, j))]
  BY DEF HorizonOf
<1>3. CASE k \in DOMAIN a.kinds \cup DOMAIN b.kinds
  BY <1>2, <1>3 DEF DaysFor
<1>4. CASE k \notin DOMAIN a.kinds \cup DOMAIN b.kinds
  BY <1>1, <1>2, <1>4 DEF DaysFor
<1> QED BY <1>3, <1>4

\* More days are at least as long a time.
LEMMA LongerSpan ==
  ASSUME NEW m \in Nat, NEW n \in Nat, m <= n
  PROVE  m * Day <= n * Day /\ m * Day \in Nat
<1>1. Day \in Nat
  BY RetentionAssumption
<1> QED BY <1>1

\* What is expired under the horizon is expired under both configurations.
LEMMA HorizonKeeps ==
  ASSUME HTypes, NEW a \in Resolved, NEW b \in Resolved, NEW r \in held, Expired(HorizonOf(a, b), r)
  PROVE  Expired(a, r) /\ Expired(b, r)
<1> DEFINE x == DaysFor(a, r.kind)
           y == DaysFor(b, r.kind)
           z == DaysFor(HorizonOf(a, b), r.kind)
<1>1. x \in Nat /\ y \in Nat /\ z = Longer(x, y)
  BY DaysType, HorizonDays
<1>2. z \in Nat /\ x <= z /\ y <= z
  BY <1>1 DEF Longer
<1>3. /\ x * Day <= z * Day /\ y * Day <= z * Day
      /\ x * Day \in Nat /\ y * Day \in Nat /\ z * Day \in Nat
  BY <1>1, <1>2, LongerSpan
<1>4. r.at \in Nat /\ clock \in Nat
  BY DEF HTypes
<1>5. r.at < clock - z * Day
  BY DEF Expired
<1> HIDE DEF x, y, z
<1>6. r.at < clock - x * Day /\ r.at < clock - y * Day
  BY <1>3, <1>4, <1>5
<1> QED BY <1>6 DEF Expired, x, y

\* Every step keeps the types.
LEMMA NextHTypes == HTypes /\ [HNext]_hvars => HTypes'
<1> SUFFICES ASSUME HTypes, [HNext]_hvars PROVE HTypes'
  OBVIOUS
<1>1. ASSUME NEW k \in StoredKinds, WriteRecord(k) PROVE HTypes'
  BY <1>1 DEF WriteRecord, HTypes
<1>2. CASE Tick
  BY <1>2, RetentionAssumption DEF Tick, HTypes
<1>3. CASE SetClockBack
  BY <1>3 DEF SetClockBack, HTypes
<1>4. ASSUME NEW done \in SUBSET StoredKinds, SweepLedger(done) PROVE HTypes'
  <2>1. held' \subseteq held
    BY <1>4 DEF SweepLedger, Prune
  <2> QED BY <1>4, <2>1, RetentionAssumption DEF SweepLedger, HTypes
<1>5. CASE StartSweeping
  <2>1. held' \subseteq held
    BY <1>5 DEF StartSweeping, Prune
  <2>2. settings \in Storage
    BY <1>5 DEF StartSweeping, Loads, HTypes
  <2>3. live' \in Resolved
    BY <1>5, <2>2, ResolveType DEF StartSweeping, HTypes
  <2> QED BY <1>5, <2>1, <2>3, RetentionAssumption DEF StartSweeping, HTypes
<1>6. CASE StopSweeping
  BY <1>6, RetentionAssumption DEF StopSweeping, HTypes
<1>7. ASSUME NEW s \in SettingsRead, EditStorage(s) PROVE HTypes'
  BY <1>7, ReadTypes DEF EditStorage, HTypes
<1>8. CASE UNCHANGED hvars
  BY <1>8 DEF hvars, HTypes
<1>9. CASE LookOnly
  BY <1>9, RetentionAssumption DEF LookOnly, HTypes
<1> QED BY <1>1, <1>2, <1>3, <1>4, <1>5, <1>6, <1>7, <1>8, <1>9 DEF HNext

\* The initial values have their types.
LEMMA InitHTypes == HInit => HTypes
BY ReadTypes, RetentionAssumption DEF HInit, HTypes
-----------------------------------------------------------------------------
(* A sweep deletes a record only if the configuration the receiver runs    *)
(* with and the one config.toml now says both let it go, and a file that   *)
(* cannot be read deletes nothing (horizon): for any days and kinds.       *)
THEOREM AlwaysKeptAsPromised == HSpec => KeptAsPromised
<1> DEFINE Kept == \A r \in held \ held' :
                     /\ settings # Unreadable /\ Expired(Resolve(settings, environ), r)
                     /\ Running => Expired(live, r)
<1>1. HTypes /\ [HNext]_hvars => [Kept]_hvars
  <2> SUFFICES ASSUME HTypes, HNext PROVE Kept
    OBVIOUS
  <2>1. ASSUME held \subseteq held' PROVE Kept
    BY <2>1
  <2>2. ASSUME NEW done \in SUBSET StoredKinds, SweepLedger(done) PROVE Kept
    <3>1. CASE settings = Unreadable
      BY <2>1, <2>2, <3>1 DEF SweepLedger
    <3>2. CASE settings # Unreadable
      <4>1. live \in Resolved /\ Resolve(settings, environ) \in Resolved
        BY <2>2, <3>2, ResolveType DEF SweepLedger, Awake, Running, HTypes
      <4>2. \A r \in held \ held' : Expired(HorizonOf(live, Resolve(settings, environ)), r)
        BY <2>2, <3>2 DEF SweepLedger, Prune
      <4> QED BY <3>2, <4>1, <4>2, HorizonKeeps
    <3> QED BY <3>1, <3>2
  <2>3. CASE StartSweeping
    BY <2>3 DEF StartSweeping, Prune, Loads
  <2>4. ASSUME NEW k \in StoredKinds, WriteRecord(k) PROVE Kept
    BY <2>1, <2>4 DEF WriteRecord
  <2>5. ASSUME NEW s \in SettingsRead, EditStorage(s) PROVE Kept
    BY <2>1, <2>5 DEF EditStorage
  <2>6. CASE Tick \/ LookOnly \/ SetClockBack \/ StopSweeping
    BY <2>1, <2>6 DEF Tick, LookOnly, SetClockBack, StopSweeping
  <2> QED BY <2>2, <2>3, <2>4, <2>5, <2>6 DEF HNext
<1> QED BY <1>1, InitHTypes, NextHTypes, PTL DEF HSpec, KeptAsPromised
-----------------------------------------------------------------------------
(* Nothing outlives its horizon by more than an interval and a sleep.      *)

\* There is time between sweeps, and a kind is kept for longer than the worker sleeps.
LEMMA IntervalType ==
  ASSUME NEW cfg \in Resolved, NEW k
  PROVE  /\ SweepInterval(cfg) \in Nat \ {0} /\ Span(cfg, k) \in Nat
         /\ WakeInterval \in Nat \ {0} /\ WakeInterval <= Span(cfg, k)
<1>1. /\ 1 * Day <= cfg.days * Day /\ 1 * Day <= DaysFor(cfg, k) * Day
      /\ cfg.days * Day \in Nat /\ DaysFor(cfg, k) * Day \in Nat
  <2>1. cfg.days \in Nat /\ DaysFor(cfg, k) \in Nat /\ 1 <= cfg.days /\ 1 <= DaysFor(cfg, k)
    BY DaysType
  <2> QED BY <2>1, LongerSpan
<1>2. /\ FilesPerHorizon \in Nat \ {0} /\ MaxInterval \in Nat \ {0} /\ WakeInterval \in Nat \ {0}
      /\ Day \in Nat /\ FilesPerHorizon <= Day /\ WakeInterval <= Day
  BY RetentionAssumption
<1>3. \A n \in Nat : FilesPerHorizon <= n => n \div FilesPerHorizon \in Nat \ {0}
  BY <1>2
<1>4. (cfg.days * Day) \div FilesPerHorizon \in Nat \ {0}
  <2> DEFINE n == cfg.days * Day
  <2>1. n \in Nat /\ FilesPerHorizon <= n
    BY <1>1, <1>2
  <2> HIDE DEF n
  <2>2. n \div FilesPerHorizon \in Nat \ {0}
    BY <1>3, <2>1
  <2> QED BY <2>2 DEF n
<1>5. SweepInterval(cfg) \in Nat \ {0}
  BY <1>2, <1>4 DEF SweepInterval
<1>6. Span(cfg, k) \in Nat /\ WakeInterval <= Span(cfg, k)
  BY <1>1, <1>2 DEF Span
<1> QED BY <1>2, <1>5, <1>6

\* Sweeping every kind by cfg leaves nothing due to go.
LEMMA SweptNow ==
  ASSUME HTypes, NEW cfg, NEW run \in Resolved, Prune(cfg, StoredKinds),
         \A k : DaysFor(cfg, k) = DaysFor(run, k)
  PROVE  \A r \in held' : clock <= r.at + Span(run, r.kind)
<1> SUFFICES ASSUME NEW r \in held' PROVE clock <= r.at + Span(run, r.kind)
  OBVIOUS
<1>1. r.kind \in StoredKinds /\ r.at \in Nat /\ clock \in Nat
  BY DEF Prune, HTypes
<1>2. ~(r.at < clock - DaysFor(cfg, r.kind) * Day)
  BY <1>1 DEF Prune, Expired
<1>3. Span(run, r.kind) \in Nat /\ Span(run, r.kind) = DaysFor(cfg, r.kind) * Day
  BY IntervalType DEF Span
<1> QED BY <1>1, <1>2, <1>3

\* Every step keeps Swept.
LEMMA NextSwept == HTypes /\ Swept /\ [HNext]_hvars => Swept'
<1> SUFFICES ASSUME HTypes, Swept, [HNext]_hvars, Running', steady' PROVE Swept'
  BY DEF Swept
<1>1. /\ clock \in Nat /\ last \in Nat /\ \A r \in held : r.at \in Nat
      /\ slept \in Nat /\ WakeInterval \in Nat
  BY RetentionAssumption DEF HTypes
<1>2. ASSUME NEW k \in StoredKinds, WriteRecord(k) PROVE Swept'
  <2>1. UNCHANGED <<clock, environ, settings, live, last, slept, steady>>
    BY <1>2 DEF WriteRecord
  <2>2. held' = held \cup {[kind |-> k, at |-> clock]}
    BY <1>2 DEF WriteRecord
  <2>3. clock <= clock + slept
    BY <1>1
  <2> QED BY <2>1, <2>2, <2>3 DEF Swept, Running
<1>3. CASE Tick
  <2>1. /\ UNCHANGED <<environ, settings, live, last, held, steady>> /\ clock' = clock + 1
        /\ Running => slept' = slept + 1
    BY <1>3 DEF Tick
  <2>2. Running /\ steady /\ live \in Resolved /\ slept' = slept + 1
    BY <2>1 DEF Swept, Running
  <2>3. SweepInterval(live) \in Nat
    BY <2>2, IntervalType
  <2>4. clock' < last' + SweepInterval(live') + slept'
    BY <1>1, <2>1, <2>2, <2>3 DEF Swept
  <2>5. ASSUME NEW r \in held'
        PROVE  last' <= r.at + Span(live', r.kind) \/ clock' <= r.at + slept'
    BY <1>1, <2>1, <2>2 DEF Swept
  <2> QED BY <2>1, <2>2, <2>4, <2>5 DEF Swept
<1>4. CASE SetClockBack
  <2>1. UNCHANGED <<environ, settings, live, last, slept, held, steady>> /\ clock' \in 0 .. (clock - 1)
    BY <1>4 DEF SetClockBack
  <2>2. Running /\ steady /\ live \in Resolved /\ SweepInterval(live) \in Nat
    BY <2>1, IntervalType DEF Swept, Running
  <2>3. clock' < last' + SweepInterval(live') + slept'
    BY <1>1, <2>1, <2>2 DEF Swept
  <2>4. ASSUME NEW r \in held'
        PROVE  last' <= r.at + Span(live', r.kind) \/ clock' <= r.at + slept'
    BY <1>1, <2>1, <2>2 DEF Swept
  <2> QED BY <2>1, <2>2, <2>3, <2>4 DEF Swept
<1>5. CASE LookOnly
  <2>1. UNCHANGED <<clock, environ, settings, live, last, held, steady>> /\ slept' = 0
    BY <1>5 DEF LookOnly
  <2>2. Running /\ steady /\ live \in Resolved /\ slept = WakeInterval
    BY <1>5, <2>1 DEF LookOnly, Awake, Swept, Running
  <2>3. SweepInterval(live) \in Nat
    BY <2>2, IntervalType
  <2>4. last <= clock /\ clock - last < SweepInterval(live)
    BY <1>1, <1>5, <2>3 DEF LookOnly, Due, SweepDue
  <2>5. clock' < last' + SweepInterval(live') + slept'
    BY <1>1, <2>1, <2>3, <2>4
  <2>6. ASSUME NEW r \in held' PROVE last' <= r.at + Span(live', r.kind)
    <3>1. last <= r.at + Span(live, r.kind) \/ clock <= r.at + WakeInterval
      BY <2>1, <2>2 DEF Swept
    <3>2. r.at \in Nat /\ Span(live, r.kind) \in Nat /\ WakeInterval <= Span(live, r.kind)
      BY <1>1, <2>1, <2>2, IntervalType
    <3> QED BY <1>1, <2>1, <2>4, <3>1, <3>2
  <2> QED BY <2>1, <2>2, <2>5, <2>6 DEF Swept
<1>6. ASSUME last' = clock, clock' = clock, slept' = 0, live' \in Resolved,
             settings' # Unreadable, live' = Resolve(settings', environ'),
             \A r \in held' : clock <= r.at + Span(live', r.kind)
      PROVE  Swept'
  <2>1. SweepInterval(live') \in Nat \ {0}
    BY <1>6, IntervalType
  <2>2. clock' < last' + SweepInterval(live') + slept'
    BY <1>1, <1>6, <2>1
  <2> QED BY <1>6, <2>2 DEF Swept
<1>7. ASSUME NEW done \in SUBSET StoredKinds, SweepLedger(done) PROVE Swept'
  <2>1. UNCHANGED <<clock, environ, settings, live>> /\ last' = clock /\ slept' = 0
    BY <1>7 DEF SweepLedger
  <2>2. settings # Unreadable /\ steady /\ done = StoredKinds
    BY <1>7 DEF SweepLedger
  <2>3. Running /\ live \in Resolved /\ live = Resolve(settings, environ)
    BY <2>1, <2>2 DEF Running, Swept
  <2>4. \A k : DaysFor(HorizonOf(live, live), k) = DaysFor(live, k)
    BY <2>3, HorizonDays DEF Longer
  <2>5. Prune(HorizonOf(live, live), StoredKinds)
    BY <1>7, <2>2, <2>3 DEF SweepLedger
  <2>6. \A r \in held' : clock <= r.at + Span(live, r.kind)
    BY <2>3, <2>4, <2>5, SweptNow
  <2> QED BY <1>6, <2>1, <2>2, <2>3, <2>6
<1>8. CASE StartSweeping
  <2>1. /\ UNCHANGED <<clock, environ, settings>> /\ last' = clock /\ slept' = 0
        /\ live' = Resolve(settings, environ)
    BY <1>8 DEF StartSweeping
  <2>2. settings # Unreadable /\ live' \in Resolved
    BY <1>8, <2>1, ResolveType DEF StartSweeping, Loads, HTypes
  <2>3. Prune(live', StoredKinds)
    BY <1>8, <2>1 DEF StartSweeping
  <2>4. \A r \in held' : clock <= r.at + Span(live', r.kind)
    BY <2>2, <2>3, SweptNow
  <2> QED BY <1>6, <2>1, <2>2, <2>4
<1>9. ASSUME StopSweeping \/ \E s \in SettingsRead : EditStorage(s) PROVE FALSE
  BY <1>9 DEF StopSweeping, EditStorage
<1>10. CASE UNCHANGED hvars
  BY <1>10 DEF hvars, Swept, Running
<1> QED BY <1>2, <1>3, <1>4, <1>5, <1>7, <1>8, <1>9, <1>10 DEF HNext

(* No record outlives its horizon by more than a sweep's interval and one  *)
(* sleep of the worker, and no clock stepped back puts that off, while a   *)
(* receiver keeps sweeping under the configuration it was started with     *)
(* (sweep_due, stored_until, FLUSH_INTERVAL): for any days, kinds, length  *)
(* of a day and interval between the worker's looks within a day.          *)
THEOREM AlwaysGoneInTime == HSpec => []GoneInTime
<1>1. HInit => Swept
  BY DEF HInit, Swept
<1>2. HTypes /\ Swept => GoneInTime
  <2> SUFFICES ASSUME HTypes, Swept, Running, steady, NEW r \in held
               PROVE  clock < StoredUntil(live, r) + WakeInterval
    BY DEF GoneInTime
  <2>1. clock \in Nat /\ last \in Nat /\ r.at \in Nat /\ slept \in Nat /\ slept <= WakeInterval
    BY RetentionAssumption DEF HTypes
  <2>2. /\ live \in Resolved /\ clock < last + SweepInterval(live) + slept
        /\ last <= r.at + Span(live, r.kind) \/ clock <= r.at + slept
    BY DEF Swept
  <2>3. /\ SweepInterval(live) \in Nat \ {0} /\ Span(live, r.kind) \in Nat
        /\ WakeInterval \in Nat
    BY <2>2, IntervalType
  <2>4. clock < r.at + Span(live, r.kind) + SweepInterval(live) + WakeInterval
    <3> DEFINE span == Span(live, r.kind)
               every == SweepInterval(live)
    <3>1. /\ span \in Nat /\ every \in Nat /\ every >= 1
          /\ clock < last + every + slept
          /\ last <= r.at + span \/ clock <= r.at + slept
      BY <2>2, <2>3
    <3> HIDE DEF span, every
    <3>2. ASSUME last <= r.at + span PROVE clock < r.at + span + every + WakeInterval
      BY <2>1, <2>3, <3>1, <3>2
    <3>3. ASSUME clock <= r.at + slept PROVE clock < r.at + span + every + WakeInterval
      BY <2>1, <2>3, <3>1, <3>3
    <3>4. clock < r.at + span + every + WakeInterval
      BY <3>1, <3>2, <3>3
    <3> QED BY <3>4 DEF span, every
  <2> QED BY <2>4 DEF StoredUntil, Span
<1> QED BY <1>1, <1>2, InitHTypes, NextHTypes, NextSwept, PTL DEF HSpec
-----------------------------------------------------------------------------
(* What a report says of the ledger.                                       *)

\* What is stored is a list of records and a list of sessions.
Listed == entries \in Seq(Entry) /\ spends \in Seq(Spend)

\* The ledger and the cost snapshot hold nothing else.
LEMMA AlwaysListed == QSpec => []Listed
<1>1. QInit => Listed
  BY DEF QInit, Listed
<1>2. Listed /\ [QNext]_qvars => Listed'
  <2> SUFFICES ASSUME Listed, [QNext]_qvars PROVE Listed'
    OBVIOUS
  <2>1. ASSUME NEW r \in SomeRecords, AddRecord(r) PROVE Listed'
    <3>1. r \in Entry
      BY ReportsAssumption
    <3> QED BY <2>1, <3>1 DEF AddRecord, Listed
  <2>2. ASSUME NEW s \in SomeSpends, AddSession(s) PROVE Listed'
    <3>1. s \in Spend
      BY ReportsAssumption
    <3> QED BY <2>2, <3>1 DEF AddSession, Listed
  <2>3. CASE UNCHANGED qvars
    BY <2>3 DEF qvars, Listed
  <2> QED BY <2>1, <2>2, <2>3 DEF QNext
<1> QED BY <1>1, <1>2, PTL DEF QSpec

\* Records and sessions, one by one.
LEMMA ListedOnes ==
  ASSUME Listed
  PROVE  /\ \A i \in Positions : entries[i] \in Entry /\ i \in Nat
         /\ \A n \in DOMAIN spends : spends[n] \in Spend
         /\ IsFiniteSet(Positions) /\ IsFiniteSet(DOMAIN spends)
<1>1. DOMAIN entries = 1 .. Len(entries) /\ Len(entries) \in Nat
  BY DEF Listed
<1>2. DOMAIN spends = 1 .. Len(spends) /\ Len(spends) \in Nat
  BY DEF Listed
<1>3. IsFiniteSet(DOMAIN entries) /\ IsFiniteSet(DOMAIN spends)
  BY <1>1, <1>2, FS_Interval
<1> QED BY <1>1, <1>3 DEF Listed, Positions

\* States of one entity that neither precedes the other are of one instant.
LEMMA StatesTie ==
  ASSUME Listed, NEW i \in Positions, NEW j \in Positions, ~Later(i, j), ~Later(j, i)
  PROVE  entries[i].occurred = entries[j].occurred /\ entries[i].observed = entries[j].observed
<1>1. entries[i] \in Entry /\ entries[j] \in Entry
  BY ListedOnes
<1>2. /\ entries[i].occurred \in Int /\ entries[j].occurred \in Int
      /\ entries[i].observed \in Int /\ entries[j].observed \in Int
  BY <1>1, ReportsAssumption DEF Entry
<1> QED BY <1>2 DEF Later

\* Which states an answer counts: the latest, with the window's ties and no others.
LEMMA CountedStates ==
  ASSUME Listed, Snapshots, NEW q \in Question, NEW i \in Counted(q), NEW j \in Positions \ {i},
         Entity(i) = Entity(j), Understood(entries[j]), OfProject(q, entries[j])
  PROVE  /\ i \in Positions /\ ~Later(j, i)
         /\ Later(i, j) \/ Payload(i) = Payload(j)
         /\ j \notin Counted(q)
<1>1. ~Ambiguous(q) /\ i \in States(q)
  BY DEF Counted, Refused
<1>2. i \in Latest(q) /\ i \in Positions /\ i \in InScope(q) /\ entries[i].identity # NoName
  BY <1>1 DEF States, Latest, Identified, InScope
<1>3. Attributed(entries[j]) = Attributed(entries[i]) /\ entries[j].identity = entries[i].identity
  BY DEF Entity
<1>4. /\ entries[i].occurred \in Int /\ entries[j].occurred \in Int
      /\ entries[i].observed \in Int /\ entries[j].observed \in Int
      /\ q.since \in Int /\ i \in Int /\ j \in Int
  <2>1. entries[i] \in Entry /\ entries[j] \in Entry /\ i \in Nat /\ j \in Nat
    BY <1>2, ListedOnes
  <2> QED BY <2>1, ReportsAssumption DEF Entry, Question
<1>5. ~Later(j, i)
  <2>1. CASE j \in InScope(q)
    BY <1>2, <1>3, <2>1 DEF Latest, Identified, Rivals
  <2>2. CASE j \notin InScope(q)
    <3>1. entries[j].occurred < q.since /\ q.since <= entries[i].occurred
      BY <1>2, <1>3, <1>4, <2>2 DEF InScope
    <3> QED BY <1>4, <3>1 DEF Later
  <2> QED BY <2>1, <2>2
<1>6. ASSUME ~Later(i, j) PROVE j \in Latest(q)
  <2>1. entries[i].occurred = entries[j].occurred /\ entries[i].observed = entries[j].observed
    BY <1>2, <1>5, <1>6, StatesTie
  <2>2. j \in Identified(q)
    BY <1>2, <1>3, <2>1 DEF InScope, Identified
  <2>3. \A k \in Rivals(Identified(q), j) : ~Later(k, j)
    BY <1>2, <2>1 DEF Latest, Rivals, Later
  <2> QED BY <2>2, <2>3 DEF Latest
<1>7. Later(i, j) \/ Payload(i) = Payload(j)
  BY <1>1, <1>2, <1>6 DEF Ambiguous, Rivals
<1>8. j \notin Counted(q)
  <2> SUFFICES ASSUME j \in Counted(q) PROVE FALSE
    OBVIOUS
  <2>1. j \in States(q)
    BY DEF Counted
  <2>2. i <= j /\ j <= i
    BY <1>1, <2>1 DEF States, Rivals
  <2> QED BY <1>4, <2>2
<1> QED BY <1>2, <1>5, <1>7, <1>8

(* Of each entity only its newest state is reported, and a tie that says   *)
(* two things refuses the section (query.rs, the latest CTE), among the    *)
(* states of the project asked for and of a wire version this build knows: *)
(* for any records, contracts, instants and kinds.                         *)
THEOREM NewestAlwaysSpeaks == QSpec => []NewestSpeaks
<1>1. Listed => NewestSpeaks
  <2> SUFFICES ASSUME Listed, Snapshots, NEW q \in Questions, NEW i \in Counted(q),
                      NEW j \in Positions \ {i}, Entity(i) = Entity(j),
                      Understood(entries[j]), OfProject(q, entries[j])
               PROVE  ~Later(j, i) /\ (Later(i, j) \/ Payload(i) = Payload(j)) /\ j \notin Counted(q)
    BY DEF NewestSpeaks
  <2>1. q \in Question
    BY ReportsAssumption
  <2> QED BY <2>1, CountedStates
<1> QED BY <1>1, AlwaysListed, PTL
-----------------------------------------------------------------------------
(* No record goes missing.                                                 *)

\* The earliest of some records.
LEMMA Earliest ==
  ASSUME Listed, NEW S \in SUBSET Positions, S # {}
  PROVE  \E i \in S : \A j \in S : ~Before(j, i)
<1>1. IsFiniteSet(S) /\ \A i \in S : i \in Int /\ entries[i].occurred \in Int
  <2>1. IsFiniteSet(S)
    BY ListedOnes, FS_Subset
  <2>2. \A i \in S : i \in Int /\ entries[i].occurred \in Int
    BY ListedOnes, ReportsAssumption DEF Entry
  <2> QED BY <2>1, <2>2
<1> DEFINE T == {entries[i].occurred : i \in S}
<1>2. PICK t \in T : \A u \in T : t <= u
  <2>1. IsFiniteSet(T)
    <3> DEFINE f == [i \in S |-> entries[i].occurred]
    <3>1. T = {f[i] : i \in S}
      OBVIOUS
    <3> HIDE DEF f
    <3> QED BY <1>1, <3>1, ImageFinite
  <2>2. T # {} /\ T \subseteq Int
    BY <1>1
  <2> HIDE DEF T
  <2> QED BY <2>1, <2>2, Extremes
<1> DEFINE F == {i \in S : entries[i].occurred = t}
<1>3. PICK i \in F : \A j \in F : i <= j
  <2>1. IsFiniteSet(F)
    BY <1>1, FS_Subset
  <2>2. F # {} /\ F \subseteq Int
    BY <1>1, <1>2
  <2> HIDE DEF F
  <2> QED BY <2>1, <2>2, Extremes
<1>4. ASSUME NEW j \in S PROVE ~Before(j, i)
  <2>1. t <= entries[j].occurred /\ entries[i].occurred = t
    BY <1>2, <1>3
  <2>2. entries[j].occurred = t => i <= j
    BY <1>3
  <2>3. i \in Int /\ j \in Int /\ entries[j].occurred \in Int /\ t \in Int
    BY <1>1, <1>3, <2>1
  <2> QED BY <2>1, <2>2, <2>3 DEF Before
<1> QED BY <1>3, <1>4

\* A record that cannot be read is counted among those of its contract.
LEMMA IllegibleCounted ==
  ASSUME Listed, NEW q, NEW i \in InScope(q), Passes(q, i)
  PROVE  ContractCount(q, entries[i].contract) > 0
<1> DEFINE S == {k \in InScope(q) : entries[k].contract = entries[i].contract
                                   /\ (~Snapshots => Passes(q, k))}
<1>1. IsFiniteSet(S) /\ S # {}
  <2>1. S \subseteq Positions
    BY DEF InScope
  <2>2. i \in S
    OBVIOUS
  <2> HIDE DEF S
  <2> QED BY <2>1, <2>2, ListedOnes, FS_Subset
<1>2. Cardinality(S) \in Nat /\ Cardinality(S) # 0
  <2> HIDE DEF S
  <2> QED BY <1>1, FS_CardinalityType, FS_EmptySet
<1> QED BY <1>2 DEF ContractCount

\* Of the events of one identity in a group the earliest is counted.
LEMMA TwinCounted ==
  ASSUME Listed, NEW q, NEW i \in InScope(q), Passes(q, i), Legible(i), ~Snapshots,
         i \notin Counted(q)
  PROVE  \E j \in Counted(q) : Twin(q, i, j)
<1> DEFINE read == {k \in InScope(q) : Legible(k) /\ Passes(q, k)}
           S    == {k \in read : Twin(q, i, k)}
<1>1. Counted(q) = {k \in read : ~ \E j \in read : Twin(q, k, j) /\ Before(j, k)}
  BY DEF Counted, Refused, Occurrences
<1>2. PICK k \in read : Twin(q, i, k)
  BY <1>1
<1>3. S \subseteq Positions /\ S # {}
  BY <1>2 DEF InScope
<1>4. PICK j \in S : \A m \in S : ~Before(m, j)
  <2> HIDE DEF S
  <2> QED BY <1>3, Earliest
<1>5. \A m \in read : Twin(q, j, m) => m \in S
  BY <1>4 DEF Twin
<1> QED BY <1>1, <1>4, <1>5

\* A state that is not counted is behind another of its entity.
LEMMA StateBehind ==
  ASSUME Listed, NEW q, NEW i \in InScope(q), Passes(q, i), Legible(i), Snapshots, ~Refused(q),
         i \notin Counted(q)
  PROVE  \E j \in InScope(q) \ {i} : Entity(i) = Entity(j) /\ ~Later(i, j)
<1>1. i \in Identified(q) /\ i \in Positions
  BY DEF Refused, Invalid, Identified, InScope
<1>2. i \notin States(q)
  BY DEF Counted
<1>3. /\ \A k \in InScope(q) : k \in Positions /\ k \in Int
      /\ \A k \in Positions : entries[k].occurred \in Int /\ entries[k].observed \in Int
  <2>1. \A k \in InScope(q) : k \in Positions
    BY DEF InScope
  <2> QED BY <2>1, ListedOnes, ReportsAssumption DEF Entry
<1>4. CASE i \notin Latest(q)
  <2>1. PICK j \in Rivals(Identified(q), i) : Later(j, i)
    BY <1>1, <1>4 DEF Latest
  <2>2. j \in InScope(q) /\ j \in Positions /\ Entity(j) = Entity(i)
    BY <1>3, <2>1 DEF Rivals, Identified
  <2>3. j # i /\ ~Later(i, j)
    BY <1>1, <1>3, <2>1, <2>2 DEF Later
  <2> QED BY <2>2, <2>3
<1>5. CASE i \in Latest(q)
  <2>1. PICK j \in Rivals(Latest(q), i) : ~(j <= i)
    BY <1>2, <1>5 DEF States
  <2>2. j \in Latest(q) /\ Entity(j) = Entity(i)
    BY <2>1 DEF Rivals
  <2>3. j \in Positions /\ j \in InScope(q) /\ j # i
    BY <1>3, <2>1, <2>2 DEF Latest, Identified
  <2>4. ~Later(i, j)
    BY <1>1, <2>2 DEF Latest, Rivals
  <2> QED BY <2>2, <2>3, <2>4
<1> QED BY <1>4, <1>5

\* A record of the window is counted, or one of those that stand for it is.
LEMMA NothingIsMissing == Listed => NothingMissing
<1> SUFFICES ASSUME Listed, NEW i \in Positions, NEW q \in Questions, i \in InScope(q),
                    Passes(q, i), ~Refused(q)
             PROVE  \/ i \in Counted(q)
                    \/ \E j \in Counted(q) : Twin(q, i, j)
                    \/ \E j \in InScope(q) \ {i} : Snapshots /\ Entity(i) = Entity(j) /\ ~Later(i, j)
                    \/ ~Legible(i) /\ ContractCount(q, entries[i].contract) > 0
  BY DEF NothingMissing, InScope
<1>1. CASE ~Legible(i)
  BY <1>1, IllegibleCounted
<1>2. CASE Legible(i) /\ ~Snapshots
  BY <1>2, TwinCounted
<1>3. CASE Legible(i) /\ Snapshots
  BY <1>3, StateBehind
<1> QED BY <1>1, <1>2, <1>3
-----------------------------------------------------------------------------
(* The totals.                                                             *)

\* Those of a list that are before one of it, by rank and then by key.
Ahead(S, rank, order, g) ==
  {h \in S : rank[h] > rank[g] \/ (rank[h] = rank[g] /\ order[h] < order[g])}

\* Exactly one of a list has none before it, and its rank is the highest.
LEMMA OneFirst ==
  ASSUME NEW S, IsFiniteSet(S), S # {}, NEW rank, NEW order,
         \A g \in S : rank[g] \in Nat /\ order[g] \in Nat,
         \A g, h \in S : order[g] = order[h] => g = h
  PROVE  \E best \in S : /\ {g \in S : Cardinality(Ahead(S, rank, order, g)) < 1} = {best}
                         /\ \A h \in S : rank[h] <= rank[best]
<1> DEFINE T == {rank[g] : g \in S}
<1>1. PICK t \in T : \A u \in T : t >= u
  <2>1. IsFiniteSet(T) /\ T # {} /\ T \subseteq Int
    BY ImageFinite
  <2> HIDE DEF T
  <2> QED BY <2>1, Extremes
<1> DEFINE F == {g \in S : rank[g] = t}
           P == {order[g] : g \in F}
<1>2. PICK p \in P : \A u \in P : p <= u
  <2>1. IsFiniteSet(F) /\ F # {}
    BY <1>1, FS_Subset
  <2>2. P # {} /\ P \subseteq Int
    BY <1>1
  <2>3. IsFiniteSet(P)
    <3> HIDE DEF F
    <3> QED BY <2>1, ImageFinite
  <2> HIDE DEF P
  <2> QED BY <2>2, <2>3, Extremes
<1>3. PICK best \in F : order[best] = p
  BY <1>2
<1>4. best \in S /\ rank[best] = t /\ \A h \in S : rank[h] <= rank[best]
  BY <1>1, <1>3
<1>5. \A g \in S : IsFiniteSet(Ahead(S, rank, order, g))
  BY FS_Subset DEF Ahead
<1>6. Ahead(S, rank, order, best) = {}
  <2> SUFFICES ASSUME NEW h \in S, rank[h] > rank[best] \/ (rank[h] = rank[best] /\ order[h] < p)
               PROVE  FALSE
    BY <1>3 DEF Ahead
  <2>1. rank[h] = t /\ order[h] < p
    BY <1>4
  <2>2. order[h] \in P
    BY <2>1
  <2>3. p <= order[h] /\ p \in Nat /\ order[h] \in Nat
    BY <1>2, <1>3, <1>4, <2>2
  <2> QED BY <2>1, <2>3
<1>7. ASSUME NEW g \in S, g # best PROVE best \in Ahead(S, rank, order, g)
  <2>1. rank[g] < rank[best] \/ rank[g] = rank[best]
    BY <1>4
  <2>2. CASE rank[g] = rank[best]
    <3>1. order[g] \in P /\ order[g] # p
      BY <1>3, <1>4, <1>7, <2>2
    <3>2. p <= order[g] /\ p \in Nat /\ order[g] \in Nat
      BY <1>2, <1>3, <1>4, <3>1
    <3> QED BY <1>3, <1>4, <2>2, <3>1, <3>2 DEF Ahead
  <2>3. CASE rank[g] < rank[best]
    BY <1>4, <2>3 DEF Ahead
  <2> QED BY <2>1, <2>2, <2>3
<1> HIDE DEF F, T, P
<1>8. Cardinality(Ahead(S, rank, order, best)) < 1
  BY <1>6, FS_EmptySet
<1>9. ASSUME NEW g \in S, g # best PROVE ~(Cardinality(Ahead(S, rank, order, g)) < 1)
  <2>1. Ahead(S, rank, order, g) # {} /\ IsFiniteSet(Ahead(S, rank, order, g))
    BY <1>5, <1>7, <1>9
  <2>2. Cardinality(Ahead(S, rank, order, g)) \in Nat /\ Cardinality(Ahead(S, rank, order, g)) # 0
    BY <2>1, FS_CardinalityType, FS_EmptySet
  <2> QED BY <2>2
<1> QED BY <1>4, <1>8, <1>9

\* What is counted are records of the window.
LEMMA CountedFacts ==
  ASSUME Listed, NEW q \in Question
  PROVE  /\ Counted(q) \subseteq Positions /\ IsFiniteSet(Counted(q))
         /\ \/ \A i \in Counted(q) : GroupKey(q, entries[i]) \in ProjectNames \cup {NoProject}
            \/ \A i \in Counted(q) : GroupKey(q, entries[i]) \in Names \cup {NoName}
<1>1. Counted(q) \subseteq Positions
  BY DEF Counted, States, Latest, Identified, Occurrences, InScope
<1>2. ASSUME NEW i \in Counted(q)
      PROVE  /\ entries[i].project \in ProjectNames \cup {NoProject}
             /\ entries[i].named \in ProjectNames \cup {NoProject}
             /\ entries[i].group \in Names \cup {NoName}
  <2>1. entries[i] \in Entry
    BY <1>1, ListedOnes
  <2> QED BY <2>1 DEF Entry, ProjectNames
<1>3. IsFiniteSet(Counted(q))
  BY <1>1, ListedOnes, FS_Subset
<1>4. CASE q.by = "project"
  BY <1>1, <1>2, <1>3, <1>4 DEF GroupKey, Attributed
<1>5. CASE q.by # "project"
  BY <1>1, <1>2, <1>3, <1>5 DEF GroupKey
<1> QED BY <1>4, <1>5

\* A group of some records of the ledger.
LEMMA GroupFacts ==
  ASSUME Listed, NEW key, NEW M \in SUBSET Positions, M # {}, NEW g, g = GroupOf(key, M)
  PROVE  /\ g.key = key /\ g.count = Cardinality(M)
         /\ g.count \in Nat /\ g.count > 0 /\ g.valid \in Nat /\ g.sum \in Nat /\ g.invalid >= 0
<1> DEFINE valid   == {i \in M : entries[i].amount \in Amounts}
           missing == {i \in M : entries[i].amount = NoAmount}
           amount  == [i \in valid |-> entries[i].amount]
<1>1. /\ g.key = key /\ g.count = Cardinality(M) /\ g.valid = Cardinality(valid)
      /\ g.invalid = Cardinality(M) - Cardinality(valid) - Cardinality(missing)
      /\ g.sum = SumFunctionOnSet(amount, valid)
  BY DEF GroupOf
<1>2. IsFiniteSet(M) /\ IsFiniteSet(valid) /\ IsFiniteSet(missing)
  BY ListedOnes, FS_Subset
<1>3. valid \cup missing \subseteq M /\ valid \cap missing = {}
  BY ReportsAssumption
<1>4. \A i \in valid : amount[i] \in Nat
  BY ReportsAssumption
<1> HIDE DEF valid, missing, amount
<1>5. Cardinality(valid \cup missing) <= Cardinality(M)
  BY <1>2, <1>3, FS_Subset
<1>6. Cardinality(valid \cup missing) = Cardinality(valid) + Cardinality(missing) - Cardinality({})
  BY <1>2, <1>3, FS_Union
<1>7. /\ Cardinality(valid) \in Nat /\ Cardinality(missing) \in Nat /\ Cardinality(M) \in Nat
      /\ Cardinality({}) = 0 /\ Cardinality(M) # 0
  BY <1>2, FS_CardinalityType, FS_EmptySet
<1>8. g.sum \in Nat
  BY <1>1, <1>2, <1>4, SumNat
<1> QED BY <1>1, <1>5, <1>6, <1>7, <1>8

\* The groups of an answer: each record counted is in one of them.
LEMMA GroupsFacts ==
  ASSUME Listed, NEW q \in Question
  PROVE  /\ IsFiniteSet(Groups(q))
         /\ \A g \in Groups(q) : /\ g.count \in Nat /\ g.count > 0 /\ g.invalid >= 0
                                 /\ g.valid \in Nat /\ g.sum \in Nat /\ KeyOrder[g.key] \in Nat
         /\ \A g, h \in Groups(q) : KeyOrder[g.key] = KeyOrder[h.key] => g = h
         /\ SumFunctionOnSet([g \in Groups(q) |-> g.count], Groups(q)) = Cardinality(Counted(q))
<1> DEFINE C == Counted(q)
           M(k) == {i \in C : GroupKey(q, entries[i]) = k}
           group == [i \in C |-> GroupOf(GroupKey(q, entries[i]), M(GroupKey(q, entries[i])))]
           G == Groups(q)
           count == [g \in G |-> g.count]
<1>1. IsFiniteSet(C) /\ C \subseteq Positions
  BY CountedFacts
<1>2. G = {group[i] : i \in C}
  BY DEF Groups
<1>3. IsFiniteSet(G)
  <2> HIDE DEF G, C, group
  <2> QED BY <1>1, <1>2, ImageFinite
<1>4. ASSUME NEW i \in C
      PROVE  LET g == group[i] IN
             /\ g.key = GroupKey(q, entries[i]) /\ g.count = Cardinality(M(g.key))
             /\ g.count \in Nat /\ g.count > 0 /\ g.valid \in Nat /\ g.sum \in Nat /\ g.invalid >= 0
  <2>1. M(GroupKey(q, entries[i])) # {} /\ M(GroupKey(q, entries[i])) \in SUBSET Positions
    BY <1>1, <1>4
  <2>2. group[i] = GroupOf(GroupKey(q, entries[i]), M(GroupKey(q, entries[i])))
    OBVIOUS
  <2> HIDE DEF group, M
  <2> QED BY <2>1, <2>2, GroupFacts
<1>5. \A i, j \in C : GroupKey(q, entries[i]) = GroupKey(q, entries[j]) => group[i] = group[j]
  OBVIOUS
<1>6. \A g \in G : \E i \in C : g = group[i]
  BY <1>2
<1>7. ASSUME NEW g \in G PROVE count[g] = Cardinality({i \in C : group[i] = g})
  <2>1. PICK j \in C : g = group[j]
    BY <1>6
  <2>2. {i \in C : group[i] = g} = M(g.key)
    <3>1. \A i \in C : group[i] = g <=> GroupKey(q, entries[i]) = g.key
      BY <1>4, <1>5, <2>1
    <3> HIDE DEF group, C
    <3> QED BY <3>1
  <2>3. count[g] = Cardinality(M(g.key))
    BY <1>4, <2>1
  <2> QED BY <2>2, <2>3
<1>8. SumFunctionOnSet(count, G) = Cardinality(C)
  <2>1. \A i \in C : group[i] \in G
    BY <1>2
  <2> DEFINE part == [g \in G |-> {i \in C : group[i] = g}]
  <2>2. \A g \in G : /\ count[g] = Cardinality(part[g]) /\ part[g] \subseteq C
                    /\ \A i \in C : i \in part[g] <=> group[i] = g
    BY <1>7
  <2> HIDE DEF G, C, group, count, M, part
  <2> QED BY <1>1, <1>3, <2>1, <2>2, SumOfParts
<1>9. /\ \A i \in C : KeyOrder[GroupKey(q, entries[i])] \in Nat
      /\ \A i, j \in C : KeyOrder[GroupKey(q, entries[i])] = KeyOrder[GroupKey(q, entries[j])]
                          => GroupKey(q, entries[i]) = GroupKey(q, entries[j])
  BY CountedFacts, ReportsAssumption
<1>10. ASSUME NEW g \in G, NEW h \in G, KeyOrder[g.key] = KeyOrder[h.key] PROVE g = h
  <2>1. PICK i \in C : g = group[i]
    BY <1>6
  <2>2. PICK j \in C : h = group[j]
    BY <1>6
  <2>3. g.key = GroupKey(q, entries[i]) /\ h.key = GroupKey(q, entries[j])
    BY <1>4, <2>1, <2>2
  <2> HIDE DEF group
  <2> QED BY <1>5, <1>9, <1>10, <2>1, <2>2, <2>3
<1>11. ASSUME NEW g \in G
       PROVE  /\ g.count \in Nat /\ g.count > 0 /\ g.invalid >= 0
              /\ g.valid \in Nat /\ g.sum \in Nat /\ KeyOrder[g.key] \in Nat
  <2>1. PICK i \in C : g = group[i]
    BY <1>6
  <2> HIDE DEF group
  <2> QED BY <1>4, <1>9, <2>1
<1> QED BY <1>3, <1>8, <1>10, <1>11

\* What the sessions of one project or label spent.
LEMMA SpendFacts ==
  ASSUME Listed, NEW q, NEW key, NEW n \in SpendRows(q), Spender(spends[n]) = key,
         NEW g, g = SpendBy(q, key)
  PROVE  /\ g.key = key /\ g.cost \in Nat /\ g.count \in Nat
         /\ g.count = Cardinality({m \in SpendRows(q) : Spender(spends[m]) = key})
<1> DEFINE sessions == {m \in SpendRows(q) : Spender(spends[m]) = key}
           seen     == {m \in sessions : spends[m].observed}
           cost     == [m \in seen |-> spends[m].cost]
<1>1. /\ g.key = key /\ g.count = Cardinality(sessions)
      /\ g.cost = SumFunctionOnSet(cost, seen)
  BY DEF SpendBy
<1>2. sessions \subseteq DOMAIN spends /\ seen \subseteq DOMAIN spends
  BY DEF SpendRows
<1>3. IsFiniteSet(sessions) /\ IsFiniteSet(seen)
  BY <1>2, ListedOnes, FS_Subset
<1>4. \A m \in seen : cost[m] \in Nat
  <2>1. \A m \in seen : spends[m].cost \in Amounts
    BY <1>2, ListedOnes DEF Spend
  <2> QED BY <2>1, ReportsAssumption
<1> HIDE DEF sessions, seen, cost
<1>5. g.cost \in Nat /\ g.count \in Nat
  BY <1>1, <1>3, <1>4, SumNat, FS_CardinalityType
<1> QED BY <1>1, <1>5 DEF sessions

\* Who spent: each session of the window is in one group, and no two projects share one.
LEMMA SpendersFacts ==
  ASSUME Listed, NEW q
  PROVE  /\ IsFiniteSet(SpendGroups(q))
         /\ \A g \in SpendGroups(q) : g.cost \in Nat /\ KeyOrder[g.key] \in Nat
         /\ \A g, h \in SpendGroups(q) : KeyOrder[g.key] = KeyOrder[h.key] => g = h
         /\ SumFunctionOnSet([g \in SpendGroups(q) |-> g.count], SpendGroups(q))
              = Cardinality(SpendRows(q))
         /\ \A m, n \in SpendRows(q) :
              spends[m].project # spends[n].project => Spender(spends[m]) # Spender(spends[n])
<1> DEFINE C == SpendRows(q)
           group == [n \in C |-> SpendBy(q, Spender(spends[n]))]
           G == SpendGroups(q)
           count == [g \in G |-> g.count]
           part == [g \in G |-> {n \in C : Spender(spends[n]) = g.key}]
<1>1. IsFiniteSet(C) /\ C \subseteq DOMAIN spends
  <2>1. C \subseteq DOMAIN spends
    BY DEF SpendRows
  <2> HIDE DEF C
  <2> QED BY <2>1, ListedOnes, FS_Subset
<1>2. G = {group[n] : n \in C}
  BY DEF SpendGroups
<1>3. IsFiniteSet(G)
  <2> HIDE DEF G, C, group
  <2> QED BY <1>1, <1>2, ImageFinite
<1>4. ASSUME NEW n \in C
      PROVE  /\ group[n].key = Spender(spends[n]) /\ group[n].cost \in Nat
             /\ group[n].count = Cardinality({m \in C : Spender(spends[m]) = group[n].key})
             /\ group[n] \in G
  <2> DEFINE key == Spender(spends[n])
  <2>1. group[n] = SpendBy(q, key) /\ group[n] \in G
    BY <1>2
  <2>2. /\ SpendBy(q, key).key = key /\ SpendBy(q, key).cost \in Nat
        /\ SpendBy(q, key).count = Cardinality({m \in C : Spender(spends[m]) = key})
    BY SpendFacts
  <2>3. group[n].key = key
    BY <2>1, <2>2
  <2> QED BY <2>1, <2>2, <2>3
<1>5. \A m, n \in C : Spender(spends[m]) = Spender(spends[n]) => group[m] = group[n]
  OBVIOUS
<1>6. \A g \in G : \E n \in C : g = group[n]
  BY <1>2
<1>7. ASSUME NEW g \in G
      PROVE  /\ count[g] = Cardinality(part[g]) /\ part[g] \subseteq C
             /\ \A n \in C : n \in part[g] <=> group[n] = g
  <2>1. PICK m \in C : g = group[m]
    BY <1>6
  <2>2. count[g] = Cardinality(part[g])
    BY <1>4, <2>1
  <2>3. \A n \in C : group[n] = g <=> Spender(spends[n]) = g.key
    BY <1>4, <1>5, <2>1
  <2> HIDE DEF group, C
  <2> QED BY <2>2, <2>3
<1>8. SumFunctionOnSet(count, G) = Cardinality(C)
  <2>1. \A g \in G : /\ count[g] = Cardinality(part[g]) /\ part[g] \subseteq C
                    /\ \A n \in C : n \in part[g] <=> group[n] = g
    BY <1>7
  <2>2. \A n \in C : group[n] \in G
    BY <1>4
  <2> HIDE DEF G, C, group, count, part
  <2> QED BY <1>1, <1>3, <2>1, <2>2, SumOfParts
<1>9. ASSUME NEW n \in C
      PROVE  /\ spends[n].label \in Names /\ spends[n].project \in ProjectKeys \cup {NoProject}
             /\ Spender(spends[n]) \in ProjectNames
  <2>1. spends[n] \in Spend
    BY <1>1, ListedOnes
  <2> QED BY <2>1 DEF Spend, Spender, ProjectNames
<1>10. \A m, n \in C :
         /\ KeyOrder[Spender(spends[n])] \in Nat
         /\ KeyOrder[Spender(spends[m])] = KeyOrder[Spender(spends[n])]
              => Spender(spends[m]) = Spender(spends[n])
  BY <1>9, ReportsAssumption
<1>11. ASSUME NEW g \in G, NEW h \in G
       PROVE  /\ g.cost \in Nat /\ KeyOrder[g.key] \in Nat
              /\ KeyOrder[g.key] = KeyOrder[h.key] => g = h
  <2>1. PICK m \in C : g = group[m]
    BY <1>6
  <2>2. PICK n \in C : h = group[n]
    BY <1>6
  <2>3. g.key = Spender(spends[m]) /\ h.key = Spender(spends[n]) /\ g.cost \in Nat
    BY <1>4, <2>1, <2>2
  <2>4. Spender(spends[m]) = Spender(spends[n]) => g = h
    BY <1>5, <2>1, <2>2
  <2> HIDE DEF group, C
  <2> QED BY <1>10, <2>3, <2>4
<1>12. \A m, n \in C :
         spends[m].project # spends[n].project => Spender(spends[m]) # Spender(spends[n])
  BY <1>9, ReportsAssumption DEF Spender
<1> QED BY <1>3, <1>8, <1>11, <1>12

\* The first of a list of groups, and the first of those who spent.
LEMMA FirstOnes ==
  ASSUME Listed, NEW q \in Question
  PROVE  /\ Groups(q) # {} => Cardinality(First(Groups(q), 1)) = 1
         /\ SpendGroups(q) # {} => Cardinality(TopSpenders(q, 1)) = 1
         /\ \A g \in TopSpenders(q, 1), h \in SpendGroups(q) : h.cost <= g.cost
<1>1. ASSUME Groups(q) # {} PROVE Cardinality(First(Groups(q), 1)) = 1
  <2> DEFINE G == Groups(q)
             rank == [g \in G |-> IF g.valid > 0 THEN g.sum + 1 ELSE 0]
             order == [g \in G |-> KeyOrder[g.key]]
             before(g) ==
               {h \in G : Outranks(h, g) \/ (~Outranks(g, h) /\ KeyOrder[h.key] < KeyOrder[g.key])}
  <2>0. /\ IsFiniteSet(G)
        /\ \A g \in G : g.valid \in Nat /\ g.sum \in Nat /\ KeyOrder[g.key] \in Nat
        /\ \A g, h \in G : KeyOrder[g.key] = KeyOrder[h.key] => g = h
    BY GroupsFacts
  <2>f. First(G, 1) = {g \in G : Cardinality(before(g)) < 1}
    <3>1. First(G, 1) = {g \in G : 1 = 0 \/ Cardinality(before(g)) < 1}
      BY Zenon DEF First
    <3> HIDE DEF before, G
    <3> QED BY <3>1
  <2> HIDE DEF G
  <2>1. /\ IsFiniteSet(G) /\ \A g \in G : rank[g] \in Nat /\ order[g] \in Nat
        /\ \A g, h \in G : order[g] = order[h] => g = h
    BY <2>0
  <2>2. \A g, h \in G : Outranks(g, h) <=> rank[g] > rank[h]
    BY <2>0 DEF Outranks
  <2>3. ASSUME NEW g \in G PROVE before(g) = Ahead(G, rank, order, g)
    <3>1. \A h \in G : /\ order[h] = KeyOrder[h.key] /\ order[g] = KeyOrder[g.key]
                       /\ rank[h] \in Nat /\ rank[g] \in Nat
      BY <2>1
    <3> HIDE DEF rank, order
    <3>2. \A h \in G : (Outranks(h, g) \/ (~Outranks(g, h) /\ KeyOrder[h.key] < KeyOrder[g.key]))
                     <=> (rank[h] > rank[g] \/ (rank[h] = rank[g] /\ order[h] < order[g]))
      BY <2>2, <3>1
    <3> QED BY <3>2 DEF Ahead
  <2>4. First(G, 1) = {g \in G : Cardinality(Ahead(G, rank, order, g)) < 1}
    <3> HIDE DEF before, rank, order
    <3> QED BY <2>3, <2>f
  <2> HIDE DEF G, rank, order
  <2>5. \E best \in G : First(G, 1) = {best}
    BY <1>1, <2>1, <2>4, OneFirst DEF G
  <2> QED BY <2>5, FS_Singleton DEF G
<1>2. ASSUME SpendGroups(q) # {}
      PROVE  /\ Cardinality(TopSpenders(q, 1)) = 1
             /\ \A g \in TopSpenders(q, 1), h \in SpendGroups(q) : h.cost <= g.cost
  <2> DEFINE G == SpendGroups(q)
             rank == [g \in G |-> g.cost]
             order == [g \in G |-> KeyOrder[g.key]]
  <2>1. /\ IsFiniteSet(G) /\ \A g \in G : rank[g] \in Nat /\ order[g] \in Nat
        /\ \A g, h \in G : order[g] = order[h] => g = h
    BY SpendersFacts
  <2>2. \A g \in G : rank[g] = g.cost /\ order[g] = KeyOrder[g.key]
    OBVIOUS
  <2> DEFINE before(g) ==
               {h \in G : h.cost > g.cost \/ (h.cost = g.cost /\ KeyOrder[h.key] < KeyOrder[g.key])}
  <2>3. TopSpenders(q, 1) = {g \in G : Cardinality(before(g)) < 1}
    <3>1. TopSpenders(q, 1) = {g \in G : 1 = 0 \/ Cardinality(before(g)) < 1}
      BY Zenon DEF TopSpenders
    <3> HIDE DEF before, G
    <3> QED BY <3>1
  <2> HIDE DEF G, rank, order
  <2>f. ASSUME NEW g \in G PROVE before(g) = Ahead(G, rank, order, g)
    <3>2. \A h \in G : (h.cost > g.cost \/ (h.cost = g.cost /\ KeyOrder[h.key] < KeyOrder[g.key]))
                     <=> (rank[h] > rank[g] \/ (rank[h] = rank[g] /\ order[h] < order[g]))
      BY <2>2
    <3> QED BY <3>2 DEF Ahead
  <2>4. TopSpenders(q, 1) = {g \in G : Cardinality(Ahead(G, rank, order, g)) < 1}
    <3> HIDE DEF before
    <3> QED BY <2>3, <2>f
  <2> HIDE DEF G, rank, order
  <2>5. PICK best \in G : TopSpenders(q, 1) = {best} /\ \A h \in G : rank[h] <= rank[best]
    BY <1>2, <2>1, <2>4, OneFirst DEF G
  <2> QED BY <2>2, <2>5, FS_Singleton DEF G
<1>3. ASSUME SpendGroups(q) = {} PROVE TopSpenders(q, 1) = {}
  BY <1>3 DEF TopSpenders
<1> QED BY <1>1, <1>2, <1>3

(* No record goes missing from an answer, and its totals agree with one    *)
(* another (kind_section, rank, cost_by_project): for any records, filters,*)
(* groupings and contracts.                                                *)
THEOREM AnswersAlwaysWhole == QSpec => []AnswersAreWhole
<1>1. Listed => TotalsAgree
  <2> SUFFICES ASSUME Listed, NEW q \in Questions
               PROVE  LET groups == Groups(q)
                          paid   == SpendRows(q)
                          spent  == SpendGroups(q)
                      IN /\ SumFunctionOnSet([g \in groups |-> g.count], groups) = Cardinality(Counted(q))
                         /\ \A g \in groups : g.count > 0 /\ g.invalid >= 0
                         /\ groups # {} => Cardinality(First(groups, 1)) = 1
                         /\ spent # {} => Cardinality(TopSpenders(q, 1)) = 1
                         /\ \A g \in TopSpenders(q, 1), h \in spent :
                              h.missing < h.count => h.cost <= g.cost
                         /\ SumFunctionOnSet([g \in spent |-> g.count], spent) = Cardinality(paid)
                         /\ \A m, n \in paid : spends[m].project # spends[n].project
                              => Spender(spends[m]) # Spender(spends[n])
    BY DEF TotalsAgree
  <2>1. q \in Question
    BY ReportsAssumption
  <2>2. /\ SumFunctionOnSet([g \in Groups(q) |-> g.count], Groups(q)) = Cardinality(Counted(q))
        /\ \A g \in Groups(q) : g.count > 0 /\ g.invalid >= 0
    BY <2>1, GroupsFacts
  <2> QED BY <2>1, <2>2, SpendersFacts, FirstOnes
<1> QED BY <1>1, NothingIsMissing, AlwaysListed, PTL DEF AnswersAreWhole
-----------------------------------------------------------------------------
(* The projects work is attributed to.                                     *)

\* The types of the folders and of git's directories.
GTypes ==
  /\ present \subseteq Folders /\ dot \in [Folders -> GitDirectory \cup {NoGit}]
  /\ DOMAIN heads \subseteq GitDirectory /\ checkout \in [Folders -> Heads]

\* Of each directory of git: the one it shares stands beside it, and a checkout's has no name.
Shared ==
  \A g \in DOMAIN heads : Common(g) \in DOMAIN heads /\ (g.store = "checkout" => g.name = Nowhere)

\* A checkout holds its own directory, and only that.
Held ==
  \A d \in Folders :
    /\ Own(d) \in DOMAIN heads => dot[d] = Own(d)
    /\ dot[d] # NoGit /\ dot[d].store = "checkout" /\ dot[d].link = Nowhere => dot[d] = Own(d)

\* What a folder's .git leads to holds what was last checked out there.
HeadIsCheckout == \A d \in Folders : Standing(dot[d]) => heads[dot[d]] = checkout[d]

GInv == GTypes /\ Shared /\ Held /\ HeadIsCheckout
-----------------------------------------------------------------------------
\* A set of numbers that has a member has a least.
LEMMA LeastIn ==
  ASSUME NEW S, S \subseteq Nat, S # {}
  PROVE  Min(S) \in S
<1>1. \E x \in S : \A y \in S : ~(<<y, x>> \in OpToRel(<, Nat))
  BY WFMin, NatLessThanWellFounded
<1>2. PICK x \in S : \A y \in S : ~(<<y, x>> \in OpToRel(<, Nat))
  BY <1>1
<1>3. \A y \in S : x <= y
  <2> SUFFICES ASSUME NEW y \in S PROVE x <= y
    OBVIOUS
  <2>1. <<y, x>> \in OpToRel(<, Nat) <=> y < x
    BY DEF OpToRel
  <2>2. ~(y < x)
    BY <1>2, <2>1
  <2>3. x \in Nat /\ y \in Nat
    OBVIOUS
  <2> QED BY <2>2, <2>3
<1> QED BY <1>3 DEF Min

\* The fields of what stands for a folder's own directory, and of what is none.
LEMMA Directories ==
  /\ \A d \in Folders : Own(d) \in GitDirectory
  /\ \A d : Own(d).store = "checkout" /\ Own(d).at = d /\ Own(d).name = Nowhere /\ Own(d).link = Nowhere
  /\ NoGit \notin GitDirectory
  /\ \A g \in GitDirectory :
       /\ Common(g) \in GitDirectory /\ Common(g).at = g.at /\ Common(g).store = g.store
       /\ Common(g).name = g.name /\ Common(g).link = Nowhere
       /\ g.at \in Folders
       /\ g.link = Nowhere => Common(g) = g
       /\ g.store = "checkout" /\ g.name = Nowhere /\ g.link = Nowhere => g = Own(g.at)
<1>1. \A d \in Folders : Own(d) \in GitDirectory
  BY DEF Own, GitDirectory
<1>2. NoGit.at = Nowhere
  BY DEF NoGit, Own
<1>3. \A g \in GitDirectory :
       /\ Common(g) \in GitDirectory /\ Common(g).at = g.at /\ Common(g).store = g.store
       /\ Common(g).name = g.name /\ Common(g).link = Nowhere
       /\ g.at \in Folders
       /\ g.link = Nowhere => Common(g) = g
       /\ g.store = "checkout" /\ g.name = Nowhere /\ g.link = Nowhere => g = Own(g.at)
  BY DEF GitDirectory, Common, Own
<1>4. NoGit \notin GitDirectory
  BY <1>2, IdentityAssumption DEF GitDirectory
<1> QED BY <1>1, <1>3, <1>4 DEF Own

LEMMA InitIdentity == GInit => GInv
<1> SUFFICES ASSUME GInit PROVE GInv
  OBVIOUS
<1>1. DOMAIN heads = {} /\ \A d \in Folders : dot[d] = NoGit
  BY DEF GInit
<1>2. GTypes
  BY <1>1 DEF GInit, GTypes, Heads
<1> QED BY <1>1, <1>2, Directories DEF GInv, Shared, Held, HeadIsCheckout, Standing

\* A directory of git appears, which is shared by no folder's but its own.
LEMMA ServesKeeps ==
  ASSUME GInv, NEW g \in GitDirectory, NEW d \in Folders, NEW h \in Heads, Free(d), Serves(g, d, h),
         Common(g) \in DOMAIN heads \cup {g}, g.store = "checkout" => g.name = Nowhere,
         g = Own(d) \/ (\A e \in Folders : g # Own(e)),
         g # Own(d) => ~(g.store = "checkout" /\ g.link = Nowhere)
  PROVE  GInv'
<1>1. GTypes /\ Shared /\ Held /\ HeadIsCheckout
  BY DEF GInv
<1>2. /\ present' = present /\ dot' = [dot EXCEPT ![d] = g]
      /\ heads' = [x \in DOMAIN heads \cup {g} |-> IF x = g THEN h ELSE heads[x]]
      /\ checkout' = [e \in Folders |-> IF dot'[e] = g THEN h ELSE checkout[e]]
      /\ dot[d] = NoGit /\ \A x \in DOMAIN heads : x.at # d
  BY DEF Serves, Writes, Free
<1>3. /\ DOMAIN heads' = DOMAIN heads \cup {g}
      /\ \A e \in Folders : dot'[e] = IF e = d THEN g ELSE dot[e]
  BY <1>1, <1>2 DEF GTypes
<1>4. GTypes'
  BY <1>1, <1>2, <1>3 DEF GTypes
<1>5. Shared'
  BY <1>1, <1>3 DEF Shared
<1>6. Held'
  <2> SUFFICES ASSUME NEW e \in Folders
               PROVE  /\ Own(e) \in DOMAIN heads' => dot'[e] = Own(e)
                      /\ dot'[e] # NoGit /\ dot'[e].store = "checkout" /\ dot'[e].link = Nowhere
                           => dot'[e] = Own(e)
    BY DEF Held
  <2>1. Own(e).at = e
    BY Directories
  <2>2. CASE e = d
    BY <1>2, <1>3, <2>1, <2>2
  <2>3. CASE e # d
    <3>1. Own(e) = g => FALSE
      BY <2>1, <2>3, Directories
    <3> QED BY <1>1, <1>3, <2>3, <3>1 DEF Held
  <2> QED BY <2>2, <2>3
<1>7. HeadIsCheckout'
  BY <1>1, <1>2, <1>3 DEF HeadIsCheckout, Standing
<1> QED BY <1>4, <1>5, <1>6, <1>7 DEF GInv

LEMMA AddingKeeps ==
  ASSUME GInv, NEW d \in Folders, NEW h \in Heads,
         \/ GitInit(d, h)
         \/ \E s \in Folders : GitInitSeparate(d, s, h)
         \/ \E g \in DOMAIN heads : LinkWorktree(g, d, h) \/ AddSubmodule(g, d, h)
  PROVE  GInv'
<1>1. GTypes /\ Shared
  BY DEF GInv
<1>2. CASE GitInit(d, h)
  <2>1. Own(d) \in GitDirectory /\ Own(d).name = Nowhere /\ Common(Own(d)) = Own(d)
    BY Directories
  <2> QED BY <1>2, <2>1, ServesKeeps DEF GitInit
<1>3. ASSUME NEW s \in Folders, GitInitSeparate(d, s, h) PROVE GInv'
  <2> DEFINE g == [Own(s) EXCEPT !.store = "separate"]
  <2>1. /\ g \in GitDirectory /\ g.store = "separate" /\ g.link = Nowhere
    BY DEF Own, GitDirectory
  <2>2. Common(g) = g /\ \A e \in Folders : g # Own(e)
    BY <2>1, Directories
  <2>3. Free(d) /\ Serves(g, d, h)
    BY <1>3 DEF GitInitSeparate
  <2> HIDE DEF g
  <2> QED BY <2>1, <2>2, <2>3, ServesKeeps
<1>4. ASSUME NEW b \in DOMAIN heads, LinkWorktree(b, d, h) PROVE GInv'
  <2> DEFINE g == [b EXCEPT !.link = d]
  <2>0. b \in GitDirectory /\ b.link = Nowhere /\ Free(d) /\ Serves(g, d, h)
    BY <1>1, <1>4 DEF GTypes, LinkWorktree
  <2>1. /\ g \in GitDirectory /\ g.store = b.store /\ g.link = d /\ g.name = b.name
        /\ Common(g) = b
    BY <2>0 DEF GitDirectory, Common
  <2>2. d # Nowhere
    BY IdentityAssumption
  <2>3. \A e \in Folders : g # Own(e)
    <3> SUFFICES ASSUME NEW e \in Folders, g = Own(e) PROVE FALSE
      OBVIOUS
    <3> HIDE DEF g
    <3>1. Own(e).link = Nowhere
      BY Directories
    <3> QED BY <2>1, <2>2, <3>1
  <2>4. g.store = "checkout" => g.name = Nowhere
    BY <1>1, <2>1 DEF Shared
  <2> HIDE DEF g
  <2> QED BY <2>0, <2>1, <2>2, <2>3, <2>4, ServesKeeps
<1>5. ASSUME NEW b \in DOMAIN heads, AddSubmodule(b, d, h) PROVE GInv'
  <2> DEFINE g == [b EXCEPT !.store = "module", !.name = d]
  <2>0. b \in GitDirectory /\ b.link = Nowhere /\ Free(d) /\ Serves(g, d, h)
    BY <1>1, <1>5 DEF GTypes, AddSubmodule
  <2>1. g \in GitDirectory /\ g.store = "module" /\ g.link = Nowhere
    BY <2>0 DEF GitDirectory
  <2>2. Common(g) = g /\ \A e \in Folders : g # Own(e)
    BY <2>1, Directories
  <2> HIDE DEF g
  <2> QED BY <2>0, <2>1, <2>2, ServesKeeps
<1> QED BY <1>2, <1>3, <1>4, <1>5

\* A HEAD is written over, or a bare repository appears, and no folder's .git changes.
LEMMA WritingKeeps ==
  ASSUME GInv, NEW d \in Folders, NEW h \in Heads, GitInitBare(d, h) \/ CheckOut(d, h)
  PROVE  GInv'
<1>1. GTypes /\ Shared /\ Held /\ HeadIsCheckout
  BY DEF GInv
<1>2. PICK g \in GitDirectory : /\ UNCHANGED <<present, dot>> /\ Writes(g, h)
                                /\ g \in DOMAIN heads \/ (Common(g) = g /\ g.store = "bare")
  <2>1. CASE GitInitBare(d, h)
    <3> DEFINE g == [Own(d) EXCEPT !.store = "bare"]
    <3>1. g \in GitDirectory /\ g.store = "bare" /\ g.link = Nowhere
      BY DEF Own, GitDirectory
    <3>2. Common(g) = g
      BY <3>1, Directories
    <3>3. UNCHANGED <<present, dot>> /\ Writes(g, h)
      BY <2>1 DEF GitInitBare
    <3> HIDE DEF g
    <3> QED BY <3>1, <3>2, <3>3
  <2>2. CASE CheckOut(d, h)
    <3>1. UNCHANGED <<present, dot>> /\ Writes(dot[d], h) /\ dot[d] \in DOMAIN heads
      BY <2>2 DEF CheckOut, Standing
    <3> QED BY <1>1, <3>1 DEF GTypes
  <2> QED BY <2>1, <2>2
<1>3. /\ present' = present /\ dot' = dot
      /\ heads' = [x \in DOMAIN heads \cup {g} |-> IF x = g THEN h ELSE heads[x]]
      /\ checkout' = [e \in Folders |-> IF dot[e] = g THEN h ELSE checkout[e]]
  BY <1>2 DEF Writes
<1>4. GTypes'
  BY <1>1, <1>3 DEF GTypes
<1>5. Shared'
  BY <1>1, <1>2, <1>3 DEF Shared
<1>6. Held'
  <2>1. \A e \in Folders : Own(e) \in DOMAIN heads' => Own(e) \in DOMAIN heads
    BY <1>2, <1>3, Directories
  <2> QED BY <1>1, <1>3, <2>1 DEF Held
<1>7. HeadIsCheckout'
  BY <1>1, <1>3 DEF HeadIsCheckout, Standing
<1> QED BY <1>4, <1>5, <1>6, <1>7 DEF GInv

LEMMA FoldersKeep ==
  ASSUME GInv, NEW d \in Folders, RemoveFolder(d) \/ MakeFolder(d)
  PROVE  GInv'
<1>1. GTypes /\ Shared /\ Held /\ HeadIsCheckout
  BY DEF GInv
<1>2. CASE RemoveFolder(d)
  <2> DEFINE gone == {e \in Folders : \E i \in DOMAIN Above[e] : Above[e][i] = d}
  <2>1. /\ present' = present \ gone /\ dot' = [e \in Folders |-> IF e \in gone THEN NoGit ELSE dot[e]]
        /\ heads' = [g \in {x \in DOMAIN heads : x.at \notin gone} |-> heads[g]]
        /\ checkout' = checkout
    BY <1>2 DEF RemoveFolder
  <2> HIDE DEF gone
  <2>2. DOMAIN heads' = {x \in DOMAIN heads : x.at \notin gone}
        /\ \A e \in Folders : dot'[e] = IF e \in gone THEN NoGit ELSE dot[e]
    BY <2>1
  <2>3. GTypes'
    BY <1>1, <2>1, <2>2 DEF GTypes
  <2>4. Shared'
    BY <1>1, <2>2, Directories DEF Shared, GTypes
  <2>5. Held'
    BY <1>1, <2>2, Directories DEF Held, GTypes
  <2>6. HeadIsCheckout'
    BY <1>1, <2>1, <2>2, Directories DEF HeadIsCheckout, Standing, GTypes
  <2> QED BY <2>3, <2>4, <2>5, <2>6 DEF GInv
<1>3. CASE MakeFolder(d)
  <2>1. present' = present \cup {d} /\ UNCHANGED <<dot, heads, checkout>>
    BY <1>3 DEF MakeFolder
  <2> QED BY <1>1, <2>1 DEF GInv, GTypes, Shared, Held, HeadIsCheckout, Standing
<1> QED BY <1>2, <1>3

LEMMA NextIdentity == GInv /\ [GNext]_gvars => GInv'
<1> SUFFICES ASSUME GInv, [GNext]_gvars PROVE GInv'
  OBVIOUS
<1>1. CASE UNCHANGED gvars
  BY <1>1 DEF gvars, GInv, GTypes, Shared, Held, HeadIsCheckout, Standing
<1>2. ASSUME NEW d \in Folders, NEW h \in Heads,
             GitInit(d, h) \/ (\E s \in Folders : GitInitSeparate(d, s, h))
               \/ (\E g \in DOMAIN heads : LinkWorktree(g, d, h) \/ AddSubmodule(g, d, h))
      PROVE  GInv'
  BY <1>2, AddingKeeps
<1>3. ASSUME NEW d \in Folders, NEW h \in Heads, GitInitBare(d, h) \/ CheckOut(d, h) PROVE GInv'
  BY <1>3, WritingKeeps
<1>4. ASSUME NEW d \in Folders, RemoveFolder(d) \/ MakeFolder(d) PROVE GInv'
  BY <1>4, FoldersKeep
<1> QED BY <1>1, <1>2, <1>3, <1>4 DEF GNext
-----------------------------------------------------------------------------
\* The tree a folder is in is a folder.
LEMMA RootIsFolder ==
  ASSUME GTypes, NEW d \in Folders, GitRoot(d) # Nowhere
  PROVE  /\ GitRoot(d) \in Folders /\ Real(GitRoot(d)) = GitRoot(d)
         /\ dot[GitRoot(d)] # NoGit
<1> DEFINE holds == {i \in DOMAIN Above[d] : dot[Real(Above[d][i])] # NoGit}
<1>1. GitRoot(d) = Above[d][Min(holds)] /\ holds # {}
  BY DEF GitRoot
<1>2. Above[d] \in Seq(Folders) /\ Folders \cap Links = {}
  BY IdentityAssumption
<1>3. holds \subseteq Nat
  BY <1>2
<1>4. Min(holds) \in holds
  <2> HIDE DEF holds
  <2> QED BY <1>1, <1>3, LeastIn
<1>5. Above[d][Min(holds)] \in Folders /\ dot[Real(Above[d][Min(holds)])] # NoGit
  <2>1. \A i \in DOMAIN Above[d] : Above[d][i] \in Folders
    BY <1>2
  <2>2. Min(holds) \in DOMAIN Above[d] /\ dot[Real(Above[d][Min(holds)])] # NoGit
    BY <1>4
  <2> HIDE DEF holds
  <2> QED BY <2>1, <2>2
<1> HIDE DEF holds
<1> QED BY <1>1, <1>2, <1>5 DEF Real

\* A folder's project is the checkout that holds the repository's directory, or else its tree.
LEMMA ProjectIs ==
  ASSUME GInv, NEW d \in Folders, GitRoot(d) # Nowhere
  PROVE  \/ ProjectOf(d) = GitRoot(d)
         \/ /\ Standing(dot[GitRoot(d)]) /\ Repository(d) = Own(ProjectOf(d)) /\ ProjectOf(d) \in Folders
            /\ Standing(Repository(d))
<1> DEFINE tree == GitRoot(d)
           g == dot[tree]
<1>1. CASE MainWorktree(tree) = Nowhere
  BY <1>1 DEF ProjectOf
<1>2. CASE MainWorktree(tree) # Nowhere
  <2>1. Standing(g) /\ Standing(Common(g)) /\ Common(g).store = "checkout" /\ MainWorktree(tree) = g.at
    BY <1>2 DEF MainWorktree
  <2>2. ProjectOf(d) = g.at
    BY <1>2, <2>1 DEF ProjectOf
  <2>3. g \in GitDirectory /\ Common(g) \in DOMAIN heads
    BY <2>1 DEF GInv, GTypes, Standing
  <2>4. Common(g).name = Nowhere
    BY <2>1, <2>3 DEF GInv, Shared
  <2>5. Common(g) = Own(g.at) /\ g.at \in Folders
    BY <2>1, <2>3, <2>4, Directories
  <2>6. Repository(d) = Common(g)
    BY <2>1 DEF Repository
  <2> QED BY <2>1, <2>2, <2>5, <2>6
<1> QED BY <1>1, <1>2

(* Whatever repositories are made, linked, nested and removed beneath the  *)
(* sessions, folders share a project only within one tree or repository,   *)
(* and what is asked of a folder is answered for the tree it is in         *)
(* (project_of, main_worktree, project_selector, git_branch).              *)
THEOREM ProjectsAlwaysStand == GSpec => []ProjectsStandForRepositories
<1>1. GInv => OneProjectARepository
  <2> SUFFICES ASSUME GInv, NEW d \in InRepositories, NEW e \in InRepositories
               PROVE  /\ ProjectOf(d) = ProjectOf(e) =>
                           \/ GitRoot(d) = GitRoot(e)
                           \/ Repository(d) # NoGit /\ Repository(d) = Repository(e)
                      /\ Repository(d).store = "checkout" /\ Repository(d) # NoGit =>
                           ProjectOf(d) = Repository(d).at
    BY DEF OneProjectARepository
  <2>0. GTypes /\ Shared /\ Held
    BY DEF GInv
  <2>1. d \in Folders /\ GitRoot(d) # Nowhere /\ e \in Folders /\ GitRoot(e) # Nowhere
    BY <2>0 DEF InRepositories, GTypes
  <2>2. \A x \in {d, e} :
          \/ ProjectOf(x) = GitRoot(x)
          \/ /\ Standing(dot[GitRoot(x)]) /\ Repository(x) = Own(ProjectOf(x)) /\ ProjectOf(x) \in Folders
             /\ Standing(Repository(x))
    BY <2>1, ProjectIs
  <2>3. ASSUME NEW x \in {d, e}, NEW y \in {d, e}, ProjectOf(x) = GitRoot(x), ProjectOf(x) = ProjectOf(y),
               Repository(y) = Own(ProjectOf(y)), ProjectOf(y) \in Folders, Standing(Repository(y))
        PROVE  Repository(x) = Repository(y)
    <3>1. dot[GitRoot(x)] = Own(GitRoot(x))
      BY <2>0, <2>3 DEF Held, Standing
    <3>2. Common(Own(GitRoot(x))) = Own(GitRoot(x))
      BY <2>3, Directories
    <3> QED BY <2>3, <3>1, <3>2 DEF Repository
  <2>4. \A f \in Folders : Own(f) # NoGit
    BY Directories
  <2>5. ProjectOf(d) = ProjectOf(e) =>
          GitRoot(d) = GitRoot(e) \/ (Repository(d) # NoGit /\ Repository(d) = Repository(e))
    BY <2>2, <2>3, <2>4
  <2>6. ASSUME Repository(d).store = "checkout", Repository(d) # NoGit PROVE ProjectOf(d) = Repository(d).at
    <3> DEFINE g == dot[GitRoot(d)]
    <3>1. Standing(g) /\ Repository(d) = Common(g)
      BY <2>6 DEF Repository
    <3>2. g \in GitDirectory /\ Standing(Common(g))
      BY <2>0, <3>1 DEF GTypes, Shared, Standing
    <3>3. Common(g).store = g.store /\ Common(g).at = g.at /\ g.at \in Folders
      BY <3>2, Directories
    <3>4. CASE g.link = Nowhere
      <4>1. GitRoot(d) \in Folders /\ g # NoGit
        BY <2>0, <2>1, RootIsFolder
      <4>2. g = Own(GitRoot(d))
        BY <2>0, <2>6, <3>1, <3>3, <3>4, <4>1 DEF Held
      <4>3. MainWorktree(GitRoot(d)) = Nowhere
        BY <3>4 DEF MainWorktree
      <4>4. g.at = GitRoot(d)
        BY <4>2, Directories
      <4> QED BY <3>1, <3>3, <4>3, <4>4 DEF ProjectOf
    <3>5. CASE g.link # Nowhere
      <4>1. MainWorktree(GitRoot(d)) = g.at
        BY <2>6, <3>1, <3>2, <3>3, <3>5 DEF MainWorktree
      <4>2. g.at # Nowhere
        BY <3>3, IdentityAssumption
      <4> QED BY <2>1, <3>1, <3>3, <4>1, <4>2 DEF ProjectOf
    <3> QED BY <3>4, <3>5
  <2> QED BY <2>5, <2>6
<1>2. GInv => SelectorFinds
  <2> SUFFICES ASSUME GInv PROVE SelectorFinds
    OBVIOUS
  <2>0. GTypes /\ HeadIsCheckout
    BY DEF GInv
  <2>1. ASSUME NEW p \in Folders \cup Links, Real(p) \in present
        PROVE  {ResolveProject(p), ProjectSelector(p)} = {ResolveProject(Real(p))}
    <3>1. Real(Real(p)) = Real(p)
      BY <2>0, <2>1, IdentityAssumption DEF Real, GTypes
    <3> QED BY <2>1, <3>1 DEF ResolveProject, ProjectSelector
  <2>2. ASSUME NEW d \in InRepositories, GitBranch(d) # Nowhere PROVE GitBranch(d) = checkout[GitRoot(d)]
    <3>1. d \in Folders /\ GitRoot(d) # Nowhere
      BY <2>0 DEF InRepositories, GTypes
    <3>2. GitRoot(d) \in Folders /\ Real(GitRoot(d)) = GitRoot(d)
      BY <2>0, <3>1, RootIsFolder
    <3>3. Standing(dot[GitRoot(d)]) /\ GitBranch(d) = heads[dot[GitRoot(d)]]
      BY <2>2, <3>2 DEF GitBranch
    <3> QED BY <2>0, <3>2, <3>3 DEF HeadIsCheckout
  <2> QED BY <2>1, <2>2 DEF SelectorFinds
<1>3. GSpec => []GInv
  BY InitIdentity, NextIdentity, PTL DEF GSpec
<1> QED BY <1>1, <1>2, <1>3, PTL DEF ProjectsStandForRepositories
-----------------------------------------------------------------------------
(* Folds over sequences.                                                   *)

\* The last of the first few places of a sequence, and what is before it.
LEMMA LastOfFirst ==
  ASSUME NEW n \in Nat, NEW s \in SUBSET (1..(n + 1)), n + 1 \in s
  PROVE  Max(s) = n + 1
<1>1. \A x \in s : (\A y \in s : x >= y) => x = n + 1
  OBVIOUS
<1>2. \A y \in s : n + 1 >= y
  OBVIOUS
<1> QED BY <1>1, <1>2 DEF Max

\* Some places of a sequence have a last.
LEMMA LastPlace ==
  ASSUME NEW n \in Nat, NEW s \in SUBSET (1..n), s # {}
  PROVE  Max(s) \in s /\ Max(s) \in 1..n
<1>1. IsFiniteSet(1..n) /\ 1..n \subseteq Int
  BY FS_Interval
<1>2. IsFiniteSet(s) /\ s \subseteq Int
  BY <1>1, FS_Subset
<1>3. \E x \in s : \A y \in s : x >= y
  BY <1>2, Extremes
<1> QED BY <1>3 DEF Max

\* A step takes what a fold has so far and an element of its list.
IsStep(F, R, X, list, N) == F \in [R \X X -> R] /\ \A i \in 1..N : list[i] \in X

\* What a fold of the step makes of every part of the list.
Folds(g, F, R, base, list, N) ==
  /\ g \in [SUBSET (1..N) -> R]
  /\ \A s \in SUBSET (1..N) :
       g[s] = IF s = {} THEN base ELSE F[<<g[s \ {Max(s)}], list[Max(s)]>>]

\* A fold over a sequence is defined on all parts of it.
LEMMA FoldExists ==
  ASSUME NEW R, NEW X, NEW F, NEW base \in R, NEW N \in Nat, NEW list, IsStep(F, R, X, list, N)
  PROVE  \E g : Folds(g, F, R, base, list, N)
<1> DEFINE Runs(n, g) == Folds(g, F, R, base, list, n)
           Good == {n \in Nat : n <= N => \E g : Runs(n, g)}
<1>1. 0 \in Good
  <2> DEFINE g == [s \in {{}} |-> base]
  <2>1. SUBSET (1..0) = {{}}
    OBVIOUS
  <2>2. Runs(0, g)
    BY <2>1 DEF Folds
  <2> QED BY <2>2
<1>2. ASSUME NEW n \in Nat, n \in Good PROVE n + 1 \in Good
  <2> HIDE DEF Runs
  <2> SUFFICES ASSUME n + 1 <= N PROVE \E g : Runs(n + 1, g)
    OBVIOUS
  <2>0. n <= N
    OBVIOUS
  <2>1. PICK g : Runs(n, g)
    BY <1>2, <2>0
  <2> USE DEF Runs, Folds
  <2> DEFINE l == n + 1
             h == [s \in SUBSET (1..l) |-> IF l \in s THEN F[<<g[s \ {l}], list[l]>>] ELSE g[s]]
  <2>2. \A s \in SUBSET (1..l) : s \ {l} \in SUBSET (1..n) /\ (l \notin s => s \in SUBSET (1..n))
    OBVIOUS
  <2>3. list[l] \in X /\ F \in [R \X X -> R]
    BY DEF IsStep
  <2>4. h \in [SUBSET (1..l) -> R]
    BY <2>1, <2>2, <2>3
  <2>5. ASSUME NEW s \in SUBSET (1..l)
        PROVE  h[s] = IF s = {} THEN base ELSE F[<<h[s \ {Max(s)}], list[Max(s)]>>]
    <3>1. CASE l \in s
      <4>1. Max(s) = l
        BY <3>1, LastOfFirst
      <4>2. s \ {l} \in SUBSET (1..l) /\ l \notin s \ {l}
        OBVIOUS
      <4>3. h[s \ {l}] = g[s \ {l}]
        BY <4>2
      <4>4. h[s] = F[<<g[s \ {l}], list[l]>>]
        BY <3>1
      <4> QED BY <3>1, <4>1, <4>3, <4>4
    <3>2. CASE l \notin s
      <4>1. h[s] = g[s] /\ s \in SUBSET (1..n)
        BY <2>2, <3>2
      <4>2. s # {} => Max(s) \in Nat /\ h[s \ {Max(s)}] = g[s \ {Max(s)}]
        <5> SUFFICES ASSUME s # {} PROVE Max(s) \in Nat /\ h[s \ {Max(s)}] = g[s \ {Max(s)}]
          OBVIOUS
        <5>1. s \ {Max(s)} \in SUBSET (1..l) /\ l \notin s \ {Max(s)}
          BY <3>2
        <5>2. h[s \ {Max(s)}] = g[s \ {Max(s)}]
          BY <5>1
        <5>4. Max(s) \in Nat
          BY <4>1, LastPlace
        <5> QED BY <5>2, <5>4
      <4> QED BY <2>1, <4>1, <4>2
    <3> QED BY <3>1, <3>2
  <2> HIDE DEF h
  <2> QED BY <2>4, <2>5
<1>3. N \in Good
  <2> HIDE DEF Good
  <2> QED BY <1>1, <1>2, Counting
<1> QED BY <1>3

\* The first places of a sequence, one after another.
LEMMA Places ==
  ASSUME NEW N \in Nat, NEW i \in 1..N
  PROVE  /\ 1..i \in SUBSET (1..N) /\ 1..i # {} /\ i \in 1..i
         /\ Max(1..i) = i /\ (1..i) \ {i} = 1..(i - 1) /\ i - 1 \in 0..N
<1>1. i - 1 \in Nat /\ i = (i - 1) + 1 /\ 1..i \in SUBSET (1..i) /\ i \in 1..i
  OBVIOUS
<1>2. Max(1..i) = i
  BY <1>1, LastOfFirst
<1> QED BY <1>1, <1>2
-----------------------------------------------------------------------------
(* What folds of the registry pass through.                                *)

\* The files there are, the bindings in them, and the registries made of them.
Given    == {Core} \cup Files
Bindable == UNION {ToSet(f.bindings) : f \in Given}
Reg      == [ok : BOOLEAN, kinds : SUBSET STRING, fields : SUBSET (STRING \X STRING),
             bindings : SUBSET Bindable]

\* A step makes a registry of a registry.
LEMMA StepTypes ==
  /\ \A reg \in Reg, k \in KindSpec : AddKind(reg, k) \in Reg
  /\ \A reg \in Reg, b \in Bindable : Bind(reg, b) \in Reg
<1>1. ASSUME NEW reg \in Reg, NEW k \in KindSpec PROVE AddKind(reg, k) \in Reg
  BY <1>1 DEF AddKind, Reg, KindSpec
<1>2. ASSUME NEW reg \in Reg, NEW b \in Bindable PROVE Bind(reg, b) \in Reg
  BY <1>2 DEF Bind, Reg, Bindable
<1> QED BY <1>1, <1>2

\* What a fold is on the first places follows from what it is on those before.
Follows(g, F, R, base, list, N) ==
  g[{}] = base /\ \A i \in 1..N : g[1..(i - 1)] \in R => g[1..i] = F[<<g[1..(i - 1)], list[i]>>]

\* What a fold has made of nothing, of the first place, and so on to all.
IsPath(t, F, R, base, list, N) ==
  t \in [0..N -> R] /\ t[0] = base /\ \A i \in 1..N : t[i] = F[<<t[i - 1], list[i]>>]

\* What a fold passes through, from what it is on the first places.
LEMMA FoldPath ==
  ASSUME NEW R, NEW X, NEW F, NEW base \in R, NEW N \in Nat, NEW list, IsStep(F, R, X, list, N),
         NEW g, Follows(g, F, R, base, list, N)
  PROVE  \E t : IsPath(t, F, R, base, list, N) /\ t[N] = g[1..N]
<1> DEFINE Good == {n \in Nat : n <= N => g[1..n] \in R}
           t    == [i \in 0..N |-> g[1..i]]
<1>0. 1..0 = {} /\ g[{}] = base
  BY DEF Follows
<1>1. 0 \in Good
  BY <1>0
<1>2. ASSUME NEW n \in Nat, n \in Good PROVE n + 1 \in Good
  <2> SUFFICES ASSUME n + 1 <= N PROVE g[1..(n + 1)] \in R
    OBVIOUS
  <2>1. n + 1 \in 1..N /\ (n + 1) - 1 = n /\ g[1..n] \in R
    BY <1>2
  <2>2. g[1..(n + 1)] = F[<<g[1..n], list[n + 1]>>]
    BY <2>1 DEF Follows
  <2> QED BY <2>1, <2>2 DEF IsStep
<1>3. Nat \subseteq Good
  <2> HIDE DEF Good
  <2> QED BY <1>1, <1>2, Counting
<1>4. \A n \in 0..N : g[1..n] \in R
  BY <1>3
<1>5. t \in [0..N -> R] /\ t[0] = base /\ t[N] = g[1..N]
  BY <1>0, <1>4
<1>6. ASSUME NEW i \in 1..N PROVE t[i] = F[<<t[i - 1], list[i]>>]
  <2>1. i - 1 \in 0..N /\ i \in 0..N
    OBVIOUS
  <2> QED BY <1>4, <2>1 DEF Follows
<1> HIDE DEF t
<1>7. IsPath(t, F, R, base, list, N) /\ t[N] = g[1..N]
  BY <1>5, <1>6 DEF IsPath
<1> QED BY <1>7

KindsUnfold(reg, list, g) ==
  [s \in SUBSET DOMAIN list |-> IF s = {} THEN reg ELSE AddKind(g[s \ {Max(s)}], list[Max(s)])]

\* The kinds of a file are added one after another.
LEMMA KindsFold ==
  ASSUME NEW reg \in Reg, NEW list \in Seq(KindSpec)
  PROVE  \E t \in [0..Len(list) -> Reg] :
           /\ t[0] = reg /\ t[Len(list)] = FoldLeft(AddKind, reg, list)
           /\ \A i \in 1..Len(list) : t[i] = AddKind(t[i - 1], list[i])
<1> DEFINE N == Len(list)
           F == [p \in Reg \X KindSpec |-> AddKind(p[1], p[2])]
           iter == CHOOSE g : g = KindsUnfold(reg, list, g)
<1>1. N \in Nat /\ DOMAIN list = 1..N /\ \A i \in 1..N : list[i] \in KindSpec
  OBVIOUS
<1>2. F \in [Reg \X KindSpec -> Reg] /\ \A r \in Reg, x \in KindSpec : F[<<r, x>>] = AddKind(r, x)
  BY StepTypes
<1>3. IsStep(F, Reg, KindSpec, list, N)
  BY <1>1, <1>2 DEF IsStep
<1>4. FoldLeft(AddKind, reg, list) = iter[1..N]
  BY <1>1 DEF FoldLeft, MapThenFoldSet, KindsUnfold
<1> HIDE DEF F, N, iter
<1>5. PICK g : Folds(g, F, Reg, reg, list, N)
  BY <1>1, <1>3, FoldExists
<1>6. g = KindsUnfold(reg, list, g)
  <2>1. ASSUME NEW s \in SUBSET (1..N)
        PROVE  g[s] = IF s = {} THEN reg ELSE AddKind(g[s \ {Max(s)}], list[Max(s)])
    <3>1. s # {} => Max(s) \in 1..N
      BY <1>1, LastPlace
    <3>2. s \ {Max(s)} \in SUBSET (1..N)
      OBVIOUS
    <3> QED BY <1>1, <1>2, <1>5, <3>1, <3>2 DEF Folds
  <2> QED BY <1>1, <1>5, <2>1 DEF KindsUnfold, Folds
<1>7. iter = KindsUnfold(reg, list, iter)
  BY <1>6 DEF iter
<1>8. Follows(iter, F, Reg, reg, list, N)
  <2>1. iter[{}] = reg
    BY <1>7 DEF KindsUnfold
  <2>2. ASSUME NEW i \in 1..N, iter[1..(i - 1)] \in Reg PROVE iter[1..i] = F[<<iter[1..(i - 1)], list[i]>>]
    <3>1. 1..i \in SUBSET (1..N) /\ 1..i # {} /\ Max(1..i) = i /\ (1..i) \ {i} = 1..(i - 1)
      BY <1>1, Places
    <3>2. iter[1..i] = AddKind(iter[1..(i - 1)], list[i])
      BY <1>1, <1>7, <3>1 DEF KindsUnfold
    <3>3. list[i] \in KindSpec
      BY <1>1
    <3> QED BY <1>2, <2>2, <3>2, <3>3
  <2> QED BY <2>1, <2>2 DEF Follows
<1>9. PICK t : IsPath(t, F, Reg, reg, list, N) /\ t[N] = iter[1..N]
  BY <1>1, <1>3, <1>8, FoldPath
<1>10. \A i \in 1..N : t[i] = AddKind(t[i - 1], list[i])
  BY <1>1, <1>2, <1>9, Places DEF IsPath
<1> QED BY <1>4, <1>9, <1>10 DEF N, IsPath

BindingsUnfold(reg, list, g) ==
  [s \in SUBSET DOMAIN list |-> IF s = {} THEN reg ELSE Bind(g[s \ {Max(s)}], list[Max(s)])]

\* Its bindings are bound one after another.
LEMMA BindingsFold ==
  ASSUME NEW reg \in Reg, NEW list \in Seq(Bindable)
  PROVE  \E t \in [0..Len(list) -> Reg] :
           /\ t[0] = reg /\ t[Len(list)] = FoldLeft(Bind, reg, list)
           /\ \A i \in 1..Len(list) : t[i] = Bind(t[i - 1], list[i])
<1> DEFINE N == Len(list)
           F == [p \in Reg \X Bindable |-> Bind(p[1], p[2])]
           iter == CHOOSE g : g = BindingsUnfold(reg, list, g)
<1>1. N \in Nat /\ DOMAIN list = 1..N /\ \A i \in 1..N : list[i] \in Bindable
  OBVIOUS
<1>2. F \in [Reg \X Bindable -> Reg] /\ \A r \in Reg, x \in Bindable : F[<<r, x>>] = Bind(r, x)
  BY StepTypes
<1>3. IsStep(F, Reg, Bindable, list, N)
  BY <1>1, <1>2 DEF IsStep
<1>4. FoldLeft(Bind, reg, list) = iter[1..N]
  BY <1>1 DEF FoldLeft, MapThenFoldSet, BindingsUnfold
<1> HIDE DEF F, N, iter
<1>5. PICK g : Folds(g, F, Reg, reg, list, N)
  BY <1>1, <1>3, FoldExists
<1>6. g = BindingsUnfold(reg, list, g)
  <2>1. ASSUME NEW s \in SUBSET (1..N)
        PROVE  g[s] = IF s = {} THEN reg ELSE Bind(g[s \ {Max(s)}], list[Max(s)])
    <3>1. s # {} => Max(s) \in 1..N
      BY <1>1, LastPlace
    <3>2. s \ {Max(s)} \in SUBSET (1..N)
      OBVIOUS
    <3> QED BY <1>1, <1>2, <1>5, <3>1, <3>2 DEF Folds
  <2> QED BY <1>1, <1>5, <2>1 DEF BindingsUnfold, Folds
<1>7. iter = BindingsUnfold(reg, list, iter)
  BY <1>6 DEF iter
<1>8. Follows(iter, F, Reg, reg, list, N)
  <2>1. iter[{}] = reg
    BY <1>7 DEF BindingsUnfold
  <2>2. ASSUME NEW i \in 1..N, iter[1..(i - 1)] \in Reg PROVE iter[1..i] = F[<<iter[1..(i - 1)], list[i]>>]
    <3>1. 1..i \in SUBSET (1..N) /\ 1..i # {} /\ Max(1..i) = i /\ (1..i) \ {i} = 1..(i - 1)
      BY <1>1, Places
    <3>2. iter[1..i] = Bind(iter[1..(i - 1)], list[i])
      BY <1>1, <1>7, <3>1 DEF BindingsUnfold
    <3>3. list[i] \in Bindable
      BY <1>1
    <3> QED BY <1>2, <2>2, <3>2, <3>3
  <2> QED BY <2>1, <2>2 DEF Follows
<1>9. PICK t : IsPath(t, F, Reg, reg, list, N) /\ t[N] = iter[1..N]
  BY <1>1, <1>3, <1>8, FoldPath
<1>10. \A i \in 1..N : t[i] = Bind(t[i - 1], list[i])
  BY <1>1, <1>2, <1>9, Places DEF IsPath
<1> QED BY <1>4, <1>9, <1>10 DEF N, IsPath

\* What a merge makes of a registry is one.
LEMMA MergeTypes == \A reg \in Reg, f \in Given : Merge(reg, f) \in Reg
<1> SUFFICES ASSUME NEW reg \in Reg, NEW f \in Given PROVE Merge(reg, f) \in Reg
  OBVIOUS
<1>1. f.kinds \in Seq(KindSpec) /\ f.bindings \in Seq(ToSet(f.bindings))
  BY SchemasAssumption DEF Given
<1>2. f.bindings \in Seq(Bindable)
  BY <1>1 DEF Bindable, ToSet
<1>3. [reg EXCEPT !.ok = FALSE] \in Reg
  BY DEF Reg
<1>4. \A r \in Reg, list \in Seq(KindSpec) : FoldLeft(AddKind, r, list) \in Reg
  <2> TAKE r \in Reg, list \in Seq(KindSpec)
  <2>1. PICK t \in [0..Len(list) -> Reg] : t[Len(list)] = FoldLeft(AddKind, r, list)
    BY KindsFold
  <2> QED BY <2>1
<1>5. \A r \in Reg, list \in Seq(Bindable) : FoldLeft(Bind, r, list) \in Reg
  <2> TAKE r \in Reg, list \in Seq(Bindable)
  <2>1. PICK t \in [0..Len(list) -> Reg] : t[Len(list)] = FoldLeft(Bind, r, list)
    BY BindingsFold
  <2> QED BY <2>1
<1> QED BY <1>1, <1>2, <1>3, <1>4, <1>5 DEF Merge

\* A file in its place: a hook leaves one that does not merge, a strict build ends there.
TryStep(r, f)    == IF Merge(r, f).ok THEN Merge(r, f) ELSE r
StrictStep(r, f) == IF r.ok THEN Merge(r, f) ELSE r

TriesUnfold(reg, list, g) ==
  [s \in SUBSET DOMAIN list |-> IF s = {} THEN reg ELSE TryStep(g[s \ {Max(s)}], list[Max(s)])]

\* A hook tries file after file.
LEMMA TriesFold ==
  ASSUME NEW reg \in Reg, NEW list \in Seq(Given)
  PROVE  \E t \in [0..Len(list) -> Reg] :
           /\ t[0] = reg /\ t[Len(list)] = FoldLeft(LAMBDA r, f : IF Merge(r, f).ok THEN Merge(r, f) ELSE r, reg, list)
           /\ \A i \in 1..Len(list) : t[i] = TryStep(t[i - 1], list[i])
<1> DEFINE N == Len(list)
           F == [p \in Reg \X Given |-> TryStep(p[1], p[2])]
           iter == CHOOSE g : g = TriesUnfold(reg, list, g)
<1>1. N \in Nat /\ DOMAIN list = 1..N /\ \A i \in 1..N : list[i] \in Given
  OBVIOUS
<1>2. F \in [Reg \X Given -> Reg] /\ \A r \in Reg, x \in Given : F[<<r, x>>] = TryStep(r, x)
  BY MergeTypes DEF TryStep
<1>3. IsStep(F, Reg, Given, list, N)
  BY <1>1, <1>2 DEF IsStep
<1>4. FoldLeft(LAMBDA r, f : IF Merge(r, f).ok THEN Merge(r, f) ELSE r, reg, list) = iter[1..N]
  BY <1>1 DEF FoldLeft, MapThenFoldSet, TriesUnfold, TryStep
<1> HIDE DEF F, N, iter
<1>5. PICK g : Folds(g, F, Reg, reg, list, N)
  BY <1>1, <1>3, FoldExists
<1>6. g = TriesUnfold(reg, list, g)
  <2>1. ASSUME NEW s \in SUBSET (1..N)
        PROVE  g[s] = IF s = {} THEN reg ELSE TryStep(g[s \ {Max(s)}], list[Max(s)])
    <3>1. s # {} => Max(s) \in 1..N
      BY <1>1, LastPlace
    <3>2. s \ {Max(s)} \in SUBSET (1..N)
      OBVIOUS
    <3> QED BY <1>1, <1>2, <1>5, <3>1, <3>2 DEF Folds
  <2> QED BY <1>1, <1>5, <2>1 DEF TriesUnfold, Folds
<1>7. iter = TriesUnfold(reg, list, iter)
  BY <1>6 DEF iter
<1>8. Follows(iter, F, Reg, reg, list, N)
  <2>1. iter[{}] = reg
    BY <1>7 DEF TriesUnfold
  <2>2. ASSUME NEW i \in 1..N, iter[1..(i - 1)] \in Reg PROVE iter[1..i] = F[<<iter[1..(i - 1)], list[i]>>]
    <3>1. 1..i \in SUBSET (1..N) /\ 1..i # {} /\ Max(1..i) = i /\ (1..i) \ {i} = 1..(i - 1)
      BY <1>1, Places
    <3>2. iter[1..i] = TryStep(iter[1..(i - 1)], list[i])
      BY <1>1, <1>7, <3>1 DEF TriesUnfold
    <3>3. list[i] \in Given
      BY <1>1
    <3> QED BY <1>2, <2>2, <3>2, <3>3
  <2> QED BY <2>1, <2>2 DEF Follows
<1>9. PICK t : IsPath(t, F, Reg, reg, list, N) /\ t[N] = iter[1..N]
  BY <1>1, <1>3, <1>8, FoldPath
<1>10. \A i \in 1..N : t[i] = TryStep(t[i - 1], list[i])
  BY <1>1, <1>2, <1>9, Places DEF IsPath
<1> QED BY <1>4, <1>9, <1>10 DEF N, IsPath

StrictUnfold(reg, list, g) ==
  [s \in SUBSET DOMAIN list |-> IF s = {} THEN reg ELSE StrictStep(g[s \ {Max(s)}], list[Max(s)])]

\* A strict build merges file after file.
LEMMA StrictFold ==
  ASSUME NEW reg \in Reg, NEW list \in Seq(Given)
  PROVE  \E t \in [0..Len(list) -> Reg] :
           /\ t[0] = reg /\ t[Len(list)] = FoldLeft(LAMBDA r, f : IF r.ok THEN Merge(r, f) ELSE r, reg, list)
           /\ \A i \in 1..Len(list) : t[i] = StrictStep(t[i - 1], list[i])
<1> DEFINE N == Len(list)
           F == [p \in Reg \X Given |-> StrictStep(p[1], p[2])]
           iter == CHOOSE g : g = StrictUnfold(reg, list, g)
<1>1. N \in Nat /\ DOMAIN list = 1..N /\ \A i \in 1..N : list[i] \in Given
  OBVIOUS
<1>2. F \in [Reg \X Given -> Reg] /\ \A r \in Reg, x \in Given : F[<<r, x>>] = StrictStep(r, x)
  BY MergeTypes DEF StrictStep
<1>3. IsStep(F, Reg, Given, list, N)
  BY <1>1, <1>2 DEF IsStep
<1>4. FoldLeft(LAMBDA r, f : IF r.ok THEN Merge(r, f) ELSE r, reg, list) = iter[1..N]
  BY <1>1 DEF FoldLeft, MapThenFoldSet, StrictUnfold, StrictStep
<1> HIDE DEF F, N, iter
<1>5. PICK g : Folds(g, F, Reg, reg, list, N)
  BY <1>1, <1>3, FoldExists
<1>6. g = StrictUnfold(reg, list, g)
  <2>1. ASSUME NEW s \in SUBSET (1..N)
        PROVE  g[s] = IF s = {} THEN reg ELSE StrictStep(g[s \ {Max(s)}], list[Max(s)])
    <3>1. s # {} => Max(s) \in 1..N
      BY <1>1, LastPlace
    <3>2. s \ {Max(s)} \in SUBSET (1..N)
      OBVIOUS
    <3> QED BY <1>1, <1>2, <1>5, <3>1, <3>2 DEF Folds
  <2> QED BY <1>1, <1>5, <2>1 DEF StrictUnfold, Folds
<1>7. iter = StrictUnfold(reg, list, iter)
  BY <1>6 DEF iter
<1>8. Follows(iter, F, Reg, reg, list, N)
  <2>1. iter[{}] = reg
    BY <1>7 DEF StrictUnfold
  <2>2. ASSUME NEW i \in 1..N, iter[1..(i - 1)] \in Reg PROVE iter[1..i] = F[<<iter[1..(i - 1)], list[i]>>]
    <3>1. 1..i \in SUBSET (1..N) /\ 1..i # {} /\ Max(1..i) = i /\ (1..i) \ {i} = 1..(i - 1)
      BY <1>1, Places
    <3>2. iter[1..i] = StrictStep(iter[1..(i - 1)], list[i])
      BY <1>1, <1>7, <3>1 DEF StrictUnfold
    <3>3. list[i] \in Given
      BY <1>1
    <3> QED BY <1>2, <2>2, <3>2, <3>3
  <2> QED BY <2>1, <2>2 DEF Follows
<1>9. PICK t : IsPath(t, F, Reg, reg, list, N) /\ t[N] = iter[1..N]
  BY <1>1, <1>3, <1>8, FoldPath
<1>10. \A i \in 1..N : t[i] = StrictStep(t[i - 1], list[i])
  BY <1>1, <1>2, <1>9, Places DEF IsPath
<1> QED BY <1>4, <1>9, <1>10 DEF N, IsPath


\* The kinds and fields the first of a file's kinds declare, and whether they are added.
NamesTo(list, n)  == {list[i].name : i \in 1..n}
FieldsTo(list, n) == UNION {{list[i].name} \X list[i].fields : i \in 1..n}
KindsFit(reg, list, n) ==
  reg.ok /\ \A i \in 1..n : list[i].valid /\ list[i].name \notin reg.kinds \cup NamesTo(list, i - 1)

\* What adding a file's kinds makes of a registry.
LEMMA KindsMerged ==
  ASSUME NEW reg \in Reg, NEW list \in Seq(KindSpec)
  PROVE  \E r \in Reg :
           /\ r = FoldLeft(AddKind, reg, list) /\ (r.ok <=> KindsFit(reg, list, Len(list)))
           /\ r.ok => /\ r.kinds = reg.kinds \cup NamesTo(list, Len(list))
                      /\ r.fields = reg.fields \cup FieldsTo(list, Len(list))
                      /\ r.bindings = reg.bindings
<1> DEFINE N == Len(list)
<1>1. PICK t \in [0..N -> Reg] :
         /\ t[0] = reg /\ t[N] = FoldLeft(AddKind, reg, list)
         /\ \A i \in 1..N : t[i] = AddKind(t[i - 1], list[i])
  BY KindsFold
<1> DEFINE Says(n) ==
             /\ t[n].ok <=> KindsFit(reg, list, n)
             /\ t[n].ok => /\ t[n].kinds = reg.kinds \cup NamesTo(list, n)
                           /\ t[n].fields = reg.fields \cup FieldsTo(list, n)
                           /\ t[n].bindings = reg.bindings
           Good == {n \in Nat : n <= N => Says(n)}
<1>2. N \in Nat /\ \A i \in 1..N : list[i] \in KindSpec
  OBVIOUS
<1> HIDE DEF N
<1>3. 0 \in Good
  <2>1. 1..0 = {}
    OBVIOUS
  <2>2. NamesTo(list, 0) = {} /\ FieldsTo(list, 0) = {}
    BY <2>1 DEF NamesTo, FieldsTo
  <2> QED BY <1>1, <2>1, <2>2 DEF KindsFit
<1>4. ASSUME NEW n \in Nat, n \in Good PROVE n + 1 \in Good
  <2> SUFFICES ASSUME n + 1 <= N PROVE Says(n + 1)
    OBVIOUS
  <2> DEFINE l == n + 1
             k == list[l]
  <2>1. l \in 1..N /\ l - 1 = n /\ n \in 0..N /\ 1..l = (1..n) \cup {l}
    BY <1>2
  <2>2. Says(n) /\ t[l] = AddKind(t[n], k) /\ t[n] \in Reg /\ k \in KindSpec
    <3> HIDE DEF Says
    <3>1. Says(n)
      BY <1>2, <1>4
    <3> QED BY <1>1, <1>2, <2>1, <3>1
  <2>3. NamesTo(list, l) = NamesTo(list, n) \cup {k.name}
    BY <2>1 DEF NamesTo
  <2>4. FieldsTo(list, l) = FieldsTo(list, n) \cup ({k.name} \X k.fields)
    BY <2>1 DEF FieldsTo
  <2>5. KindsFit(reg, list, l) <=>
          KindsFit(reg, list, n) /\ k.valid /\ k.name \notin reg.kinds \cup NamesTo(list, n)
    BY <2>1 DEF KindsFit
  <2> HIDE DEF l, k
  <2>6. t[l].ok <=> t[n].ok /\ k.valid /\ k.name \notin t[n].kinds
    BY <2>2 DEF AddKind, Reg, KindSpec
  <2>7. t[l].ok => /\ t[l].kinds = t[n].kinds \cup {k.name} /\ t[l].bindings = t[n].bindings
                  /\ t[l].fields = t[n].fields \cup ({k.name} \X k.fields)
    BY <2>2 DEF AddKind, Reg, KindSpec
  <2>8. Says(l)
    BY <2>2, <2>3, <2>4, <2>5, <2>6, <2>7
  <2> QED BY <2>8 DEF l
<1>5. N \in Good
  <2> HIDE DEF Good
  <2> QED BY <1>2, <1>3, <1>4, Counting
<1>6. Says(N) /\ t[N] \in Reg
  BY <1>2, <1>5
<1> QED BY <1>1, <1>6 DEF N

\* Whether the first of its bindings are bound.
BoundTo(list, n) == {list[i] : i \in 1..n}
BindingsFit(reg, list, n) ==
  reg.ok /\ \A i \in 1..n :
    /\ list[i].kind \in reg.kinds
    /\ ~\E c \in reg.bindings \cup BoundTo(list, i - 1) : c.event = list[i].event /\ c.kind = list[i].kind
    /\ \A f \in DOMAIN list[i].map :
         f # "project" /\ <<list[i].kind, f>> \in reg.fields /\ Mapped(list[i].map[f])

\* What binding its bindings does.
LEMMA BindingsMerged ==
  ASSUME NEW reg \in Reg, NEW list \in Seq(Bindable)
  PROVE  \E r \in Reg :
           /\ r = FoldLeft(Bind, reg, list) /\ (r.ok <=> BindingsFit(reg, list, Len(list)))
           /\ r.ok => /\ r.kinds = reg.kinds /\ r.fields = reg.fields
                      /\ r.bindings = reg.bindings \cup BoundTo(list, Len(list))
<1> DEFINE N == Len(list)
<1>1. PICK t \in [0..N -> Reg] :
         /\ t[0] = reg /\ t[N] = FoldLeft(Bind, reg, list)
         /\ \A i \in 1..N : t[i] = Bind(t[i - 1], list[i])
  BY BindingsFold
<1> DEFINE Says(n) ==
             /\ t[n].ok <=> BindingsFit(reg, list, n)
             /\ t[n].ok => /\ t[n].kinds = reg.kinds /\ t[n].fields = reg.fields
                           /\ t[n].bindings = reg.bindings \cup BoundTo(list, n)
           Good == {n \in Nat : n <= N => Says(n)}
<1>2. N \in Nat /\ \A i \in 1..N : list[i] \in Bindable
  OBVIOUS
<1> HIDE DEF N
<1>3. 0 \in Good
  <2>1. 1..0 = {}
    OBVIOUS
  <2>2. BoundTo(list, 0) = {}
    BY <2>1 DEF BoundTo
  <2> QED BY <1>1, <2>1, <2>2 DEF BindingsFit
<1>4. ASSUME NEW n \in Nat, n \in Good PROVE n + 1 \in Good
  <2> SUFFICES ASSUME n + 1 <= N PROVE Says(n + 1)
    OBVIOUS
  <2> DEFINE l == n + 1
             b == list[l]
             Fit(r) == /\ b.kind \in r.kinds
                       /\ ~\E c \in r.bindings : c.event = b.event /\ c.kind = b.kind
                       /\ \A f \in DOMAIN b.map :
                            f # "project" /\ <<b.kind, f>> \in r.fields /\ Mapped(b.map[f])
  <2>1. l \in 1..N /\ l - 1 = n /\ n \in 0..N /\ 1..l = (1..n) \cup {l}
    BY <1>2
  <2>2. Says(n) /\ t[l] = Bind(t[n], b) /\ t[n] \in Reg /\ b \in Bindable
    <3> HIDE DEF Says
    <3>1. Says(n)
      BY <1>2, <1>4
    <3> QED BY <1>1, <1>2, <2>1, <3>1
  <2>3. BoundTo(list, l) = BoundTo(list, n) \cup {b}
    BY <2>1 DEF BoundTo
  <2>5. BindingsFit(reg, list, l) <=>
          /\ BindingsFit(reg, list, n)
          /\ b.kind \in reg.kinds
          /\ ~\E c \in reg.bindings \cup BoundTo(list, n) : c.event = b.event /\ c.kind = b.kind
          /\ \A f \in DOMAIN b.map :
               f # "project" /\ <<b.kind, f>> \in reg.fields /\ Mapped(b.map[f])
    BY <2>1 DEF BindingsFit
  <2> HIDE DEF l, b
  <2>6. t[l].ok <=> t[n].ok /\ Fit(t[n])
    BY <2>2 DEF Bind, Reg
  <2>7. t[l].ok => /\ t[l].kinds = t[n].kinds /\ t[l].fields = t[n].fields
                  /\ t[l].bindings = t[n].bindings \cup {b}
    BY <2>2 DEF Bind, Reg
  <2>8. Says(l)
    BY <2>2, <2>3, <2>5, <2>6, <2>7
  <2> QED BY <2>8 DEF l
<1>5. N \in Good
  <2> HIDE DEF Good
  <2> QED BY <1>2, <1>3, <1>4, Counting
<1>6. Says(N) /\ t[N] \in Reg
  BY <1>2, <1>5
<1> QED BY <1>1, <1>6 DEF N

\* A file stands beside a registry: on its own account, and after what is there.
Beside(reg, f) ==
  /\ f.parses /\ (f.native => f = Core)
  /\ \A i \in DOMAIN f.kinds : f.kinds[i].valid
  /\ \A i \in DOMAIN f.bindings :
       /\ \A x \in DOMAIN f.bindings[i].map :
            /\ x # "project" /\ Mapped(f.bindings[i].map[x])
            /\ <<f.bindings[i].kind, x>> \in reg.fields \cup FieldsOf(f)
       /\ f.bindings[i].kind \in reg.kinds \cup KindsOf(f)
  /\ Distinct([i \in DOMAIN f.kinds |-> f.kinds[i].name])
  /\ Distinct([i \in DOMAIN f.bindings |-> <<f.bindings[i].event, f.bindings[i].kind>>])
  /\ KindsOf(f) \cap reg.kinds = {}
  /\ Pairs(BindingsOf(f)) \cap Pairs(reg.bindings) = {}

\* Nothing is twice in a list when nothing is among what precedes it.
LEMMA DistinctFirst ==
  ASSUME NEW N \in Nat, NEW s, DOMAIN s = 1..N
  PROVE  Distinct(s) <=> \A i \in 1..N : s[i] \notin {s[j] : j \in 1..(i - 1)}
<1>1. ASSUME Distinct(s), NEW i \in 1..N, NEW j \in 1..(i - 1) PROVE s[i] # s[j]
  <2>1. j \in 1..N /\ j # i
    OBVIOUS
  <2> QED BY <1>1, <2>1 DEF Distinct
<1>2. ASSUME \A i \in 1..N : s[i] \notin {s[j] : j \in 1..(i - 1)},
             NEW i \in 1..N, NEW j \in 1..N, s[i] = s[j]
      PROVE  i = j
  <2>1. ~(i < j)
    <3> SUFFICES ASSUME i < j PROVE FALSE
      OBVIOUS
    <3>1. i \in 1..(j - 1)
      OBVIOUS
    <3> QED BY <1>2, <3>1
  <2>2. ~(j < i)
    <3> SUFFICES ASSUME j < i PROVE FALSE
      OBVIOUS
    <3>1. j \in 1..(i - 1)
      OBVIOUS
    <3> QED BY <1>2, <3>1
  <2> QED BY <2>1, <2>2
<1> QED BY <1>1, <1>2 DEF Distinct

\* What merging a file asks of it, and adds.
LEMMA MergeIs ==
  ASSUME NEW reg \in Reg, reg.ok, NEW f \in Given
  PROVE  /\ Merge(reg, f).ok <=> Beside(reg, f)
         /\ Merge(reg, f).ok => /\ Merge(reg, f).kinds = reg.kinds \cup KindsOf(f)
                                /\ Merge(reg, f).fields = reg.fields \cup FieldsOf(f)
                                /\ Merge(reg, f).bindings = reg.bindings \cup BindingsOf(f)
<1>1. /\ f.kinds \in Seq(KindSpec) /\ f.bindings \in Seq(ToSet(f.bindings))
      /\ f.parses \in BOOLEAN /\ f.native \in BOOLEAN
  BY SchemasAssumption DEF Given
<1>2. f.bindings \in Seq(Bindable)
  BY <1>1 DEF Bindable, ToSet
<1>3. PICK ks \in Seq(KindSpec), bs \in Seq(Bindable) : ks = f.kinds /\ bs = f.bindings
  BY <1>1, <1>2
<1> DEFINE N == Len(ks)
           M == Len(bs)
           names == [i \in 1..N |-> ks[i].name]
           pairs == [i \in 1..M |-> <<bs[i].event, bs[i].kind>>]
<1>4. N \in Nat /\ M \in Nat /\ DOMAIN ks = 1..N /\ DOMAIN bs = 1..M
  OBVIOUS
<1> HIDE DEF N, M
<1>5. /\ NamesTo(ks, N) = KindsOf(f) /\ FieldsTo(ks, N) = FieldsOf(f)
      /\ BoundTo(bs, M) = BindingsOf(f)
  BY <1>3, <1>4 DEF NamesTo, FieldsTo, BoundTo, KindsOf, FieldsOf, BindingsOf, ToSet
<1>6. KindsFit(reg, ks, N) <=>
        (\A i \in 1..N : ks[i].valid) /\ Distinct(names) /\ KindsOf(f) \cap reg.kinds = {}
  <2>1. Distinct(names) <=> \A i \in 1..N : names[i] \notin {names[j] : j \in 1..(i - 1)}
    BY <1>4, DistinctFirst
  <2>2. \A i \in 1..N : names[i] = ks[i].name /\ {names[j] : j \in 1..(i - 1)} = NamesTo(ks, i - 1)
    <3> TAKE i \in 1..N
    <3>1. \A j \in 1..(i - 1) : j \in 1..N /\ names[j] = ks[j].name
      BY <1>4
    <3> QED BY <3>1 DEF NamesTo
  <2>3. KindsOf(f) \cap reg.kinds = {} <=> \A i \in 1..N : ks[i].name \notin reg.kinds
    BY <1>5 DEF NamesTo
  <2> HIDE DEF names
  <2> QED BY <2>1, <2>2, <2>3 DEF KindsFit
<1>7. ASSUME NEW r \in Reg, r.ok, r.bindings = reg.bindings
      PROVE  BindingsFit(r, bs, M) <=>
               /\ \A i \in 1..M : /\ bs[i].kind \in r.kinds
                                   /\ \A x \in DOMAIN bs[i].map : /\ x # "project" /\ Mapped(bs[i].map[x])
                                                                   /\ <<bs[i].kind, x>> \in r.fields
               /\ Distinct(pairs) /\ Pairs(BindingsOf(f)) \cap Pairs(reg.bindings) = {}
  <2>1. Distinct(pairs) <=> \A i \in 1..M : pairs[i] \notin {pairs[j] : j \in 1..(i - 1)}
    BY <1>4, DistinctFirst
  <2>2. \A i \in 1..M : pairs[i] \in {pairs[j] : j \in 1..(i - 1)} <=>
          \E c \in BoundTo(bs, i - 1) : c.event = bs[i].event /\ c.kind = bs[i].kind
    <3> TAKE i \in 1..M
    <3>1. \A j \in 1..(i - 1) : j \in 1..M /\ pairs[j] = <<bs[j].event, bs[j].kind>>
      BY <1>4
    <3>2. pairs[i] = <<bs[i].event, bs[i].kind>>
      OBVIOUS
    <3>3. \A j \in 1..(i - 1) :
            pairs[i] = pairs[j] <=> bs[j].event = bs[i].event /\ bs[j].kind = bs[i].kind
      BY <3>1, <3>2
    <3> HIDE DEF pairs
    <3> QED BY <3>3 DEF BoundTo
  <2>3. Pairs(BindingsOf(f)) \cap Pairs(reg.bindings) = {} <=>
          \A i \in 1..M : ~\E c \in reg.bindings : c.event = bs[i].event /\ c.kind = bs[i].kind
    <3>1. BindingsOf(f) = {bs[i] : i \in 1..M}
      BY <1>5 DEF BoundTo
    <3>2. \A i \in 1..M : <<bs[i].event, bs[i].kind>> \in Pairs(reg.bindings) <=>
            \E c \in reg.bindings : c.event = bs[i].event /\ c.kind = bs[i].kind
      BY DEF Pairs
    <3>3. Pairs(BindingsOf(f)) = {<<bs[i].event, bs[i].kind>> : i \in 1..M}
      BY <3>1 DEF Pairs
    <3> QED BY <3>2, <3>3
  <2> HIDE DEF pairs
  <2> QED BY <1>7, <2>1, <2>2, <2>3 DEF BindingsFit
<1>8. PICK mid \in Reg :
        /\ mid = FoldLeft(AddKind, reg, ks) /\ (mid.ok <=> KindsFit(reg, ks, N))
        /\ mid.ok => /\ mid.kinds = reg.kinds \cup NamesTo(ks, N)
                     /\ mid.fields = reg.fields \cup FieldsTo(ks, N)
                     /\ mid.bindings = reg.bindings
  BY KindsMerged DEF N
<1>9. PICK end \in Reg :
        /\ end = FoldLeft(Bind, mid, bs) /\ (end.ok <=> BindingsFit(mid, bs, M))
        /\ end.ok => /\ end.kinds = mid.kinds /\ end.fields = mid.fields
                     /\ end.bindings = mid.bindings \cup BoundTo(bs, M)
  BY BindingsMerged DEF M
<1>10. end.ok => mid.ok
  BY <1>9 DEF BindingsFit
<1>11. Merge(reg, f) = IF ~f.parses \/ (f.native /\ f # Core) THEN [reg EXCEPT !.ok = FALSE] ELSE end
  BY <1>3, <1>8, <1>9 DEF Merge
<1>12. Merge(reg, f).ok <=> f.parses /\ (f.native => f = Core) /\ end.ok
  <2>1. [reg EXCEPT !.ok = FALSE].ok = FALSE
    BY DEF Reg
  <2> QED BY <1>1, <1>11, <2>1
<1>13. end.ok <=> mid.ok /\ BindingsFit(mid, bs, M)
  BY <1>9, <1>10
<1>14. mid.ok => (BindingsFit(mid, bs, M) <=>
               /\ \A i \in 1..M : /\ bs[i].kind \in reg.kinds \cup KindsOf(f)
                                   /\ \A x \in DOMAIN bs[i].map :
                                        /\ x # "project" /\ Mapped(bs[i].map[x])
                                        /\ <<bs[i].kind, x>> \in reg.fields \cup FieldsOf(f)
               /\ Distinct(pairs) /\ Pairs(BindingsOf(f)) \cap Pairs(reg.bindings) = {})
  <2> HIDE DEF pairs
  <2> QED BY <1>5, <1>7, <1>8
<1>15. Beside(reg, f) <=>
         /\ f.parses /\ (f.native => f = Core)
         /\ \A i \in 1..N : ks[i].valid
         /\ \A i \in 1..M : /\ bs[i].kind \in reg.kinds \cup KindsOf(f)
                             /\ \A x \in DOMAIN bs[i].map :
                                  /\ x # "project" /\ Mapped(bs[i].map[x])
                                  /\ <<bs[i].kind, x>> \in reg.fields \cup FieldsOf(f)
         /\ Distinct(names) /\ Distinct(pairs)
         /\ KindsOf(f) \cap reg.kinds = {} /\ Pairs(BindingsOf(f)) \cap Pairs(reg.bindings) = {}
  BY <1>3, <1>4 DEF Beside
<1>16. Merge(reg, f).ok <=> Beside(reg, f)
  <2> HIDE DEF names, pairs
  <2> QED BY <1>6, <1>8, <1>12, <1>13, <1>14, <1>15
<1>17. ASSUME Merge(reg, f).ok
       PROVE  /\ Merge(reg, f).kinds = reg.kinds \cup KindsOf(f)
              /\ Merge(reg, f).fields = reg.fields \cup FieldsOf(f)
              /\ Merge(reg, f).bindings = reg.bindings \cup BindingsOf(f)
  <2>1. Merge(reg, f) = end /\ end.ok /\ mid.ok
    BY <1>10, <1>11, <1>12, <1>17
  <2> QED BY <1>5, <1>8, <1>9, <2>1
<1> QED BY <1>16, <1>17

\* Every field of a binding is one its kind allows, and mapped.
Sound(reg) ==
  \A b \in reg.bindings : \A x \in DOMAIN b.map :
    x # "project" /\ Mapped(b.map[x]) /\ <<b.kind, x>> \in reg.fields

\* A merge keeps bindings sound.
LEMMA MergeSound ==
  ASSUME NEW reg \in Reg, reg.ok, Sound(reg), NEW f \in Given, Merge(reg, f).ok
  PROVE  Sound(Merge(reg, f))
<1>1. Beside(reg, f) /\ Merge(reg, f).fields = reg.fields \cup FieldsOf(f)
      /\ Merge(reg, f).bindings = reg.bindings \cup BindingsOf(f)
  BY MergeIs
<1>2. \A b \in BindingsOf(f) : \A x \in DOMAIN b.map :
        x # "project" /\ Mapped(b.map[x]) /\ <<b.kind, x>> \in reg.fields \cup FieldsOf(f)
  BY <1>1 DEF Beside, BindingsOf, ToSet
<1> QED BY <1>1, <1>2 DEF Sound

\* What every registry starts from.
Start == Merge(NoRegistry, Core)

\* The core alone is a sound registry.
LEMMA StartIs ==
  /\ Start \in Reg /\ Start.ok /\ Sound(Start)
  /\ Start.kinds = KindsOf(Core) /\ Start.fields = FieldsOf(Core) /\ Start.bindings = BindingsOf(Core)
<1>1. NoRegistry \in Reg /\ NoRegistry.ok /\ Sound(NoRegistry) /\ Core \in Given
      /\ NoRegistry.kinds = {} /\ NoRegistry.fields = {} /\ NoRegistry.bindings = {}
  BY DEF NoRegistry, Reg, Sound, Given
<1>2. Merge(NoRegistry, Core).ok
  BY CoreAssumption
<1>3. Merge(NoRegistry, Core) \in Reg /\ Sound(Merge(NoRegistry, Core))
  BY <1>1, <1>2, MergeTypes, MergeSound
<1>4. /\ Merge(NoRegistry, Core).kinds = {} \cup KindsOf(Core)
      /\ Merge(NoRegistry, Core).fields = {} \cup FieldsOf(Core)
      /\ Merge(NoRegistry, Core).bindings = {} \cup BindingsOf(Core)
  BY <1>1, <1>2, MergeIs
<1> QED BY <1>2, <1>3, <1>4 DEF Start

\* Of a list, the registry after each file as a hook builds it and the places it took a file at.
IsTrial(t, list) ==
  /\ t \in [0..Len(list) -> Reg] /\ t[0] = Start /\ t[Len(list)] = Resilient(list)
  /\ \A i \in 1..Len(list) : t[i] = TryStep(t[i - 1], list[i])

Taken(t, list, n) == {i \in 1..n : Merge(t[i - 1], list[i]).ok}

\* There is such a trial.
LEMMA TrialIs ==
  ASSUME NEW list \in Seq(Files)
  PROVE  \E t : IsTrial(t, list)
<1>1. list \in Seq(Given)
  BY DEF Given
<1>2. PICK t \in [0..Len(list) -> Reg] :
         /\ t[0] = Start
         /\ t[Len(list)] = FoldLeft(LAMBDA r, f : IF Merge(r, f).ok THEN Merge(r, f) ELSE r, Start, list)
         /\ \A i \in 1..Len(list) : t[i] = TryStep(t[i - 1], list[i])
  BY <1>1, StartIs, TriesFold
<1>3. IsTrial(t, list)
  BY <1>2 DEF IsTrial, Resilient, Start
<1> QED BY <1>3

\* After each file, what the files taken so far declare.
LEMMA TrialHolds ==
  ASSUME NEW list \in Seq(Files), NEW t, IsTrial(t, list), NEW n \in 0..Len(list)
  PROVE  /\ t[n] \in Reg /\ t[n].ok /\ Sound(t[n])
         /\ t[n].kinds = Declared(list, Taken(t, list, n))
         /\ t[n].fields = Allowed(list, Taken(t, list, n))
         /\ t[n].bindings = Bound(list, Taken(t, list, n))
<1> DEFINE N == Len(list)
           Says(m) == /\ t[m].ok /\ Sound(t[m])
                      /\ t[m].kinds = Declared(list, Taken(t, list, m))
                      /\ t[m].fields = Allowed(list, Taken(t, list, m))
                      /\ t[m].bindings = Bound(list, Taken(t, list, m))
           Good == {m \in Nat : m <= N => Says(m)}
<1>1. /\ N \in Nat /\ \A i \in 1..N : list[i] \in Given
      /\ t \in [0..N -> Reg] /\ t[0] = Start
      /\ \A i \in 1..N : t[i] = TryStep(t[i - 1], list[i])
  BY DEF Given, IsTrial
<1> HIDE DEF N
<1>2. 0 \in Good
  <2>1. Taken(t, list, 0) = {}
    BY DEF Taken
  <2>2. Declared(list, {}) = KindsOf(Core) /\ Allowed(list, {}) = FieldsOf(Core)
        /\ Bound(list, {}) = BindingsOf(Core)
    BY DEF Declared, Allowed, Bound
  <2> QED BY <1>1, <2>1, <2>2, StartIs
<1>3. ASSUME NEW m \in Nat, m \in Good PROVE m + 1 \in Good
  <2> SUFFICES ASSUME m + 1 <= N PROVE Says(m + 1)
    OBVIOUS
  <2> DEFINE l == m + 1
             f == list[l]
  <2>1. l \in 1..N /\ l - 1 = m /\ m \in 0..N /\ 1..l = (1..m) \cup {l} /\ l \notin 1..m
    BY <1>1
  <2>2. Says(m) /\ t[l] = TryStep(t[m], f) /\ t[m] \in Reg /\ f \in Given
    <3> HIDE DEF Says
    <3>1. Says(m)
      BY <1>1, <1>3
    <3> QED BY <1>1, <2>1, <3>1
  <2>3. Taken(t, list, l) = Taken(t, list, m) \cup {x \in {l} : Merge(t[m], f).ok}
    BY <2>1 DEF Taken
  <2> HIDE DEF l, f
  <2>4. CASE Merge(t[m], f).ok
    <3>1. t[l] = Merge(t[m], f) /\ t[l].ok
      BY <2>2, <2>4 DEF TryStep
    <3>2. Sound(t[l])
      BY <2>2, <2>4, <3>1, MergeSound
    <3>3. /\ t[l].kinds = t[m].kinds \cup KindsOf(f) /\ t[l].fields = t[m].fields \cup FieldsOf(f)
          /\ t[l].bindings = t[m].bindings \cup BindingsOf(f)
      BY <2>2, <2>4, <3>1, MergeIs
    <3>4. Taken(t, list, l) = Taken(t, list, m) \cup {l}
      BY <2>3, <2>4
    <3>5. /\ Declared(list, Taken(t, list, m) \cup {l}) = Declared(list, Taken(t, list, m)) \cup KindsOf(f)
          /\ Allowed(list, Taken(t, list, m) \cup {l}) = Allowed(list, Taken(t, list, m)) \cup FieldsOf(f)
          /\ Bound(list, Taken(t, list, m) \cup {l}) = Bound(list, Taken(t, list, m)) \cup BindingsOf(f)
      BY DEF Declared, Allowed, Bound, f
    <3>6. Says(l)
      BY <2>2, <3>1, <3>2, <3>3, <3>4, <3>5
    <3> QED BY <3>6 DEF l
  <2>5. CASE ~Merge(t[m], f).ok
    <3>1. t[l] = t[m] /\ Taken(t, list, l) = Taken(t, list, m)
      BY <2>2, <2>3, <2>5 DEF TryStep
    <3>2. Says(l)
      BY <2>2, <3>1
    <3> QED BY <3>2 DEF l
  <2> QED BY <2>4, <2>5
<1>4. Nat \subseteq Good
  <2> HIDE DEF Good
  <2> QED BY <1>2, <1>3, Counting
<1>5. n \in Nat /\ n <= N /\ t[n] \in Reg
  BY <1>1 DEF N
<1>6. Says(n)
  BY <1>4, <1>5
<1> QED BY <1>5, <1>6

\* Which files of a list are merged, as Merged has it.
ArePlaces(list, places) ==
  /\ places \in SUBSET DOMAIN list
  /\ \A i \in DOMAIN list : i \in places <=> MergesAfter(list, {j \in places : j < i}, list[i])

\* There is one answer.
LEMMA OnePlaces ==
  ASSUME NEW list, NEW N \in Nat, DOMAIN list = 1..N,
         NEW P, ArePlaces(list, P), NEW Q, ArePlaces(list, Q)
  PROVE  P = Q
<1> DEFINE Good == {n \in Nat : n <= N => P \cap (1..n) = Q \cap (1..n)}
<1>1. 0 \in Good
  OBVIOUS
<1>2. ASSUME NEW n \in Nat, n \in Good PROVE n + 1 \in Good
  <2> SUFFICES ASSUME n + 1 <= N PROVE P \cap (1..(n + 1)) = Q \cap (1..(n + 1))
    OBVIOUS
  <2> DEFINE l == n + 1
  <2>1. l \in 1..N /\ 1..l = (1..n) \cup {l} /\ P \cap (1..n) = Q \cap (1..n)
    BY <1>2
  <2>2. P \subseteq 1..N /\ Q \subseteq 1..N
    BY DEF ArePlaces
  <2>3. {j \in P : j < l} = P \cap (1..n) /\ {j \in Q : j < l} = Q \cap (1..n)
    <3>1. \A j \in 1..N : j < l <=> j \in 1..n
      OBVIOUS
    <3> QED BY <2>2, <3>1
  <2>4. l \in P <=> MergesAfter(list, {j \in P : j < l}, list[l])
    BY <2>1 DEF ArePlaces
  <2>5. l \in Q <=> MergesAfter(list, {j \in Q : j < l}, list[l])
    BY <2>1 DEF ArePlaces
  <2> HIDE DEF l
  <2>6. l \in P <=> l \in Q
    BY <2>1, <2>3, <2>4, <2>5
  <2>7. P \cap (1..l) = Q \cap (1..l)
    BY <2>1, <2>6
  <2> QED BY <2>7 DEF l
<1>3. N \in Good
  <2> HIDE DEF Good
  <2> QED BY <1>1, <1>2, Counting
<1>4. P \subseteq 1..N /\ Q \subseteq 1..N
  BY DEF ArePlaces
<1>5. P \cap (1..N) = Q \cap (1..N)
  BY <1>3
<1> QED BY <1>4, <1>5

\* It is where a hook took a file.
LEMMA MergedIs ==
  ASSUME NEW list \in Seq(Files), NEW t, IsTrial(t, list)
  PROVE  Merged(list) = Taken(t, list, Len(list))
<1> DEFINE N == Len(list)
           P == Taken(t, list, N)
<1>1. N \in Nat /\ DOMAIN list = 1..N /\ \A i \in 1..N : list[i] \in Given
  BY DEF Given
<1>2. ASSUME NEW i \in 1..N PROVE i \in P <=> MergesAfter(list, {j \in P : j < i}, list[i])
  <2> DEFINE r == t[i - 1]
             Q == {j \in P : j < i}
  <2>1. i - 1 \in 0..N /\ \A j \in 1..N : j < i <=> j \in 1..(i - 1)
    BY <1>1
  <2>2. Q = Taken(t, list, i - 1)
    BY <1>1, <2>1 DEF Taken
  <2>3. /\ r \in Reg /\ r.ok
        /\ r.kinds = Declared(list, Q) /\ r.fields = Allowed(list, Q) /\ r.bindings = Bound(list, Q)
    BY <2>1, <2>2, TrialHolds
  <2>4. i \in P <=> Merge(r, list[i]).ok
    BY DEF Taken
  <2>5. Merge(r, list[i]).ok <=> Beside(r, list[i])
    BY <1>1, <2>3, MergeIs
  <2> HIDE DEF r, Q
  <2>6. Beside(r, list[i]) <=> MergesAfter(list, Q, list[i])
    BY <2>3 DEF Beside, MergesAfter
  <2> QED BY <2>4, <2>5, <2>6 DEF Q
<1>3. P \in SUBSET (1..N)
  BY DEF Taken
<1>4. ArePlaces(list, P)
  <2> HIDE DEF P
  <2> QED BY <1>1, <1>2, <1>3 DEF ArePlaces
<1>5. ArePlaces(list, Merged(list))
  <2> HIDE DEF P
  <2>1. \E places \in SUBSET DOMAIN list :
          \A i \in DOMAIN list : i \in places <=> MergesAfter(list, {j \in places : j < i}, list[i])
    BY <1>4 DEF ArePlaces
  <2> QED BY <2>1 DEF Merged, ArePlaces
<1> QED BY <1>1, <1>4, <1>5, OnePlaces

\* The strict build succeeds when every file is taken, and is then what the hook built.
LEMMA StrictIs ==
  ASSUME NEW list \in Seq(Files), NEW t, IsTrial(t, list)
  PROVE  /\ Strict(list).ok => Strict(list) = Resilient(list)
         /\ Strict(list).ok <=> /\ Taken(t, list, Len(list)) = 1..Len(list)
                                /\ Targets \subseteq Resilient(list).kinds
<1> DEFINE N == Len(list)
<1>1. /\ N \in Nat /\ DOMAIN list = 1..N /\ list \in Seq(Given)
      /\ \A i \in 1..N : list[i] \in Given
  BY DEF Given
<1>2. PICK u \in [0..N -> Reg] :
         /\ u[0] = Start
         /\ u[N] = FoldLeft(LAMBDA r, f : IF r.ok THEN Merge(r, f) ELSE r, Start, list)
         /\ \A i \in 1..N : u[i] = StrictStep(u[i - 1], list[i])
  BY <1>1, StartIs, StrictFold
<1> DEFINE Says(n) == /\ u[n].ok <=> Taken(t, list, n) = 1..n
                      /\ u[n].ok => u[n] = t[n]
           Good == {n \in Nat : n <= N => Says(n)}
<1>3. t \in [0..N -> Reg] /\ t[0] = Start /\ t[N] = Resilient(list)
      /\ \A i \in 1..N : t[i] = TryStep(t[i - 1], list[i])
  BY DEF IsTrial
<1>4. Strict(list) = [u[N] EXCEPT !.ok = @ /\ Targets \subseteq u[N].kinds]
  BY <1>2 DEF Strict, Start
<1> HIDE DEF N
<1>5. 0 \in Good
  <2>1. Taken(t, list, 0) = 1..0
    BY DEF Taken
  <2> QED BY <1>2, <1>3, <2>1, StartIs
<1>6. ASSUME NEW n \in Nat, n \in Good PROVE n + 1 \in Good
  <2> SUFFICES ASSUME n + 1 <= N PROVE Says(n + 1)
    OBVIOUS
  <2> DEFINE l == n + 1
             f == list[l]
             done == Taken(t, list, n)
  <2>1. l \in 1..N /\ l - 1 = n /\ n \in 0..N /\ 1..l = (1..n) \cup {l} /\ l \notin 1..n
    BY <1>1
  <2>2. Says(n) /\ u[l] = StrictStep(u[n], f) /\ t[l] = TryStep(t[n], f) /\ u[n] \in Reg
    <3> HIDE DEF Says
    <3>1. Says(n)
      BY <1>1, <1>6
    <3> QED BY <1>2, <1>3, <2>1, <3>1
  <2>3. Taken(t, list, l) = done \cup {x \in {l} : Merge(t[n], f).ok} /\ done \subseteq 1..n
    BY <2>1 DEF Taken
  <2> HIDE DEF l, f, done
  <2>4. Taken(t, list, l) = 1..l <=> done = 1..n /\ Merge(t[n], f).ok
    BY <2>1, <2>3
  <2>5. u[n].ok <=> done = 1..n
    BY <2>2 DEF done
  <2>6. CASE u[n].ok
    <3>1. u[n] = t[n] /\ u[l] = Merge(t[n], f)
      BY <2>2, <2>6 DEF StrictStep
    <3>2. Merge(t[n], f).ok => t[l] = Merge(t[n], f)
      BY <2>2 DEF TryStep
    <3>3. Says(l)
      BY <2>4, <2>5, <2>6, <3>1, <3>2
    <3> QED BY <3>3 DEF l
  <2>7. CASE ~u[n].ok
    <3>1. u[l] = u[n]
      BY <2>2, <2>7 DEF StrictStep
    <3>2. Says(l)
      BY <2>4, <2>5, <2>7, <3>1
    <3> QED BY <3>2 DEF l
  <2> QED BY <2>6, <2>7
<1>7. N \in Good
  <2> HIDE DEF Good
  <2> QED BY <1>1, <1>5, <1>6, Counting
<1>8. Says(N) /\ u[N] \in Reg
  <2> HIDE DEF Says
  <2>1. N <= N /\ N \in 0..N
    BY <1>1
  <2>2. Says(N)
    BY <1>7, <2>1
  <2> QED BY <1>2, <2>1, <2>2
<1>9. Strict(list).ok <=> u[N].ok /\ Targets \subseteq u[N].kinds
  BY <1>4, <1>8 DEF Reg
<1>10. Strict(list).ok => Strict(list) = u[N]
  BY <1>4, <1>8, <1>9 DEF Reg
<1> QED BY <1>3, <1>8, <1>9, <1>10 DEF N

\* Of a mapped field no document is taken.
LEMMA NoDocument ==
  ASSUME NEW map \in FieldMap, Mapped(map), NEW event \in Event
  PROVE  "document" \notin Apply(map, event)
<1> DEFINE of(transforms) == map.transforms # {} /\ map.transforms \subseteq transforms
           Transforms == {"capture", "len", "present", "basename", "repo_path", "const"}
<1>1. map.transforms \subseteq Transforms /\ Cardinality(map.transforms) <= 1
  BY DEF FieldMap, Mapped, Unambiguous
<1>2. IsFiniteSet(map.transforms)
  <2>1. /\ IsFiniteSet({"capture"}) /\ IsFiniteSet({"len"}) /\ IsFiniteSet({"present"})
        /\ IsFiniteSet({"basename"}) /\ IsFiniteSet({"repo_path"}) /\ IsFiniteSet({"const"})
    BY FS_Singleton
  <2>2. IsFiniteSet({"capture"} \cup {"len"} \cup {"present"} \cup {"basename"} \cup {"repo_path"} \cup {"const"})
    BY <2>1, FS_Union
  <2>3. Transforms = {"capture"} \cup {"len"} \cup {"present"} \cup {"basename"} \cup {"repo_path"} \cup {"const"}
    OBVIOUS
  <2>4. IsFiniteSet(Transforms)
    BY <2>2, <2>3, Zenon
  <2> HIDE DEF Transforms
  <2> QED BY <1>1, <2>4, FS_Subset
<1>3. map.transforms = {} \/ \E x \in Transforms : map.transforms = {x}
  <2> DEFINE T == map.transforms
  <2>1. Cardinality(T) \in Nat
    BY <1>2, FS_CardinalityType
  <2>2. Cardinality(T) = 0 \/ Cardinality(T) = 1
    BY <1>1, <2>1
  <2> HIDE DEF T
  <2>3. Cardinality(T) = 0 => T = {}
    BY <1>2, FS_EmptySet DEF T
  <2>4. Cardinality(T) = 1 => \E x : T = {x}
    BY <1>2, FS_Singleton DEF T
  <2>5. T \subseteq Transforms
    BY <1>1 DEF T
  <2> HIDE DEF Transforms
  <2>6. T = {} \/ \E x \in Transforms : T = {x}
    BY <2>2, <2>3, <2>4, <2>5
  <2> QED BY <2>6 DEF T
<1> QED BY <1>3 DEF Apply, Event

(* Whatever files a configuration lists, and however they clash or break,  *)
(* a hook's registry is made of whole ones, it is the strict registry      *)
(* where there is one, and the records its bindings make fit it            *)
(* (build_registry, build_registry_resilient, merge, bind, process_event). *)
THEOREM RegistryAlwaysStands == PSpec => []RegistryStands
<1> DEFINE Listing == plugins \in Seq(Files)
<1>1. PInit => Listing
  BY DEF PInit
<1>2. Listing /\ [PNext]_pvars => Listing'
  BY DEF PNext, AddPlugin, pvars
<1>3. ASSUME Listing PROVE RegistryStands
  <2> DEFINE N == Len(plugins)
             built == Resilient(plugins)
  <2>1. PICK t : IsTrial(t, plugins)
    BY <1>3, TrialIs
  <2>2. N \in 0..N /\ DOMAIN plugins = 1..N
    BY <1>3
  <2>3. Merged(plugins) = Taken(t, plugins, N)
    BY <1>3, <2>1, MergedIs
  <2>4. /\ t[N] \in Reg /\ Sound(t[N])
        /\ t[N].kinds = Declared(plugins, Taken(t, plugins, N))
        /\ t[N].bindings = Bound(plugins, Taken(t, plugins, N))
    BY <1>3, <2>1, <2>2, TrialHolds
  <2>5. t[N] = built
    BY <2>1 DEF IsTrial
  <2>6. /\ Strict(plugins).ok => Strict(plugins) = built
        /\ Strict(plugins).ok <=> Taken(t, plugins, N) = 1..N /\ Targets \subseteq built.kinds
    BY <1>3, <2>1, StrictIs
  <2> HIDE DEF N, built
  <2>7. WholeFiles
    BY <2>2, <2>3, <2>4, <2>5, <2>6 DEF WholeFiles, built
  <2>8. BoundRecordsFit
    <3> SUFFICES ASSUME NEW b \in built.bindings, NEW event \in Event
                 PROVE  /\ {b.kind} \X RecordFields(built, b, event) \subseteq built.fields
                        /\ "project" \in RecordFields(built, b, event) <=> <<b.kind, "project">> \in built.fields
                        /\ \A f \in DOMAIN b.map : "document" \notin Apply(b.map[f], event)
      BY DEF BoundRecordsFit, built
    <3>1. \A x \in DOMAIN b.map : x # "project" /\ Mapped(b.map[x]) /\ <<b.kind, x>> \in built.fields
      BY <2>4, <2>5 DEF Sound
    <3>2. \A x \in DOMAIN b.map : b.map[x] \in FieldMap
      <4>1. b \in Bindable
        BY <2>4, <2>5 DEF Reg, Bindable
      <4> QED BY <4>1, SchemasAssumption DEF Bindable, Given
    <3>3. \A f \in DOMAIN b.map : "document" \notin Apply(b.map[f], event)
      BY <3>1, <3>2, NoDocument
    <3>4. \A x \in RecordFields(built, b, event) : <<b.kind, x>> \in built.fields
      BY <3>1 DEF RecordFields
    <3>5. "project" \in RecordFields(built, b, event) <=> <<b.kind, "project">> \in built.fields
      BY <3>1 DEF RecordFields
    <3> QED BY <3>3, <3>4, <3>5
  <2> QED BY <2>7, <2>8 DEF RegistryStands
<1>4. PSpec => []Listing
  BY <1>1, <1>2, PTL DEF PSpec
<1> QED BY <1>3, <1>4, PTL
=============================================================================
