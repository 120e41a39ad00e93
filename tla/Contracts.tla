----------------------------- MODULE Contracts -----------------------------
(***************************************************************************)
(* What a stored record means under a definition that changed since        *)
(* (registry.rs, catalog.rs, pii.rs).  A kind is defined by a schema file, *)
(* which is edited; a record is checked, hashed where the definition       *)
(* redacts, and stored beside the contract it was written under; a reader  *)
(* answers under today's definition and reads only the records of the      *)
(* contracts that keep their meaning under it.                             *)
(*                                                                         *)
(* One kind is modelled, by its name's absence: nothing of another kind is *)
(* compared.  A value is given by its type; a stored value also carries,   *)
(* as history, the unit it was measured in.                                *)
(***************************************************************************)
EXTENDS Integers, FiniteSets

CONSTANTS
  Fields,       \* field names a definition may declare, and a payload carry
  Types,        \* FieldType
  Units,
  Versions,
  Values,       \* JSON values
  Accepts(_, _),  \* FieldType::accepts
  TextType,     \* the string type, which an identity has
  NumberTypes,  \* the types a measure may have
  NoField,      \* no identity
  Definitions,  \* the definitions the schema file may hold
  \* Bounds of the model.
  MaxRedefined,  \* edits of the definition
  MaxRecords    \* records written

VARIABLES
  current,      \* the definition of the registry
  stored,      \* the definitions stored beside the records
  rows,         \* the records: the contract each is stamped with, and its payload
  redefined     \* edits made

cvars == <<current, stored, rows, redefined>>

FieldSpec == [type : Types, required : BOOLEAN, unit : Units]

\* KindSpecRaw: a function from the declared fields, and the rest.
Raw == UNION {[mode : {"event", "snapshot"}, version : Versions, fields : [F -> FieldSpec],
               redact : SUBSET Fields, measures : SUBSET Fields, identity : Fields \cup {NoField}]
              : F \in SUBSET Fields}

\* KindSpec::from_raw accepts it.
Valid(d) ==
  /\ d.redact \subseteq DOMAIN d.fields /\ d.measures \subseteq DOMAIN d.fields
  /\ d.identity # NoField => d.identity \in DOMAIN d.fields
  /\ d.mode = "snapshot" =>
       /\ d.identity # NoField
       /\ d.fields[d.identity].required /\ d.fields[d.identity].type = TextType
  /\ d.measures \cap d.redact = {}
  /\ \A m \in d.measures : d.fields[m].type \in NumberTypes

ASSUME ContractsAssumption ==
  /\ Definitions \subseteq {d \in Raw : Valid(d)} /\ NoField \notin Fields
  /\ {MaxRedefined, MaxRecords} \subseteq Nat

\* The contract: what the fingerprint covers.  What a report ranks by may change under it.
Contract(d) == [mode |-> d.mode, version |-> d.version, fields |-> d.fields, redact |-> d.redact,
                identity |-> d.identity]
-----------------------------------------------------------------------------
(* Writing: make_envelope and the ledger's insert.                         *)

\* pii::sanitize: what is declared is checked before anything is hashed.
Sanitized(d, p) ==
  /\ \A f \in DOMAIN d.fields :
       IF f \in DOMAIN p THEN Accepts(d.fields[f].type, p[f]) ELSE ~d.fields[f].required
  /\ d.mode = "snapshot" => d.identity \in DOMAIN p

\* Every key the payload has.
WrongKeeping(d, p) ==
  [f \in DOMAIN p |->
     [value |-> p[f], hashed |-> f \in d.redact,
      unit |-> IF f \in DOMAIN d.fields THEN d.fields[f].unit ELSE CHOOSE u \in Units : TRUE]]

\* What is written of it: the allow-list, with the redacted fields hashed.
Keeping(d, p) ==
  [f \in DOMAIN p \cap DOMAIN d.fields |->
     [value |-> p[f], hashed |-> f \in d.redact, unit |-> d.fields[f].unit]]

Payloads == UNION {[F -> Values] : F \in SUBSET Fields}

\* In strict mode a key outside the allow-list refuses the record; otherwise it is dropped.
Record(p, strict) ==
  /\ Cardinality(rows) < MaxRecords
  /\ Sanitized(current, p) /\ (strict => DOMAIN p \subseteq DOMAIN current.fields)
  /\ rows' = rows \cup {[contract |-> Contract(current), payload |-> Keeping(current, p)]}
  /\ stored' = IF \E d \in stored : Contract(d) = Contract(current) THEN stored
                ELSE stored \cup {current}
  /\ UNCHANGED <<current, redefined>>

\* The schema file is edited and read again.
Redefine(d) ==
  /\ redefined < MaxRedefined /\ redefined' = redefined + 1
  /\ d # current /\ current' = d
  /\ UNCHANGED <<stored, rows>>
-----------------------------------------------------------------------------
(* Reading: Contracts::new over the definitions known for the kind.        *)

\* KindSpec::reads, without the redaction.
WrongReads(d, w) ==
  /\ d.version = w.version /\ d.mode = w.mode
  /\ d.mode = "event" \/ d.identity = w.identity
  /\ \A f \in DOMAIN d.fields :
       IF f \in DOMAIN w.fields
       THEN /\ w.fields[f].type = d.fields[f].type /\ w.fields[f].unit = d.fields[f].unit
            /\ w.fields[f].required \/ ~d.fields[f].required
       ELSE ~d.fields[f].required

\* KindSpec::reads
Reads(d, w) ==
  /\ d.version = w.version /\ d.mode = w.mode
  /\ d.mode = "event" \/ d.identity = w.identity
  /\ \A f \in DOMAIN d.fields :
       IF f \in DOMAIN w.fields
       THEN /\ w.fields[f].type = d.fields[f].type /\ w.fields[f].unit = d.fields[f].unit
            /\ w.fields[f].required \/ ~d.fields[f].required
            /\ f \in w.redact <=> f \in d.redact
       ELSE ~d.fields[f].required

\* KindSpec::exports
Exports(d, w) == Reads(d, w) /\ DOMAIN w.fields \subseteq DOMAIN d.fields

Known      == {current} \cup stored
Readable   == {Contract(w) : w \in {k \in Known : Reads(current, k)}}
Exportable == {Contract(w) : w \in {k \in Known : Exports(current, k)}}

Resolution(c) ==
  CASE c = Contract(current) -> "selected"
    [] c # Contract(current) /\ c \in Readable -> "compatible"
    [] c \notin Readable /\ c \in {Contract(k) : k \in Known} -> "incompatible"
    [] OTHER -> "undefined"
-----------------------------------------------------------------------------
CInit == current \in Definitions /\ stored = {} /\ rows = {} /\ redefined = 0

CNext ==
  \/ \E p \in Payloads, strict \in BOOLEAN : Record(p, strict)
  \/ \E d \in Definitions : Redefine(d)

CSpec == CInit /\ [][CNext]_cvars
-----------------------------------------------------------------------------
\* A stored payload is one `d` could have stored, as far as `d` declares its fields.
Means(d, payload) ==
  \A f \in DOMAIN d.fields :
    IF f \in DOMAIN payload
    THEN /\ Accepts(d.fields[f].type, payload[f].value)
         /\ payload[f].unit = d.fields[f].unit
         /\ payload[f].hashed <=> f \in d.redact
    ELSE ~d.fields[f].required

(* However often a schema is edited, a record that is read means under     *)
(* today's definition what it meant when it was written: every field has   *)
(* the declared type, unit and redaction, every required one is there, a   *)
(* snapshot names its entity by the same field, and what a report sums is  *)
(* a number nothing hashed.                                                *)
ReadsKeepMeaning ==
  \A r \in rows : r.contract \in Readable =>
    /\ Means(current, r.payload)
    /\ r.contract.mode = current.mode /\ r.contract.version = current.version
    /\ current.mode = "snapshot" =>
         r.contract.identity = current.identity /\ current.identity \in DOMAIN r.payload
    /\ \A m \in current.measures \cap DOMAIN r.payload : ~r.payload[m].hashed

(* A record leaves the machine only if today's definition allows every     *)
(* field it carries: one removed from the allow-list is never sent from a  *)
(* record queued before the removal (KindSpec::exports).                   *)
ExportsOnlyAllowed ==
  \A r \in rows : r.contract \in Exportable =>
    r.contract \in Readable /\ DOMAIN r.payload \subseteq DOMAIN current.fields

(* No record is lost to an answer silently: its contract has a definition  *)
(* stored beside it, so every row is read or counted as incompatible, and  *)
(* one written under today's contract is selected (catalog.rs,             *)
(* contract_id and Contracts::resolution).                                 *)
EveryRowResolves ==
  \A r \in rows :
    /\ Resolution(r.contract) # "undefined"
    /\ r.contract = Contract(current) => r.contract \in Readable

\* Every row is read for what it was written to mean, or counted as not read.
RowsKeepMeaning == ReadsKeepMeaning /\ EveryRowResolves
=============================================================================
