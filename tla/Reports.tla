------------------------------ MODULE Reports ------------------------------
(***************************************************************************)
(* What a report says of the ledger (query.rs, report.rs): each kind's     *)
(* records in the window, grouped and ranked, and beside them how many     *)
(* records of each contract there were, so that what could not be read is  *)
(* counted; and the spend by session and by project.                       *)
(*                                                                         *)
(* A query runs in one transaction, so an answer is a function of the      *)
(* ledger; the ledger grows by a record at a time.  A section is one       *)
(* kind's: nothing of another kind is in it.                               *)
(***************************************************************************)
EXTENDS Integers, Sequences, FiniteSets, Functions

CONSTANTS
  RecordContracts, CanRead,  \* the contracts records are stamped with; the readable ones
  WireVersions, SchemaVersion,  \* of records, by builds that share the store; this build's
  ProjectKeys, NoProject,
  Names, NoName,     \* identities, groups and labels of projects; a payload without the field
  LastTime,
  NoAmount, BadAmount,  \* a measure that is missing, or no number
  Amounts,
  KeyOrder,     \* the rank of a key among keys
  SomeRecords, SomeSpends, Questions, Kinds,
  \* Bounds of the model.
  MaxEntries    \* records and sessions

VARIABLES
  kind,      \* how the kind is defined
  entries,   \* the ledger, in the order of its ids
  spends     \* the rows of the cost snapshot, one a session

qvars == <<kind, entries, spends>>

\* What a question or a payload may call a project.
ProjectNames == ProjectKeys \cup Names

\* observed = 0 is no time; `named` is the payload's own project; a project has a key and a label.
Entry == {r \in [version : WireVersions, contract : RecordContracts,
                 project : ProjectKeys \cup {NoProject}, label : Names \cup {NoProject},
                 named : ProjectNames \cup {NoProject}, identity : Names \cup {NoName},
                 group : Names \cup {NoName}, amount : Amounts \cup {NoAmount, BadAmount},
                 occurred : 1..LastTime, observed : 0..LastTime]
          : r.project = NoProject <=> r.label = NoProject}
Spend == [project : ProjectKeys \cup {NoProject}, label : Names, ts : 0..LastTime,
          cost : Amounts, observed : BOOLEAN]
Question == [since : 1..LastTime, project : ProjectNames \cup {NoProject},
             by : {"project", "group"}, group : Names \cup {NoName}]
KindSpecs == [mode : {"event", "snapshot"}, identity : BOOLEAN, declares : BOOLEAN]

\* A project's key is a path, which no label or group is; the keys of one list are in order.
ASSUME ReportsAssumption ==
  /\ CanRead \subseteq RecordContracts /\ Amounts \subseteq Nat /\ LastTime \in Nat
  /\ WireVersions \subseteq Nat /\ SchemaVersion \in Nat
  /\ SomeRecords \subseteq Entry /\ SomeSpends \subseteq Spend /\ Questions \subseteq Question
  /\ Kinds \subseteq {k \in KindSpecs : k.mode = "snapshot" => k.identity}
  /\ MaxEntries \in Nat
  /\ {NoAmount, BadAmount} \cap Amounts = {} /\ ProjectKeys \cap Names = {}
  /\ NoProject \notin ProjectNames
  /\ \A keys \in {ProjectNames \cup {NoProject}, Names \cup {NoName}} :
       \A k, m \in keys : KeyOrder[k] \in Nat /\ (KeyOrder[k] = KeyOrder[m] => k = m)

Positions    == DOMAIN entries
Legible(i) == entries[i].contract \in CanRead
Snapshots == kind.mode = "snapshot"
-----------------------------------------------------------------------------
(* Which records a section is about.                                       *)

\* The payload's own project, for a record without one, if the kind declares the field.
Attributed(r) ==
  IF r.project = NoProject /\ kind.declares THEN r.named ELSE r.project

\* A record is of a project by its key, by its label, or by its payload.
OfProject(q, r) == q.project \in {NoProject, r.label, Attributed(r)}

\* What a build with a newer wire version wrote is not of any section.
Understood(r) == r.version <= SchemaVersion

\* scope
InScope(q) ==
  {i \in Positions : entries[i].occurred >= q.since /\ Understood(entries[i])
                     /\ OfProject(q, entries[i])}

\* filter_conditions
Passes(q, i) == q.group # NoName => entries[i].group = q.group

GroupKey(q, r) == IF q.by = "project" THEN Attributed(r) ELSE r.group

\* contract_counts of only what is read.
WrongContractCount(q, c) ==
  Cardinality({i \in InScope(q) : entries[i].contract = c /\ Legible(i)
                 /\ (~Snapshots => Passes(q, i))})

\* contract_counts: a snapshot's filters select states, not records.
ContractCount(q, c) ==
  Cardinality({i \in InScope(q) : entries[i].contract = c /\ (~Snapshots => Passes(q, i))})
-----------------------------------------------------------------------------
(* Snapshots: each entity's latest state.                                  *)

Entity(i) == <<Attributed(entries[i]), entries[i].identity>>
Payload(i) ==
  [entries[i] EXCEPT !.version = 0, !.contract = 0, !.project = 0, !.label = 0,
                     !.occurred = 0, !.observed = 0]

Later(i, j) ==
  \/ entries[i].occurred > entries[j].occurred
  \/ entries[i].occurred = entries[j].occurred /\ entries[i].observed > entries[j].observed

Identified(q) == {i \in InScope(q) : entries[i].identity # NoName}
Rivals(S, i)  == {j \in S : Entity(j) = Entity(i)}

\* The latest of those that can be read.
WrongLatest(q) ==
  {i \in Identified(q) : Legible(i) /\ \A j \in Rivals(Identified(q), i) : Legible(j) => ~Later(j, i)}

\* The latest under any contract.
Latest(q) == {i \in Identified(q) : \A j \in Rivals(Identified(q), i) : ~Later(j, i)}

Invalid(q) ==
  \E i \in InScope(q) : Legible(i) /\ (entries[i].identity = NoName \/ entries[i].observed = 0)
Ambiguous(q) == \E i \in Latest(q) : \E j \in Rivals(Latest(q), i) : Payload(i) # Payload(j)

States(q) == {i \in Latest(q) : Legible(i) /\ \A j \in Rivals(Latest(q), i) : j <= i}
-----------------------------------------------------------------------------
(* Events: one a value of the identity in each group, the earliest.        *)

Before(i, j) ==
  \/ entries[i].occurred < entries[j].occurred
  \/ entries[i].occurred = entries[j].occurred /\ i < j

Twin(q, i, j) ==
  /\ kind.identity /\ entries[i].identity # NoName /\ entries[i].identity = entries[j].identity
  /\ GroupKey(q, entries[i]) = GroupKey(q, entries[j])

Occurrences(q) ==
  LET read == {i \in InScope(q) : Legible(i) /\ Passes(q, i)}
  IN {i \in read : ~ \E j \in read : Twin(q, i, j) /\ Before(j, i)}
-----------------------------------------------------------------------------
(* The answer.                                                             *)

Refused(q) == Snapshots /\ (Invalid(q) \/ Ambiguous(q))
Counted(q) ==
  IF Refused(q) THEN {}
  ELSE IF Snapshots THEN {i \in States(q) : Passes(q, i)} ELSE Occurrences(q)

GroupOf(key, members) ==
  LET valid   == {i \in members : entries[i].amount \in Amounts}
      missing == {i \in members : entries[i].amount = NoAmount}
  IN [key |-> key, count |-> Cardinality(members), valid |-> Cardinality(valid),
      missing |-> Cardinality(missing),
      invalid |-> Cardinality(members) - Cardinality(valid) - Cardinality(missing),
      sum |-> SumFunctionOnSet([i \in valid |-> entries[i].amount], valid)]

Groups(q) ==
  LET counted == Counted(q)
  IN {GroupOf(key, {i \in counted : GroupKey(q, entries[i]) = key})
      : key \in {GroupKey(q, entries[i]) : i \in counted}}

\* A group without a valid measure has no sum, and goes after every one that has.
Outranks(g, h) == g.valid > 0 /\ (h.valid = 0 \/ g.sum > h.sum)

\* The first `top` in the order of rank and then of key, the group without one last; 0 is all.
First(groups, top) ==
  LET ahead(g) == {h \in groups : Outranks(h, g)
                    \/ (~Outranks(g, h) /\ KeyOrder[h.key] < KeyOrder[g.key])}
  IN {g \in groups : top = 0 \/ Cardinality(ahead(g)) < top}
-----------------------------------------------------------------------------
(* The cost section: cost_rows and cost_by_project.                        *)

\* A session whose project has no key is under its label.
Spender(s) == IF s.project = NoProject THEN s.label ELSE s.project

SpendRows(q) ==
  {n \in DOMAIN spends : spends[n].ts >= q.since
                         /\ q.project \in {NoProject, spends[n].label, spends[n].project}}
SpendBy(q, key) ==
  LET sessions == {n \in SpendRows(q) : Spender(spends[n]) = key}
      seen     == {n \in sessions : spends[n].observed}
  IN [key |-> key, count |-> Cardinality(sessions), missing |-> Cardinality(sessions \ seen),
      cost |-> SumFunctionOnSet([n \in seen |-> spends[n].cost], seen)]

SpendGroups(q) == {SpendBy(q, Spender(spends[n])) : n \in SpendRows(q)}

\* rank, then truncate: here a group nobody measured the cost of ranks with those that cost nothing.
TopSpenders(q, top) ==
  LET groups   == SpendGroups(q)
      ahead(g) == {h \in groups : h.cost > g.cost
                    \/ (h.cost = g.cost /\ KeyOrder[h.key] < KeyOrder[g.key])}
  IN {g \in groups : top = 0 \/ Cardinality(ahead(g)) < top}
-----------------------------------------------------------------------------
AddRecord(r) ==
  /\ Len(entries) + Len(spends) < MaxEntries /\ entries' = Append(entries, r)
  /\ UNCHANGED <<kind, spends>>

AddSession(s) ==
  /\ Len(entries) + Len(spends) < MaxEntries /\ spends' = Append(spends, s)
  /\ UNCHANGED <<kind, entries>>

QInit == kind \in Kinds /\ entries = <<>> /\ spends = <<>>

QNext == (\E r \in SomeRecords : AddRecord(r)) \/ (\E s \in SomeSpends : AddSession(s))

QSpec == QInit /\ [][QNext]_qvars
-----------------------------------------------------------------------------
(* The state a snapshot reports of an entity is the newest the ledger      *)
(* holds of it, whatever definition wrote that, and no other state of the  *)
(* same instant says otherwise: an older readable state never stands in    *)
(* for a newer one that cannot be read, and nothing is chosen arbitrarily. *)
(* That holds among the states the question is about.  One of a newer wire *)
(* version is not (schema_version<=?3): an older state does stand in for   *)
(* it, against the comment in aggregate_connection.  Nor, where a label is *)
(* asked for, is one whose record has another label or none.               *)
NewestSpeaks ==
  Snapshots => \A q \in Questions :
    LET counted == Counted(q)
    IN \A i \in counted : \A j \in Positions \ {i} :
         Entity(i) = Entity(j) /\ Understood(entries[j]) /\ OfProject(q, entries[j]) =>
           ~Later(j, i) /\ (Later(i, j) \/ Payload(i) = Payload(j)) /\ j \notin counted

(* No record goes missing from an answer.  One of the window and of the    *)
(* project that passes the filters is in a group, or repeats an identity   *)
(* of its group, or is behind its entity's newer state in the same answer, *)
(* or is counted among the contracts that could not be read.  One case is  *)
(* left, of which an answer says nothing: a record of a newer wire version *)
(* is in no group and no contract's count.                                 *)
NothingMissing ==
  \A q \in Questions : ~Refused(q) =>
    LET counted == Counted(q)
    IN \A i \in Positions :
         entries[i].occurred >= q.since /\ OfProject(q, entries[i]) /\ Passes(q, i) =>
           \/ i \in counted
           \/ \E j \in counted : Twin(q, i, j)
           \/ \E j \in InScope(q) \ {i} : Snapshots /\ Entity(i) = Entity(j) /\ ~Later(i, j)
           \/ ~Legible(i) /\ ContractCount(q, entries[i].contract) > 0
           \/ ~Understood(entries[i])

(* The totals of a report agree with one another: the groups' counts add   *)
(* up to the records counted, each measure is valid, missing or invalid,   *)
(* cutting a list to `top_n` leaves exactly so many of the highest, and    *)
(* the sessions of the projects add up to the sessions of the window, with *)
(* no two projects in one group.                                           *)
TotalsAgree ==
  entries # <<>> \/ spends # <<>> => \A q \in Questions :
    LET groups == Groups(q)
        paid   == SpendRows(q)
        spent  == SpendGroups(q)
    IN /\ SumFunctionOnSet([g \in groups |-> g.count], groups) = Cardinality(Counted(q))
       /\ \A g \in groups : g.count > 0 /\ g.invalid >= 0
       /\ groups # {} => Cardinality(First(groups, 1)) = 1
       /\ spent # {} => Cardinality(TopSpenders(q, 1)) = 1
       /\ \A g \in TopSpenders(q, 1), h \in spent : h.missing < h.count => h.cost <= g.cost
       /\ SumFunctionOnSet([g \in spent |-> g.count], spent) = Cardinality(paid)
       /\ \A m, n \in paid :
            spends[m].project # spends[n].project => Spender(spends[m]) # Spender(spends[n])

\* An answer leaves no record out and its totals agree.
AnswersAreWhole == NothingMissing /\ TotalsAgree
=============================================================================
