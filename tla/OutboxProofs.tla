---------------------------- MODULE OutboxProofs ----------------------------
(***************************************************************************)
(* Theorems about Outbox, for every value of its constants.                *)
(*                                                                         *)
(* The invariant that is inductive is IInv: the types, that a delivery row *)
(* refers to a stored record (so that an insert never meets an old row),   *)
(* and that the queue counters are what the pending rows amount to (so     *)
(* that they stay natural numbers).  A task that screens or sends holds a  *)
(* readable configuration, which makes the next attempt a time.            *)
(*                                                                         *)
(* On top of it DeliveryInv relates what a task holds to the rows and to   *)
(* the collector, though writers, retention and restarts change the rows   *)
(* between the task's steps.  From it follow why a collector can take a    *)
(* record twice, what a request can start with, and that the outbox        *)
(* implements DeliveryPromise.                                             *)
(***************************************************************************)
EXTENDS Outbox, FiniteSetTheorems, TLAPS

\* A task that has read a configuration to screen or send by still holds it.
TaskHasPolicy ==
  \A d \in Dests : task[d].pc \notin {"idle", "started", "loaded"} => task[d].policy \in Policies

IInv == TypeOK /\ RowsHaveRecords /\ QueueMatchesPending /\ TaskHasPolicy

-----------------------------------------------------------------------------
(* Sets of bytes.                                                          *)

\* The constants the lemmas about bytes depend on.
LEMMA ByteConstants == MaxRecordBytes \in Nat \ {0} /\ MaxPendingRecords \in Nat \ {0}
BY OutboxAssumption

Bytes(P, size) == {b \in P \X (1 .. MaxRecordBytes) : b[2] <= size[b[1]]}

\* The bytes that belong to the records S.
Part(B, S) == {b \in B : b[1] \in S}

\* The bytes of a finite set of records form a finite set.
LEMMA BytesFinite ==
  ASSUME NEW P, IsFiniteSet(P), NEW size
  PROVE  IsFiniteSet(Bytes(P, size))
<1>1. IsFiniteSet(1 .. MaxRecordBytes)
  BY ByteConstants, FS_Interval
<1>2. IsFiniteSet(P \X (1 .. MaxRecordBytes))
  BY <1>1, FS_Product
<1> QED BY <1>2, FS_Subset DEF Bytes

\* A record of n bytes contributes n elements.
LEMMA BytesOfOne ==
  ASSUME NEW r, NEW size, size[r] \in 1 .. MaxRecordBytes
  PROVE  Cardinality(Bytes({r}, size)) = size[r]
<1>1. Bytes({r}, size) = {r} \X (1 .. size[r])
  <2>1. \A i \in 1 .. MaxRecordBytes : i <= size[r] <=> i \in 1 .. size[r]
    BY ByteConstants
  <2>2. 1 .. size[r] \subseteq 1 .. MaxRecordBytes
    BY ByteConstants
  <2> QED BY <2>1, <2>2 DEF Bytes
<1>2. IsFiniteSet(1 .. size[r]) /\ Cardinality(1 .. size[r]) = size[r]
  BY ByteConstants, FS_Interval
<1>3. IsFiniteSet({r}) /\ Cardinality({r}) = 1
  BY FS_Singleton
<1>4. Cardinality({r} \X (1 .. size[r])) = 1 * size[r]
  BY <1>2, <1>3, FS_Product
<1>5. size[r] \in Int
  BY ByteConstants
<1>6. 1 * size[r] = size[r]
  BY <1>5
<1> QED BY <1>1, <1>4, <1>6, Zenon

\* Admitting a record adds its size to the number of bytes.
LEMMA BytesAdd ==
  ASSUME NEW P, IsFiniteSet(P), NEW r, r \notin P,
         NEW old, NEW new, new[r] \in 1 .. MaxRecordBytes,
         \A q \in P : new[q] = old[q]
  PROVE  Cardinality(Bytes(P \cup {r}, new)) = Cardinality(Bytes(P, old)) + new[r]
<1>1. Bytes(P \cup {r}, new) = Bytes(P, old) \cup Bytes({r}, new)
  BY DEF Bytes
<1>2. Bytes(P, old) \cap Bytes({r}, new) = {}
  BY DEF Bytes
<1>3. IsFiniteSet(Bytes(P, old)) /\ IsFiniteSet(Bytes({r}, new))
  BY BytesFinite, FS_Singleton
<1>4. Cardinality(Bytes({r}, new)) = new[r]
  BY BytesOfOne
<1>5. Cardinality(Bytes(P, old) \cap Bytes({r}, new)) = 0
  BY <1>2, FS_EmptySet, Zenon
<1>6. /\ Cardinality(Bytes(P, old)) \in Nat
      /\ Cardinality(Bytes({r}, new)) \in Nat
  BY <1>3, FS_CardinalityType
<1>7. Cardinality(Bytes(P, old) \cup Bytes({r}, new))
        = Cardinality(Bytes(P, old)) + Cardinality(Bytes({r}, new))
            - Cardinality(Bytes(P, old) \cap Bytes({r}, new))
  BY <1>3, FS_Union, Zenon
<1>8. Cardinality(Bytes(P, old) \cup Bytes({r}, new))
        = Cardinality(Bytes(P, old)) + Cardinality(Bytes({r}, new))
  BY <1>5, <1>6, <1>7
<1> QED BY <1>1, <1>4, <1>8, Zenon

\* Releasing records takes away exactly their bytes.
LEMMA BytesRemove ==
  ASSUME NEW P, IsFiniteSet(P), NEW S, S \subseteq P,
         NEW old, NEW new, \A q \in P \ S : new[q] = old[q]
  PROVE  Cardinality(Bytes(P \ S, new)) =
           Cardinality(Bytes(P, old)) - Cardinality(Part(Bytes(P, old), S))
<1>1. Bytes(P \ S, new) = Bytes(P, old) \ Part(Bytes(P, old), S)
  BY DEF Bytes, Part
<1>2. IsFiniteSet(Bytes(P, old))
  BY BytesFinite
<1>3. Bytes(P, old) \cap Part(Bytes(P, old), S) = Part(Bytes(P, old), S)
  BY DEF Part
<1>4. Cardinality(Bytes(P, old) \ Part(Bytes(P, old), S))
        = Cardinality(Bytes(P, old)) - Cardinality(Bytes(P, old) \cap Part(Bytes(P, old), S))
  BY <1>2, FS_Difference
<1> QED BY <1>1, <1>3, <1>4, Zenon

-----------------------------------------------------------------------------
(* The counters of one destination against its pending rows.               *)

SizeOf(d) == [r \in Ids |-> rows[d][r].size]

Counted(d) ==
  /\ queue[d].records = Cardinality(Pending(d))
  /\ queue[d].bytes = Cardinality(PendingBytes(d))

\* Pending records and their bytes are finite sets, before and after a step.
LEMMA PendingFacts ==
  ASSUME NEW d \in Dests
  PROVE  /\ Pending(d) \subseteq Ids /\ IsFiniteSet(Pending(d))
         /\ PendingBytes(d) = Bytes(Pending(d), SizeOf(d))
         /\ IsFiniteSet(PendingBytes(d))
         /\ Pending(d)' \subseteq Ids /\ IsFiniteSet(Pending(d)')
         /\ PendingBytes(d)' = Bytes(Pending(d)', SizeOf(d)')
         /\ IsFiniteSet(PendingBytes(d)')
<1>1. Pending(d) \subseteq Ids /\ Pending(d)' \subseteq Ids
  BY DEF Pending
<1>2. IsFiniteSet(Pending(d)) /\ IsFiniteSet(Pending(d)')
  BY <1>1, OutboxAssumption, FS_Subset
<1>3. PendingBytes(d) = Bytes(Pending(d), SizeOf(d))
  BY <1>1 DEF PendingBytes, Bytes, SizeOf
<1>4. PendingBytes(d)' = Bytes(Pending(d)', SizeOf(d)')
  BY <1>1 DEF PendingBytes, Bytes, SizeOf
<1> QED BY <1>1, <1>2, <1>3, <1>4, BytesFinite

\* Releasing the capacity of pending rows that stop being pending leaves the
\* counters equal to what is pending afterwards.
LEMMA ReleaseCorrect ==
  ASSUME NEW d \in Dests, NEW S, S \subseteq Pending(d),
         queue \in [Dests -> [records : Nat, bytes : Nat]], Counted(d),
         Pending(d)' = Pending(d) \ S,
         \A r \in Pending(d) \ S : rows'[d][r].size = rows[d][r].size
  PROVE  /\ Release(d, S) \in [Dests -> [records : Nat, bytes : Nat]]
         /\ Release(d, S)[d].records = Cardinality(Pending(d)')
         /\ Release(d, S)[d].bytes = Cardinality(PendingBytes(d)')
         /\ \A e \in Dests \ {d} : Release(d, S)[e] = queue[e]
<1> DEFINE Gone == Part(PendingBytes(d), S)
<1>1. Cardinality(Pending(d)') = Cardinality(Pending(d)) - Cardinality(S)
  <2>1. Pending(d) \cap S = S
    OBVIOUS
  <2>2. Cardinality(Pending(d) \ S) = Cardinality(Pending(d)) - Cardinality(Pending(d) \cap S)
    BY PendingFacts, FS_Difference
  <2> QED BY <2>1, <2>2, Zenon
<1>2. Cardinality(PendingBytes(d)') = Cardinality(PendingBytes(d)) - Cardinality(Gone)
  <2>1. \A q \in Pending(d) \ S : SizeOf(d)'[q] = SizeOf(d)[q]
    BY PendingFacts DEF SizeOf
  <2>2. Cardinality(Bytes(Pending(d) \ S, SizeOf(d)'))
          = Cardinality(Bytes(Pending(d), SizeOf(d)))
              - Cardinality(Part(Bytes(Pending(d), SizeOf(d)), S))
    <3>1. IsFiniteSet(Pending(d))
      BY PendingFacts
    <3> QED BY <2>1, <3>1, BytesRemove
  <2> QED BY <2>2, PendingFacts, Zenon
<1>3. /\ Cardinality(Pending(d)') \in Nat /\ Cardinality(PendingBytes(d)') \in Nat
  BY PendingFacts, FS_CardinalityType
<1>4. Release(d, S) = [queue EXCEPT ![d] =
        [records |-> queue[d].records - Cardinality(S), bytes |-> queue[d].bytes - Cardinality(Gone)]]
  BY DEF Release, Part
<1>5. /\ queue[d].records - Cardinality(S) = Cardinality(Pending(d)')
      /\ queue[d].bytes - Cardinality(Gone) = Cardinality(PendingBytes(d)')
  BY <1>1, <1>2 DEF Counted
<1> HIDE DEF Gone
<1> QED BY <1>3, <1>4, <1>5

\* A step that neither changes what is pending nor its sizes keeps the bytes.
LEMMA SameBytes ==
  ASSUME NEW d \in Dests, Pending(d)' = Pending(d),
         \A r \in Pending(d) : rows'[d][r].size = rows[d][r].size
  PROVE  PendingBytes(d)' = PendingBytes(d)
BY DEF PendingBytes

\* Admitting a record that was not pending adds one record and its bytes.
LEMMA AdmitCorrect ==
  ASSUME NEW d \in Dests, NEW r, r \notin Pending(d),
         queue \in [Dests -> [records : Nat, bytes : Nat]], Counted(d),
         Pending(d)' = Pending(d) \cup {r},
         rows'[d][r].size \in 1 .. MaxRecordBytes,
         \A q \in Pending(d) : rows'[d][q].size = rows[d][q].size
  PROVE  /\ Cardinality(Pending(d)') = queue[d].records + 1
         /\ Cardinality(PendingBytes(d)') = queue[d].bytes + rows'[d][r].size
<1>1. Cardinality(Pending(d) \cup {r}) = Cardinality(Pending(d)) + 1
  BY PendingFacts, FS_AddElement
<1>2. Cardinality(PendingBytes(d)') = Cardinality(PendingBytes(d)) + rows'[d][r].size
  <2>1. r \in Ids /\ Pending(d) \subseteq Ids
    BY PendingFacts
  <2>2. SizeOf(d)'[r] = rows'[d][r].size
    BY <2>1 DEF SizeOf
  <2>3. \A q \in Pending(d) : SizeOf(d)'[q] = SizeOf(d)[q]
    BY <2>1 DEF SizeOf
  <2>4. SizeOf(d)'[r] \in 1 .. MaxRecordBytes
    BY <2>2
  <2>5. IsFiniteSet(Pending(d))
    BY PendingFacts
  <2>6. Cardinality(Bytes(Pending(d) \cup {r}, SizeOf(d)'))
          = Cardinality(Bytes(Pending(d), SizeOf(d))) + SizeOf(d)'[r]
    BY <2>3, <2>4, <2>5, BytesAdd
  <2> QED BY <2>2, <2>6, PendingFacts, Zenon
<1> QED BY <1>1, <1>2 DEF Counted

-----------------------------------------------------------------------------
(* The transactions that change rows and counters.                         *)

LedgerOK ==
  /\ records \subseteq Ids
  /\ rows \in [Dests -> [Ids -> Row]]
  /\ queue \in [Dests -> [records : Nat, bytes : Nat]]
  /\ RowsHaveRecords
  /\ \A d \in Dests : Counted(d)

\* A step that leaves records, rows and queue alone preserves LedgerOK.
LEMMA LedgerUnchanged ==
  ASSUME LedgerOK, UNCHANGED ledger
  PROVE  LedgerOK'
BY DEF LedgerOK, ledger, RowsHaveRecords, Counted, Pending, PendingBytes

\* A destination a step does not touch keeps its counts.
LEMMA OtherDestination ==
  ASSUME NEW d \in Dests, Counted(d), rows'[d] = rows[d], queue'[d] = queue[d]
  PROVE  Counted(d)'
<1>1. Pending(d)' = Pending(d)
  BY DEF Pending
<1>2. PendingBytes(d)' = PendingBytes(d)
  BY <1>1 DEF PendingBytes
<1> QED BY <1>1, <1>2 DEF Counted

\* What an outcome changes in a row.
LEMMA RowOutcome ==
  ASSUME NEW row \in Row, NEW status \in Statuses, NEW next \in Nat, NEW attempted \in {0, 1}
  PROVE  /\ WithOutcome(row, status, next, attempted) \in Row
         /\ WithOutcome(row, status, next, attempted).size = row.size
         /\ WithOutcome(row, status, next, attempted).status = status
BY DEF Row, WithOutcome

\* finish: one row's outcome, and its capacity if it is no longer pending.
LEMMA FinishOK ==
  ASSUME LedgerOK, UNCHANGED records,
         NEW d \in Dests, NEW r \in Ids,
         NEW status \in Statuses \ {"none"}, NEW next \in Nat, NEW attempted \in {0, 1},
         Finish(d, r, status, next, attempted)
  PROVE  LedgerOK'
<1>1. rows' = [rows EXCEPT ![d] = [q \in Ids |->
        IF q \in Settled(d, r)
        THEN WithOutcome(rows[d][q], status, next, attempted) ELSE rows[d][q]]]
  BY DEF Finish
<1>2. Settled(d, r) \subseteq Pending(d) /\ Pending(d) \subseteq Ids
  BY DEF Settled, Pending
<1>3. rows' \in [Dests -> [Ids -> Row]]
  <2>1. \A q \in Ids : rows[d][q] \in Row
    BY DEF LedgerOK
  <2>2. \A q \in Ids : WithOutcome(rows[d][q], status, next, attempted) \in Row
    BY <2>1, RowOutcome
  <2> QED BY <1>1, <2>1, <2>2 DEF LedgerOK
<1>4. \A e \in Dests \ {d} : rows'[e] = rows[e]
  BY <1>1 DEF LedgerOK
<1>5. \A q \in Ids : /\ rows'[d][q].size = rows[d][q].size
                     /\ q \notin Settled(d, r) => rows'[d][q].status = rows[d][q].status
                     /\ q \in Settled(d, r) => rows'[d][q].status = status
  <2> SUFFICES ASSUME NEW q \in Ids
               PROVE  /\ rows'[d][q].size = rows[d][q].size
                      /\ q \notin Settled(d, r) => rows'[d][q].status = rows[d][q].status
                      /\ q \in Settled(d, r) => rows'[d][q].status = status
    OBVIOUS
  <2> DEFINE new == WithOutcome(rows[d][q], status, next, attempted)
  <2>1. rows'[d][q] = IF q \in Settled(d, r) THEN new ELSE rows[d][q]
    BY <1>1 DEF LedgerOK
  <2>2. new.size = rows[d][q].size /\ new.status = status
    BY RowOutcome DEF LedgerOK
  <2> HIDE DEF new
  <2> QED BY <2>1, <2>2
<1>6. RowsHaveRecords'
  BY <1>2, <1>4, <1>5 DEF RowsHaveRecords, LedgerOK, Pending
<1>7. \A e \in Dests \ {d} : queue'[e] = queue[e] => Counted(e)'
  BY <1>4, OtherDestination DEF LedgerOK
<1>8. CASE status = "pending"
  <2>1. queue' = queue
    BY <1>8 DEF Finish
  <2>2. Pending(d)' = Pending(d)
    BY <1>2, <1>5, <1>8 DEF Pending
  <2>3. PendingBytes(d)' = PendingBytes(d)
    BY <1>2, <1>5, <2>2, SameBytes
  <2>4. Counted(d)'
    BY <2>1, <2>2, <2>3 DEF Counted, LedgerOK
  <2> QED BY <1>3, <1>6, <1>7, <2>1, <2>4 DEF LedgerOK
<1>9. CASE status # "pending"
  <2>1. queue' = Release(d, Settled(d, r))
    BY <1>9 DEF Finish
  <2>2. Pending(d)' = Pending(d) \ Settled(d, r)
    BY <1>2, <1>5, <1>9 DEF Pending
  <2>3. /\ queue' \in [Dests -> [records : Nat, bytes : Nat]]
        /\ Counted(d)'
        /\ \A e \in Dests \ {d} : queue'[e] = queue[e]
    <3>1. Counted(d) /\ queue \in [Dests -> [records : Nat, bytes : Nat]]
      BY DEF LedgerOK
    <3>2. \A q \in Pending(d) \ Settled(d, r) : rows'[d][q].size = rows[d][q].size
      BY <1>2, <1>5
    <3>3. /\ Release(d, Settled(d, r)) \in [Dests -> [records : Nat, bytes : Nat]]
          /\ Release(d, Settled(d, r))[d].records = Cardinality(Pending(d)')
          /\ Release(d, Settled(d, r))[d].bytes = Cardinality(PendingBytes(d)')
          /\ \A e \in Dests \ {d} : Release(d, Settled(d, r))[e] = queue[e]
      BY <1>2, <2>2, <3>1, <3>2, ReleaseCorrect
    <3> QED BY <2>1, <3>3 DEF Counted
  <2> QED BY <1>3, <1>6, <1>7, <2>3 DEF LedgerOK
<1> QED BY <1>8, <1>9

\* cancel_destination: every pending row, and both counters to zero.
LEMMA CancelOK ==
  ASSUME LedgerOK, UNCHANGED records, NEW d \in Dests, CancelDestination(d)
  PROVE  LedgerOK'
<1>1. rows' = [rows EXCEPT ![d] = [r \in Ids |->
        IF r \in Pending(d) THEN [rows[d][r] EXCEPT !.status = "cancelled"] ELSE rows[d][r]]]
  BY DEF CancelDestination
<1>2. queue' = [queue EXCEPT ![d] = [records |-> 0, bytes |-> 0]]
  BY DEF CancelDestination
<1>3. rows' \in [Dests -> [Ids -> Row]] /\ queue' \in [Dests -> [records : Nat, bytes : Nat]]
  <2>1. \A r \in Ids : rows[d][r] \in Row
    BY DEF LedgerOK
  <2>2. \A r \in Ids : [rows[d][r] EXCEPT !.status = "cancelled"] \in Row
    BY <2>1 DEF Row, Statuses
  <2> QED BY <1>1, <1>2, <2>1, <2>2 DEF LedgerOK
<1>4. \A e \in Dests \ {d} : rows'[e] = rows[e] /\ queue'[e] = queue[e]
  BY <1>1, <1>2 DEF LedgerOK
<1>5. \A r \in Ids : rows'[d][r].status =
        IF r \in Pending(d) THEN "cancelled" ELSE rows[d][r].status
  BY <1>1 DEF LedgerOK, Row
<1>6. RowsHaveRecords'
  BY <1>4, <1>5 DEF RowsHaveRecords, LedgerOK, Pending
<1>7. Pending(d)' = {}
  BY <1>5 DEF Pending
<1>8. PendingBytes(d)' = {}
  BY <1>7 DEF PendingBytes
<1>9. Counted(d)'
  <2>1. queue'[d].records = 0 /\ queue'[d].bytes = 0
    BY <1>2 DEF LedgerOK
  <2>2. Cardinality(Pending(d)') = 0 /\ Cardinality(PendingBytes(d)') = 0
    BY <1>7, <1>8, FS_EmptySet, Zenon
  <2> QED BY <2>1, <2>2 DEF Counted
<1>10. \A e \in Dests \ {d} : Counted(e)'
  BY <1>4, OtherDestination DEF LedgerOK
<1> QED BY <1>3, <1>6, <1>9, <1>10 DEF LedgerOK

\* write_record, write_new: a record and its delivery rows.
LEMMA StoreOK ==
  ASSUME LedgerOK, now \in Nat, NEW r \in Ids, Store(r)
  PROVE  LedgerOK'
<1>1. PICK p \in Policies, size \in 1 .. MaxRecordBytes :
        LET selected == {d \in p.listed : r \in p.target[d].allows}
            room     == {d \in selected : HasRoom(queue[d], p.target[d], size)}
        IN /\ records' = records \cup {r}
           /\ rows' = [d \in Dests |->
                IF d \in selected
                THEN [rows[d] EXCEPT ![r] =
                        NewRow(IF d \in room THEN "pending" ELSE "capacity", size)]
                ELSE rows[d]]
           /\ queue' = [d \in Dests |->
                IF d \in room
                THEN [records |-> queue[d].records + 1, bytes |-> queue[d].bytes + size]
                ELSE queue[d]]
  BY DEF Store, Commit
<1> DEFINE selected == {d \in p.listed : r \in p.target[d].allows}
           room     == {d \in selected : HasRoom(queue[d], p.target[d], size)}
           Status(d) == IF d \in room THEN "pending" ELSE "capacity"
<1>2. records' = records \cup {r} /\ r \notin records
  BY <1>1 DEF Store
<1>3. \A d \in Dests : rows'[d] =
        IF d \in selected THEN [rows[d] EXCEPT ![r] = NewRow(Status(d), size)] ELSE rows[d]
  BY <1>1
<1>4. \A d \in Dests : queue'[d] =
        IF d \in room THEN [records |-> queue[d].records + 1, bytes |-> queue[d].bytes + size]
        ELSE queue[d]
  BY <1>1
<1>5. room \subseteq selected
  OBVIOUS
<1>6. rows' = [d \in Dests |-> rows'[d]] /\ queue' = [d \in Dests |-> queue'[d]]
  BY <1>1
<1> HIDE DEF selected, room
<1>7. size \in Nat /\ size \in 0 .. MaxRecordBytes
  BY ByteConstants
<1>8. \A status \in {"pending", "capacity"} :
        /\ NewRow(status, size) \in Row
        /\ NewRow(status, size).status = status
        /\ NewRow(status, size).size = size
  BY <1>7 DEF NewRow, Row, Statuses
<1>9. \A d \in Dests : Status(d) \in {"pending", "capacity"}
  OBVIOUS
<1>10. rows' \in [Dests -> [Ids -> Row]]
  BY <1>3, <1>6, <1>8, <1>9 DEF LedgerOK
<1>11. queue' \in [Dests -> [records : Nat, bytes : Nat]]
  BY <1>4, <1>6, <1>7 DEF LedgerOK
<1>12. RowsHaveRecords'
  BY <1>2, <1>3 DEF RowsHaveRecords, LedgerOK
<1>13. ASSUME NEW d \in Dests PROVE Counted(d)'
  <2>1. r \notin Pending(d) /\ Pending(d) \subseteq Ids
    BY <1>2 DEF LedgerOK, RowsHaveRecords, Pending
  <2>2. CASE d \notin selected
    BY <1>3, <1>4, <1>5, <2>2, OtherDestination DEF LedgerOK
  <2>3. CASE d \in selected
    <3>1. \A q \in Ids : rows'[d][q] = IF q = r THEN NewRow(Status(d), size) ELSE rows[d][q]
      BY <1>3, <2>3 DEF LedgerOK
    <3>2. \A q \in Pending(d) : rows'[d][q] = rows[d][q]
      BY <2>1, <3>1
    <3>3. rows'[d][r].status = Status(d) /\ rows'[d][r].size = size
      BY <1>8, <1>9, <3>1
    <3>4. CASE d \in room
      <4>1. Pending(d)' = Pending(d) \cup {r}
        BY <3>1, <3>3, <3>4 DEF Pending
      <4>2. /\ Cardinality(Pending(d)') = queue[d].records + 1
            /\ Cardinality(PendingBytes(d)') = queue[d].bytes + rows'[d][r].size
        BY <2>1, <3>2, <3>3, <4>1, AdmitCorrect DEF LedgerOK
      <4>3. /\ queue'[d].records = queue[d].records + 1
            /\ queue'[d].bytes = queue[d].bytes + size
        <5>1. queue'[d] = [records |-> queue[d].records + 1, bytes |-> queue[d].bytes + size]
          BY <1>4, <3>4, Zenon
        <5> QED BY <5>1
      <4>4. Cardinality(PendingBytes(d)') = queue[d].bytes + size
        BY <3>3, <4>2, Zenon
      <4> QED BY <4>2, <4>3, <4>4 DEF Counted
    <3>5. CASE d \notin room
      <4>1. Pending(d)' = Pending(d)
        BY <2>1, <3>1, <3>3, <3>5 DEF Pending
      <4>2. PendingBytes(d)' = PendingBytes(d)
        BY <3>2, <4>1, SameBytes
      <4> QED BY <1>4, <3>5, <4>1, <4>2 DEF Counted, LedgerOK
    <3> QED BY <3>4, <3>5
  <2> QED BY <2>2, <2>3
<1> QED BY <1>2, <1>10, <1>11, <1>12, <1>13 DEF LedgerOK

\* prune_kind: records, their rows, and the capacity their pending rows held.
LEMMA PruneOK ==
  ASSUME LedgerOK, NEW S \in SUBSET Ids, Prune(S)
  PROVE  LedgerOK'
<1>1. /\ records' = records \ S
      /\ rows' = [d \in Dests |-> [r \in Ids |-> IF r \in S THEN NoRow ELSE rows[d][r]]]
      /\ queue' = [d \in Dests |-> Release(d, S \cap Pending(d))[d]]
  BY DEF Prune
<1>2. NoRow \in Row /\ NoRow.status = "none"
  BY ByteConstants DEF NoRow, Row, Statuses
<1>3. rows' \in [Dests -> [Ids -> Row]]
  BY <1>1, <1>2 DEF LedgerOK
<1>4. RowsHaveRecords'
  BY <1>1, <1>2 DEF RowsHaveRecords, LedgerOK
<1>5. ASSUME NEW d \in Dests
      PROVE  queue'[d] \in [records : Nat, bytes : Nat] /\ Counted(d)'
  <2> DEFINE T == S \cap Pending(d)
  <2>1. \A r \in Ids : rows'[d][r] = IF r \in S THEN NoRow ELSE rows[d][r]
    BY <1>1
  <2>2. Pending(d)' = Pending(d) \ T
    BY <1>2, <2>1 DEF Pending
  <2>3. \A r \in Pending(d) \ T : rows'[d][r].size = rows[d][r].size
    BY <2>1 DEF Pending
  <2>4. T \subseteq Pending(d) /\ queue'[d] = Release(d, T)[d]
    BY <1>1
  <2>5. Counted(d) /\ queue \in [Dests -> [records : Nat, bytes : Nat]]
    BY DEF LedgerOK
  <2> HIDE DEF T
  <2>6. /\ Release(d, T) \in [Dests -> [records : Nat, bytes : Nat]]
        /\ Release(d, T)[d].records = Cardinality(Pending(d)')
        /\ Release(d, T)[d].bytes = Cardinality(PendingBytes(d)')
    BY <2>2, <2>3, <2>4, <2>5, ReleaseCorrect
  <2> QED BY <2>4, <2>6 DEF Counted
<1>6. queue' \in [Dests -> [records : Nat, bytes : Nat]]
  BY <1>1, <1>5
<1> QED BY <1>1, <1>3, <1>4, <1>5, <1>6 DEF LedgerOK

-----------------------------------------------------------------------------
(* The tasks and the other variables.                                      *)

\* Every variable outside the ledger has its type.
OthersOK ==
  /\ now \in Nat
  /\ policy \in Policies \cup {Unreadable}
  /\ up \in BOOLEAN
  /\ task \in [Dests -> Task]
  /\ queued \in [Dests -> SUBSET Ids]
  /\ copies \in [Dests -> [Ids -> 0 .. 2]]
  /\ doubtful \in [Dests -> SUBSET Ids]
  /\ faults \in Nat

\* The invariant is the ledger's part and the rest.
LEMMA IInvParts == IInv <=> LedgerOK /\ OthersOK /\ TaskHasPolicy
BY DEF IInv, TypeOK, LedgerOK, OthersOK, QueueMatchesPending, Counted

\* A task with nothing to do is a task.
LEMMA IdleOK == Idle \in Task /\ Idle.pc = "idle"
BY DEF Idle, Task, NoSeen, Seen, Pcs

\* The initial state satisfies the invariant: every table is empty.
LEMMA InitOK == Init => IInv
<1> SUFFICES ASSUME Init PROVE IInv
  OBVIOUS
<1>1. NoRow \in Row /\ NoRow.status = "none"
  BY ByteConstants DEF NoRow, Row, Statuses
<1>2. \A d \in Dests : Pending(d) = {} /\ PendingBytes(d) = {}
  BY <1>1 DEF Init, Pending, PendingBytes
<1>3. \A d \in Dests : Cardinality(Pending(d)) = 0 /\ Cardinality(PendingBytes(d)) = 0
  BY <1>2, FS_EmptySet, Zenon
<1>4. LedgerOK
  BY <1>1, <1>3 DEF Init, LedgerOK, RowsHaveRecords, Counted
<1>5. OthersOK
  <2>1. now \in Nat /\ policy \in Policies \cup {Unreadable} /\ up \in BOOLEAN /\ faults \in Nat
    BY DEF Init
  <2>2. task \in [Dests -> Task]
    BY IdleOK DEF Init
  <2>3. /\ queued \in [Dests -> SUBSET Ids]
        /\ copies \in [Dests -> [Ids -> 0 .. 2]]
        /\ doubtful \in [Dests -> SUBSET Ids]
    BY DEF Init
  <2> QED BY <2>1, <2>2, <2>3 DEF OthersOK
<1>6. TaskHasPolicy
  BY IdleOK DEF Init, TaskHasPolicy
<1> QED BY <1>4, <1>5, <1>6, IInvParts

\* The steps of a delivery task keep the types.
LEMMA DeliverOthersOK ==
  ASSUME OthersOK, LedgerOK, NEW d \in Dests, Deliver(d)
  PROVE  OthersOK'
<1>1. ASSUME NEW t \in Task, task' = [task EXCEPT ![d] = t],
             UNCHANGED <<now, policy, up, history, faults>>
      PROVE  OthersOK'
  BY <1>1 DEF OthersOK, history
<1>2. task[d] \in Task
  BY DEF OthersOK
<1>3. CASE Load(d)
  <2>1. PICK S \in SUBSET Ids : task' = [task EXCEPT ![d] =
            IF S = {} THEN Idle
            ELSE [Idle EXCEPT !.pc = "loaded", !.at = now, !.todo = S,
                    !.seen = [r \in Ids |->
                      IF r \in S
                      THEN [created |-> rows[d][r].created, attempts |-> rows[d][r].attempts]
                      ELSE NoSeen[r]]]]
    BY <1>3 DEF Load
  <2> DEFINE seen == [r \in Ids |->
                IF r \in S
                THEN [created |-> rows[d][r].created, attempts |-> rows[d][r].attempts]
                ELSE NoSeen[r]]
  <2>2. seen \in [Ids -> Seen]
    BY DEF LedgerOK, Row, Seen, NoSeen
  <2> HIDE DEF seen
  <2>3. [Idle EXCEPT !.pc = "loaded", !.at = now, !.todo = S, !.seen = seen] \in Task
    BY <2>2, IdleOK DEF Task, Pcs, OthersOK
  <2> QED BY <1>1, <1>3, <2>1, <2>3, IdleOK DEF Load, seen
<1>4. CASE BeginScreen(d)
  <2>1. policy \in Policies \cup {Unreadable}
    BY DEF OthersOK
  <2>2. [task[d] EXCEPT !.pc = "screening", !.policy = policy] \in Task
    BY <1>2, <2>1 DEF Task, Pcs
  <2> QED BY <1>1, <1>4, <2>2, IdleOK DEF BeginScreen
<1>5. CASE Recheck(d)
  <2>1. policy \in Policies \cup {Unreadable}
    BY DEF OthersOK
  <2>2. [task[d] EXCEPT !.pc = "sending", !.at = 0, !.policy = policy] \in Task
    BY <1>2, <2>1 DEF Task, Pcs
  <2> QED BY <1>1, <1>5, <2>2, IdleOK DEF Recheck
<1>6. ASSUME NEW r \in Ids, Screen(d, r) PROVE OthersOK'
  <2>1. \A todo, batch \in SUBSET Ids :
          [task[d] EXCEPT !.todo = todo, !.batch = batch] \in Task
    BY <1>2 DEF Task
  <2>2. task[d].todo \in SUBSET Ids /\ task[d].batch \in SUBSET Ids
    BY <1>2 DEF Task
  <2> QED BY <1>1, <1>6, <2>1, <2>2, IdleOK DEF Screen
<1>7. ASSUME NEW r \in Ids, Record(d, r) PROVE OthersOK'
  <2>1. [task[d] EXCEPT !.batch = task[d].batch \ {r}] \in Task
    BY <1>2 DEF Task
  <2> QED BY <1>1, <1>7, <2>1, IdleOK DEF Record
<1> QED BY <1>3, <1>4, <1>5, <1>6, <1>7 DEF Deliver

\* The steps of the collector, the environment and the receiver keep the types.
LEMMA AnswerOthersOK ==
  ASSUME OthersOK, NEW d \in Dests, Collect(d) \/ Answer(d) \/ Abort(d)
  PROVE  OthersOK'
<1>1. ASSUME NEW t \in Task, task' = [task EXCEPT ![d] = t] PROVE task' \in [Dests -> Task]
  BY <1>1 DEF OthersOK
<1>2. task[d] \in Task
  BY DEF OthersOK
<1>3. CASE Collect(d)
  <2>1. [task[d] EXCEPT !.taken = TRUE] \in Task
    BY <1>2 DEF Task
  <2>2. \A r \in Ids : Min2(2, copies[d][r] + 1) \in 0 .. 2 /\ copies[d][r] \in 0 .. 2
    BY DEF OthersOK, Min2
  <2>3. copies' \in [Dests -> [Ids -> 0 .. 2]]
    BY <1>3, <2>2 DEF Collect, OthersOK
  <2> QED BY <1>1, <1>3, <2>1, <2>3 DEF Collect, OthersOK
<1>4. CASE Accepted(d)
  <2>1. [task[d] EXCEPT !.pc = "accepted", !.at = now] \in Task
    BY <1>1, <1>2 DEF Task, Pcs, OthersOK
  <2> QED BY <1>1, <1>4, <2>1 DEF Accepted, OthersOK, history
<1>5. CASE Rejected(d)
  <2>1. [task[d] EXCEPT !.pc = "rejected", !.at = now] \in Task
    BY <1>1, <1>2 DEF Task, Pcs, OthersOK
  <2> QED BY <1>1, <1>5, <2>1 DEF Rejected, OthersOK, history
<1>6. CASE Lost(d)
  <2>1. PICK after \in RetryAfters :
          task' = [task EXCEPT ![d] = [task[d] EXCEPT !.pc = "retry", !.at = now, !.after = after]]
    BY <1>6 DEF Lost
  <2>2. after \in Nat
    BY OutboxAssumption
  <2>3. [task[d] EXCEPT !.pc = "retry", !.at = now, !.after = after] \in Task
    BY <1>1, <1>2, <2>2 DEF Task, Pcs, OthersOK
  <2>4. doubtful' \in [Dests -> SUBSET Ids]
    BY <1>2, <1>6 DEF Lost, OthersOK, Task
  <2> QED BY <1>1, <1>6, <2>1, <2>3, <2>4 DEF Lost, OthersOK
<1>7. CASE Abort(d)
  <2>1. Unsettled(d) \in SUBSET Ids
    BY <1>2 DEF Unsettled, Task
  <2>2. doubtful' \in [Dests -> SUBSET Ids]
    BY <1>7, <2>1 DEF Abort, OthersOK
  <2>3. faults' \in Nat
    BY <1>7 DEF Abort, OthersOK
  <2> QED BY <1>1, <1>7, <2>2, <2>3, IdleOK DEF Abort, OthersOK
<1> QED BY <1>3, <1>4, <1>5, <1>6, <1>7 DEF Answer

LEMMA OtherStepsOthersOK ==
  ASSUME OthersOK,
         \/ \E r \in Ids : Store(r)
         \/ \E S \in SUBSET Ids : Prune(S)
         \/ Tick \/ Stop \/ Start \/ Configure \/ Advance
  PROVE  OthersOK'
<1>1. ASSUME NEW r \in Ids, Store(r) PROVE OthersOK'
  BY <1>1 DEF Store, Commit, OthersOK
<1>2. ASSUME NEW S \in SUBSET Ids, Prune(S) PROVE OthersOK'
  BY <1>2 DEF Prune, OthersOK
<1>3. CASE Tick
  <2>1. [Idle EXCEPT !.pc = "started"] \in Task
    BY IdleOK DEF Task, Pcs
  <2> QED BY <1>3, <2>1 DEF Tick, OthersOK, history
<1>4. CASE Stop
  <2>1. \A d \in Dests : Unsettled(d) \in SUBSET Ids
    BY DEF Unsettled, Task, OthersOK
  <2>2. doubtful' \in [Dests -> SUBSET Ids]
    BY <1>4, <2>1 DEF Stop, OthersOK
  <2>3. task' \in [Dests -> Task]
    BY <1>4, IdleOK DEF Stop
  <2>4. up' \in BOOLEAN
    BY <1>4 DEF Stop
  <2>5. faults' \in Nat
    BY <1>4 DEF Stop, OthersOK
  <2>6. UNCHANGED <<now, policy, queued, copies>>
    BY <1>4 DEF Stop
  <2> QED BY <2>2, <2>3, <2>4, <2>5, <2>6 DEF OthersOK
<1>5. CASE Start
  BY <1>5 DEF Start, OthersOK, history
<1>6. CASE Configure
  BY <1>6 DEF Configure, OthersOK, history
<1>7. CASE Advance
  BY <1>7 DEF Advance, OthersOK, history
<1> QED BY <1>1, <1>2, <1>3, <1>4, <1>5, <1>6, <1>7

\* A task reads a configuration before it screens and before it sends.
LEMMA PolicyKept ==
  ASSUME OthersOK, TaskHasPolicy, [Next]_vars
  PROVE  TaskHasPolicy'
<1> DEFINE Holds(t) == t.pc \notin {"idle", "started", "loaded"} => t.policy \in Policies
<1>1. Holds(Idle)
  BY IdleOK
<1>2. \A d \in Dests : task[d] \in Task /\ Holds(task[d])
  BY DEF OthersOK, TaskHasPolicy
<1>3. SUFFICES ASSUME NEW d \in Dests PROVE Holds(task'[d])
  BY DEF TaskHasPolicy
<1>4. CASE task'[d] = task[d] \/ task'[d] = Idle
  BY <1>1, <1>2, <1>4
<1>5. CASE task'[d].pc \in {"started", "loaded"}
  BY <1>5
<1>6. CASE policy # Unreadable /\ task'[d].policy = policy
  BY <1>6 DEF OthersOK
<1>7. CASE task[d].pc \notin {"idle", "started", "loaded"} /\ task'[d].policy = task[d].policy
  BY <1>2, <1>7
<1> HIDE DEF Holds
<1>8. ASSUME NEW e \in Dests, Deliver(e) \/ Collect(e) \/ Answer(e) \/ Abort(e), e # d
      PROVE  task'[d] = task[d]
  <2>1. \E t : task' = [task EXCEPT ![e] = t]
    BY <1>8 DEF Deliver, Load, BeginScreen, Recheck, Screen, Record, Collect, Answer,
      Accepted, Rejected, Lost, Abort
  <2> QED BY <1>8, <2>1 DEF OthersOK
<1>9. ASSUME NEW t, task' = [task EXCEPT ![d] = t] PROVE task'[d] = t
  BY <1>9 DEF OthersOK
<1>10. CASE Load(d)
  <2>1. task'[d] = Idle \/ task'[d].pc = "loaded"
    BY <1>9, <1>10, IdleOK DEF Load, Task
  <2> QED BY <1>4, <1>5, <2>1
<1>11. CASE BeginScreen(d)
  <2>1. task'[d] = Idle \/ (policy # Unreadable /\ task'[d].policy = policy)
    <3>1. \/ task' = [task EXCEPT ![d] = Idle]
          \/ /\ policy # Unreadable
             /\ task' = [task EXCEPT ![d] = [task[d] EXCEPT !.pc = "screening", !.policy = policy]]
      BY <1>11 DEF BeginScreen
    <3> QED BY <1>2, <1>9, <3>1 DEF Task
  <2> QED BY <1>4, <1>6, <2>1
<1>12. CASE Recheck(d)
  <2>1. task'[d] = Idle \/ (policy # Unreadable /\ task'[d].policy = policy)
    <3>1. Sendable(d, policy) => policy # Unreadable
      BY DEF Sendable
    <3>2. task'[d] = Idle \/ (/\ Sendable(d, policy)
                             /\ task'[d] = [task[d] EXCEPT !.pc = "sending", !.at = 0, !.policy = policy])
      BY <1>9, <1>12 DEF Recheck
    <3> QED BY <1>2, <3>1, <3>2 DEF Task
  <2> QED BY <1>4, <1>6, <2>1
<1>13. ASSUME NEW r \in Ids, Screen(d, r) \/ Record(d, r) PROVE Holds(task'[d])
  <2>1. task[d].pc \notin {"idle", "started", "loaded"}
    BY <1>13 DEF Screen, Record
  <2>2. task'[d] = Idle \/ task'[d].policy = task[d].policy
    BY <1>2, <1>9, <1>13 DEF Screen, Record, Task
  <2> QED BY <1>4, <1>7, <2>1, <2>2
<1>14. CASE Collect(d) \/ Answer(d)
  <2>1. task[d].pc \notin {"idle", "started", "loaded"}
    BY <1>14 DEF Collect, Answer, Accepted, Rejected, Lost
  <2>2. task'[d].policy = task[d].policy
    <3>1. CASE Collect(d)
      BY <1>2, <1>9, <3>1 DEF Collect, Task
    <3>2. CASE Accepted(d)
      <4>1. task' = [task EXCEPT ![d] = [task[d] EXCEPT !.pc = "accepted", !.at = now]]
        BY <3>2 DEF Accepted
      <4> QED BY <1>2, <1>9, <4>1 DEF Task
    <3>3. CASE Rejected(d)
      <4>1. task' = [task EXCEPT ![d] = [task[d] EXCEPT !.pc = "rejected", !.at = now]]
        BY <3>3 DEF Rejected
      <4> QED BY <1>2, <1>9, <4>1 DEF Task
    <3>4. CASE Lost(d)
      <4>1. PICK after \in RetryAfters :
              task' = [task EXCEPT ![d] = [task[d] EXCEPT !.pc = "retry", !.at = now, !.after = after]]
        BY <3>4 DEF Lost
      <4> QED BY <1>2, <1>9, <4>1 DEF Task
    <3> QED BY <1>14, <3>1, <3>2, <3>3, <3>4 DEF Answer
  <2> QED BY <1>7, <2>1, <2>2
<1>15. CASE Abort(d)
  BY <1>4, <1>9, <1>15 DEF Abort
<1>16. CASE Tick
  <2>1. task'[d] = task[d] \/ task'[d] = [Idle EXCEPT !.pc = "started"]
    BY <1>16 DEF Tick
  <2>2. [Idle EXCEPT !.pc = "started"].pc = "started"
    BY IdleOK DEF Task
  <2> QED BY <1>4, <1>5, <2>1, <2>2
<1>17. CASE Stop
  BY <1>4, <1>17 DEF Stop
<1>18. CASE UNCHANGED task
  BY <1>4, <1>18
<1>19. \/ UNCHANGED task \/ Tick \/ Stop
       \/ \E e \in Dests : Deliver(e) \/ Collect(e) \/ Answer(e) \/ Abort(e)
  BY DEF Next, vars, Store, Commit, Prune, Start, Configure, Advance
<1>20. ASSUME NEW e \in Dests, Deliver(e) \/ Collect(e) \/ Answer(e) \/ Abort(e)
       PROVE  Holds(task'[d])
  <2>1. CASE e = d
    BY <1>10, <1>11, <1>12, <1>13, <1>14, <1>15, <1>20, <2>1 DEF Deliver
  <2>2. CASE e # d
    BY <1>4, <1>8, <1>20, <2>2
  <2> QED BY <2>1, <2>2
<1> QED BY <1>16, <1>17, <1>18, <1>19, <1>20

\* The next attempt is a time.
LEMMA NextAttemptType ==
  ASSUME NEW at \in Nat, NEW seen \in Seen, NEW target \in Target, NEW after \in Nat
  PROVE  NextAttempt(at, seen, target, after) \in Nat
<1>1. seen.created \in Nat /\ seen.attempts \in Nat /\ target.queueAge \in Nat
  BY DEF Seen, Target
<1>2. Backoff(seen.attempts) \in Nat
  <2>1. Min2(seen.attempts, 10) + 1 \in 1 .. 11
    BY <1>1 DEF Min2
  <2>2. \A i \in 1 .. 11 : Doublings[i] \in Nat
    BY DEF Doublings
  <2>3. BackoffUnit \in Nat /\ BackoffCap \in Nat
    BY OutboxAssumption
  <2> DEFINE n == Doublings[Min2(seen.attempts, 10) + 1]
  <2>4. n \in Nat
    BY <2>1, <2>2
  <2> HIDE DEF n
  <2>5. BackoffUnit * n \in Nat
    BY <2>3, <2>4
  <2> QED BY <2>3, <2>5 DEF Backoff, Min2, n
<1> QED BY <1>1, <1>2 DEF NextAttempt, Min2, Max2

\* What a delivery task writes to the ledger is one of its transactions.
LEMMA DeliverLedgerOK ==
  ASSUME LedgerOK, OthersOK, TaskHasPolicy, NEW d \in Dests, Deliver(d)
  PROVE  LedgerOK'
<1>1. CASE Load(d) \/ Recheck(d)
  BY <1>1, LedgerUnchanged DEF Load, Recheck
<1>2. CASE BeginScreen(d)
  BY <1>2, LedgerUnchanged, CancelOK DEF BeginScreen, ledger
<1>3. ASSUME NEW r \in Ids, Screen(d, r) PROVE LedgerOK'
  <2>1. UNCHANGED records
    BY <1>3 DEF Screen
  <2>2. \A p, seen, t : Verdict(p, d, r, seen, t) \in {"cancelled", "expired", "failed", "pending"}
    BY DEF Verdict
  <2>3. \/ UNCHANGED <<rows, queue>>
        \/ \E verdict \in {"cancelled", "expired", "failed"} : Finish(d, r, verdict, task[d].at, 0)
    BY <1>3, <2>2 DEF Screen
  <2>4. CASE UNCHANGED <<rows, queue>>
    BY <2>1, <2>4, LedgerUnchanged DEF ledger
  <2>5. ASSUME NEW verdict \in {"cancelled", "expired", "failed"}, Finish(d, r, verdict, task[d].at, 0)
        PROVE  LedgerOK'
    <3>1. verdict \in Statuses \ {"none"} /\ task[d].at \in Nat
      BY DEF Statuses, OthersOK, Task
    <3> QED BY <2>1, <2>5, <3>1, FinishOK
  <2> QED BY <2>3, <2>4, <2>5
<1>4. ASSUME NEW r \in Ids, Record(d, r) PROVE LedgerOK'
  <2> DEFINE t    == task[d]
             next == IF Outcome(d, r) = "pending"
                     THEN NextAttempt(t.at, t.seen[r], t.policy.target[d], t.after) ELSE t.at
  <2>1. UNCHANGED records /\ Finish(d, r, Outcome(d, r), next, 1)
    BY <1>4 DEF Record
  <2>2. Outcome(d, r) \in Statuses \ {"none"}
    BY DEF Outcome, Statuses
  <2>3. next \in Nat
    <3>0. t.at \in Nat
      BY DEF OthersOK, Task
    <3>1. CASE Outcome(d, r) = "pending"
      <4>1. task[d].pc = "retry"
        BY <3>1 DEF Outcome
      <4>2. t \in Task /\ t.policy \in Policy
        BY <4>1, OutboxAssumption DEF OthersOK, TaskHasPolicy
      <4>3. t.seen[r] \in Seen /\ t.policy.target[d] \in Target /\ t.after \in Nat
        BY <4>2 DEF Task, Policy
      <4> QED BY <3>0, <3>1, <4>3, NextAttemptType
    <3>2. CASE Outcome(d, r) # "pending"
      BY <3>0, <3>2
    <3> QED BY <3>1, <3>2
  <2> HIDE DEF next
  <2> QED BY <2>1, <2>2, <2>3, FinishOK
<1> QED BY <1>1, <1>2, <1>3, <1>4 DEF Deliver

\* Every step preserves the invariant.
LEMMA NextOK == IInv /\ [Next]_vars => IInv'
<1> SUFFICES ASSUME LedgerOK, OthersOK, TaskHasPolicy, [Next]_vars PROVE LedgerOK' /\ OthersOK'
  <2>1. IInv' <=> (LedgerOK' /\ OthersOK' /\ TaskHasPolicy')
    BY IInvParts, PTL
  <2> QED BY <2>1, IInvParts, PolicyKept
<1>1. CASE UNCHANGED vars
  BY <1>1, LedgerUnchanged DEF vars, ledger, OthersOK
<1>2. ASSUME NEW r \in Ids, Store(r) PROVE LedgerOK' /\ OthersOK'
  BY <1>2, StoreOK, OtherStepsOthersOK DEF OthersOK
<1>3. ASSUME NEW S \in SUBSET Ids, Prune(S) PROVE LedgerOK' /\ OthersOK'
  BY <1>3, PruneOK, OtherStepsOthersOK
<1>4. ASSUME NEW d \in Dests, Deliver(d) PROVE LedgerOK' /\ OthersOK'
  BY <1>4, DeliverLedgerOK, DeliverOthersOK
<1>5. ASSUME NEW d \in Dests, Collect(d) \/ Answer(d) \/ Abort(d) PROVE LedgerOK' /\ OthersOK'
  <2>1. UNCHANGED ledger
    BY <1>5 DEF Collect, Answer, Accepted, Rejected, Lost, Abort
  <2> QED BY <1>5, <2>1, LedgerUnchanged, AnswerOthersOK
<1>6. CASE Tick \/ Stop \/ Start \/ Configure \/ Advance
  <2>1. UNCHANGED ledger
    BY <1>6 DEF Tick, Stop, Start, Configure, Advance
  <2> QED BY <1>6, <2>1, LedgerUnchanged, OtherStepsOthersOK
<1> QED BY <1>1, <1>2, <1>3, <1>4, <1>5, <1>6 DEF Next

\* The inductive invariant holds in every reachable state.
THEOREM Invariant == Spec => []IInv
<1>1. Init => IInv
  BY InitOK
<1>2. IInv /\ [Next]_vars => IInv'
  BY NextOK
<1> QED BY <1>1, <1>2, PTL DEF Spec

\* Every variable keeps its type; no queue counter ever goes below zero.
THEOREM TypeCorrect == Spec => []TypeOK
<1>1. IInv => TypeOK
  BY DEF IInv
<1> QED BY <1>1, Invariant, PTL

\* The queue counters always equal the pending rows and their bytes.
THEOREM CountersCorrect == Spec => []QueueMatchesPending
<1>1. IInv => QueueMatchesPending
  BY DEF IInv
<1> QED BY <1>1, Invariant, PTL

\* No delivery row outlives its record.
THEOREM RowsCorrect == Spec => []RowsHaveRecords
<1>1. IInv => RowsHaveRecords
  BY DEF IInv
<1> QED BY <1>1, Invariant, PTL

-----------------------------------------------------------------------------
(* What a delivery task holds against the rows and the collector.          *)

\* The records a delivery task of d has read and not settled.
Held(d) == task[d].todo \cup task[d].batch

\* Where a task is tells what it holds, and what its request has come to.
Phases(d) ==
  /\ task[d].pc \in {"idle", "started"} => Held(d) = {}
  /\ task[d].pc = "loaded" => task[d].batch = {}
  /\ task[d].pc \notin {"loaded", "screening"} => task[d].todo = {}
  /\ task[d].todo \cap task[d].batch = {}
  /\ task[d].taken => task[d].pc \in {"sending", "accepted", "rejected", "retry"}
  /\ task[d].taken => \A r \in task[d].batch : copies[d][r] > 0
  /\ task[d].pc = "accepted" => task[d].taken
  /\ task[d].pc = "retry" => task[d].batch \subseteq doubtful[d]

\* What is pending or held was queued.
WasQueued(d) == Pending(d) \cup Held(d) \subseteq queued[d]

\* What a task remembers of a row is no newer than the row: retention may have
\* removed the row meanwhile, and a writer put a younger one in its place.
SeenIsOld(d) ==
  \A r \in Ids :
    /\ rows[d][r].created <= now
    /\ r \in Held(d) =>
         /\ task[d].seen[r].created <= now
         /\ rows[d][r].status = "pending" =>
              /\ task[d].seen[r].created <= rows[d][r].created
              /\ rows[d][r].attempts <= task[d].seen[r].attempts

\* A record without doubt that is held is pending; one that was taken was taken
\* once, and is settled or in the batch whose request took it.
Accounted(d) ==
  \A r \in Ids \ doubtful[d] :
    /\ r \in Held(d) => rows[d][r].status = "pending"
    /\ copies[d][r] <= 1
    /\ copies[d][r] = 1 => \/ task[d].taken /\ r \in task[d].batch
                           \/ rows[d][r].status \notin {"none", "pending"}

Delivery(d) == Phases(d) /\ WasQueued(d) /\ SeenIsOld(d) /\ Accounted(d)

DeliveryInv == \A d \in Dests : Delivery(d)

\* A destination a step does not touch: only the clock, and doubt, may grow.
LEMMA DeliveryFrame ==
  ASSUME NEW d \in Dests, Delivery(d), now \in Nat, now' \in Nat, now <= now',
         rows \in [Dests -> [Ids -> Row]], task[d] \in Task,
         task'[d] = task[d], rows'[d] = rows[d], copies'[d] = copies[d],
         queued'[d] = queued[d], doubtful[d] \subseteq doubtful'[d]
  PROVE  Delivery(d)'
<1>1. Held(d)' = Held(d) /\ Pending(d)' = Pending(d)
  BY DEF Held, Pending
<1>2. Phases(d)' /\ WasQueued(d)' /\ Accounted(d)'
  BY <1>1 DEF Delivery, Phases, WasQueued, Accounted
<1>3. SeenIsOld(d)'
  <2>1. \A r \in Ids : rows[d][r].created \in Nat /\ task[d].seen[r].created \in Nat
    BY DEF Row, Task, Seen
  <2> QED BY <1>1, <2>1 DEF Delivery, SeenIsOld
<1> QED BY <1>2, <1>3 DEF Delivery

\* A task that ends leaves nothing in flight but what it doubts.
LEMMA IdleDelivery ==
  ASSUME NEW d \in Dests, Delivery(d), task'[d] = Idle,
         rows'[d] = rows[d], copies'[d] = copies[d], queued'[d] = queued[d], now' = now,
         doubtful'[d] = doubtful[d] \cup Unsettled(d)
  PROVE  Delivery(d)'
<1>1. Held(d)' = {} /\ task'[d].pc = "idle" /\ task'[d].todo = {} /\ task'[d].batch = {} /\ ~task'[d].taken
  BY DEF Held, Idle
<1>2. Pending(d)' = Pending(d)
  BY DEF Pending
<1>3. Phases(d)' /\ WasQueued(d)' /\ SeenIsOld(d)'
  BY <1>1, <1>2 DEF Delivery, Phases, WasQueued, SeenIsOld
<1>4. Accounted(d)'
  BY <1>1 DEF Delivery, Accounted, Phases, Unsettled
<1> QED BY <1>3, <1>4 DEF Delivery

\* Reading a batch: what is read is pending, as old as it is remembered.
LEMMA LoadDelivery ==
  ASSUME LedgerOK, OthersOK, NEW d \in Dests, Delivery(d), Load(d)
  PROVE  Delivery(d)'
<1>1. PICK S \in SUBSET Ids :
        /\ IsDueBatch(S, d)
        /\ task' = [task EXCEPT ![d] =
             IF S = {} THEN Idle
             ELSE [Idle EXCEPT !.pc = "loaded", !.at = now, !.todo = S,
                     !.seen = [r \in Ids |->
                       IF r \in S
                       THEN [created |-> rows[d][r].created, attempts |-> rows[d][r].attempts]
                       ELSE NoSeen[r]]]]
  BY DEF Load
<1>2. /\ task[d].pc = "started"
      /\ UNCHANGED <<now, policy, up, records, rows, queue, queued, copies, doubtful, faults>>
  BY DEF Load, ledger, history
<1>3. S \subseteq Pending(d)
  BY <1>1 DEF IsDueBatch, Due
<1>4. CASE S = {}
  <2>1. task'[d] = Idle /\ Unsettled(d) = {}
    BY <1>1, <1>2, <1>4 DEF OthersOK, Unsettled
  <2> QED BY <1>2, <2>1, IdleDelivery
<1>5. CASE S # {}
  <2>1. /\ task'[d].pc = "loaded" /\ task'[d].todo = S /\ task'[d].batch = {} /\ ~task'[d].taken
        /\ \A r \in S : /\ task'[d].seen[r].created = rows[d][r].created
                        /\ task'[d].seen[r].attempts = rows[d][r].attempts
    BY <1>1, <1>5 DEF OthersOK, Idle
  <2>2. Held(d)' = S /\ Pending(d)' = Pending(d)
    BY <1>2, <2>1 DEF Held, Pending
  <2>3. Phases(d)'
    BY <2>1, <2>2 DEF Phases
  <2>4. WasQueued(d)'
    BY <1>2, <1>3, <2>2 DEF Delivery, WasQueued
  <2>5. SeenIsOld(d)'
    <3>1. \A r \in Ids : rows[d][r].created \in Nat /\ rows[d][r].attempts \in Nat
      BY DEF LedgerOK, Row
    <3> QED BY <1>2, <2>1, <2>2, <3>1 DEF Delivery, SeenIsOld
  <2>6. Accounted(d)'
    <3>1. ~task[d].taken
      BY <1>2 DEF Delivery, Phases
    <3> QED BY <1>2, <1>3, <2>2, <3>1 DEF Delivery, Accounted, Pending
  <2> QED BY <2>3, <2>4, <2>5, <2>6 DEF Delivery
<1> QED BY <1>4, <1>5

\* The configuration decides that the batch is screened, or that nothing of the
\* destination stays pending.
LEMMA BeginScreenDelivery ==
  ASSUME LedgerOK, OthersOK, NEW d \in Dests, Delivery(d), BeginScreen(d)
  PROVE  Delivery(d)'
<1>1. /\ task[d].pc = "loaded"
      /\ UNCHANGED <<now, policy, up, records, queued, copies, doubtful, faults>>
  BY DEF BeginScreen, history
<1>2. CASE task' = [task EXCEPT ![d] = Idle] /\ UNCHANGED <<rows, queue>>
  <2>1. task'[d] = Idle /\ Unsettled(d) = {}
    BY <1>1, <1>2 DEF OthersOK, Unsettled
  <2> QED BY <1>1, <1>2, <2>1, IdleDelivery
<1>3. CASE /\ task' = [task EXCEPT ![d] = [task[d] EXCEPT !.pc = "screening", !.policy = policy]]
           /\ UNCHANGED <<rows, queue>>
  <2>1. task'[d] = [task[d] EXCEPT !.pc = "screening", !.policy = policy]
    BY <1>3 DEF OthersOK
  <2>2. /\ task'[d].pc = "screening" /\ task'[d].todo = task[d].todo
        /\ task'[d].batch = task[d].batch /\ task'[d].taken = task[d].taken
        /\ task'[d].seen = task[d].seen
    BY <2>1 DEF OthersOK, Task
  <2>3. Held(d)' = Held(d) /\ Pending(d)' = Pending(d)
    BY <1>3, <2>2 DEF Held, Pending
  <2>4. Phases(d)' /\ WasQueued(d)' /\ SeenIsOld(d)' /\ Accounted(d)'
    BY <1>1, <1>3, <2>2, <2>3 DEF Delivery, Phases, WasQueued, SeenIsOld, Accounted
  <2> QED BY <2>4 DEF Delivery
<1>4. CASE task' = [task EXCEPT ![d] = Idle] /\ CancelDestination(d)
  <2>1. /\ task'[d] = Idle
        /\ Held(d)' = {} /\ task'[d].pc = "idle" /\ task'[d].todo = {} /\ task'[d].batch = {}
        /\ ~task'[d].taken
    BY <1>4 DEF OthersOK, Held, Idle
  <2>2. \A r \in Ids : /\ rows'[d][r].created = rows[d][r].created
                       /\ rows'[d][r].status # "pending"
                       /\ rows[d][r].status # "pending" => rows'[d][r].status = rows[d][r].status
                       /\ rows[d][r].status = "pending" => rows'[d][r].status = "cancelled"
    BY <1>4 DEF CancelDestination, Pending, LedgerOK, Row
  <2>3. Pending(d)' = {}
    BY <2>2 DEF Pending
  <2>4. Phases(d)' /\ WasQueued(d)'
    BY <2>1, <2>3 DEF Phases, WasQueued
  <2>5. SeenIsOld(d)'
    BY <1>1, <2>1, <2>2 DEF Delivery, SeenIsOld
  <2>6. Accounted(d)'
    BY <1>1, <2>1, <2>2 DEF Delivery, Accounted, Phases
  <2> QED BY <2>4, <2>5, <2>6 DEF Delivery
<1> QED BY <1>2, <1>3, <1>4 DEF BeginScreen

\* The configuration is read again: the batch is sent as it is, or given up.
LEMMA RecheckDelivery ==
  ASSUME LedgerOK, OthersOK, NEW d \in Dests, Delivery(d), Recheck(d)
  PROVE  Delivery(d)'
<1>1. /\ task[d].pc = "screening" /\ task[d].todo = {}
      /\ UNCHANGED <<now, policy, up, records, rows, queue, queued, copies, doubtful, faults>>
  BY DEF Recheck, ledger, history
<1>2. CASE task' = [task EXCEPT ![d] = Idle]
  <2>1. task'[d] = Idle /\ Unsettled(d) = {}
    BY <1>1, <1>2 DEF OthersOK, Unsettled
  <2> QED BY <1>1, <2>1, IdleDelivery
<1>3. CASE task' = [task EXCEPT ![d] = [task[d] EXCEPT !.pc = "sending", !.at = 0, !.policy = policy]]
  <2>1. task'[d] = [task[d] EXCEPT !.pc = "sending", !.at = 0, !.policy = policy]
    BY <1>3 DEF OthersOK
  <2>2. /\ task'[d].pc = "sending" /\ task'[d].todo = {}
        /\ task'[d].batch = task[d].batch /\ task'[d].taken = task[d].taken
        /\ task'[d].seen = task[d].seen
    BY <1>1, <2>1 DEF OthersOK, Task
  <2>3. Held(d)' = Held(d) /\ Pending(d)' = Pending(d)
    BY <1>1, <2>2 DEF Held, Pending
  <2>4. Phases(d)' /\ WasQueued(d)' /\ SeenIsOld(d)' /\ Accounted(d)'
    BY <1>1, <2>2, <2>3 DEF Delivery, Phases, WasQueued, SeenIsOld, Accounted
  <2> QED BY <2>4 DEF Delivery
<1> QED BY <1>2, <1>3 DEF Recheck

\* What finish does to the rows of its destination: only the row it is about,
\* and only if that is pending.
LEMMA FinishRows ==
  ASSUME rows \in [Dests -> [Ids -> Row]], NEW d \in Dests, NEW r \in Ids, NEW status, NEW next,
         NEW attempted, Finish(d, r, status, next, attempted)
  PROVE  /\ \A e \in Dests \ {d} : rows'[e] = rows[e]
         /\ \A q \in Ids :
              /\ rows'[d][q].created = rows[d][q].created
              /\ rows'[d][q].size = rows[d][q].size
              /\ q # r \/ rows[d][q].status # "pending" => rows'[d][q] = rows[d][q]
              /\ q = r /\ rows[d][q].status = "pending" => rows'[d][q].status = status
<1>1. rows' = [rows EXCEPT ![d] = [q \in Ids |->
        IF q \in Settled(d, r)
        THEN WithOutcome(rows[d][q], status, next, attempted) ELSE rows[d][q]]]
  BY DEF Finish
<1>2. \A e \in Dests \ {d} : rows'[e] = rows[e]
  BY <1>1
<1>3. \A q \in Ids : rows'[d][q] =
        IF q = r /\ rows[d][q].status = "pending"
        THEN WithOutcome(rows[d][q], status, next, attempted) ELSE rows[d][q]
  BY <1>1 DEF Settled, Pending
<1>4. \A q \in Ids :
        /\ WithOutcome(rows[d][q], status, next, attempted).created = rows[d][q].created
        /\ WithOutcome(rows[d][q], status, next, attempted).size = rows[d][q].size
        /\ WithOutcome(rows[d][q], status, next, attempted).status = status
  BY DEF WithOutcome
<1> QED BY <1>2, <1>3, <1>4

\* A record is screened: it joins the batch, or its row has its outcome.
LEMMA ScreenDelivery ==
  ASSUME LedgerOK, OthersOK, NEW d \in Dests, Delivery(d), NEW r \in Ids, Screen(d, r)
  PROVE  Delivery(d)'
<1> DEFINE t       == task[d]
           blocked == Verdict(t.policy, d, r, t.seen[r], t.at)
           verdict == IF blocked = "pending" /\ r \in Unsendable THEN "failed" ELSE blocked
           left    == t.todo \ {r}
           batch   == IF verdict = "pending" THEN t.batch \cup {r} ELSE t.batch
<1>1. /\ t.pc = "screening" /\ r \in t.todo
      /\ UNCHANGED <<now, policy, up, records, queued, copies, doubtful, faults>>
      /\ task' = [task EXCEPT ![d] =
           IF left \cup batch = {} THEN Idle ELSE [t EXCEPT !.todo = left, !.batch = batch]]
      /\ IF verdict = "pending"
         THEN UNCHANGED <<rows, queue>>
         ELSE Finish(d, r, verdict, t.at, 0)
  BY DEF Screen, history
<1>2. verdict \in {"cancelled", "expired", "failed", "pending"}
  BY DEF Verdict
<1>3. r \notin t.batch /\ ~t.taken
  BY <1>1 DEF Delivery, Phases
<1> HIDE DEF verdict
<1>4. \A q \in Ids : /\ rows'[d][q].created = rows[d][q].created
                     /\ q # r \/ verdict = "pending" => rows'[d][q] = rows[d][q]
                     /\ rows[d][q].status # "pending" => rows'[d][q] = rows[d][q]
                     /\ q = r /\ rows[d][q].status = "pending" => rows'[d][q].status = verdict
  BY <1>1, FinishRows DEF LedgerOK
<1>5. Pending(d)' \subseteq Pending(d)
  BY <1>4 DEF Pending
<1>6. /\ task'[d].todo = left /\ task'[d].batch = batch /\ ~task'[d].taken
      /\ left \cup batch = {} => task'[d].pc = "idle"
      /\ left \cup batch # {} => task'[d].pc = "screening" /\ task'[d].seen = t.seen
  <2>1. CASE left \cup batch = {}
    <3>1. task'[d] = Idle
      BY <1>1, <2>1 DEF OthersOK
    <3> QED BY <2>1, <3>1 DEF Idle
  <2>2. CASE left \cup batch # {}
    <3>1. task'[d] = [t EXCEPT !.todo = left, !.batch = batch]
      BY <1>1, <2>2 DEF OthersOK
    <3> QED BY <1>1, <1>3, <2>2, <3>1 DEF OthersOK, Task
  <2> QED BY <2>1, <2>2
<1>7. Held(d)' \subseteq Held(d) /\ (verdict # "pending" => r \notin Held(d)')
  BY <1>1, <1>3, <1>6 DEF Held
<1>8. Phases(d)'
  BY <1>1, <1>3, <1>6 DEF Phases, Held, Delivery
<1>9. WasQueued(d)'
  BY <1>1, <1>5, <1>7 DEF WasQueued, Delivery
<1>10. SeenIsOld(d)'
  <2>1. \A q \in Ids : q \in Held(d)' => task'[d].seen = t.seen
    BY <1>6 DEF Held
  <2>2. \A q \in Ids : q \in Held(d)' => q \in Held(d) /\ (q # r \/ verdict = "pending")
    BY <1>7
  <2> QED BY <1>1, <1>4, <2>1, <2>2 DEF SeenIsOld, Delivery
<1>11. Accounted(d)'
  <2>1. \A q \in Ids : q \in Held(d)' => q \in Held(d) /\ (q # r \/ verdict = "pending")
    BY <1>7
  <2>2. \A q \in Ids : rows[d][q].status # "pending" => rows'[d][q].status = rows[d][q].status
    BY <1>4
  <2> QED BY <1>1, <1>3, <1>4, <2>1, <2>2 DEF Accounted, Delivery
<1> QED BY <1>8, <1>9, <1>10, <1>11 DEF Delivery

\* An answer's outcome is recorded for one record of the batch.
LEMMA RecordDelivery ==
  ASSUME LedgerOK, OthersOK, NEW d \in Dests, Delivery(d), NEW r \in Ids, Record(d, r)
  PROVE  Delivery(d)'
<1> DEFINE t    == task[d]
           out  == Outcome(d, r)
           next == IF out = "pending"
                   THEN NextAttempt(t.at, t.seen[r], t.policy.target[d], t.after) ELSE t.at
<1>1. /\ t.pc \in {"accepted", "rejected", "retry"} /\ r \in t.batch
      /\ UNCHANGED <<now, policy, up, records, queued, copies, doubtful, faults>>
      /\ task' = [task EXCEPT ![d] =
           IF t.batch = {r} THEN Idle ELSE [t EXCEPT !.batch = t.batch \ {r}]]
      /\ Finish(d, r, out, next, 1)
  BY DEF Record, history
<1>2. /\ out \in {"delivered", "pending", "failed"}
      /\ out = "pending" => t.pc = "retry"
  BY DEF Outcome
<1>3. out = "pending" => r \in doubtful[d]
  BY <1>1, <1>2 DEF Delivery, Phases
<1> HIDE DEF out, next
<1>4. \A q \in Ids : /\ rows'[d][q].created = rows[d][q].created
                     /\ q # r \/ rows[d][q].status # "pending" => rows'[d][q] = rows[d][q]
                     /\ q = r /\ rows[d][q].status = "pending" => rows'[d][q].status = out
  BY <1>1, FinishRows DEF LedgerOK
<1>5. Pending(d)' \subseteq Pending(d)
  BY <1>4 DEF Pending
<1>6. /\ task'[d].todo = {} /\ task'[d].batch = t.batch \ {r}
      /\ t.batch = {r} => task'[d].pc = "idle" /\ ~task'[d].taken
      /\ t.batch # {r} => /\ task'[d].pc = t.pc /\ task'[d].taken = t.taken
                          /\ task'[d].seen = t.seen
  <2>1. CASE t.batch = {r}
    <3>1. task'[d] = Idle
      BY <1>1, <2>1 DEF OthersOK
    <3> QED BY <2>1, <3>1 DEF Idle
  <2>2. CASE t.batch # {r}
    <3>1. task'[d] = [t EXCEPT !.batch = t.batch \ {r}]
      BY <1>1, <2>2 DEF OthersOK
    <3>2. t.todo = {}
      BY <1>1 DEF Delivery, Phases
    <3> QED BY <1>1, <2>2, <3>1, <3>2 DEF OthersOK, Task
  <2> QED BY <2>1, <2>2
<1>7. Held(d)' = t.batch \ {r} /\ Held(d)' \subseteq Held(d)
  BY <1>6 DEF Held
<1>8. Phases(d)'
  BY <1>1, <1>6, <1>7 DEF Phases, Delivery
<1>9. WasQueued(d)'
  BY <1>1, <1>5, <1>7 DEF WasQueued, Delivery
<1>10. SeenIsOld(d)'
  <2>1. \A q \in Ids : q \in Held(d)' => task'[d].seen = t.seen /\ q \in Held(d) /\ q # r
    BY <1>6, <1>7
  <2> QED BY <1>1, <1>4, <2>1 DEF SeenIsOld, Delivery
<1>11. Accounted(d)'
  <2>1. \A q \in Ids : q \in Held(d)' => q \in Held(d) /\ q # r
    BY <1>7
  <2>2. \A q \in Ids \ {r} : rows'[d][q] = rows[d][q]
    BY <1>4
  <2>3. \A q \in Ids \ doubtful'[d] : q # r => (q \in Held(d)' => rows'[d][q].status = "pending")
    BY <1>1, <2>1, <2>2 DEF Accounted, Delivery
  <2>4. \A q \in Ids \ doubtful'[d] :
          copies'[d][q] = 1 => \/ task'[d].taken /\ q \in task'[d].batch
                               \/ rows'[d][q].status \notin {"none", "pending"}
    <3> SUFFICES ASSUME NEW q \in Ids \ doubtful'[d], copies'[d][q] = 1
                 PROVE  \/ task'[d].taken /\ q \in task'[d].batch
                        \/ rows'[d][q].status \notin {"none", "pending"}
      OBVIOUS
    <3>1. \/ t.taken /\ q \in t.batch
          \/ rows[d][q].status \notin {"none", "pending"}
      BY <1>1 DEF Accounted, Delivery
    <3>2. CASE q = r
      <4>1. rows[d][r].status = "pending" \/ rows'[d][r] = rows[d][r]
        BY <1>4
      <4>2. r \in Held(d) /\ q \notin doubtful[d]
        BY <1>1 DEF Held
      <4>3. rows[d][r].status = "pending"
        BY <3>2, <4>2 DEF Accounted, Delivery
      <4>4. rows'[d][r].status = out /\ out # "pending"
        BY <1>3, <1>4, <3>2, <4>2, <4>3
      <4> QED BY <1>2, <3>2, <4>4
    <3>3. CASE q # r
      BY <1>6, <2>2, <3>1, <3>3
    <3> QED BY <3>2, <3>3
  <2>5. r \notin Held(d)' /\ \A q \in Ids \ doubtful'[d] : copies'[d][q] <= 1
    BY <1>1, <1>7 DEF Accounted, Delivery
  <2> QED BY <2>3, <2>4, <2>5 DEF Accounted
<1> QED BY <1>8, <1>9, <1>10, <1>11 DEF Delivery

\* The collector takes the batch, once for this request.
LEMMA CollectDelivery ==
  ASSUME LedgerOK, OthersOK, NEW d \in Dests, Delivery(d), Collect(d)
  PROVE  Delivery(d)'
<1>1. /\ task[d].pc = "sending" /\ ~task[d].taken
      /\ UNCHANGED <<now, policy, up, records, rows, queue, queued, doubtful, faults>>
      /\ copies' = [copies EXCEPT ![d] = [r \in Ids |->
           IF r \in task[d].batch THEN Min2(2, copies[d][r] + 1) ELSE copies[d][r]]]
      /\ task' = [task EXCEPT ![d] = [task[d] EXCEPT !.taken = TRUE]]
  BY DEF Collect, ledger
<1>2. /\ task'[d].pc = "sending" /\ task'[d].todo = task[d].todo /\ task'[d].batch = task[d].batch
      /\ task'[d].taken /\ task'[d].seen = task[d].seen
  <2>1. task'[d] = [task[d] EXCEPT !.taken = TRUE]
    BY <1>1 DEF OthersOK
  <2> QED BY <1>1, <2>1 DEF OthersOK, Task
<1>3. \A r \in Ids : /\ copies[d][r] \in 0 .. 2
                     /\ r \in task[d].batch => copies'[d][r] > 0
                     /\ r \in task[d].batch /\ copies[d][r] = 0 => copies'[d][r] = 1
                     /\ r \notin task[d].batch => copies'[d][r] = copies[d][r]
  BY <1>1 DEF OthersOK, Min2
<1>4. Held(d)' = Held(d) /\ Pending(d)' = Pending(d)
  BY <1>1, <1>2 DEF Held, Pending
<1>5. task[d].batch \subseteq Ids
  BY DEF OthersOK, Task
<1>6. Phases(d)'
  BY <1>1, <1>2, <1>3, <1>4, <1>5 DEF Delivery, Phases
<1>7. WasQueued(d)' /\ SeenIsOld(d)'
  BY <1>1, <1>2, <1>4 DEF Delivery, WasQueued, SeenIsOld
<1>8. Accounted(d)'
  <2>1. \A r \in Ids \ doubtful[d] : r \in task[d].batch => copies[d][r] = 0
    BY <1>1, <1>3 DEF Delivery, Accounted, Held
  <2> QED BY <1>1, <1>2, <1>3, <1>4, <2>1 DEF Delivery, Accounted
<1> QED BY <1>6, <1>7, <1>8 DEF Delivery

\* An answer ends the request; an unclear one casts doubt on the whole batch.
LEMMA AnswerDelivery ==
  ASSUME LedgerOK, OthersOK, NEW d \in Dests, Delivery(d), Answer(d)
  PROVE  Delivery(d)'
<1>1. /\ task[d].pc = "sending"
      /\ UNCHANGED <<now, policy, up, records, rows, queue, queued, copies, faults>>
  BY DEF Answer, Accepted, Rejected, Lost, ledger, history
<1>2. \E after : \E pc \in {"accepted", "rejected", "retry"} :
        /\ task'[d] = [task[d] EXCEPT !.pc = pc, !.at = now, !.after = after]
        /\ pc = "accepted" => task[d].taken
        /\ doubtful'[d] = IF pc = "retry" THEN doubtful[d] \cup task[d].batch ELSE doubtful[d]
  <2>1. CASE Accepted(d)
    <3>1. task' = [task EXCEPT ![d] = [task[d] EXCEPT !.pc = "accepted", !.at = now]]
      BY <2>1 DEF Accepted
    <3>2. task'[d] = [task[d] EXCEPT !.pc = "accepted", !.at = now, !.after = task[d].after]
      BY <3>1 DEF OthersOK, Task
    <3> QED BY <2>1, <3>2 DEF Accepted, history
  <2>2. CASE Rejected(d)
    <3>1. task' = [task EXCEPT ![d] = [task[d] EXCEPT !.pc = "rejected", !.at = now]]
      BY <2>2 DEF Rejected
    <3>2. task'[d] = [task[d] EXCEPT !.pc = "rejected", !.at = now, !.after = task[d].after]
      BY <3>1 DEF OthersOK, Task
    <3> QED BY <2>2, <3>2 DEF Rejected, history
  <2>3. CASE Lost(d)
    <3>1. PICK after \in RetryAfters : task' = [task EXCEPT ![d] =
                                         [task[d] EXCEPT !.pc = "retry", !.at = now, !.after = after]]
      BY <2>3 DEF Lost
    <3>2. task'[d] = [task[d] EXCEPT !.pc = "retry", !.at = now, !.after = after]
      BY <3>1 DEF OthersOK
    <3>3. doubtful'[d] = doubtful[d] \cup task[d].batch
      BY <2>3 DEF Lost, OthersOK
    <3> QED BY <3>2, <3>3
  <2> QED BY <2>1, <2>2, <2>3 DEF Answer
<1>3. /\ task'[d].pc \in {"accepted", "rejected", "retry"}
      /\ task'[d].pc = "accepted" => task[d].taken
      /\ task'[d].pc = "retry" => task[d].batch \subseteq doubtful'[d]
      /\ doubtful[d] \subseteq doubtful'[d]
      /\ task'[d].todo = task[d].todo /\ task'[d].batch = task[d].batch
      /\ task'[d].taken = task[d].taken /\ task'[d].seen = task[d].seen
  BY <1>2 DEF OthersOK, Task
<1>4. Held(d)' = Held(d) /\ Pending(d)' = Pending(d)
  BY <1>1, <1>3 DEF Held, Pending
<1>5. Phases(d)' /\ WasQueued(d)' /\ SeenIsOld(d)' /\ Accounted(d)'
  BY <1>1, <1>3, <1>4 DEF Delivery, Phases, WasQueued, SeenIsOld, Accounted
<1> QED BY <1>5 DEF Delivery

\* A writer's record is in no batch, but for one that retention removed since.
LEMMA StoreDelivery ==
  ASSUME LedgerOK, OthersOK, NEW d \in Dests, Delivery(d), NEW r \in Ids, Store(r)
  PROVE  Delivery(d)'
<1>1. r \notin records /\ UNCHANGED <<now, policy, up, task, copies, doubtful, faults>>
  BY DEF Store, Commit
<1>2. \/ rows'[d] = rows[d] /\ queued'[d] = queued[d]
      \/ \E size : /\ rows'[d] = [rows[d] EXCEPT ![r] = NewRow("pending", size)]
                   /\ queued'[d] = queued[d] \cup {r}
      \/ \E size : /\ rows'[d] = [rows[d] EXCEPT ![r] = NewRow("capacity", size)]
                   /\ queued'[d] = queued[d]
  <2>1. PICK p \in Policies, size \in 1 .. MaxRecordBytes :
          LET selected == {e \in p.listed : r \in p.target[e].allows}
              room     == {e \in selected : HasRoom(queue[e], p.target[e], size)}
          IN /\ rows' = [e \in Dests |->
                  IF e \in selected
                  THEN [rows[e] EXCEPT ![r] =
                          NewRow(IF e \in room THEN "pending" ELSE "capacity", size)]
                  ELSE rows[e]]
             /\ queued' = [e \in Dests |-> IF e \in room THEN queued[e] \cup {r} ELSE queued[e]]
    BY DEF Store, Commit
  <2> DEFINE selected == {e \in p.listed : r \in p.target[e].allows}
             room     == {e \in selected : HasRoom(queue[e], p.target[e], size)}
  <2>2. /\ rows'[d] = IF d \in selected
                      THEN [rows[d] EXCEPT ![r] =
                              NewRow(IF d \in room THEN "pending" ELSE "capacity", size)]
                      ELSE rows[d]
        /\ queued'[d] = IF d \in room THEN queued[d] \cup {r} ELSE queued[d]
        /\ room \subseteq selected
    BY <2>1
  <2> HIDE DEF selected, room
  <2> QED BY <2>2
<1>3. rows[d][r].status = "none"
  BY <1>1 DEF LedgerOK, RowsHaveRecords
<1>4. /\ \A q \in Ids \ {r} : rows'[d][q] = rows[d][q]
      /\ \/ rows'[d][r] = rows[d][r] /\ queued[d] \subseteq queued'[d]
         \/ /\ rows'[d][r].created = now /\ rows'[d][r].attempts = 0
            /\ rows'[d][r].status \in {"pending", "capacity"}
            /\ rows'[d][r].status = "pending" => r \in queued'[d]
            /\ queued[d] \subseteq queued'[d]
  <2>1. CASE rows'[d] = rows[d] /\ queued'[d] = queued[d]
    BY <2>1
  <2>2. ASSUME NEW size, NEW status, rows'[d] = [rows[d] EXCEPT ![r] = NewRow(status, size)]
        PROVE  /\ \A q \in Ids \ {r} : rows'[d][q] = rows[d][q]
               /\ rows'[d][r].created = now /\ rows'[d][r].attempts = 0
               /\ rows'[d][r].status = status
    <3>1. rows[d] \in [Ids -> Row]
      BY DEF LedgerOK
    <3>2. rows'[d][r] = NewRow(status, size) /\ \A q \in Ids \ {r} : rows'[d][q] = rows[d][q]
      BY <2>2, <3>1
    <3> QED BY <3>2 DEF NewRow
  <2>3. CASE \E size : /\ rows'[d] = [rows[d] EXCEPT ![r] = NewRow("pending", size)]
                       /\ queued'[d] = queued[d] \cup {r}
    <3>1. PICK size : rows'[d] = [rows[d] EXCEPT ![r] = NewRow("pending", size)]
      BY <2>3
    <3> QED BY <2>2, <2>3, <3>1
  <2>4. CASE \E size : /\ rows'[d] = [rows[d] EXCEPT ![r] = NewRow("capacity", size)]
                       /\ queued'[d] = queued[d]
    <3>1. PICK size : rows'[d] = [rows[d] EXCEPT ![r] = NewRow("capacity", size)]
      BY <2>4
    <3>2. rows'[d][r].status # "pending"
      BY <2>2, <3>1
    <3> QED BY <2>2, <2>4, <3>1, <3>2
  <2> QED BY <1>2, <2>1, <2>3, <2>4
<1>5. Held(d)' = Held(d) /\ Pending(d)' \subseteq Pending(d) \cup {r}
  BY <1>1, <1>4 DEF Held, Pending
<1>6. Phases(d)'
  BY <1>1, <1>5 DEF Delivery, Phases
<1>7. WasQueued(d)'
  BY <1>3, <1>4, <1>5 DEF Delivery, WasQueued, Pending
<1>8. SeenIsOld(d)'
  <2>1. task[d].seen[r].attempts \in Nat /\ now \in Nat
    BY DEF OthersOK, Task, Seen
  <2> QED BY <1>1, <1>3, <1>4, <1>5, <2>1 DEF Delivery, SeenIsOld
<1>9. Accounted(d)'
  BY <1>1, <1>3, <1>4, <1>5 DEF Delivery, Accounted
<1> QED BY <1>6, <1>7, <1>8, <1>9 DEF Delivery

\* Retention forgets the rows of the records it removes, held ones among them.
LEMMA PruneDelivery ==
  ASSUME LedgerOK, OthersOK, NEW d \in Dests, Delivery(d), NEW S \in SUBSET Ids, Prune(S)
  PROVE  Delivery(d)'
<1>1. /\ UNCHANGED <<now, policy, up, task, queued, copies, faults>>
      /\ \A r \in Ids : rows'[d][r] = IF r \in S THEN NoRow ELSE rows[d][r]
      /\ doubtful'[d] = doubtful[d] \cup S
  BY DEF Prune
<1>2. NoRow.status = "none" /\ NoRow.created = 0
  BY DEF NoRow
<1>3. Held(d)' = Held(d) /\ Pending(d)' \subseteq Pending(d)
  BY <1>1, <1>2 DEF Held, Pending
<1>4. Phases(d)' /\ WasQueued(d)'
  BY <1>1, <1>3 DEF Delivery, Phases, WasQueued
<1>5. SeenIsOld(d)'
  BY <1>1, <1>2, <1>3 DEF Delivery, SeenIsOld, OthersOK
<1>6. Accounted(d)'
  BY <1>1, <1>3 DEF Delivery, Accounted
<1> QED BY <1>4, <1>5, <1>6 DEF Delivery

\* Every step preserves what the tasks hold against rows and collectors.
LEMMA DeliveryNext ==
  ASSUME LedgerOK, OthersOK, OthersOK', NEW d \in Dests, Delivery(d), [Next]_vars
  PROVE  Delivery(d)'
<1> DEFINE Untouched == /\ task'[d] = task[d] /\ rows'[d] = rows[d] /\ copies'[d] = copies[d]
                        /\ queued'[d] = queued[d] /\ doubtful[d] \subseteq doubtful'[d]
<1>1. ASSUME Untouched, now <= now' PROVE Delivery(d)'
  BY <1>1, DeliveryFrame DEF LedgerOK, OthersOK
<1>2. now \in Nat
  BY DEF OthersOK
<1>3. ASSUME NEW e \in Dests, Deliver(e), e # d PROVE Delivery(d)'
  <2>1. UNCHANGED <<now, queued, copies, doubtful>>
    BY <1>3 DEF Deliver, Load, BeginScreen, Recheck, Screen, Record, history
  <2>2. \E t : task' = [task EXCEPT ![e] = t]
    BY <1>3 DEF Deliver, Load, BeginScreen, Recheck, Screen, Record
  <2>3. rows'[d] = rows[d]
    BY <1>3 DEF Deliver, Load, BeginScreen, Recheck, Screen, Record, CancelDestination, Finish,
      ledger, LedgerOK
  <2> QED BY <1>1, <1>2, <1>3, <2>1, <2>2, <2>3 DEF OthersOK
<1>4. ASSUME NEW e \in Dests, Collect(e) \/ Answer(e) \/ Abort(e), e # d PROVE Delivery(d)'
  <2>1. UNCHANGED <<now, rows, queued>>
    BY <1>4 DEF Collect, Answer, Accepted, Rejected, Lost, Abort, ledger, history
  <2>2. \E t : task' = [task EXCEPT ![e] = t]
    BY <1>4 DEF Collect, Answer, Accepted, Rejected, Lost, Abort
  <2>3. copies'[d] = copies[d]
    BY <1>4 DEF Collect, Answer, Accepted, Rejected, Lost, Abort, history, OthersOK
  <2>4. doubtful[d] \subseteq doubtful'[d]
    BY <1>4 DEF Collect, Answer, Accepted, Rejected, Lost, Abort, history, OthersOK
  <2> QED BY <1>1, <1>2, <1>4, <2>1, <2>2, <2>3, <2>4 DEF OthersOK
<1>5. CASE Deliver(d)
  BY <1>5, LoadDelivery, BeginScreenDelivery, RecheckDelivery, ScreenDelivery, RecordDelivery
    DEF Deliver
<1>6. CASE Collect(d) \/ Answer(d)
  BY <1>6, CollectDelivery, AnswerDelivery
<1>7. CASE Abort(d)
  <2>1. task'[d] = Idle /\ doubtful'[d] = doubtful[d] \cup Unsettled(d)
    BY <1>7 DEF Abort, OthersOK
  <2>2. UNCHANGED <<now, rows, queued, copies>>
    BY <1>7 DEF Abort, ledger
  <2> QED BY <2>1, <2>2, IdleDelivery
<1>8. CASE Stop
  <2>1. task'[d] = Idle /\ doubtful'[d] = doubtful[d] \cup Unsettled(d)
    BY <1>8 DEF Stop
  <2>2. UNCHANGED <<now, rows, queued, copies>>
    BY <1>8 DEF Stop, ledger
  <2> QED BY <2>1, <2>2, IdleDelivery
<1>9. CASE Tick
  <2>1. UNCHANGED <<now, rows, queued, copies, doubtful>>
    BY <1>9 DEF Tick, ledger, history
  <2>2. CASE task'[d] = task[d]
    BY <1>1, <1>2, <2>1, <2>2
  <2>3. CASE task'[d] # task[d]
    <3>1. task[d].pc = "idle" /\ task'[d] = [Idle EXCEPT !.pc = "started"]
      BY <1>9, <2>3 DEF Tick, Active
    <3>2. /\ task'[d].pc = "started" /\ task'[d].todo = {} /\ task'[d].batch = {}
          /\ ~task'[d].taken /\ Held(d) = {} /\ ~task[d].taken
      BY <3>1 DEF Idle, Delivery, Phases
    <3>3. Held(d)' = {} /\ Pending(d)' = Pending(d)
      BY <2>1, <3>2 DEF Held, Pending
    <3>4. Phases(d)' /\ WasQueued(d)' /\ SeenIsOld(d)' /\ Accounted(d)'
      BY <2>1, <3>2, <3>3 DEF Delivery, Phases, WasQueued, SeenIsOld, Accounted
    <3> QED BY <3>4 DEF Delivery
  <2> QED BY <2>2, <2>3
<1>10. CASE Start \/ Configure \/ Advance \/ UNCHANGED vars
  BY <1>1, <1>2, <1>10 DEF Start, Configure, Advance, vars, ledger, history
<1> HIDE DEF Untouched
<1>11. ASSUME NEW e \in Dests, Deliver(e) \/ Collect(e) \/ Answer(e) \/ Abort(e)
       PROVE  Delivery(d)'
  <2>1. CASE e = d
    BY <1>5, <1>6, <1>7, <1>11, <2>1
  <2>2. CASE e # d
    BY <1>3, <1>4, <1>11, <2>2
  <2> QED BY <2>1, <2>2
<1>12. ASSUME NEW r \in Ids, Store(r) PROVE Delivery(d)'
  BY <1>12, StoreDelivery
<1>13. ASSUME NEW S \in SUBSET Ids, Prune(S) PROVE Delivery(d)'
  BY <1>13, PruneDelivery
<1> QED BY <1>8, <1>9, <1>10, <1>11, <1>12, <1>13 DEF Next

\* Initially no task holds anything and no collector took anything.
LEMMA DeliveryInit == Init => DeliveryInv
<1> SUFFICES ASSUME Init, NEW d \in Dests PROVE Delivery(d)
  BY DEF DeliveryInv
<1>1. /\ task[d].pc = "idle" /\ task[d].todo = {} /\ task[d].batch = {} /\ ~task[d].taken
      /\ now = 0 /\ queued[d] = {} /\ doubtful[d] = {}
      /\ \A r \in Ids : copies[d][r] = 0
      /\ \A r \in Ids : rows[d][r].status = "none" /\ rows[d][r].created = 0
  BY DEF Init, Idle, NoRow
<1>2. Held(d) = {} /\ Pending(d) = {}
  BY <1>1 DEF Held, Pending
<1> QED BY <1>1, <1>2 DEF Delivery, Phases, WasQueued, SeenIsOld, Accounted

\* What tasks hold, rows and collectors agree in every reachable state.
THEOREM DeliveryInvariant == Spec => []DeliveryInv
<1>1. IInv /\ IInv' /\ DeliveryInv /\ [Next]_vars => DeliveryInv'
  <2> SUFFICES ASSUME IInv, IInv', DeliveryInv, [Next]_vars PROVE DeliveryInv'
    OBVIOUS
  <2>1. LedgerOK /\ OthersOK /\ OthersOK'
    <3>1. IInv' => OthersOK'
      BY IInvParts, PTL
    <3> QED BY <3>1, IInvParts
  <2> QED BY <2>1, DeliveryNext DEF DeliveryInv
<1> QED BY <1>1, DeliveryInit, Invariant, PTL DEF Spec

\* A collector takes a record twice only after a lost verdict on it, or after
\* retention forgot it.
THEOREM DuplicatesExplained == Spec => []DuplicateOnlyAfterDoubt
<1>1. IInv /\ DeliveryInv => DuplicateOnlyAfterDoubt
  <2> SUFFICES ASSUME IInv, DeliveryInv, NEW d \in Dests, NEW r \in Ids, copies[d][r] = 2
               PROVE  r \in doubtful[d]
    BY DEF DuplicateOnlyAfterDoubt
  <2>1. Accounted(d)
    BY DEF DeliveryInv, Delivery
  <2>2. r \notin doubtful[d] => copies[d][r] <= 1
    BY <2>1 DEF Accounted
  <2> QED BY <2>2
<1> QED BY <1>1, Invariant, DeliveryInvariant, PTL

\* Only the second reading of the configuration starts a request.
LEMMA RecheckSends ==
  ASSUME OthersOK, NEW d \in Dests, [Next]_vars, task[d].pc # "sending", task'[d].pc = "sending"
  PROVE  Recheck(d) /\ task'[d].batch = task[d].batch
<1>1. task'[d] # task[d] /\ task'[d] # Idle
  BY DEF Idle
<1>2. ~Tick /\ ~Stop /\ ~UNCHANGED task
  <2>1. Tick => task'[d] = task[d] \/ task'[d].pc = "started"
    BY DEF Tick, Idle
  <2>2. Stop => task'[d] = Idle
    BY DEF Stop
  <2> QED BY <1>1, <2>1, <2>2
<1>3. PICK e \in Dests : Deliver(e) \/ Collect(e) \/ Answer(e) \/ Abort(e)
  BY <1>2 DEF Next, vars, Store, Commit, Prune, Start, Configure, Advance
<1>4. e = d
  <2>1. \E t : task' = [task EXCEPT ![e] = t]
    BY <1>3 DEF Deliver, Load, BeginScreen, Recheck, Screen, Record, Collect, Answer,
      Accepted, Rejected, Lost, Abort
  <2> QED BY <1>1, <2>1 DEF OthersOK
<1>5. task[d] \in Task
  BY DEF OthersOK
<1>6. ASSUME NEW t, task' = [task EXCEPT ![d] = t] PROVE task'[d] = t
  BY <1>6 DEF OthersOK
<1>7. ~Collect(d) /\ ~Answer(d)
  BY DEF Collect, Answer, Accepted, Rejected, Lost
<1>8. ~Abort(d)
  BY <1>1, <1>6 DEF Abort
<1>9. ~Load(d)
  <2> SUFFICES ASSUME Load(d) PROVE FALSE
    OBVIOUS
  <2>1. task'[d] = Idle \/ task'[d].pc = "loaded"
    BY <1>6, IdleOK DEF Load, Task
  <2> QED BY <1>1, <2>1
<1>10. ~BeginScreen(d)
  <2>1. BeginScreen(d) =>
          \/ task' = [task EXCEPT ![d] = Idle]
          \/ task' = [task EXCEPT ![d] = [task[d] EXCEPT !.pc = "screening", !.policy = policy]]
    BY DEF BeginScreen
  <2>2. [task[d] EXCEPT !.pc = "screening", !.policy = policy].pc = "screening"
    BY <1>5 DEF Task
  <2> QED BY <1>1, <1>6, <2>1, <2>2
<1>11. ASSUME NEW r \in Ids PROVE ~Screen(d, r) /\ ~Record(d, r)
  <2>1. Screen(d, r) \/ Record(d, r) => task'[d] = Idle \/ task'[d].pc = task[d].pc
    BY <1>5, <1>6 DEF Screen, Record, Task
  <2> QED BY <1>1, <2>1
<1>12. Recheck(d)
  BY <1>3, <1>4, <1>7, <1>8, <1>9, <1>10, <1>11 DEF Deliver
<1>13. task'[d].batch = task[d].batch
  <2>1. \/ task' = [task EXCEPT ![d] = Idle]
        \/ task' = [task EXCEPT ![d] =
             [task[d] EXCEPT !.pc = "sending", !.at = 0, !.policy = policy]]
    BY <1>12 DEF Recheck
  <2> QED BY <1>1, <1>5, <1>6, <2>1 DEF Task
<1> QED BY <1>12, <1>13

\* A request starts only with records that the configuration in force admits and
\* would still deliver, by the row as it is and not only as it was read.
THEOREM SendsOnlyUnblocked == Spec => NothingBlockedIsSent
<1>1. IInv /\ DeliveryInv /\ [Next]_vars =>
        \A d \in Dests :
          task[d].pc # "sending" /\ task'[d].pc = "sending" =>
            /\ policy # Unreadable
            /\ d \in policy.listed
            /\ \A r \in task'[d].batch :
                 /\ r \in policy.readable \cap policy.target[d].allows
                 /\ rows[d][r].status = "pending" =>
                      /\ now - rows[d][r].created < policy.target[d].queueAge
                      /\ rows[d][r].attempts < policy.target[d].retryAttempts
  <2> SUFFICES ASSUME IInv, DeliveryInv, [Next]_vars,
                      NEW d \in Dests, task[d].pc # "sending", task'[d].pc = "sending"
               PROVE  /\ policy # Unreadable
                      /\ d \in policy.listed
                      /\ \A r \in task'[d].batch :
                           /\ r \in policy.readable \cap policy.target[d].allows
                           /\ rows[d][r].status = "pending" =>
                                /\ now - rows[d][r].created < policy.target[d].queueAge
                                /\ rows[d][r].attempts < policy.target[d].retryAttempts
    OBVIOUS
  <2>1. LedgerOK /\ OthersOK
    BY IInvParts
  <2>2. Recheck(d) /\ task'[d].batch = task[d].batch
    BY <2>1, RecheckSends
  <2>3. Sendable(d, policy)
    <3>1. ~Sendable(d, policy) => task' = [task EXCEPT ![d] = Idle]
      BY <2>2 DEF Recheck
    <3>2. task' = [task EXCEPT ![d] = Idle] => task'[d].pc = "idle"
      BY <2>1 DEF OthersOK, Idle
    <3> QED BY <3>1, <3>2
  <2>4. policy # Unreadable /\ d \in policy.listed /\ policy \in Policy
    BY <2>1, <2>3, OutboxAssumption DEF Sendable, OthersOK
  <2>5. policy.target[d].queueAge \in Nat /\ policy.target[d].retryAttempts \in Nat
    BY <2>4 DEF Policy, Target
  <2>6. ASSUME NEW r \in task[d].batch
        PROVE  /\ r \in policy.readable \cap policy.target[d].allows
               /\ rows[d][r].status = "pending" =>
                    /\ now - rows[d][r].created < policy.target[d].queueAge
                    /\ rows[d][r].attempts < policy.target[d].retryAttempts
    <3>1. Verdict(policy, d, r, task[d].seen[r], now) = "pending"
      BY <2>3 DEF Sendable
    <3>2. /\ r \in policy.readable \cap policy.target[d].allows
          /\ ~(now - task[d].seen[r].created >= policy.target[d].queueAge)
          /\ ~(task[d].seen[r].attempts >= policy.target[d].retryAttempts)
      BY <3>1 DEF Verdict
    <3>3. r \in Ids /\ r \in Held(d)
      BY <2>1 DEF OthersOK, Task, Held
    <3>4. rows[d][r].status = "pending" =>
            /\ task[d].seen[r].created <= rows[d][r].created
            /\ rows[d][r].attempts <= task[d].seen[r].attempts
      BY <3>3 DEF DeliveryInv, Delivery, SeenIsOld
    <3>5. /\ rows[d][r].created \in Nat /\ rows[d][r].attempts \in Nat /\ now \in Nat
          /\ task[d].seen[r].created \in Nat /\ task[d].seen[r].attempts \in Nat
      BY <2>1, <3>3 DEF LedgerOK, OthersOK, Row, Task, Seen
    <3> QED BY <2>5, <3>2, <3>4, <3>5
  <2> QED BY <2>2, <2>4, <2>6
<1> QED BY <1>1, Invariant, DeliveryInvariant, PTL DEF Spec, NothingBlockedIsSent

-----------------------------------------------------------------------------
(* The outbox implements the delivery promise.                             *)

\* What the promise sees of the outbox.
State == [d \in Dests |-> [r \in Ids |-> rows[d][r].status]]
Sizes == [d \in Dests |-> [r \in Ids |-> rows[d][r].size]]
Taken == [d \in Dests |-> {r \in Ids : copies[d][r] > 0}]

\* The promise counts as the outbox does.
LEMMA PromiseCardinality == \A S : Promise!Cardinality(S) = Cardinality(S)
BY DEF Promise!Cardinality, Cardinality

\* What the promise says waits is what is pending.
LEMMA PromiseWaiting ==
  ASSUME NEW d \in Dests
  PROVE  Promise!Waiting(d) = Pending(d) /\ Promise!WaitingBytes(d) = PendingBytes(d)
<1>1. Promise!Waiting(d) = Pending(d)
  BY DEF Promise!Waiting, Pending
<1>2. Pending(d) \subseteq Ids
  BY DEF Pending
<1> QED BY <1>1, <1>2 DEF Promise!WaitingBytes, PendingBytes

\* A step that changes nothing the promise sees is a stutter of it.
LEMMA PromiseStutter ==
  ASSUME UNCHANGED <<records, queued>>, State' = State, Sizes' = Sizes, Taken' = Taken
  PROVE  UNCHANGED Promise!vars
BY DEF Promise!vars, State, Sizes, Taken

\* The empty outbox is the empty promise.
LEMMA PromiseInit == Init => Promise!Init
BY DEF Init, Promise!Init, NoRow

\* Storing a record admits it by what really waits.
LEMMA PromiseStore ==
  ASSUME LedgerOK, NEW r \in Ids, Store(r)
  PROVE  Promise!Accept(r)
<1>1. PICK p \in Policies, size \in 1 .. MaxRecordBytes :
        LET selected == {d \in p.listed : r \in p.target[d].allows}
            room     == {d \in selected : HasRoom(queue[d], p.target[d], size)}
        IN /\ records' = records \cup {r}
           /\ rows' = [d \in Dests |->
                IF d \in selected
                THEN [rows[d] EXCEPT ![r] =
                        NewRow(IF d \in room THEN "pending" ELSE "capacity", size)]
                ELSE rows[d]]
           /\ queued' = [d \in Dests |-> IF d \in room THEN queued[d] \cup {r} ELSE queued[d]]
  BY DEF Store, Commit
<1> DEFINE selected == {d \in p.listed : r \in p.target[d].allows}
           room     == {d \in selected : HasRoom(queue[d], p.target[d], size)}
           Status(d) == IF d \in room THEN "pending" ELSE "capacity"
<1>2. p \in Policy
  BY OutboxAssumption
<1>3. selected \in SUBSET Dests /\ room \in SUBSET selected
  BY <1>2 DEF Policy
<1>4. ASSUME NEW d \in selected
      PROVE  \E limit \in {q.target[d].queueBytes : q \in {q \in Policies : d \in q.listed}} :
               d \in room <=> Promise!Fits(d, size, limit)
  <2>1. d \in Dests /\ Counted(d)
    BY <1>3 DEF LedgerOK
  <2>2. d \in room <=> HasRoom(queue[d], p.target[d], size)
    OBVIOUS
  <2>3. HasRoom(queue[d], p.target[d], size) <=> Promise!Fits(d, size, p.target[d].queueBytes)
    BY <2>1, PromiseWaiting, PromiseCardinality DEF HasRoom, Promise!Fits, Counted
  <2> QED BY <2>2, <2>3
<1>5. /\ records' = records \cup {r} /\ r \notin records
      /\ queued' = [d \in Dests |-> IF d \in room THEN queued[d] \cup {r} ELSE queued[d]]
      /\ \A d \in Dests : rows'[d] =
           IF d \in selected THEN [rows[d] EXCEPT ![r] = NewRow(Status(d), size)] ELSE rows[d]
      /\ UNCHANGED copies
  BY <1>1 DEF Store, Commit
<1> HIDE DEF selected, room
<1>6. \A d \in Dests, q \in Ids :
        /\ rows'[d][q].status = IF d \in selected /\ q = r THEN Status(d) ELSE rows[d][q].status
        /\ rows'[d][q].size = IF d \in selected /\ q = r THEN size ELSE rows[d][q].size
  <2> SUFFICES ASSUME NEW d \in Dests, NEW q \in Ids
               PROVE  /\ rows'[d][q].status =
                           IF d \in selected /\ q = r THEN Status(d) ELSE rows[d][q].status
                      /\ rows'[d][q].size = IF d \in selected /\ q = r THEN size ELSE rows[d][q].size
    OBVIOUS
  <2>1. rows[d] \in [Ids -> Row]
    BY DEF LedgerOK
  <2>2. rows'[d][q] = IF d \in selected /\ q = r THEN NewRow(Status(d), size) ELSE rows[d][q]
    BY <1>5, <2>1
  <2>3. NewRow(Status(d), size).status = Status(d) /\ NewRow(Status(d), size).size = size
    BY DEF NewRow
  <2> QED BY <2>2, <2>3
<1>7. State' = [d \in Dests |-> IF d \in selected THEN [State[d] EXCEPT ![r] = Status(d)] ELSE State[d]]
  BY <1>6 DEF State
<1>8. Sizes' = [d \in Dests |-> IF d \in selected THEN [Sizes[d] EXCEPT ![r] = size] ELSE Sizes[d]]
  BY <1>6 DEF Sizes
<1>9. Taken' = Taken
  BY <1>5 DEF Taken
<1>10. \A d \in selected :
         \E limit \in [e \in Dests |-> {q.target[e].queueBytes : q \in {q \in Policies : e \in q.listed}}][d] :
           d \in room <=> Promise!Fits(d, size, limit)
  BY <1>3, <1>4
<1>11. \E sel \in SUBSET Dests, bytes \in 1 .. MaxRecordBytes :
       \E fit \in SUBSET sel :
         /\ \A d \in sel :
              \E limit \in [e \in Dests |-> {q.target[e].queueBytes : q \in {q \in Policies : e \in q.listed}}][d] :
                d \in fit <=> Promise!Fits(d, bytes, limit)
         /\ State' = [d \in Dests |->
              IF d \in sel
              THEN [State[d] EXCEPT ![r] = IF d \in fit THEN "pending" ELSE "capacity"]
              ELSE State[d]]
         /\ Sizes' = [d \in Dests |-> IF d \in sel THEN [Sizes[d] EXCEPT ![r] = bytes] ELSE Sizes[d]]
         /\ queued' = [d \in Dests |-> IF d \in fit THEN queued[d] \cup {r} ELSE queued[d]]
  <2> selected \in SUBSET Dests /\ room \in SUBSET selected
    BY <1>3
  <2> WITNESS selected \in SUBSET Dests, size \in 1 .. MaxRecordBytes
  <2> WITNESS room \in SUBSET selected
  <2> QED BY <1>5, <1>7, <1>8, <1>10
<1> QED BY <1>5, <1>9, <1>11 DEF Promise!Accept, State, Sizes, Taken

\* Retention forgets a record and all its deliveries.
LEMMA PromisePrune ==
  ASSUME LedgerOK, NEW S \in SUBSET Ids, Prune(S)
  PROVE  Promise!Forget(S)
<1>1. /\ S \subseteq records /\ records' = records \ S
      /\ rows' = [d \in Dests |-> [r \in Ids |-> IF r \in S THEN NoRow ELSE rows[d][r]]]
      /\ UNCHANGED <<queued, copies>>
  BY DEF Prune
<1>2. NoRow.status = "none" /\ NoRow.size = 0
  BY DEF NoRow
<1>3. State' = [d \in Dests |-> [r \in Ids |-> IF r \in S THEN "none" ELSE State[d][r]]]
  BY <1>1, <1>2 DEF State
<1>4. Sizes' = [d \in Dests |-> [r \in Ids |-> IF r \in S THEN 0 ELSE Sizes[d][r]]]
  BY <1>1, <1>2 DEF Sizes
<1>5. Taken' = Taken
  BY <1>1 DEF Taken
<1> QED BY <1>1, <1>3, <1>4, <1>5 DEF Promise!Forget, State, Sizes, Taken

\* The collector takes only what was queued.
LEMMA PromiseCollect ==
  ASSUME OthersOK, NEW d \in Dests, Delivery(d), Collect(d)
  PROVE  \E S \in SUBSET Ids : Promise!Take(d, S)
<1>1. /\ copies' = [copies EXCEPT ![d] = [r \in Ids |->
           IF r \in task[d].batch THEN Min2(2, copies[d][r] + 1) ELSE copies[d][r]]]
      /\ UNCHANGED <<records, rows, queued>>
  BY DEF Collect, ledger
<1>2. task[d].batch \subseteq queued[d] /\ task[d].batch \subseteq Ids
  BY DEF Delivery, WasQueued, Held, OthersOK, Task
<1>3. \A r \in Ids : copies'[d][r] > 0 <=> copies[d][r] > 0 \/ r \in task[d].batch
  BY <1>1 DEF OthersOK, Min2
<1>4. \A e \in Dests \ {d} : copies'[e] = copies[e]
  BY <1>1 DEF OthersOK
<1>5. Taken' = [Taken EXCEPT ![d] = Taken[d] \cup task[d].batch]
  <2>1. \A e \in Dests : Taken'[e] = IF e = d THEN Taken[d] \cup task[d].batch ELSE Taken[e]
    BY <1>2, <1>3, <1>4 DEF Taken
  <2> QED BY <2>1 DEF Taken
<1>6. State' = State /\ Sizes' = Sizes
  BY <1>1 DEF State, Sizes
<1>7. PICK S : S = task[d].batch
  OBVIOUS
<1>8. Promise!Take(d, S)
  BY <1>1, <1>2, <1>5, <1>6, <1>7 DEF Promise!Take, State, Sizes, Taken
<1> QED BY <1>2, <1>7, <1>8

\* An outcome settles a waiting record, or leaves it waiting.
LEMMA PromiseFinish ==
  ASSUME LedgerOK, NEW d \in Dests, NEW r \in Ids, NEW status, NEW next, NEW attempted,
         Finish(d, r, status, next, attempted), UNCHANGED <<records, queued, copies>>
  PROVE  /\ status = "pending" => UNCHANGED Promise!vars
         /\ status \in Promise!Outcomes /\ (status = "delivered" => copies[d][r] > 0) =>
              \E S \in SUBSET Ids : Promise!Settle(d, S, status)
<1>1. /\ \A e \in Dests \ {d} : rows'[e] = rows[e]
      /\ \A q \in Ids : /\ rows'[d][q].size = rows[d][q].size
                        /\ q \notin Settled(d, r) => rows'[d][q] = rows[d][q]
                        /\ q \in Settled(d, r) => rows'[d][q].status = status
  BY FinishRows DEF LedgerOK, Settled, Pending
<1>2. Sizes' = Sizes /\ Taken' = Taken
  BY <1>1 DEF Sizes, Taken
<1>3. State' = [State EXCEPT ![d] =
                  [q \in Ids |-> IF q \in Settled(d, r) THEN status ELSE State[d][q]]]
  <2>1. \A e \in Dests \ {d} : State'[e] = State[e]
    BY <1>1 DEF State
  <2>2. State'[d] = [q \in Ids |-> IF q \in Settled(d, r) THEN status ELSE State[d][q]]
    BY <1>1 DEF State
  <2> QED BY <2>1, <2>2 DEF State
<1>4. ASSUME status = "pending" PROVE UNCHANGED Promise!vars
  <2>1. \A q \in Ids : q \in Settled(d, r) => State[d][q] = "pending"
    BY DEF State, Settled, Pending
  <2>2. [q \in Ids |-> IF q \in Settled(d, r) THEN status ELSE State[d][q]] = State[d]
    BY <1>4, <2>1 DEF State
  <2>3. State = [State EXCEPT ![d] = State[d]]
    BY DEF State
  <2>4. State' = State
    BY <1>3, <2>2, <2>3, Zenon
  <2> QED BY <1>2, <2>4, PromiseStutter
<1>5. ASSUME status \in Promise!Outcomes, status = "delivered" => copies[d][r] > 0
      PROVE  \E S \in SUBSET Ids : Promise!Settle(d, S, status)
  <2>1. Settled(d, r) \subseteq Promise!Waiting(d)
    BY PromiseWaiting DEF Settled
  <2>2. status = "delivered" => Settled(d, r) \subseteq Taken[d]
    BY <1>5 DEF Taken, Settled
  <2>3. PICK S : S = Settled(d, r)
    OBVIOUS
  <2>4. Promise!Settle(d, S, status)
    BY <1>2, <1>3, <2>1, <2>2, <2>3 DEF Promise!Settle, State, Sizes, Taken
  <2>5. S \in SUBSET Ids
    BY <2>3 DEF Settled
  <2> QED BY <2>4, <2>5
<1> QED BY <1>4, <1>5

\* A step of a delivery task settles waiting records, or nothing the promise sees.
LEMMA PromiseDeliver ==
  ASSUME LedgerOK, OthersOK, NEW d \in Dests, Delivery(d), Deliver(d)
  PROVE  [Promise!Next]_Promise!vars
<1>1. UNCHANGED <<records, queued, copies>>
  BY DEF Deliver, Load, BeginScreen, Recheck, Screen, Record, ledger, history
<1>2. ASSUME NEW S \in SUBSET Ids, NEW outcome \in Promise!Outcomes, Promise!Settle(d, S, outcome)
      PROVE  Promise!Next
  BY <1>2 DEF Promise!Next
<1>3. CASE UNCHANGED rows
  <2>1. State' = State /\ Sizes' = Sizes /\ Taken' = Taken
    BY <1>1, <1>3 DEF State, Sizes, Taken
  <2> QED BY <1>1, <2>1, PromiseStutter
<1>4. CASE CancelDestination(d)
  <2>1. rows' = [rows EXCEPT ![d] = [r \in Ids |->
          IF r \in Pending(d) THEN [rows[d][r] EXCEPT !.status = "cancelled"] ELSE rows[d][r]]]
    BY <1>4 DEF CancelDestination
  <2>2. /\ \A e \in Dests \ {d} : rows'[e] = rows[e]
        /\ \A r \in Ids :
             /\ rows'[d][r].status = IF r \in Pending(d) THEN "cancelled" ELSE rows[d][r].status
             /\ rows'[d][r].size = rows[d][r].size
    BY <2>1 DEF LedgerOK, Row
  <2>3. Sizes' = Sizes /\ Taken' = Taken
    BY <1>1, <2>2 DEF Sizes, Taken
  <2>4. State' = [State EXCEPT ![d] =
                    [r \in Ids |-> IF r \in Pending(d) THEN "cancelled" ELSE State[d][r]]]
    <3>1. \A e \in Dests \ {d} : State'[e] = State[e]
      BY <2>2 DEF State
    <3>2. State'[d] = [r \in Ids |-> IF r \in Pending(d) THEN "cancelled" ELSE State[d][r]]
      BY <2>2 DEF State
    <3> QED BY <3>1, <3>2 DEF State
  <2>5. PICK S : S = Pending(d)
    OBVIOUS
  <2>6. Promise!Settle(d, S, "cancelled")
    BY <1>1, <2>3, <2>4, <2>5, PromiseWaiting DEF Promise!Settle, State, Sizes, Taken
  <2>7. S \in SUBSET Ids /\ "cancelled" \in Promise!Outcomes
    BY <2>5 DEF Pending, Promise!Outcomes
  <2> QED BY <1>2, <2>6, <2>7
<1>5. ASSUME NEW r \in Ids, NEW status, NEW next, NEW attempted,
             Finish(d, r, status, next, attempted),
             status \in Promise!Outcomes \cup {"pending"}, status = "delivered" => copies[d][r] > 0
      PROVE  [Promise!Next]_Promise!vars
  <2>1. CASE status = "pending"
    BY <1>1, <1>5, <2>1, PromiseFinish
  <2>2. CASE status \in Promise!Outcomes
    <3>1. \E S \in SUBSET Ids : Promise!Settle(d, S, status)
      BY <1>1, <1>5, <2>2, PromiseFinish
    <3> QED BY <1>2, <2>2, <3>1
  <2> QED BY <1>5, <2>1, <2>2
<1>6. ASSUME NEW r \in Ids, Screen(d, r) PROVE [Promise!Next]_Promise!vars
  <2>1. \A p, seen, t : Verdict(p, d, r, seen, t) \in {"cancelled", "expired", "failed", "pending"}
    BY DEF Verdict
  <2>2. \/ UNCHANGED rows
        \/ \E verdict \in {"cancelled", "expired", "failed"} : Finish(d, r, verdict, task[d].at, 0)
    BY <1>6, <2>1 DEF Screen
  <2> QED BY <1>3, <1>5, <2>2 DEF Promise!Outcomes
<1>7. ASSUME NEW r \in Ids, Record(d, r) PROVE [Promise!Next]_Promise!vars
  <2>1. \E next : Finish(d, r, Outcome(d, r), next, 1)
    BY <1>7 DEF Record
  <2>2. Outcome(d, r) \in {"delivered", "failed", "pending"}
    BY DEF Outcome
  <2>3. Outcome(d, r) = "delivered" => task[d].pc = "accepted"
    BY DEF Outcome
  <2>4. task[d].pc = "accepted" => copies[d][r] > 0
    BY <1>7 DEF Record, Delivery, Phases
  <2> QED BY <1>5, <2>1, <2>2, <2>3, <2>4 DEF Promise!Outcomes
<1>8. CASE Load(d) \/ Recheck(d)
  BY <1>3, <1>8 DEF Load, Recheck, ledger
<1>9. CASE BeginScreen(d)
  BY <1>3, <1>4, <1>9 DEF BeginScreen
<1> QED BY <1>6, <1>7, <1>8, <1>9 DEF Deliver

\* The outbox implements the delivery promise: every step is one of the
\* promise's, or changes nothing the promise sees.
THEOREM PromiseKept == Spec => KeepsPromise
<1>1. IInv /\ DeliveryInv /\ [Next]_vars => [Promise!Next]_Promise!vars
  <2> SUFFICES ASSUME LedgerOK, OthersOK, DeliveryInv, [Next]_vars
               PROVE  [Promise!Next]_Promise!vars
    BY IInvParts
  <2>1. ASSUME UNCHANGED <<records, queued, rows, copies>> PROVE [Promise!Next]_Promise!vars
    <3>1. State' = State /\ Sizes' = Sizes /\ Taken' = Taken
      BY <2>1 DEF State, Sizes, Taken
    <3> QED BY <2>1, <3>1, PromiseStutter
  <2>2. ASSUME NEW r \in Ids, Store(r) PROVE Promise!Next
    BY <2>2, PromiseStore DEF Promise!Next
  <2>3. ASSUME NEW S \in SUBSET Ids, Prune(S) PROVE Promise!Next
    BY <2>3, PromisePrune DEF Promise!Next
  <2>4. ASSUME NEW d \in Dests, Deliver(d) PROVE [Promise!Next]_Promise!vars
    BY <2>4, PromiseDeliver DEF DeliveryInv
  <2>5. ASSUME NEW d \in Dests, Collect(d) PROVE Promise!Next
    <3>1. \E S \in SUBSET Ids : Promise!Take(d, S)
      BY <2>5, PromiseCollect DEF DeliveryInv
    <3> QED BY <3>1 DEF Promise!Next
  <2>6. ASSUME NEW d \in Dests, Answer(d) \/ Abort(d)
        PROVE  UNCHANGED <<records, queued, rows, copies>>
    BY <2>6 DEF Answer, Accepted, Rejected, Lost, Abort, ledger, history
  <2>7. ASSUME Tick \/ Stop \/ Start \/ Configure \/ Advance \/ UNCHANGED vars
        PROVE  UNCHANGED <<records, queued, rows, copies>>
    BY <2>7 DEF Tick, Stop, Start, Configure, Advance, vars, ledger, history
  <2> QED BY <2>1, <2>2, <2>3, <2>4, <2>5, <2>6, <2>7 DEF Next
<1> QED BY <1>1, PromiseInit, Invariant, DeliveryInvariant, PTL DEF Spec, KeepsPromise, Promise!Spec

=============================================================================
