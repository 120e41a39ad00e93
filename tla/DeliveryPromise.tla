--------------------------- MODULE DeliveryPromise ---------------------------
(***************************************************************************)
(* What the outbox promises, without tasks, counters, clocks or retries.   *)
(*                                                                         *)
(* A stored record is, for each destination, either not selected, waiting, *)
(* refused for lack of room, or settled with one final outcome.  Room is   *)
(* measured on the records that really wait.  The collector of a           *)
(* destination takes only records that were queued for it, any number of   *)
(* times; a record is settled as delivered only if it was taken.  A record *)
(* that retention removes leaves no state behind.                          *)
(***************************************************************************)
EXTENDS Integers, FiniteSets

CONSTANTS
  Ids, Dests,
  Limits,             \* the queue sizes each destination is ever given
  MaxRecordBytes, MaxPendingRecords

VARIABLES
  records,  \* stored ids
  state,    \* destination -> record -> where its delivery stands
  size,     \* destination -> record -> bytes
  queued,   \* destination -> records that ever waited for it
  taken     \* destination -> records its collector took

vars == <<records, state, size, queued, taken>>

Outcomes == {"delivered", "failed", "expired", "cancelled"}

Waiting(d) == {r \in Ids : state[d][r] = "pending"}

WaitingBytes(d) == {b \in Waiting(d) \X (1 .. MaxRecordBytes) : b[2] <= size[d][b[1]]}

Fits(d, bytes, limit) ==
  /\ Cardinality(Waiting(d)) < MaxPendingRecords
  /\ Cardinality(WaitingBytes(d)) + bytes <= limit

\* The record and all its deliveries appear together.
Accept(r) ==
  /\ r \notin records
  /\ records' = records \cup {r}
  /\ \E selected \in SUBSET Dests, bytes \in 1 .. MaxRecordBytes :
     \E room \in SUBSET selected :
       /\ \A d \in selected : \E limit \in Limits[d] : d \in room <=> Fits(d, bytes, limit)
       /\ state' = [d \in Dests |->
            IF d \in selected
            THEN [state[d] EXCEPT ![r] = IF d \in room THEN "pending" ELSE "capacity"]
            ELSE state[d]]
       /\ size' = [d \in Dests |->
            IF d \in selected THEN [size[d] EXCEPT ![r] = bytes] ELSE size[d]]
       /\ queued' = [d \in Dests |->
            IF d \in room THEN queued[d] \cup {r} ELSE queued[d]]
  /\ UNCHANGED taken

Take(d, S) ==
  /\ S \subseteq queued[d]
  /\ taken' = [taken EXCEPT ![d] = @ \cup S]
  /\ UNCHANGED <<records, state, size, queued>>

\* Some waiting records of a destination get their final outcome.
Settle(d, S, outcome) ==
  /\ S \subseteq Waiting(d)
  /\ outcome = "delivered" => S \subseteq taken[d]
  /\ state' = [state EXCEPT ![d] =
       [r \in Ids |-> IF r \in S THEN outcome ELSE state[d][r]]]
  /\ UNCHANGED <<records, size, queued, taken>>

Forget(S) ==
  /\ S \subseteq records
  /\ records' = records \ S
  /\ state' = [d \in Dests |-> [r \in Ids |-> IF r \in S THEN "none" ELSE state[d][r]]]
  /\ size' = [d \in Dests |-> [r \in Ids |-> IF r \in S THEN 0 ELSE size[d][r]]]
  /\ UNCHANGED <<queued, taken>>

Init ==
  /\ records = {}
  /\ state = [d \in Dests |-> [r \in Ids |-> "none"]]
  /\ size = [d \in Dests |-> [r \in Ids |-> 0]]
  /\ queued = [d \in Dests |-> {}]
  /\ taken = [d \in Dests |-> {}]

Next ==
  \/ \E r \in Ids : Accept(r)
  \/ \E S \in SUBSET Ids : Forget(S)
  \/ \E d \in Dests, S \in SUBSET Ids :
       Take(d, S) \/ \E outcome \in Outcomes : Settle(d, S, outcome)

Spec == Init /\ [][Next]_vars

=============================================================================
