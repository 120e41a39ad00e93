------------------------------ MODULE MCOutbox ------------------------------
(* Instances of Outbox for TLC: two records, one or two destinations.      *)
EXTENDS Outbox, TLC

CONSTANTS r1, r2

Dest(allows, bytes, age, tries) ==
  [allows |-> allows, queueBytes |-> bytes, queueAge |-> age, retryAttempts |-> tries]

\* One destination: both records admitted; only r1, with less room, time and
\* tries, by definitions that no longer read r2; withdrawn.
OneDest == {1}
OneDestPolicies ==
  { [readable |-> {r1, r2}, listed |-> {1}, target |-> <<Dest({r1, r2}, 3, 2, 2)>>],
    [readable |-> {r1}, listed |-> {1}, target |-> <<Dest({r1}, 2, 1, 1)>>],
    [readable |-> {r1, r2}, listed |-> {}, target |-> <<Dest({}, 0, 1, 1)>>] }

\* Two destinations for the liveness run: both, or only the first.
TwoDests == {1, 2}
TwoDestPolicies ==
  { [readable |-> {r1, r2}, listed |-> {1, 2},
     target |-> <<Dest({r1, r2}, 4, 2, 2), Dest({r1}, 4, 1, 2)>>],
    [readable |-> {r1, r2}, listed |-> {2},
     target |-> <<Dest({}, 0, 1, 1), Dest({r1}, 4, 1, 1)>>] }

\* The first record is older than the retention horizon as soon as the clock
\* moves; the second is not removed within the bound.
OccurredOnce == [r \in Ids |-> IF r = r1 THEN 0 ELSE 9]
=============================================================================
